--------------------------- MODULE PathNormalizer ----------------------------
(***************************************************************************)
(* Paths as tokens: PathNormalizer of crates/bellows-core/src/lib.rs, and  *)
(* the roots crates/bellows-cli/src/main.rs gives it for one compile.      *)
(*                                                                         *)
(* A text is a sequence of path components and of other pieces; the code   *)
(* replaces text, and would find a root that ends inside a component too.  *)
(***************************************************************************)
EXTENDS Integers, Sequences, SequencesExt, TLC

(* str::replace: every occurrence, from the left. *)
RECURSIVE Replace(_, _, _)
Replace(text, from, to) ==
  IF Len(text) < Len(from) THEN text
  ELSE IF IsPrefix(from, text)
       THEN to \o Replace(SubSeq(text, Len(from) + 1, Len(text)), from, to)
       ELSE <<Head(text)>> \o Replace(Tail(text), from, to)

(* In the order in which the roots were found. *)
RenderedAsFound(bases) == SelectSeq(bases, LAMBDA b : b[2] # <<>>)

(* PathNormalizer::new: the first token of a path is its own, and a longer   *)
(* path comes before those it extends.                                       *)
Rendered(bases) ==
  SortSeq(FoldLeft(LAMBDA seen, b : IF b[2] = <<>> \/ \E i \in DOMAIN seen : seen[i][2] = b[2]
                                    THEN seen ELSE Append(seen, b), <<>>, bases),
          LAMBDA a, b : Len(a[2]) > Len(b[2]))

Normalize(bases, text) ==
  FoldLeft(LAMBDA t, b : Replace(t, b[2], <<b[1]>>), text, Rendered(bases))

(* The one spelling of each token: the first of those rendered for it. *)
Localizations(bases) ==
  LET r == Rendered(bases) IN
  SelectSeq(r, LAMBDA b : \A i \in DOMAIN r : r[i][1] = b[1] => Len(r[i][2]) <= Len(b[2]))

Localize(bases, text) ==
  FoldLeft(LAMBDA t, b : Replace(t, <<b[1]>>, b[2]), text, Localizations(bases))

-----------------------------------------------------------------------------
(* root_bases: the workspace, the checkout around it, the profile's and the  *)
(* target directory of a compile.  <<>> stands for a root it does not have.  *)
RootBases(layout) ==
  <<<<"$WORKSPACE", layout.workspace>>,
    <<"$CHECKOUT", IF layout.checkout = layout.workspace THEN <<>> ELSE layout.checkout>>,
    <<"$PROFILE", layout.profile>>, <<"$TARGET", layout.target>>>>

(* normalizer *)
Bases(layout) ==
  RootBases(layout) \o
  <<<<"$CARGO_HOME", layout.cargo>>, <<"$RUSTUP_HOME", layout.rustup>>, <<"$HOME", layout.home>>>>

(* outside_checkout_roots *)
OutsideRoots(normalized) ==
  Head(normalized) \notin {"$CHECKOUT", "$WORKSPACE", "$TARGET", "$PROFILE", "$CARGO_HOME",
                           "$RUSTUP_HOME"}
=============================================================================
