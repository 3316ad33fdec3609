---------------------------- MODULE MCCachedRun -----------------------------
(***************************************************************************)
(* Two checkouts of a workspace, and a unit or a script with two large     *)
(* inputs: the output of an earlier unit, which is found with -L and not   *)
(* hashed for the key, and a source, the crate root, which is.  One of     *)
(* their contents makes rustc warn and embed a path.                       *)
(***************************************************************************)
EXTENDS CachedRun, TLC

CONSTANTS c1, c2, lib, src, v1, v2, w1

Symmetric == Permutations(Checkouts)
=============================================================================
