-------------------------------- MODULE Impact --------------------------------
(***************************************************************************)
(* `bellows analyze`: which packages of a workspace are affected by the    *)
(* changes between two snapshots (crates/bellows-cli/src/main.rs).         *)
(*                                                                         *)
(* A snapshot maps a package to [source, surface, dependencies]: the       *)
(* digest of its sources, the digest of their public lines, and the        *)
(* workspace members it depends on.                                        *)
(***************************************************************************)
EXTENDS Naturals, FiniteSets, Sequences, SequencesExt

(* create_workspace_snapshot, for packages [source, surface, dependencies].  *)
(* Only members are snapshotted, and only their dependencies on members.     *)
SnapshotOf(packages, members) ==
  [id \in members |->
     [packages[id] EXCEPT !.dependencies = @ \cap members]]

(* New packages count as changed. *)
ChangedIn(field, before, after) ==
  {id \in DOMAIN after : id \in DOMAIN before => before[id][field] # after[id][field]}

(* Follows the dependencies themselves. *)
Upstream(after, id) == after[id].dependencies

(* The reverse dependencies. *)
Downstream(after, id) == {d \in DOMAIN after : id \in after[d].dependencies}

(* One round of the worklist: a package joins the frontier when it is first   *)
(* affected.                                                                  *)
Round(after, work) ==
  LET new == Downstream(after, Last(work.frontier)) \ work.affected IN
  [affected |-> work.affected \cup new, frontier |-> Front(work.frontier) \o SetToSeq(new)]

(* Rounds until the frontier is empty, which takes no more than there are     *)
(* packages: each is in it once.                                              *)
Spread(after, surface) ==
  LET work[n \in 0 .. Cardinality(DOMAIN after)] ==
        IF n = 0 THEN [affected |-> surface, frontier |-> SetToSeq(surface)]
        ELSE IF work[n - 1].frontier = <<>> THEN work[n - 1]
        ELSE Round(after, work[n - 1])
  IN  work[Cardinality(DOMAIN after)]

(* compare_workspace_snapshots *)
Compare(before, after) ==
  LET source  == ChangedIn("source", before, after)
      surface == ChangedIn("surface", before, after)
  IN [source |-> source, surface |-> surface, private |-> source \ surface,
      affected |-> Spread(after, surface).affected]
=============================================================================
