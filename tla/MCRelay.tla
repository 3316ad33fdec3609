------------------------------- MODULE MCRelay ------------------------------
(***************************************************************************)
(* Wrappers of one build whose outputs share a blob.                       *)
(***************************************************************************)
EXTENDS Relay, TLC

CONSTANTS w1, w2, b1, b2

(* A compile of two blobs, and a compile or an archive of one of them. *)
SharedNeeds == w1 :> {b1, b2} @@ w2 :> {b1}
=============================================================================
