--------------------------- MODULE MCSingleFlight ---------------------------
(***************************************************************************)
(* Runners on two checkouts, of one variant or of two.                     *)
(***************************************************************************)
EXTENDS SingleFlight, TLC

CONSTANTS r1, r2, r3, v1, v2, h1, h2

(* Two runners of one variant in one checkout, one of another elsewhere. *)
ThreeWants == r1 :> v1 @@ r2 :> v1 @@ r3 :> v2
ThreeHosts == r1 :> h1 @@ r2 :> h1 @@ r3 :> h2

(* Two cold runners of one library. *)
TwoWants == r1 :> v1 @@ r2 :> v1
TwoHosts == r1 :> h1 @@ r2 :> h2
=============================================================================
