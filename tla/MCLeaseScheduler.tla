-------------------------- MODULE MCLeaseScheduler --------------------------
(***************************************************************************)
(* One machine and one unknown to the configuration: an ordinary request,  *)
(* one of a queued pull request with a label, and an urgent session.       *)
(***************************************************************************)
EXTENDS LeaseScheduler, TLC

Req(m, label, prio, pr, session) ==
  [machine |-> m, label |-> label, priority |-> prio, pr |-> pr, estimate |-> 1,
   session |-> session]

OneMachine == {"laptop"}

MixedRequests == {Req("laptop", {}, 0, None, FALSE),
                  Req("laptop", {"enki"}, 0, 7, FALSE),
                  Req("laptop", {}, 5, None, TRUE),
                  Req("toaster", {}, 0, None, FALSE)}

OneQueue == {(7 :> 0)}
=============================================================================
