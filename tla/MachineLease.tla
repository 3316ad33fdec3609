---------------------------- MODULE MachineLease ----------------------------
(***************************************************************************)
(* What the lease scheduler promises about machines, and nothing else: a   *)
(* machine has at most one owner, an owner is never replaced without the   *)
(* machine being free in between, no request owns two machines, and a      *)
(* request that owned a machine, ran nested or was withdrawn never gets    *)
(* one afterwards.                                                         *)
(***************************************************************************)
EXTENDS Naturals

CONSTANTS Machines,     \* the configured machines
          Nobody        \* the owner of a free machine

VARIABLES owner,        \* machine -> request id or Nobody
          spent         \* the request ids that can no longer get a machine

leaseVars == <<owner, spent>>

Init == /\ owner = [m \in Machines |-> Nobody]
        /\ spent = {}

\* Free machines get owners, each a request that is not spent and then is.
Acquire ==
  LET won == {m \in Machines : owner[m] # owner'[m]} IN
  /\ \A m \in won : /\ owner[m] = Nobody
                    /\ owner'[m] \in Nat \ spent
                    /\ \A n \in won : owner'[m] = owner'[n] => m = n
  /\ spent' = spent \cup {owner'[m] : m \in won}

\* At most one owner gives its machine up; any number of requests end.
Retire ==
  /\ \/ owner' = owner
     \/ \E m \in Machines : owner[m] # Nobody /\ owner' = [owner EXCEPT ![m] = Nobody]
  /\ spent \subseteq spent'

Next == Acquire \/ Retire

Spec == Init /\ [][Next]_leaseVars
=============================================================================
