----------------------------- MODULE MCStoreGc ------------------------------
(***************************************************************************)
(* Two publishers of records that share blobs, and the collection of a     *)
(* store smaller than what they publish.                                   *)
(***************************************************************************)
EXTENDS StoreGc, TLC

CONSTANTS k1, a1, a2, n1, b1, b2, p1, p2

Request(kind, key, action, inputs, blobs) ==
  [kind |-> kind, key |-> key, action |-> action, inputs |-> inputs, blobs |-> blobs]

(* Two candidates of one static key; the second shares a blob of the first. *)
CandidateRequests ==
  {Request("candidate", k1, a1, {}, {b1}),
   Request("candidate", k1, a2, {}, {b1, b2})}

(* A candidate whose blob is also the input of a declared action, which one  *)
(* client runs itself and another has the server run.                        *)
NamedRequests ==
  {Request("candidate", k1, a1, {}, {b1}),
   Request("named", n1, None, {}, {b1, b2}),
   Request("execute", n1, None, {b1}, {b1, b2})}

AllRequests == CandidateRequests \cup NamedRequests

(* Publishers are interchangeable. *)
Symmetric == Permutations(Publishers)

(* A declared action run by the client only. *)
PutRequests ==
  {Request("candidate", k1, a1, {}, {b1}),
   Request("named", n1, None, {}, {b1})}
=============================================================================
