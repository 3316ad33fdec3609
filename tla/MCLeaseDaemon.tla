--------------------------- MODULE MCLeaseDaemon ---------------------------
(* Small instances of LeaseDaemon: all on one machine. *)
EXTENDS LeaseDaemon, TLC

OneMachine == {"laptop"}
NoQueues == {}
OneQueue == {(7 :> 0)}

Plain == [machine |-> "laptop", label |-> {}, priority |-> 0, pr |-> None, estimate |-> 0,
          session |-> FALSE]
Hold == [Plain EXCEPT !.session = TRUE]
PlainOrHold == {Plain, Hold}

\* Two clients that queue.
Two == {"a", "b"}
AskPlain == [c \in Conns |-> Plain]
InsideNone == [c \in Conns |-> None]

\* A session "a" whose job runs the nested client "n", and a rival "b".
Nested == {"a", "b", "n"}
AskSession == [c \in Conns |-> IF c = "a" THEN Hold ELSE Plain]
InsideSession == [c \in Conns |-> IF c = "n" THEN "a" ELSE None]

NoOrders == {}
Cancel(c) == [type |-> "cancel", on |-> c]
CancelEach == {Cancel(c) : c \in Conns}
EveryOrder == {Cancel("a"), [type |-> "preempt", on |-> "a"],
               [type |-> "reorder", on |-> "b", arg |-> 0],
               [type |-> "pause", on |-> "laptop"], [type |-> "resume", on |-> "laptop"],
               [type |-> "reserve", on |-> "laptop", arg |-> "enki"],
               [type |-> "unreserve", on |-> "laptop"],
               [type |-> "ci_start", on |-> "laptop", arg |-> "gpu"],
               [type |-> "ci_stop", on |-> "laptop", arg |-> "gpu"],
               [type |-> "merge_queue", arg |-> (7 :> 0)],
               [type |-> "overruns"]}
=============================================================================
