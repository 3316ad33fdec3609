------------------------------- MODULE EventLog -------------------------------
(***************************************************************************)
(* The event log that wrappers of one build append to and readers show     *)
(* (crates/bellows-cli/src/diagnostics.rs): three generations of a file    *)
(* under one lock file, rotated by the append that would exceed the limit, *)
(* while writers fail or are killed between any two of their steps.        *)
(*                                                                         *)
(* Events are numbered in the order in which they were written.  A line    *)
(* is [event, ended]: one that was cut off has event 0 and runs into the   *)
(* next one.  Its length is one, whatever the limit counts.                *)
(***************************************************************************)
EXTENDS Integers, Sequences, SequencesExt

CONSTANTS
  Writers,      \* each appends one event after another
  Limit,        \* LOG_LIMIT, in lines
  MaxEvents, MaxCuts,   \* bounds
  NoLog, Free

ASSUME EventLogAssumption ==
  /\ Limit \in Nat \ {0} /\ MaxEvents \in Nat /\ MaxCuts \in Nat
  /\ Free \notin Writers
  /\ NoLog \notin Seq([event : Nat, ended : BOOLEAN])

VARIABLES
  log,       \* generation 0, 1, 2 -> its lines, or NoLog; 0 is the current one
  owner,     \* who has the lock exclusively, or Free
  action,    \* what the owner does next
  view,      \* what the reader has read so far, or NoLog between reads
  left,      \* the generations it has still to read
  look,      \* what it looks for next, before it has the lock
  since,     \* events and cuts when it found no current file
  events, lost, cuts   \* events written; those that ran into a cut line; cuts

logVars == <<log, owner, action, view, left, look, since, events, lost, cuts>>

LogInit ==
  /\ log = [g \in 0 .. 2 |-> NoLog]
  /\ owner = Free
  /\ action = "none"
  /\ view = NoLog /\ left = {}
  /\ look = "none" /\ since = [events |-> 0, cuts |-> 0]
  /\ events = 0 /\ lost = {} /\ cuts = 0

Holds(w, a) == owner = w /\ action = a

(* append_with_limit: the lock, and whether the file has room. *)
LockLog(w) ==
  /\ owner = Free /\ left = {} /\ events < MaxEvents
  /\ owner' = w
  /\ action' = IF log[0] # NoLog /\ Len(log[0]) >= Limit THEN "drop" ELSE "write"
  /\ UNCHANGED <<log, view, left, look, since, events, lost, cuts>>

(* Generation 2 is removed, 1 becomes 2 and 0 becomes 1. *)
Rotates(w, a, next, files) ==
  /\ Holds(w, a)
  /\ log' = files
  /\ action' = next
  /\ UNCHANGED <<owner, view, left, look, since, events, lost, cuts>>

Rotate(w) ==
  \/ Rotates(w, "drop", "shift", [log EXCEPT ![2] = NoLog])
  \/ Rotates(w, "shift", "move", IF log[1] = NoLog THEN log
                                 ELSE [log EXCEPT ![1] = NoLog, ![2] = log[1]])
  \/ Rotates(w, "move", "write", [log EXCEPT ![0] = NoLog, ![1] = log[0]])

Lines(g)  == IF log[g] = NoLog THEN <<>> ELSE log[g]
CutOff    == Lines(0) # <<>> /\ ~Last(Lines(0)).ended
Line(e)   == [event |-> e, ended |-> TRUE]
Fragment  == [event |-> 0, ended |-> FALSE]

Unlock    == owner' = Free /\ action' = "none"

(* The event's line; or it runs into one that was cut off, and both are lost. *)
WriteEvent(w) ==
  /\ Holds(w, "write")
  /\ log' = [log EXCEPT ![0] = IF CutOff THEN Append(Front(@), Line(0))
                               ELSE Append(Lines(0), Line(events + 1))]
  /\ lost' = IF CutOff THEN lost \cup {events + 1} ELSE lost
  /\ events' = events + 1
  /\ Unlock
  /\ UNCHANGED <<view, left, look, since, cuts>>

(* The disk is full, or the writer is killed: before a step, or with half a  *)
(* line written.                                                             *)
Cut(w, half) ==
  /\ owner = w /\ cuts < MaxCuts
  /\ half => action = "write"
  /\ log' = IF half /\ ~CutOff THEN [log EXCEPT ![0] = Append(Lines(0), Fragment)] ELSE log
  /\ cuts' = cuts + 1
  /\ Unlock
  /\ UNCHANGED <<view, left, look, since, events, lost>>

(* read_log: without the lock, whether there is a current file; if not,      *)
(* whether there is a previous one; and if not, there is nothing to read.    *)
LookLog ==
  /\ view = NoLog /\ look = "none"
  /\ IF log[0] # NoLog THEN look' = "open" /\ UNCHANGED since
     ELSE look' = "previous" /\ since' = [events |-> events, cuts |-> cuts]
  /\ UNCHANGED <<log, owner, action, view, left, events, lost, cuts>>

LookPrevious ==
  /\ look = "previous"
  /\ look' = IF log[1] # NoLog THEN "open" ELSE "none"
  /\ since' = [events |-> 0, cuts |-> 0]
  /\ UNCHANGED <<log, owner, action, view, left, events, lost, cuts>>

(* Reads whether or not somebody writes. *)
OpenUnlocked ==
  /\ look = "open"
  /\ look' = "none" /\ view' = <<>> /\ left' = 0 .. 2
  /\ UNCHANGED <<log, owner, action, since, events, lost, cuts>>

(* The shared lock, and then the generations from the oldest on. *)
OpenLog ==
  /\ owner = Free /\ look = "open"
  /\ look' = "none" /\ view' = <<>> /\ left' = 0 .. 2
  /\ UNCHANGED <<log, owner, action, since, events, lost, cuts>>

(* The lines that parse. *)
Events(lines) ==
  LET kept[n \in 0 .. Len(lines)] ==
        IF n = 0 THEN <<>>
        ELSE IF lines[n].event # 0 THEN Append(kept[n - 1], lines[n]) ELSE kept[n - 1]
  IN  kept[Len(lines)]

ReadGeneration ==
  /\ left # {}
  /\ \E g \in left :
       /\ \A h \in left : h <= g
       /\ view' = view \o Events(Lines(g))
       /\ left' = left \ {g}
  /\ UNCHANGED <<log, owner, action, look, since, events, lost, cuts>>

CloseLog ==
  /\ view # NoLog /\ left = {}
  /\ view' = NoLog
  /\ UNCHANGED <<log, owner, action, left, look, since, events, lost, cuts>>

LogNext ==
  \/ \E w \in Writers :
       LockLog(w) \/ Rotate(w) \/ WriteEvent(w) \/ \E half \in BOOLEAN : Cut(w, half)
  \/ LookLog \/ LookPrevious \/ OpenLog \/ ReadGeneration \/ CloseLog

LogSpec == LogInit /\ [][LogNext]_logVars

-----------------------------------------------------------------------------
(* The events after the first n that did not run into a cut line, in order. *)
AllAfter(n, lines) ==
  /\ \A i, j \in DOMAIN lines : i < j => lines[i].event < lines[j].event
  /\ {lines[i].event : i \in DOMAIN lines} = (n + 1 .. events) \ lost

(* The lines written, or cut off, since a reader found no current file. *)
Since == (events + cuts) - (since.events + since.cuts)

(***************************************************************************)
(* A reader is given the latest events, complete and in order, without a   *)
(* gap, and at least as many as the limit holds lines, less the writes     *)
(* that were interrupted: a rotation that is under way, or was given up    *)
(* half-way, hides nothing newer than what it was to drop.  It is given    *)
(* nothing only if nothing had been written when it looked, or a whole     *)
(* generation was written between its looks at the two files, which no     *)
(* lock holds together (append_with_limit, read_log).                      *)
(***************************************************************************)
ReadsLatest ==
  [][/\ left # {} /\ left' = {} =>
          \E n \in 0 .. events :
            /\ n + Limit <= events + cuts \/ n = 0
            /\ AllAfter(n, view')
     /\ look = "previous" /\ look' = "none" => since.events = 0 \/ Limit <= Since]_logVars
=============================================================================
