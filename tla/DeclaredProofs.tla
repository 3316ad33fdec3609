---------------------------- MODULE DeclaredProofs ----------------------------
(***************************************************************************)
(* For any number of clients, inputs, roots, changes and failures: the     *)
(* record of a declared action stands for what its key says, a restore     *)
(* replaces all the output roots or none, loses nothing that an earlier    *)
(* one promised, and leaves what the client's own key stands for.          *)
(***************************************************************************)
EXTENDS Declared, TLAPS

Fields == {"pc", "got", "record", "new", "old", "done", "undo"}

(* What is collected of the inputs, in any order. *)
Collected == UNION {[S -> Versions] : S \in SUBSET Sources}

(* Made of the very contents the key names. *)
MadeFrom(record, key) == record.key = key /\ record.outputs = [f \in Writes(key) |-> key]

Keyed   == {"load", "execute", "publish", "restore", "lock", "swap"}
HasMade == {"load", "publish", "restore", "lock", "swap"}

(* A client's inputs are those of its key from the moment the record is      *)
(* looked up, and what it finds, publishes or restores was made from them.   *)
ClientInv(c) ==
  /\ DOMAIN client[c] = Fields
  /\ client[c].got \in Collected
  /\ client[c].pc \in Keyed => client[c].got \in Keys
  /\ client[c].pc \in HasMade => MadeFrom(client[c].record, client[c].got)

RecordInv ==
  /\ source \in Keys
  /\ DOMAIN client = Clients
  /\ \A c \in Clients : ClientInv(c)
  /\ DOMAIN records = Keys
  /\ \A key \in Keys : records[key] # Nothing => MadeFrom(records[key], key)

-----------------------------------------------------------------------------
(* A client that starts has collected nothing. *)
LEMMA WaitingIsFresh ==
  /\ DOMAIN Waiting = Fields /\ Waiting.got \in Collected /\ Waiting.pc = "collect"
  /\ \A pc, got, record :
       LET w == [Waiting EXCEPT !.pc = pc, !.got = got, !.record = record] IN
       DOMAIN w = Fields /\ w.got = got /\ w.pc = pc
  /\ \A pc : LET w == [Waiting EXCEPT !.pc = pc] IN
       DOMAIN w = Fields /\ w.got \in Collected /\ w.pc = pc
<1>1. <<>> \in [{} -> Versions]
      OBVIOUS
<1>2. <<>> \in Collected
      BY <1>1 DEF Collected
<1> QED
    BY <1>2 DEF Waiting, Fields

(* Record: an execution of the collected bytes. *)
LEMMA RecordMade == \A c, key : MadeFrom(Record(c, key, key), key)
BY DEF Record, MadeFrom

(* A step that moves one client and no record. *)
LEMMA OneClient ==
  ASSUME RecordInv, NEW c \in Clients, NEW w, ClientInv(c),
         client' = [client EXCEPT ![c] = w],
         DOMAIN w = Fields, w.got \in Collected,
         w.pc \in Keyed => w.got \in Keys,
         w.pc \in HasMade => MadeFrom(w.record, w.got),
         source' \in Keys, DOMAIN records' = Keys,
         \A key \in Keys : records'[key] # Nothing => MadeFrom(records'[key], key)
  PROVE  RecordInv'
<1>1. DOMAIN client' = Clients /\ client'[c] = w
      BY DEF RecordInv
<1>2. \A d \in Clients : d # c => client'[d] = client[d]
      BY DEF RecordInv
<1>3. ASSUME NEW d \in Clients PROVE ClientInv(d)'
      BY <1>1, <1>2 DEF RecordInv, ClientInv
<1> QED
    BY <1>1, <1>3 DEF RecordInv

(* A step that only moves one client on, with what it has collected. *)
LEMMA MovesOn ==
  ASSUME RecordInv, NEW c \in Clients, NEW pc, Goes(c, pc),
         pc \in Keyed => client[c].got \in Keys,
         pc \in HasMade => MadeFrom(client[c].record, client[c].got),
         source' \in Keys, DOMAIN records' = Keys,
         \A key \in Keys : records'[key] # Nothing => MadeFrom(records'[key], key)
  PROVE  RecordInv'
<1> DEFINE w == [client[c] EXCEPT !.pc = pc]
<1>1. ClientInv(c)
      BY DEF RecordInv
<1>2. /\ DOMAIN w = Fields /\ w.got = client[c].got /\ w.pc = pc
      /\ w.record = client[c].record
      BY <1>1 DEF ClientInv, Fields
<1>3. client' = [client EXCEPT ![c] = w]
      BY DEF Goes
<1> QED
    BY <1>1, <1>2, <1>3, OneClient DEF ClientInv

-----------------------------------------------------------------------------
(* No record is there at first, and every client is to collect. *)
LEMMA RecordStarts == DeclaredInit => RecordInv
<1> SUFFICES ASSUME DeclaredInit PROVE RecordInv
    OBVIOUS
<1>1. source \in Keys
      <2>1. (CHOOSE v \in Versions : TRUE) \in Versions
            BY DeclaredAssumption
      <2> QED
          BY <2>1 DEF DeclaredInit, Keys
<1>2. \A c \in Clients : client[c] = Waiting
      BY DEF DeclaredInit
<1>3. \A c \in Clients : ClientInv(c)
      BY <1>2, WaitingIsFresh DEF ClientInv, Keyed, HasMade
<1> QED
    BY <1>1, <1>3 DEF RecordInv, DeclaredInit

(* The steps of one client. *)
LEMMA ClientKeeps ==
  ASSUME RecordInv, NEW c \in Clients, ClientNext(c)
  PROVE  RecordInv'
<1> USE DEF Keyed, HasMade
<1>1. /\ ClientInv(c) /\ source \in Keys /\ DOMAIN records = Keys
      /\ \A key \in Keys : records[key] # Nothing => MadeFrom(records[key], key)
      BY DEF RecordInv
<1>2. ASSUME NEW i \in Sources, Collect(c, i) PROVE RecordInv'
      <2> DEFINE got == [j \in DOMAIN client[c].got \cup {i} |->
                           IF j = i THEN source[i] ELSE client[c].got[j]]
                 w == [client[c] EXCEPT !.got = got]
      <2>1. got \in Collected
            <3>1. PICK S \in SUBSET Sources : client[c].got \in [S -> Versions]
                  BY <1>1 DEF ClientInv, Collected
            <3>2. S \cup {i} \in SUBSET Sources /\ got \in [S \cup {i} -> Versions]
                  BY <1>1, <3>1 DEF Keys
            <3> QED
                BY <3>2 DEF Collected
      <2>2. DOMAIN w = Fields /\ w.got = got /\ w.pc = "collect"
            BY <1>1, <1>2 DEF ClientInv, Fields, Collect, Is
      <2>3. client' = [client EXCEPT ![c] = w] /\ UNCHANGED <<source, records>>
            BY <1>2 DEF Collect
      <2> QED
          BY <1>1, <2>1, <2>2, <2>3, OneClient
<1>3. CASE Find(c)
      <2> DEFINE found == records[client[c].got]
                 w == [client[c] EXCEPT !.pc = IF found = Nothing THEN "execute" ELSE "load",
                                        !.record = found]
      <2>1. client[c].got \in Keys
            BY <1>1, <1>3 DEF Find, ClientInv, Collected, Keys
      <2>2. /\ DOMAIN w = Fields /\ w.got = client[c].got /\ w.record = found
            /\ w.pc = IF found = Nothing THEN "execute" ELSE "load"
            BY <1>1 DEF ClientInv, Fields
      <2>4. found # Nothing => MadeFrom(found, client[c].got)
            BY <1>1, <2>1
      <2>3. client' = [client EXCEPT ![c] = w] /\ UNCHANGED <<source, records>>
            BY <1>3 DEF Find
      <2>5. w.pc \in HasMade => MadeFrom(w.record, w.got)
            <3> HIDE DEF w, found
            <3> QED
                BY <2>2, <2>4
      <2> HIDE DEF w
      <2> QED
          BY <1>1, <2>1, <2>2, <2>3, <2>5, OneClient DEF ClientInv
<1>4. CASE Load(c) \/ CommandFails(c) \/ LoadNew(c) \/ SwapFails(c)
      <2>1. \E pc \in {"lock", "failed", "undo"} : Goes(c, pc)
            BY <1>4 DEF Load, CommandFails, LoadNew, SwapFails
      <2>2. UNCHANGED <<source, records>>
            BY <1>4 DEF Load, CommandFails, LoadNew, SwapFails
      <2>3. ASSUME Goes(c, "lock") PROVE client[c].got \in Keys /\ MadeFrom(client[c].record, client[c].got)
            <3>1. client'[c].pc = "lock"
                  BY <1>1, <2>3 DEF Goes, RecordInv, ClientInv, Fields
            <3>2. client[c].pc \in {"load", "restore"}
                  BY <1>1, <1>4, <3>1 DEF Load, CommandFails, LoadNew, SwapFails, Goes, Is,
                                          RecordInv, ClientInv, Fields
            <3> QED
                BY <1>1, <3>2 DEF ClientInv
      <2> QED
          BY <1>1, <2>1, <2>2, <2>3, MovesOn
<1>5. CASE LoadFails(c)
      <2>0. client[c].pc = "load" /\ client[c].got \in Keys /\ UNCHANGED source
            BY <1>1, <1>5 DEF LoadFails, Is, ClientInv
      <2>1. CASE mode = "local"
            <3> DEFINE w == [client[c] EXCEPT !.pc = "execute", !.record = Nothing]
            <3>1. DOMAIN w = Fields /\ w.got = client[c].got /\ w.pc = "execute"
                  BY <1>1 DEF ClientInv, Fields
            <3>2. /\ client' = [client EXCEPT ![c] = w]
                  /\ records' = [records EXCEPT ![client[c].got] = Nothing]
                  BY <1>5, <2>1 DEF LoadFails
            <3>3. DOMAIN records' = Keys
                  BY <1>1, <3>2
            <3>4. \A key \in Keys : records'[key] # Nothing => MadeFrom(records'[key], key)
                  BY <1>1, <3>2
            <3> QED
                BY <1>1, <2>0, <3>1, <3>2, <3>3, <3>4, OneClient DEF ClientInv
      <2>2. CASE mode # "local"
            BY <1>1, <1>5, <2>0, <2>2, MovesOn DEF LoadFails
      <2> QED
          BY <2>1, <2>2
<1>6. CASE Run(c)
      <2> DEFINE w == [client[c] EXCEPT !.pc = "publish",
                         !.record = Record(c, client[c].got, client[c].got)]
      <2>1. client[c].got \in Keys /\ UNCHANGED <<source, records>>
            BY <1>1, <1>6 DEF Run, Is, ClientInv
      <2>2. /\ DOMAIN w = Fields /\ w.got = client[c].got
            /\ w.record = Record(c, client[c].got, client[c].got)
            BY <1>1 DEF ClientInv, Fields
      <2>3. client' = [client EXCEPT ![c] = w]
            BY <1>6 DEF Run
      <2>4. MadeFrom(w.record, w.got)
            BY <2>2, RecordMade
      <2> QED
          BY <1>1, <2>1, <2>2, <2>3, <2>4, OneClient DEF ClientInv
<1>7. CASE ServerRuns(c)
      <2> DEFINE key == client[c].got
                 answer == IF records[key] = Nothing THEN Record(c, key, key) ELSE records[key]
                 w == [client[c] EXCEPT !.pc = "restore", !.record = answer]
      <2>1. key \in Keys /\ UNCHANGED source
            BY <1>1, <1>7 DEF ServerRuns, Is, ClientInv
      <2>2. DOMAIN w = Fields /\ w.got = key /\ w.pc = "restore" /\ w.record = answer
            BY <1>1 DEF ClientInv, Fields
      <2>3. client' = [client EXCEPT ![c] = w] /\ records' = [records EXCEPT ![key] = answer]
            BY <1>7 DEF ServerRuns
      <2>4. MadeFrom(answer, key)
            BY <1>1, <2>1, RecordMade
      <2>5. DOMAIN records' = Keys
            BY <1>1, <2>3
      <2>6. \A k \in Keys : records'[k] # Nothing => MadeFrom(records'[k], k)
            <3> HIDE DEF answer
            <3> QED
                BY <1>1, <2>1, <2>3, <2>4
      <2> QED
          BY <1>1, <2>1, <2>2, <2>3, <2>4, <2>5, <2>6, OneClient DEF ClientInv
<1>8. CASE PutRecord(c)
      <2> DEFINE key == client[c].got
      <2>1. key \in Keys /\ MadeFrom(client[c].record, key) /\ UNCHANGED source
            BY <1>1, <1>8 DEF PutRecord, Is, ClientInv
      <2>2. \E pc \in {"restore", "failed"} : Goes(c, pc)
            BY <1>8 DEF PutRecord
      <2>3. \/ records' = [records EXCEPT ![key] = client[c].record]
            \/ records' = records
            BY <1>8 DEF PutRecord
      <2>4. DOMAIN records' = Keys
            BY <1>1, <2>3
      <2>5. \A k \in Keys : records'[k] # Nothing => MadeFrom(records'[k], k)
            BY <1>1, <2>1, <2>3
      <2> QED
          BY <1>1, <2>1, <2>2, <2>4, <2>5, MovesOn
<1>9. CASE Lock(c)
      <2> DEFINE w == [client[c] EXCEPT !.pc = "swap",
                         !.new = [r \in Outer |-> Below(client[c].record, r)]]
      <2>1. /\ DOMAIN w = Fields /\ w.got = client[c].got /\ w.pc = "swap"
            /\ w.record = client[c].record
            BY <1>1 DEF ClientInv, Fields
      <2>2. /\ client' = [client EXCEPT ![c] = w] /\ UNCHANGED <<source, records>>
            /\ client[c].pc = "lock"
            BY <1>9 DEF Lock, Is
      <2> QED
          BY <1>1, <2>1, <2>2, OneClient DEF ClientInv
<1>10. CASE \/ \E r \in Outer : MoveOld(c, r) \/ MoveNew(c, r)
            \/ Undo(c) \/ \E moved \in BOOLEAN : UndoFails(c, moved)
      <2>1. UNCHANGED <<source, records>>
            BY <1>10 DEF MoveOld, MoveNew, Undo, UndoFails
      <2> DEFINE Kept == /\ DOMAIN client' = Clients
                         /\ \A d \in Clients : d # c => client'[d] = client[d]
                         /\ DOMAIN client'[c] = Fields
                         /\ client'[c].got = client[c].got /\ client'[c].pc = client[c].pc
                         /\ client'[c].record = client[c].record
      <2>2. client[c].pc \in {"swap", "undo"}
            BY <1>10 DEF MoveOld, MoveNew, Undo, UndoFails, Is
      <2>3. ASSUME NEW r \in Outer, MoveOld(c, r) PROVE Kept
            BY <1>1, <2>3 DEF MoveOld, RecordInv, ClientInv, Fields
      <2>4. ASSUME NEW r \in Outer, MoveNew(c, r) PROVE Kept
            BY <1>1, <2>4 DEF MoveNew, RecordInv, ClientInv, Fields
      <2>5. ASSUME Undo(c) \/ \E moved \in BOOLEAN : UndoFails(c, moved) PROVE Kept
            BY <1>1, <2>5 DEF Undo, UndoFails, RecordInv, ClientInv, Fields
      <2>6. Kept
            BY <1>10, <2>3, <2>4, <2>5
      <2>7. ASSUME NEW d \in Clients PROVE ClientInv(d)'
            BY <1>1, <2>2, <2>6 DEF RecordInv, ClientInv
      <2> QED
          BY <1>1, <2>1, <2>6, <2>7 DEF RecordInv
<1>11. CASE Finish(c) \/ RolledBack(c)
      <2>1. PICK pc \in {"restored", "failed"} : Ends(c, pc)
            BY <1>11 DEF Finish, RolledBack
      <2>2. UNCHANGED <<source, records>>
            BY <1>11 DEF Finish, RolledBack
      <2> DEFINE w == [Waiting EXCEPT !.pc = pc, !.got = client[c].got,
                                      !.record = client[c].record]
      <2>3. client' = [client EXCEPT ![c] = w]
            BY <2>1 DEF Ends
      <2>4. DOMAIN w = Fields /\ w.got = client[c].got /\ w.pc = pc
            BY WaitingIsFresh
      <2> QED
          BY <1>1, <2>1, <2>2, <2>3, <2>4, OneClient DEF ClientInv
<1>12. CASE Killed(c) \/ Again(c)
      <2>1. UNCHANGED <<source, records>>
            BY <1>12 DEF Killed, Again
      <2>2. \/ client' = [client EXCEPT ![c] = [Waiting EXCEPT !.pc = "failed"]]
            \/ client' = [client EXCEPT ![c] = Waiting]
            BY <1>12 DEF Killed, Again
      <2>3. PICK w \in {Waiting, [Waiting EXCEPT !.pc = "failed"]} :
              client' = [client EXCEPT ![c] = w]
            BY <2>2
      <2>4. DOMAIN w = Fields /\ w.got \in Collected /\ w.pc \in {"collect", "failed"}
            BY WaitingIsFresh
      <2> QED
          BY <1>1, <2>1, <2>3, <2>4, OneClient
<1> QED
    BY <1>2, <1>3, <1>4, <1>5, <1>6, <1>7, <1>8, <1>9, <1>10, <1>11, <1>12 DEF ClientNext

(* The steps of the clients, of the editor and of what loses blobs. *)
LEMMA RecordKeeps == RecordInv /\ [DeclaredNext]_declaredVars => RecordInv'
<1> SUFFICES ASSUME RecordInv, [DeclaredNext]_declaredVars PROVE RecordInv'
    OBVIOUS
<1>1. ASSUME NEW c \in Clients, ClientNext(c) PROVE RecordInv'
      BY <1>1, ClientKeeps
<1>2. ASSUME NEW i \in Sources, NEW v \in Versions, Change(i, v) PROVE RecordInv'
      <2>1. source' \in Keys /\ UNCHANGED <<client, records>>
            BY <1>2 DEF Change, RecordInv, Keys
      <2> QED
          BY <2>1 DEF RecordInv, ClientInv
<1>3. ASSUME NEW r \in blobs, LoseBlobs(r) PROVE RecordInv'
      BY <1>3 DEF LoseBlobs, RecordInv, ClientInv
<1>4. CASE UNCHANGED declaredVars
      BY <1>4 DEF declaredVars, RecordInv, ClientInv
<1> QED
    BY <1>1, <1>2, <1>3, <1>4 DEF DeclaredNext

(* Whatever is edited while a client collects, runs or publishes, and        *)
(* whoever else does, the record under a key was made from the contents the  *)
(* key names (collect_tree, execute_local_declared, put_declared).           *)
THEOREM RecordsMatchKeys == DeclaredSpec => []RecordOfKey
<1>1. RecordInv => RecordOfKey
      BY ZenonT(60) DEF RecordInv, RecordOfKey, MadeFrom
<1> QED
    BY RecordStarts, RecordKeeps, <1>1, PTL DEF DeclaredSpec
-----------------------------------------------------------------------------
(***************************************************************************)
(* The replacement of the output trees.  Only the holder of restore.lock   *)
(* has moved anything; the roots it has replaced are the ones in its undo, *)
(* each once, and what it moved aside of them is in its old.               *)
(***************************************************************************)
Distinct(s) == \A i, j \in DOMAIN s : s[i] = s[j] => i = j

Replacing == {"swap", "undo"}

Swapping(c) ==
  /\ client[c].pc \in Replacing <=> holder = c
  /\ holder # c =>
       client[c].old = <<>> /\ client[c].done = {} /\ client[c].undo = <<>>
  /\ client[c].undo \in Seq(Outer) /\ Distinct(client[c].undo)
  /\ client[c].pc = "swap" =>
       /\ DOMAIN client[c].old \subseteq Range(client[c].undo)
       /\ client[c].done \subseteq Range(client[c].undo)
       /\ client[c].new = [r \in Outer |-> Below(client[c].record, r)]
       /\ \A r \in Outer : r \in client[c].done => tree[r] = client[c].new[r]

(* What the last success left of a root that nobody has replaced, and of one *)
(* that the holder of the lock has.                                          *)
InPlace(r) ==
  /\ torn \/ tree[r] = promised[r]
  /\ tree[r] = promised[r] \/ promised[r] \in backups[r] \/ promised[r] = Nothing

Aside(c, r) == r \in DOMAIN client[c].old /\ client[c].old[r] = promised[r]

MovedAside(c, r) ==
  /\ torn \/ Aside(c, r) \/ (r \notin DOMAIN client[c].old /\ promised[r] = Nothing)
  /\ Aside(c, r) \/ promised[r] \in backups[r] \/ promised[r] = Nothing

RestoreInv ==
  /\ holder \in Clients \cup {Nobody}
  /\ tree = [r \in Outer |-> tree[r]] /\ promised = [r \in Outer |-> promised[r]]
  /\ backups = [r \in Outer |-> backups[r]]
  /\ \A c \in Clients : Swapping(c)
  /\ \A r \in Outer :
       /\ (\A c \in Clients : r \notin Range(client[c].undo)) => InPlace(r)
       /\ \A c \in Clients : r \in Range(client[c].undo) => MovedAside(c, r)

(* The sequence of replaced roots grows and shrinks at its end.              *)
LEMMA UndoSequence ==
  /\ Range(<<>>) = {} /\ <<>> \in Seq(Outer) /\ Distinct(<<>>)
  /\ \A s \in Seq(Outer), r \in Outer : Distinct(s) /\ r \notin Range(s) =>
       /\ Append(s, r) \in Seq(Outer) /\ Distinct(Append(s, r))
       /\ Range(Append(s, r)) = Range(s) \cup {r}
  /\ \A s \in Seq(Outer) : Distinct(s) /\ s # <<>> =>
       /\ Last(s) \in Outer /\ Last(s) \in Range(s)
       /\ Front(s) \in Seq(Outer) /\ Distinct(Front(s))
       /\ Range(Front(s)) = Range(s) \ {Last(s)}
<1>1. Range(<<>>) = {} /\ <<>> \in Seq(Outer) /\ Distinct(<<>>)
      BY DEF Range, Distinct
<1>2. ASSUME NEW s \in Seq(Outer), NEW r \in Outer, Distinct(s), r \notin Range(s)
      PROVE  /\ Append(s, r) \in Seq(Outer) /\ Distinct(Append(s, r))
             /\ Range(Append(s, r)) = Range(s) \cup {r}
      <2>1. /\ Append(s, r) \in Seq(Outer) /\ Len(Append(s, r)) = Len(s) + 1 /\ Len(s) \in Nat
            /\ DOMAIN Append(s, r) = 1 .. Len(s) + 1 /\ DOMAIN s = 1 .. Len(s)
            /\ \A i \in 1 .. Len(s) : Append(s, r)[i] = s[i]
            /\ Append(s, r)[Len(s) + 1] = r
            OBVIOUS
      <2>2. Range(Append(s, r)) = Range(s) \cup {r}
            BY <2>1 DEF Range
      <2>3. Distinct(Append(s, r))
            BY <1>2, <2>1 DEF Range, Distinct
      <2> QED
          BY <2>1, <2>2, <2>3
<1>3. ASSUME NEW s \in Seq(Outer), Distinct(s), s # <<>>
      PROVE  /\ Last(s) \in Outer /\ Last(s) \in Range(s)
             /\ Front(s) \in Seq(Outer) /\ Distinct(Front(s))
             /\ Range(Front(s)) = Range(s) \ {Last(s)}
      <2>1. Len(s) \in Nat \ {0} /\ DOMAIN s = 1 .. Len(s) /\ Last(s) = s[Len(s)]
            BY <1>3 DEF Last
      <2>2. /\ Front(s) \in Seq(Outer) /\ DOMAIN Front(s) = 1 .. Len(s) - 1
            /\ \A i \in 1 .. Len(s) - 1 : Front(s)[i] = s[i]
            BY <2>1 DEF Front
      <2>3. Last(s) \in Outer /\ Last(s) \in Range(s)
            BY <2>1 DEF Range
      <2>4. Distinct(Front(s))
            BY <1>3, <2>1, <2>2 DEF Distinct
      <2>5. Range(Front(s)) = Range(s) \ {Last(s)}
            BY <1>3, <2>1, <2>2 DEF Range, Distinct
      <2> QED
          BY <2>2, <2>3, <2>4, <2>5
<1> QED
    BY <1>1, <1>2, <1>3

(* Nothing is replaced at first.                                             *)
LEMMA RestoreStarts == DeclaredInit => RestoreInv
<1> SUFFICES ASSUME DeclaredInit PROVE RestoreInv
    OBVIOUS
<1>1. \A c \in Clients : /\ client[c].pc = "collect" /\ client[c].old = <<>>
                         /\ client[c].done = {} /\ client[c].undo = <<>>
      BY DEF DeclaredInit, Waiting
<1>2. \A c \in Clients : Swapping(c)
      BY <1>1, UndoSequence, DeclaredAssumption DEF DeclaredInit, Swapping, Replacing
<1>3. \A c \in Clients : Range(client[c].undo) = {}
      BY <1>1, UndoSequence
<1> QED
    BY <1>2, <1>3 DEF DeclaredInit, RestoreInv, InPlace

(* A step of a client that neither holds the lock nor gets it.               *)
LEMMA CalmStep ==
  ASSUME RestoreInv, NEW c \in Clients,
         \A d \in Clients \ {c} : client'[d] = client[d],
         client[c].pc \notin Replacing, client'[c].pc \notin Replacing,
         client'[c].old = <<>>, client'[c].done = {}, client'[c].undo = <<>>,
         UNCHANGED <<holder, tree, backups, promised>>, torn => torn'
  PROVE  RestoreInv'
<1>1. holder # c /\ client[c].undo = <<>>
      BY DEF RestoreInv, Swapping
<1>2. \A d \in Clients : Swapping(d)'
      <2>1. Swapping(c)'
            BY <1>1, UndoSequence DEF Swapping, Replacing
      <2>2. ASSUME NEW d \in Clients \ {c} PROVE Swapping(d)'
            BY <2>2 DEF RestoreInv, Swapping
      <2> QED
          BY <2>1, <2>2
<1>3. \A d \in Clients : client'[d].undo = client[d].undo
      BY <1>1
<1>4. ASSUME NEW r \in Outer
      PROVE  /\ (\A d \in Clients : r \notin Range(client'[d].undo)) => InPlace(r)'
             /\ \A d \in Clients : r \in Range(client'[d].undo) => MovedAside(d, r)'
      <2>1. (\A d \in Clients : r \notin Range(client'[d].undo)) => InPlace(r)'
            BY <1>3 DEF RestoreInv, InPlace
      <2>2. ASSUME NEW d \in Clients, r \in Range(client'[d].undo) PROVE MovedAside(d, r)'
            <3>1. d # c
                  BY <2>2, UndoSequence
            <3> QED
                BY <1>3, <2>2, <3>1 DEF RestoreInv, MovedAside, Aside
      <2> QED
          BY <2>1, <2>2
<1> QED
    BY <1>2, <1>4 DEF RestoreInv

(* A step of the holder c, told by what it leaves of c and of every root.    *)
LEMMA HolderStep ==
  ASSUME RestoreInv, NEW c \in Clients,
         \A d \in Clients \ {c} : client'[d] = client[d] /\ holder # d /\ holder' # d,
         holder' \in Clients \cup {Nobody},
         tree' = [r \in Outer |-> tree'[r]], promised' = [r \in Outer |-> promised'[r]],
         backups' = [r \in Outer |-> backups'[r]],
         Swapping(c)',
         \A r \in Outer : r \notin Range(client'[c].undo) => InPlace(r)',
         \A r \in Outer : r \in Range(client'[c].undo) => MovedAside(c, r)'
  PROVE  RestoreInv'
<1>1. ASSUME NEW d \in Clients \ {c}
      PROVE  Swapping(d)' /\ client'[d].undo = <<>>
      <2>1. Swapping(d)
            BY DEF RestoreInv
      <2>2. client'[d] = client[d] /\ client[d].pc \notin Replacing /\ client[d].undo = <<>>
            BY <2>1 DEF Swapping
      <2> QED
          BY <2>1, <2>2 DEF Swapping, Replacing
<1>2. \A d \in Clients \ {c} : Range(client'[d].undo) = {}
      BY <1>1, UndoSequence
<1> QED
    BY <1>1, <1>2 DEF RestoreInv

(* The steps before the lock, and of a client that starts again.             *)
LEMMA BeforeTheLock ==
  ASSUME RecordInv, RestoreInv, NEW c \in Clients,
         \/ \E i \in Sources : Collect(c, i)
         \/ Find(c) \/ Load(c) \/ LoadFails(c)
         \/ Run(c) \/ CommandFails(c) \/ ServerRuns(c) \/ PutRecord(c) \/ LoadNew(c)
         \/ Again(c)
  PROVE  RestoreInv'
<1>1. /\ DOMAIN client = Clients /\ DOMAIN client[c] = Fields /\ Swapping(c)
      /\ UNCHANGED <<holder, tree, backups, promised, torn>>
      BY DEF RecordInv, RestoreInv, ClientInv, Collect, Find, Load, LoadFails, Run, CommandFails,
             ServerRuns, PutRecord, LoadNew, Again
<1>2. client[c].pc \notin Replacing
      BY DEF Collect, Find, Load, LoadFails, Run, CommandFails, ServerRuns, PutRecord, LoadNew,
             Again, Is, Replacing
<1>3. client[c].old = <<>> /\ client[c].done = {} /\ client[c].undo = <<>>
      BY <1>1, <1>2 DEF Swapping
<1>4. CASE Again(c)
      <2>1. client'[c] = Waiting /\ \A d \in Clients \ {c} : client'[d] = client[d]
            BY <1>1, <1>4 DEF Again
      <2>2. /\ client'[c].pc = "collect" /\ client'[c].old = <<>> /\ client'[c].done = {}
            /\ client'[c].undo = <<>>
            BY <2>1 DEF Waiting
      <2> QED
          BY <1>1, <1>2, <2>1, <2>2, CalmStep DEF Replacing
<1>5. ASSUME NEW w, client' = [client EXCEPT ![c] = w], w.pc \notin Replacing,
             w.old = client[c].old, w.done = client[c].done, w.undo = client[c].undo
      PROVE  RestoreInv'
      <2>1. client'[c] = w /\ \A d \in Clients \ {c} : client'[d] = client[d]
            BY <1>1, <1>5
      <2> QED
          BY <1>1, <1>2, <1>3, <1>5, <2>1, CalmStep
<1>6. ASSUME NEW i \in Sources, Collect(c, i) PROVE RestoreInv'
      <2> DEFINE got == [j \in DOMAIN client[c].got \cup {i} |->
                           IF j = i THEN source[i] ELSE client[c].got[j]]
                 w == [client[c] EXCEPT !.got = got]
      <2>1. client' = [client EXCEPT ![c] = w]
            BY <1>6 DEF Collect
      <2>2. /\ w.pc = client[c].pc /\ w.old = client[c].old
            /\ w.done = client[c].done /\ w.undo = client[c].undo
            BY <1>1 DEF Fields
      <2> HIDE DEF w
      <2> QED
          BY <1>2, <1>5, <2>1, <2>2
<1>7. ASSUME NEW pc \in {"lock", "failed", "restore"}, Goes(c, pc) PROVE RestoreInv'
      <2> DEFINE w == [client[c] EXCEPT !.pc = pc]
      <2>1. client' = [client EXCEPT ![c] = w]
            BY <1>7 DEF Goes
      <2>2. w.pc = pc /\ w.old = client[c].old /\ w.done = client[c].done /\ w.undo = client[c].undo
            BY <1>1 DEF Fields
      <2> HIDE DEF w
      <2> QED
          BY <1>5, <2>1, <2>2 DEF Replacing
<1>8. ASSUME NEW pc \in {"execute", "load", "publish", "restore"}, NEW record,
             client' = [client EXCEPT ![c].pc = pc, ![c].record = record]
      PROVE  RestoreInv'
      <2> DEFINE w == [client[c] EXCEPT !.pc = pc, !.record = record]
      <2>1. client' = [client EXCEPT ![c] = w]
            BY <1>8
      <2>2. w.pc = pc /\ w.old = client[c].old /\ w.done = client[c].done /\ w.undo = client[c].undo
            BY <1>1 DEF Fields
      <2> HIDE DEF w
      <2> QED
          BY <1>5, <2>1, <2>2 DEF Replacing
<1>9. CASE Load(c) \/ CommandFails(c) \/ PutRecord(c) \/ LoadNew(c)
      BY <1>7, <1>9 DEF Load, CommandFails, PutRecord, LoadNew
<1>10. CASE LoadFails(c)
      BY <1>7, <1>8, <1>10 DEF LoadFails
<1>11. CASE Find(c)
      BY <1>8, <1>11 DEF Find
<1>12. CASE Run(c)
      BY <1>8, <1>12 DEF Run
<1>13. CASE ServerRuns(c)
      BY <1>8, <1>13 DEF ServerRuns
<1> QED
    BY <1>4, <1>6, <1>9, <1>10, <1>11, <1>12, <1>13

(* The fields of a client that starts or has ended.                          *)
LEMMA WaitingIsIdle ==
  /\ \A pc, got, record :
       LET w == [Waiting EXCEPT !.pc = pc, !.got = got, !.record = record] IN
       w.pc = pc /\ w.old = <<>> /\ w.done = {} /\ w.undo = <<>>
  /\ \A pc : LET w == [Waiting EXCEPT !.pc = pc] IN
       w.pc = pc /\ w.old = <<>> /\ w.done = {} /\ w.undo = <<>>
BY DEF Waiting

(* The steps of the client that holds restore.lock or takes it: each leaves  *)
(* every root in place, or with its old tree aside.                          *)
LEMMA UnderTheLock ==
  ASSUME RecordInv, RestoreInv, NEW c \in Clients,
         \/ Lock(c) \/ Finish(c) \/ SwapFails(c)
         \/ \E r \in Outer : MoveOld(c, r) \/ MoveNew(c, r)
         \/ Undo(c) \/ RolledBack(c) \/ \E moved \in BOOLEAN : UndoFails(c, moved)
  PROVE  RestoreInv'
<1> USE DeclaredAssumption
<1>1. /\ DOMAIN client = Clients /\ DOMAIN client[c] = Fields /\ Swapping(c)
      /\ tree = [q \in Outer |-> tree[q]] /\ promised = [q \in Outer |-> promised[q]]
      /\ backups = [q \in Outer |-> backups[q]]
      BY DEF RecordInv, RestoreInv, ClientInv
<1>2. \A d \in Clients \ {c} : holder # d
      <2>1. holder = Nobody \/ client[c].pc \in Replacing
            BY DEF Replacing, Is, Lock, Finish, SwapFails, MoveOld, MoveNew, Undo, RolledBack, UndoFails
      <2>2. holder = Nobody \/ holder = c
            BY <1>1, <2>1 DEF Swapping
      <2> QED
          BY <2>2
<1>3. \A q \in Outer :
        /\ q \notin Range(client[c].undo) => InPlace(q)
        /\ q \in Range(client[c].undo) => MovedAside(c, q)
      <2>1. \A d \in Clients \ {c} : client[d].undo = <<>>
            BY <1>2 DEF RestoreInv, Swapping
      <2>2. \A d \in Clients \ {c} : Range(client[d].undo) = {}
            BY <2>1, UndoSequence
      <2> QED
          BY <2>2 DEF RestoreInv
<1>4. client[c].undo \in Seq(Outer) /\ Distinct(client[c].undo)
      BY <1>1 DEF Swapping
<1>5. CASE Lock(c)
      <2> DEFINE new == [r \in Outer |-> Below(client[c].record, r)]
                 w == [client[c] EXCEPT !.pc = "swap", !.new = new]
      <2>1. /\ client' = [client EXCEPT ![c] = w] /\ holder' = c
            /\ UNCHANGED <<tree, backups, promised, torn>> /\ client[c].pc = "lock"
            BY <1>5 DEF Lock, Is
      <2>2. /\ w.pc = "swap" /\ w.new = new /\ w.old = client[c].old /\ w.done = client[c].done
            /\ w.undo = client[c].undo /\ w.record = client[c].record
            BY <1>1 DEF Fields
      <2>3. client'[c] = w /\ \A d \in Clients \ {c} : client'[d] = client[d]
            BY <1>1, <2>1
      <2> HIDE DEF w
      <2>4. client[c].old = <<>> /\ client[c].done = {} /\ client[c].undo = <<>>
            BY <1>1, <2>1 DEF Swapping, Replacing
      <2>5. Swapping(c)'
            <3>1. /\ client'[c].pc = "swap" /\ client'[c].done = {} /\ client'[c].old = <<>>
                  /\ client'[c].undo \in Seq(Outer) /\ Distinct(client'[c].undo)
                  /\ client'[c].new = [q \in Outer |-> Below(client'[c].record, q)]
                  BY <1>4, <2>2, <2>3, <2>4
            <3> QED
                BY <2>1, <3>1 DEF Swapping, Replacing
      <2>6. \A q \in Outer : q \notin Range(client'[c].undo) => InPlace(q)'
            BY <1>3, <2>1, <2>2, <2>3 DEF InPlace
      <2>7. Range(client'[c].undo) = {}
            BY <2>2, <2>3, <2>4, UndoSequence
      <2> QED
          BY <1>1, <1>2, <2>1, <2>3, <2>5, <2>6, <2>7, HolderStep
<1>6. CASE SwapFails(c)
      <2> DEFINE w == [client[c] EXCEPT !.pc = "undo"]
      <2>1. /\ client' = [client EXCEPT ![c] = w] /\ client[c].pc = "swap"
            /\ UNCHANGED <<holder, tree, backups, promised, torn>>
            BY <1>6 DEF SwapFails, Goes, Is
      <2>2. /\ w.pc = "undo" /\ w.old = client[c].old /\ w.done = client[c].done
            /\ w.undo = client[c].undo
            BY <1>1 DEF Fields
      <2>3. client'[c] = w /\ \A d \in Clients \ {c} : client'[d] = client[d]
            BY <1>1, <2>1
      <2> HIDE DEF w
      <2>4. Swapping(c)'
            BY <1>1, <2>1, <2>2, <2>3 DEF Swapping, Replacing
      <2>5. \A q \in Outer : q \notin Range(client'[c].undo) => InPlace(q)'
            BY <1>3, <2>1, <2>2, <2>3 DEF InPlace
      <2>6. \A q \in Outer : q \in Range(client'[c].undo) => MovedAside(c, q)'
            BY <1>3, <2>1, <2>2, <2>3 DEF MovedAside, Aside
      <2> QED
          BY <1>1, <1>2, <2>1, <2>3, <2>4, <2>5, <2>6, HolderStep DEF RestoreInv
<1>7. ASSUME NEW r \in Outer, MoveOld(c, r) PROVE RestoreInv'
      <2> DEFINE old == IF tree[r] = Nothing THEN client[c].old
                        ELSE [q \in DOMAIN client[c].old \cup {r} |->
                                IF q = r THEN tree[r] ELSE client[c].old[q]]
                 w == [client[c] EXCEPT !.undo = Append(client[c].undo, r), !.old = old]
      <2>1. /\ client' = [client EXCEPT ![c] = w] /\ client[c].pc = "swap"
            /\ tree' = [tree EXCEPT ![r] = Nothing] /\ r \notin Range(client[c].undo)
            /\ UNCHANGED <<holder, backups, promised, torn>>
            BY <1>7 DEF MoveOld, Is
      <2>2. /\ w.pc = client[c].pc /\ w.old = old /\ w.done = client[c].done
            /\ w.undo = Append(client[c].undo, r) /\ w.new = client[c].new
            /\ w.record = client[c].record
            BY <1>1 DEF Fields
      <2>3. client'[c] = w /\ \A d \in Clients \ {c} : client'[d] = client[d]
            BY <1>1, <2>1
      <2>4. /\ Range(w.undo) = Range(client[c].undo) \cup {r}
            /\ w.undo \in Seq(Outer) /\ Distinct(w.undo)
            BY <1>4, <2>1, <2>2, UndoSequence
      <2>5. /\ DOMAIN client[c].old \subseteq Range(client[c].undo)
            /\ client[c].done \subseteq Range(client[c].undo)
            /\ client[c].new = [q \in Outer |-> Below(client[c].record, q)]
            /\ \A q \in Outer : q \in client[c].done => tree[q] = client[c].new[q]
            BY <1>1, <2>1 DEF Swapping
      <2>6. /\ DOMAIN old \subseteq DOMAIN client[c].old \cup {r}
            /\ tree[r] # Nothing => r \in DOMAIN old /\ old[r] = tree[r]
            /\ tree[r] = Nothing => r \notin DOMAIN old
            /\ \A q \in Outer \ {r} : /\ q \in DOMAIN old <=> q \in DOMAIN client[c].old
                                      /\ q \in DOMAIN client[c].old => old[q] = client[c].old[q]
            BY <2>1, <2>5
      <2>7. tree' = [q \in Outer |-> tree'[q]] /\ tree'[r] = Nothing
            /\ \A q \in Outer \ {r} : tree'[q] = tree[q]
            BY <1>1, <2>1
      <2> HIDE DEF w, old
      <2>8. Swapping(c)'
            <3>1. /\ client'[c].pc = "swap" /\ holder' = c
                  /\ client'[c].undo \in Seq(Outer) /\ Distinct(client'[c].undo)
                  BY <1>1, <2>1, <2>2, <2>3, <2>4 DEF Swapping, Replacing
            <3>2. /\ DOMAIN client'[c].old \subseteq Range(client'[c].undo)
                  /\ client'[c].done \subseteq Range(client'[c].undo)
                  BY <2>2, <2>3, <2>4, <2>5, <2>6
            <3>3. client'[c].new = [q \in Outer |-> Below(client'[c].record, q)]
                  BY <2>2, <2>3, <2>5
            <3>4. \A q \in Outer : q \in client'[c].done => tree'[q] = client'[c].new[q]
                  BY <2>1, <2>2, <2>3, <2>5, <2>7
            <3> QED
                BY <3>1, <3>2, <3>3, <3>4 DEF Swapping, Replacing
      <2>9. ASSUME NEW q \in Outer, q \notin Range(client'[c].undo) PROVE InPlace(q)'
            BY <1>3, <2>1, <2>3, <2>4, <2>7, <2>9 DEF InPlace
      <2>10. ASSUME NEW q \in Outer, q \in Range(client'[c].undo) PROVE MovedAside(c, q)'
            <3>1. CASE q = r
                  BY <1>3, <2>1, <2>2, <2>3, <2>6, <3>1 DEF InPlace, MovedAside, Aside
            <3>2. CASE q # r
                  BY <1>3, <2>1, <2>2, <2>3, <2>4, <2>6, <2>10, <3>2 DEF MovedAside, Aside
            <3> QED
                BY <3>1, <3>2
      <2> QED
          BY <1>1, <1>2, <2>1, <2>3, <2>7, <2>8, <2>9, <2>10, HolderStep DEF RestoreInv
<1>8. ASSUME NEW r \in Outer, MoveNew(c, r) PROVE RestoreInv'
      <2> DEFINE w == [client[c] EXCEPT !.done = client[c].done \cup {r}]
      <2>1. /\ client' = [client EXCEPT ![c] = w] /\ client[c].pc = "swap"
            /\ tree' = [tree EXCEPT ![r] = client[c].new[r]] /\ r \in Range(client[c].undo)
            /\ UNCHANGED <<holder, backups, promised, torn>>
            BY <1>8 DEF MoveNew, Is
      <2>2. /\ w.pc = client[c].pc /\ w.old = client[c].old /\ w.done = client[c].done \cup {r}
            /\ w.undo = client[c].undo /\ w.new = client[c].new /\ w.record = client[c].record
            BY <1>1 DEF Fields
      <2>3. client'[c] = w /\ \A d \in Clients \ {c} : client'[d] = client[d]
            BY <1>1, <2>1
      <2> HIDE DEF w
      <2>4. /\ tree' = [q \in Outer |-> tree'[q]] /\ tree'[r] = client[c].new[r]
            /\ \A q \in Outer \ {r} : tree'[q] = tree[q]
            BY <1>1, <2>1
      <2>5. Swapping(c)'
            BY <1>1, <2>1, <2>2, <2>3, <2>4 DEF Swapping, Replacing
      <2>6. ASSUME NEW q \in Outer, q \notin Range(client'[c].undo) PROVE InPlace(q)'
            BY <1>3, <2>1, <2>2, <2>3, <2>4, <2>6 DEF InPlace
      <2>7. ASSUME NEW q \in Outer, q \in Range(client'[c].undo) PROVE MovedAside(c, q)'
            BY <1>3, <2>1, <2>2, <2>3, <2>7 DEF MovedAside, Aside
      <2> QED
          BY <1>1, <1>2, <2>1, <2>3, <2>4, <2>5, <2>6, <2>7, HolderStep DEF RestoreInv
<1>9. CASE Finish(c) \/ RolledBack(c)
      <2>1. PICK pc \in {"restored", "failed"} : Ends(c, pc)
            BY <1>9 DEF Finish, RolledBack
      <2> DEFINE w == [Waiting EXCEPT !.pc = pc, !.got = client[c].got,
                                      !.record = client[c].record]
      <2>2. client' = [client EXCEPT ![c] = w] /\ holder' = Nobody
            BY <2>1 DEF Ends
      <2>3. w.pc = pc /\ w.old = <<>> /\ w.done = {} /\ w.undo = <<>>
            BY WaitingIsIdle
      <2> HIDE DEF w
      <2>4. client'[c] = w /\ \A d \in Clients \ {c} : client'[d] = client[d]
            BY <1>1, <2>2
      <2>5. Swapping(c)'
            BY <2>2, <2>3, <2>4, UndoSequence DEF Swapping, Replacing
      <2>6. Range(client'[c].undo) = {}
            BY <2>3, <2>4, UndoSequence
      <2>7. UNCHANGED <<tree, backups>> /\ (promised' = tree \/ promised' = promised)
            BY <1>9 DEF Finish, RolledBack
      <2>8. ASSUME NEW q \in Outer PROVE InPlace(q)'
            <3>1. CASE Finish(c)
                  BY <3>1 DEF Finish, InPlace
            <3>2. CASE RolledBack(c)
                  <4>1. q \notin Range(client[c].undo) /\ UNCHANGED <<tree, backups, promised, torn>>
                        BY <3>2, UndoSequence DEF RolledBack
                  <4> QED
                      BY <1>3, <4>1 DEF InPlace
            <3> QED
                BY <1>9, <3>1, <3>2
      <2> QED
          BY <1>1, <1>2, <2>2, <2>4, <2>5, <2>6, <2>7, <2>8, HolderStep
<1>10. CASE Undo(c) \/ \E moved \in BOOLEAN : UndoFails(c, moved)
      <2> DEFINE r == Last(client[c].undo)
                 w == [client[c] EXCEPT !.undo = Front(client[c].undo)]
      <2>1. /\ client' = [client EXCEPT ![c] = w] /\ client[c].pc = "undo"
            /\ client[c].undo # <<>> /\ UNCHANGED <<holder, promised>>
            BY <1>10 DEF Undo, UndoFails, Is
      <2>2. /\ w.pc = client[c].pc /\ w.old = client[c].old /\ w.undo = Front(client[c].undo)
            BY <1>1 DEF Fields
      <2>3. client'[c] = w /\ \A d \in Clients \ {c} : client'[d] = client[d]
            BY <1>1, <2>1
      <2> HIDE DEF w
      <2>4. /\ Range(w.undo) = Range(client[c].undo) \ {r} /\ r \in Range(client[c].undo)
            /\ w.undo \in Seq(Outer) /\ Distinct(w.undo) /\ r \in Outer
            BY <1>4, <2>1, <2>2, UndoSequence
      <2> HIDE DEF r
      <2>5. Swapping(c)'
            BY <1>1, <2>1, <2>2, <2>3, <2>4 DEF Swapping, Replacing
      <2>6. CASE Undo(c)
            <3>1. /\ tree' = [tree EXCEPT ![r] = IF r \in DOMAIN client[c].old THEN client[c].old[r]
                                                 ELSE Nothing]
                  /\ UNCHANGED <<backups, torn>>
                  BY <2>6 DEF Undo, r
            <3>2. /\ tree' = [q \in Outer |-> tree'[q]]
                  /\ tree'[r] = IF r \in DOMAIN client[c].old THEN client[c].old[r] ELSE Nothing
                  /\ \A q \in Outer \ {r} : tree'[q] = tree[q]
                  BY <1>1, <2>4, <3>1
            <3>3. ASSUME NEW q \in Outer, q \notin Range(client'[c].undo) PROVE InPlace(q)'
                  <4>1. CASE q = r
                        BY <1>3, <2>1, <2>4, <3>1, <3>2, <4>1 DEF InPlace, MovedAside, Aside
                  <4>2. CASE q # r
                        BY <1>3, <2>1, <2>3, <2>4, <3>1, <3>2, <3>3, <4>2 DEF InPlace
                  <4> QED
                      BY <4>1, <4>2
            <3>4. ASSUME NEW q \in Outer, q \in Range(client'[c].undo) PROVE MovedAside(c, q)'
                  BY <1>3, <2>1, <2>2, <2>3, <2>4, <3>1, <3>4 DEF MovedAside, Aside
            <3> QED
                BY <1>1, <1>2, <2>1, <2>3, <2>5, <3>1, <3>2, <3>3, <3>4, HolderStep DEF RestoreInv
      <2>7. ASSUME NEW moved \in BOOLEAN, UndoFails(c, moved) PROVE RestoreInv'
            <3>1. /\ tree' = IF moved THEN [tree EXCEPT ![r] = Nothing] ELSE tree
                  /\ backups' = [backups EXCEPT ![r] =
                       IF r \in DOMAIN client[c].old THEN @ \cup {client[c].old[r]} ELSE @]
                  /\ torn' = TRUE /\ (moved => r \in DOMAIN client[c].old)
                  BY <2>7 DEF UndoFails, r
            <3>2. /\ tree' = [q \in Outer |-> tree'[q]]
                  /\ \A q \in Outer \ {r} : tree'[q] = tree[q]
                  BY <1>1, <2>4, <3>1
            <3>3. /\ backups' = [q \in Outer |-> backups'[q]]
                  /\ r \in DOMAIN client[c].old => client[c].old[r] \in backups'[r]
                  /\ \A q \in Outer : \A x \in backups[q] : x \in backups'[q]
                  BY <1>1, <2>4, <3>1
            <3>4. ASSUME NEW q \in Outer, q \notin Range(client'[c].undo) PROVE InPlace(q)'
                  <4>1. CASE q = r
                        BY <1>3, <2>1, <2>4, <3>1, <3>3, <4>1 DEF InPlace, MovedAside, Aside
                  <4>2. CASE q # r
                        BY <1>3, <2>1, <2>3, <2>4, <3>1, <3>2, <3>3, <3>4, <4>2 DEF InPlace
                  <4> QED
                      BY <4>1, <4>2
            <3>5. ASSUME NEW q \in Outer, q \in Range(client'[c].undo) PROVE MovedAside(c, q)'
                  BY <1>3, <2>1, <2>2, <2>3, <2>4, <3>1, <3>3, <3>5 DEF MovedAside, Aside
            <3> QED
                BY <1>1, <1>2, <2>1, <2>3, <2>5, <3>2, <3>3, <3>4, <3>5, HolderStep DEF RestoreInv
      <2> QED
          BY <1>10, <2>6, <2>7
<1> QED
    BY <1>5, <1>6, <1>7, <1>8, <1>9, <1>10

(* A killed client leaves what it moved aside in its staging directories.    *)
LEMMA KilledKeeps ==
  ASSUME RecordInv, RestoreInv, NEW c \in Clients, Killed(c)
  PROVE  RestoreInv'
<1> USE DeclaredAssumption
<1>1. /\ DOMAIN client = Clients /\ Swapping(c) /\ UNCHANGED <<tree, promised>>
      /\ tree = [q \in Outer |-> tree[q]] /\ promised = [q \in Outer |-> promised[q]]
      /\ backups = [q \in Outer |-> backups[q]]
      BY DEF RecordInv, RestoreInv, Killed
<1> DEFINE w == [Waiting EXCEPT !.pc = "failed"]
<1>2. w.pc = "failed" /\ w.old = <<>> /\ w.done = {} /\ w.undo = <<>>
      BY WaitingIsIdle
<1>3. client'[c] = w /\ \A d \in Clients \ {c} : client'[d] = client[d]
      BY <1>1 DEF Killed
<1> HIDE DEF w
<1>4. CASE holder # c
      <2>1. client[c].old = <<>> /\ client[c].undo = <<>> /\ client[c].pc \notin Replacing
            BY <1>1, <1>4 DEF Swapping
      <2>2. backups' = backups
            <3>1. \A q \in Outer : q \notin DOMAIN client[c].old
                  BY <2>1
            <3>2. backups' = [q \in Outer |-> backups[q]]
                  BY <3>1 DEF Killed
            <3> QED
                BY <1>1, <3>2
      <2>3. holder' = holder /\ torn' = (torn \/ client[c].undo # <<>>)
            BY <1>4 DEF Killed
      <2> QED
          BY <1>1, <1>2, <1>3, <2>1, <2>2, <2>3, CalmStep DEF Replacing
<1>5. CASE holder = c
      <2>1. holder' = Nobody /\ (torn => torn') /\ (client[c].undo # <<>> => torn')
            BY <1>5 DEF Killed
      <2>2. /\ backups' = [q \in Outer |-> backups'[q]]
            /\ \A q \in Outer : /\ \A x \in backups[q] : x \in backups'[q]
                                /\ q \in DOMAIN client[c].old => client[c].old[q] \in backups'[q]
            BY DEF Killed
      <2>3. Swapping(c)'
            BY <1>2, <1>3, <2>1, UndoSequence DEF Swapping, Replacing
      <2>4. Range(client'[c].undo) = {}
            BY <1>2, <1>3, UndoSequence
      <2>5. \A d \in Clients \ {c} : client[d].undo = <<>>
            BY <1>5 DEF RestoreInv, Swapping
      <2>6. \A d \in Clients \ {c} : Range(client[d].undo) = {}
            BY <2>5, UndoSequence
      <2>7. ASSUME NEW q \in Outer PROVE InPlace(q)'
            <3>1. CASE q \in Range(client[c].undo)
                  <4>1. MovedAside(c, q) /\ torn'
                        BY <2>1, <3>1, UndoSequence DEF RestoreInv
                  <4> QED
                      BY <1>1, <2>2, <4>1 DEF MovedAside, Aside, InPlace
            <3>2. CASE q \notin Range(client[c].undo)
                  <4>1. InPlace(q)
                        BY <2>6, <3>2 DEF RestoreInv
                  <4> QED
                      BY <1>1, <2>1, <2>2, <4>1 DEF InPlace
            <3> QED
                BY <3>1, <3>2
      <2> QED
          BY <1>1, <1>3, <1>5, <2>1, <2>2, <2>3, <2>4, <2>7, HolderStep
<1> QED
    BY <1>4, <1>5

(* So every step keeps the replacement of the trees in order.                *)
LEMMA RestoreKeeps ==
  ASSUME RecordInv, RestoreInv, [DeclaredNext]_declaredVars
  PROVE  RestoreInv'
<1>1. ASSUME NEW c \in Clients, ClientNext(c) PROVE RestoreInv'
      BY <1>1, BeforeTheLock, UnderTheLock, KilledKeeps DEF ClientNext
<1>2. CASE UNCHANGED <<client, holder, tree, backups, promised, torn>>
      BY <1>2 DEF RestoreInv, Swapping, InPlace, MovedAside, Aside
<1> QED
    BY <1>1, <1>2 DEF DeclaredNext, Change, LoseBlobs, declaredVars

(* For any number of clients, roots and failures, the output trees are those *)
(* of one successful restore as long as nobody restores and no restore was   *)
(* cut off half-way (restore.rs, declared_outputs).                          *)
THEOREM AllRootsOrNone == DeclaredSpec => []AllOrNothing
<1>1. ASSUME RestoreInv, holder = Nobody, ~torn PROVE tree = promised
      <2>1. \A c \in Clients : client[c].undo = <<>>
            BY <1>1, DeclaredAssumption DEF RestoreInv, Swapping
      <2>2. \A c \in Clients : Range(client[c].undo) = {}
            BY <2>1, UndoSequence
      <2>3. \A r \in Outer : tree[r] = promised[r]
            BY <1>1, <2>2 DEF RestoreInv, InPlace
      <2> QED
          BY <1>1, <2>3 DEF RestoreInv
<1>2. RestoreInv => AllOrNothing
      BY <1>1 DEF AllOrNothing
<1> QED
    BY <1>2, RecordStarts, RecordKeeps, RestoreStarts, RestoreKeeps, PTL DEF DeclaredSpec

(* For any number of clients, roots and failures, what a successful restore  *)
(* left is in place, or is kept aside by a running, killed or failed restore *)
(* (restore.rs, the preserved backup).                                       *)
THEOREM NothingIsLost == DeclaredSpec => []NothingLost
<1>1. ASSUME RestoreInv PROVE NothingLost
      BY <1>1 DEF RestoreInv, InPlace, MovedAside, Aside, NothingLost
<1> QED
    BY <1>1, RecordStarts, RecordKeeps, RestoreStarts, RestoreKeeps, PTL DEF DeclaredSpec

(* Only a finished restore ends in "restored".                               *)
LEMMA OnlyFinishRestores ==
  ASSUME RecordInv, DeclaredNext, NEW c \in Clients, Is(c, "swap"), client'[c].pc = "restored"
  PROVE  Finish(c)
<1> USE DEF Is
<1>1. DOMAIN client = Clients /\ \A d \in Clients : DOMAIN client[d] = Fields
      BY DEF RecordInv, ClientInv
<1>2. ASSUME NEW d \in Clients, ClientNext(d), d # c PROVE FALSE
      <2>1. client'[c] = client[c]
            BY <1>1, <1>2 DEF ClientNext, Collect, Find, Load, LoadFails, Run, CommandFails,
              ServerRuns, PutRecord, LoadNew, Lock, Finish, SwapFails, MoveOld, MoveNew, Undo,
              RolledBack, UndoFails, Killed, Again, Goes, Ends
      <2> QED
          BY <2>1
<1>3. ASSUME ClientNext(c) PROVE Finish(c)
      <2>1. \/ Finish(c) \/ SwapFails(c) \/ Killed(c)
            \/ \E r \in Outer : MoveOld(c, r) \/ MoveNew(c, r)
            BY <1>3 DEF ClientNext, Collect, Find, Load, LoadFails, Run, CommandFails,
              ServerRuns, PutRecord, LoadNew, Lock, Undo, RolledBack, UndoFails, Again
      <2>2. CASE SwapFails(c)
            BY <1>1, <2>2 DEF SwapFails, Goes, Fields
      <2>3. CASE Killed(c)
            BY <1>1, <2>3, WaitingIsIdle DEF Killed
      <2>4. ASSUME NEW r \in Outer, MoveNew(c, r) PROVE FALSE
            BY <1>1, <2>4 DEF MoveNew, Fields
      <2>5. ASSUME NEW r \in Outer, MoveOld(c, r) PROVE FALSE
            BY <1>1, <2>5 DEF MoveOld, Fields
      <2> QED
          BY <2>1, <2>2, <2>3, <2>4, <2>5
<1>4. UNCHANGED client => FALSE
      OBVIOUS
<1> QED
    BY <1>2, <1>3, <1>4 DEF DeclaredNext, Change, LoseBlobs

(* Whatever was in the workspace before, and whatever other clients do, a    *)
(* client that succeeds leaves below every root exactly what the command     *)
(* writes for the contents that client collected (restore.rs,                *)
(* declared_outputs).                                                        *)
THEOREM RestoresItsKey == DeclaredSpec => RestoresOwnKey
<1>1. ASSUME RecordInv, RestoreInv, DeclaredNext, NEW c \in Clients,
             Is(c, "swap"), client'[c].pc = "restored", NEW r \in Outer
      PROVE  tree[r].files = [f \in {g \in Writes(client[c].got) : IsPrefix(r, g)}
                                |-> client[c].got]
      <2>1. client[c].done = Outer
            BY <1>1, OnlyFinishRestores DEF Finish
      <2>2. tree[r] = Below(client[c].record, r)
            <3>1. Swapping(c) /\ client[c].pc = "swap"
                  BY <1>1 DEF RestoreInv, Is
            <3>2. /\ client[c].new = [q \in Outer |-> Below(client[c].record, q)]
                  /\ tree[r] = client[c].new[r]
                  BY <2>1, <3>1 DEF Swapping
            <3> QED
                BY <3>2
      <2>3. client[c].record.outputs = [f \in Writes(client[c].got) |-> client[c].got]
            BY <1>1 DEF RecordInv, ClientInv, HasMade, MadeFrom, Is
      <2> QED
          BY <2>2, <2>3 DEF Below
<1> DEFINE Step == \A c \in Clients :
                     Is(c, "swap") /\ client'[c].pc = "restored" =>
                       \A r \in Outer :
                         tree[r].files = [f \in {g \in Writes(client[c].got) : IsPrefix(r, g)}
                                            |-> client[c].got]
<1>2. RecordInv /\ RestoreInv /\ [DeclaredNext]_declaredVars => [Step]_declaredVars
      BY <1>1
<1> QED
    BY <1>2, RecordStarts, RecordKeeps, RestoreStarts, RestoreKeeps, PTL
    DEF DeclaredSpec, RestoresOwnKey
=============================================================================
