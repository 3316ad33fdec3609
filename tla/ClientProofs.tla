---------------------------- MODULE ClientProofs -----------------------------
(***************************************************************************)
(* The small parts of the client, for any number of versions, builds,      *)
(* writers, events, packages and failures: a finished unit starts the      *)
(* script that was compiled for it (Launcher); a reader of the event log   *)
(* is given the latest events (EventLog); exactly the packages that a      *)
(* change reaches are affected (Impact).                                   *)
(***************************************************************************)
EXTENDS Launcher, EventLog, Impact, TLAPS, WellFoundedInduction, FiniteSetTheorems

(* The launcher of a build script. *)

Steps == {"idle", "remove record", "remove script", "remove real", "compile", "move", "copy",
          "undo", "record"}

Files == Scripts \cup {NoFile, "launcher", "partial"}
Units == [script : Files, real : Files, record : BOOLEAN]

(* The types; the counters only bound the runs. *)
LauncherTypeOK ==
  /\ unit \in Units
  /\ step \in Steps
  /\ current \in Scripts /\ fresh \in Scripts \cup {NoFile} /\ stranded \in BOOLEAN

(* Where the script of this build is while the wrapper installs a launcher,  *)
(* and that Cargo holds no unit to be finished meanwhile.                    *)
Installing ==
  /\ step # "idle" => fresh = NoFile
  /\ step = "move" => unit.script = current
  /\ step \in {"copy", "undo", "record"} => unit.real = current
  /\ step = "record" => unit.script = "launcher"

LauncherInv == LauncherTypeOK /\ Installing /\ RunsLatest

-----------------------------------------------------------------------------
(* The directory is empty at first. *)
LEMMA LauncherStarts == LauncherInit => LauncherInv
<1> SUFFICES ASSUME LauncherInit PROVE LauncherInv
    OBVIOUS
<1> USE DEF LauncherInit
<1>1. stranded \in BOOLEAN /\ unit.record \in BOOLEAN
      BY Zenon
<1>2. LauncherTypeOK
      BY <1>1 DEF LauncherTypeOK, Units, Files, Steps
<1>3. Installing /\ RunsLatest
      BY DEF Installing, RunsLatest
<1> QED
    BY <1>2, <1>3 DEF LauncherInv

(* What writing or removing the record leaves. *)
LEMMA Marks ==
  ASSUME NEW b \in BOOLEAN, unit \in Units,
         unit' = [unit EXCEPT !.record = b]
  PROVE  /\ unit' \in Units
         /\ unit'.script = unit.script /\ unit'.real = unit.real /\ unit'.record = b
BY DEF Units

(* Every step of the wrapper, every failure and every kill keeps it. *)
LEMMA LauncherKeeps == LauncherInv /\ [LauncherNext]_launcherVars => LauncherInv'
<1> SUFFICES ASSUME LauncherInv, [LauncherNext]_launcherVars PROVE LauncherInv'
    OBVIOUS
<1> USE LauncherAssumption
    DEF LauncherInv, LauncherTypeOK, Installing, RunsLatest, Started, Steps
<1>1. ASSUME NEW s \in Scripts, Build(s) PROVE LauncherInv'
      <2>1. /\ stranded' \in BOOLEAN /\ step' \in {"remove record", "compile"}
            /\ fresh' = NoFile /\ current' = s /\ UNCHANGED unit
            BY <1>1, Zenon DEF Build
      <2>2. LauncherTypeOK'
            BY <2>1
      <2> QED
          BY <2>1, <2>2
<1>2. CASE RemoveLauncher
      <2>1. ASSUME unit' = [unit EXCEPT !.record = FALSE], step = "remove record"
            PROVE  LauncherInv'
            BY <1>2, <2>1, Marks DEF RemoveLauncher, Moves
      <2>2. ASSUME step # "remove record" PROVE LauncherInv'
            BY <1>2, <2>2 DEF RemoveLauncher, Moves, Units, Files
      <2> QED
          BY <1>2, <2>1, <2>2 DEF RemoveLauncher, Moves
<1>3. CASE RemoveFails
      <2>1. /\ step # "idle" /\ step' \in {"remove script", "remove real", "compile"}
            /\ UNCHANGED <<unit, current, fresh, stranded>>
            BY <1>3 DEF RemoveFails, Moves
      <2>2. LauncherTypeOK'
            BY <2>1
      <2> QED
          BY <2>1, <2>2
<1>4. CASE Compile
      BY <1>4 DEF Compile, Moves, Units, Files
<1>5. CASE MoveAside
      BY <1>5 DEF MoveAside, Moves, Ended, Units, Files
<1>6. CASE Copy
      BY <1>6 DEF Copy, Moves, Units, Files
<1>7. CASE CopyFails
      BY <1>7 DEF CopyFails, Moves, Units, Files
<1>8. CASE MoveBack
      BY <1>8 DEF MoveBack, Ended, Units, Files
<1>9. CASE MoveBackFails
      BY <1>9 DEF MoveBackFails, Ended, Units, Files
<1>10. CASE WriteRecord
      <2>1. /\ unit' \in Units
            /\ unit'.script = unit.script /\ unit'.real = unit.real /\ unit'.record = TRUE
            BY <1>10, Marks DEF WriteRecord, Ended
      <2>2. stranded' \in BOOLEAN /\ unit'.record
            BY <1>10, <2>1, Zenon DEF WriteRecord, Ended
      <2> QED
          BY <1>10, <2>1, <2>2 DEF WriteRecord, Ended
<1>11. CASE RecordFails
      <2>1. stranded' \in BOOLEAN /\ (~stranded' => unit'.record)
            BY <1>11, Zenon DEF RecordFails, Ended
      <2> QED
          BY <1>11, <2>1 DEF RecordFails, Ended
<1>12. CASE WrapperKilled
      <2>1. /\ step # "idle" /\ step' = "idle"
            /\ UNCHANGED <<unit, current, fresh, stranded>>
            BY <1>12 DEF WrapperKilled, Moves
      <2>2. LauncherTypeOK'
            BY <2>1
      <2> QED
          BY <2>1, <2>2
<1>13. CASE UNCHANGED launcherVars
      BY <1>13 DEF launcherVars
<1> QED
    BY <1>1, <1>2, <1>3, <1>4, <1>5, <1>6, <1>7, <1>8, <1>9, <1>10, <1>11, <1>12, <1>13
    DEF LauncherNext

(* What Cargo starts for a finished unit is the script compiled for it, for  *)
(* any number of builds, failures and kills (install_launcher and            *)
(* remove_launcher of build_script.rs).                                      *)
THEOREM StartsLatestScript == LauncherSpec => []RunsLatest
<1>1. LauncherInv => RunsLatest
      BY DEF LauncherInv
<1> QED
    BY LauncherStarts, LauncherKeeps, <1>1, PTL DEF LauncherSpec

-----------------------------------------------------------------------------
(* Recursion over a sequence.  The library's induction theorem takes a      *)
(* predicate as a parameter; this one takes a set.                          *)

(* A set with 0 and the successor of each natural in it has all naturals.   *)
LEMMA Induction ==
  ASSUME NEW S, 0 \in S, \A n \in Nat : n \in S => n + 1 \in S
  PROVE  \A n \in Nat : n \in S
<1> SUFFICES ASSUME Nat \ S # {} PROVE FALSE
    OBVIOUS
<1>1. \E n \in Nat \ S : \A m \in Nat \ S : ~ (<<m, n>> \in OpToRel(<, Nat))
      BY NatLessThanWellFounded, WFMin
<1>2. \A m, n \in Nat : <<m, n>> \in OpToRel(<, Nat) <=> m < n
      BY DEF OpToRel
<1>3. PICK n \in Nat \ S : \A m \in Nat \ S : ~ (m < n)
      BY <1>1, <1>2
<1>4. n # 0 /\ n - 1 \in Nat /\ n - 1 < n
      BY <1>3
<1>5. n - 1 \in S
      BY <1>3, <1>4
<1>6. (n - 1) + 1 \in S
      BY <1>4, <1>5
<1> QED
    BY <1>3, <1>6

(* The recursive function in Events exists, and is what it says. *)
LEMMA EventsSteps ==
  ASSUME NEW lines, Len(lines) \in Nat
  PROVE  \E kept :
           /\ Events(lines) = kept[Len(lines)]
           /\ kept[0] = <<>>
           /\ \A n \in 1 .. Len(lines) :
                kept[n] = IF lines[n].event # 0 THEN Append(kept[n - 1], lines[n]) ELSE kept[n - 1]
<1> DEFINE Step(f, n) == IF n = 0 THEN <<>>
                         ELSE IF lines[n].event # 0 THEN Append(f[n - 1], lines[n]) ELSE f[n - 1]
           Recursive(f, m) == f = [n \in 0 .. m |-> Step(f, n)]
           S == {m \in Nat : \E f : Recursive(f, m)}
<1>1. 0 \in S
      <2>1. Recursive([n \in 0 .. 0 |-> <<>>], 0)
            OBVIOUS
      <2> QED
          BY <2>1
<1>2. ASSUME NEW m \in Nat, m \in S PROVE m + 1 \in S
      <2>1. PICK f : Recursive(f, m)
            BY <1>2
      <2> DEFINE g == [n \in 0 .. m + 1 |-> IF n <= m THEN f[n] ELSE Step(f, m + 1)]
      <2>2. ASSUME NEW n \in 0 .. m + 1 PROVE g[n] = Step(g, n)
            <3>1. CASE n = m + 1
                  <4>1. g[n] = Step(f, m + 1) /\ g[n - 1] = f[n - 1]
                        BY <3>1
                  <4> QED
                      BY <4>1, <3>1
            <3>2. CASE n <= m
                  <4>1. g[n] = f[n] /\ (n # 0 => g[n - 1] = f[n - 1])
                        BY <3>2
                  <4>2. f[n] = Step(f, n)
                        <5> HIDE DEF Step
                        <5> QED
                            BY <2>1, <3>2
                  <4> QED
                      BY <4>1, <4>2
            <3> QED
                BY <3>1, <3>2
      <2>3. g = [n \in 0 .. m + 1 |-> g[n]]
            OBVIOUS
      <2>4. Recursive(g, m + 1)
            <3> HIDE DEF g, Step
            <3> QED
                BY <2>2, <2>3
      <2> HIDE DEF g, Recursive
      <2> QED
          BY <2>4
<1>3. \E f : Recursive(f, Len(lines))
      <2> HIDE DEF S
      <2>1. Len(lines) \in S
            BY <1>1, <1>2, Induction
      <2> QED
          BY <2>1 DEF S
<1> DEFINE kept == CHOOSE f : Recursive(f, Len(lines))
<1>4. Events(lines) = kept[Len(lines)]
      BY DEF Events
<1>5. \A n \in 0 .. Len(lines) : kept[n] = Step(kept, n)
      <2>1. Recursive(kept, Len(lines))
            BY <1>3
      <2> HIDE DEF Step, kept
      <2> QED
          BY <2>1
<1>6. kept[0] = <<>>
      BY <1>5
<1>7. \A n \in 1 .. Len(lines) :
        kept[n] = IF lines[n].event # 0 THEN Append(kept[n - 1], lines[n]) ELSE kept[n - 1]
      <2> HIDE DEF kept
      <2> QED
          BY <1>5
<1> HIDE DEF kept, Recursive, Step
<1> QED
    BY <1>4, <1>6, <1>7

LogLines == [event : Nat, ended : BOOLEAN]

(* The lines of a sequence are numbered upwards, those cut off aside. *)
Upwards(lines) ==
  \A i, j \in 1 .. Len(lines) :
    i < j /\ lines[i].event # 0 /\ lines[j].event # 0 => lines[i].event < lines[j].event

(* Just the events behind lo up to hi have a line, those that are gone aside. *)
Between(lines, lo, hi, gone) ==
  /\ \A i \in 1 .. Len(lines) :
       lines[i].event # 0 => lines[i].event \in lo + 1 .. hi /\ lines[i].event \notin gone
  /\ \A e \in lo + 1 .. hi : e \in gone \/ \E i \in 1 .. Len(lines) : lines[i].event = e

(* What a reader takes from such lines is such lines, and they all parse. *)
LEMMA EventsKeep ==
  ASSUME NEW lines \in Seq(LogLines), Upwards(lines),
         NEW lo \in Nat, NEW hi \in Nat, NEW gone, Between(lines, lo, hi, gone)
  PROVE  LET r == Events(lines) IN
         /\ r \in Seq(LogLines) /\ Upwards(r) /\ Between(r, lo, hi, gone)
         /\ \A i \in 1 .. Len(r) : r[i].event # 0
<1>1. PICK kept : /\ Events(lines) = kept[Len(lines)]
                  /\ kept[0] = <<>>
                  /\ \A n \in 1 .. Len(lines) :
                       kept[n] = IF lines[n].event # 0 THEN Append(kept[n - 1], lines[n])
                                 ELSE kept[n - 1]
      BY EventsSteps
<1> DEFINE From(n) == \A i \in 1 .. Len(kept[n]) :
                        \E a \in 1 .. n : lines[a].event # 0 /\ kept[n][i] = lines[a]
           All(n) == \A a \in 1 .. n :
                       lines[a].event # 0 => \E i \in 1 .. Len(kept[n]) : kept[n][i] = lines[a]
           Ok(n) == kept[n] \in Seq(LogLines) /\ From(n) /\ All(n) /\ Upwards(kept[n])
           S == {n \in Nat : n <= Len(lines) => Ok(n)}
<1>2. Ok(0)
      <2>1. kept[0] \in Seq(LogLines) /\ Len(kept[0]) = 0 /\ 1 .. Len(kept[0]) = {} /\ 1 .. 0 = {}
            BY <1>1
      <2>2. From(0) /\ All(0) /\ Upwards(kept[0])
            BY <2>1 DEF Upwards
      <2> HIDE DEF From, All
      <2> QED
          BY <2>1, <2>2
<1>3. ASSUME NEW n \in Nat, n + 1 <= Len(lines), Ok(n) PROVE Ok(n + 1)
      <2> DEFINE q == kept[n]
                 r == kept[n + 1]
                 line == lines[n + 1]
      <2>1. n + 1 \in 1 .. Len(lines) /\ (n + 1) - 1 = n
            BY <1>3
      <2>2. r = (IF line.event # 0 THEN Append(q, line) ELSE q) /\ line \in LogLines
            BY <1>1, <2>1
      <2>3. q \in Seq(LogLines) /\ From(n) /\ All(n) /\ Upwards(q)
            BY <1>3
      <2>4. CASE line.event = 0
            <3>1. r = q
                  BY <2>2, <2>4
            <3>2. From(n + 1)
                  BY <3>1, <2>3
            <3>3. All(n + 1)
                  BY <3>1, <2>3, <2>4
            <3> HIDE DEF From, All
            <3> QED
                BY <3>1, <3>2, <3>3, <2>3
      <2>5. CASE line.event # 0
            <3>1. /\ r \in Seq(LogLines) /\ Len(r) = Len(q) + 1 /\ Len(q) \in Nat
                  /\ \A i \in 1 .. Len(q) : r[i] = q[i]
                  /\ r[Len(q) + 1] = line
                  <4> HIDE DEF q, r, line
                  <4> QED
                      BY <2>2, <2>3, <2>5
            <3>2. From(n + 1)
                  <4> SUFFICES ASSUME NEW i \in 1 .. Len(r)
                               PROVE  \E a \in 1 .. n + 1 : lines[a].event # 0 /\ r[i] = lines[a]
                      OBVIOUS
                  <4>1. CASE i = Len(q) + 1
                        BY <4>1, <3>1, <2>5
                  <4>2. CASE i # Len(q) + 1
                        <5>1. i \in 1 .. Len(q)
                              BY <4>2, <3>1
                        <5>2. PICK a \in 1 .. n : lines[a].event # 0 /\ q[i] = lines[a]
                              BY <5>1, <2>3
                        <5> QED
                            BY <5>1, <5>2, <3>1
                  <4> QED
                      BY <4>1, <4>2
            <3>3. All(n + 1)
                  <4> SUFFICES ASSUME NEW a \in 1 .. n + 1, lines[a].event # 0
                               PROVE  \E i \in 1 .. Len(r) : r[i] = lines[a]
                      OBVIOUS
                  <4>1. CASE a = n + 1
                        <5>1. Len(q) + 1 \in 1 .. Len(r)
                              BY <3>1
                        <5> QED
                            BY <4>1, <5>1, <3>1
                  <4>2. CASE a # n + 1
                        <5>1. PICK i \in 1 .. Len(q) : q[i] = lines[a]
                              BY <4>2, <2>3
                        <5>2. i \in 1 .. Len(r) /\ r[i] = q[i]
                              BY <5>1, <3>1
                        <5> QED
                            BY <5>1, <5>2
                  <4> QED
                      BY <4>1, <4>2
            <3>4. Upwards(r)
                  <4>1. ASSUME NEW i \in 1 .. Len(r), NEW j \in 1 .. Len(r), i < j,
                               r[i].event # 0, r[j].event # 0
                        PROVE  r[i].event < r[j].event
                        <5>1. i \in 1 .. Len(q) /\ r[i] = q[i]
                              BY <4>1, <3>1
                        <5>2. CASE j = Len(q) + 1
                              <6>1. PICK a \in 1 .. n : q[i] = lines[a]
                                    BY <5>1, <2>3
                              <6>2. r[j] = lines[n + 1]
                                    BY <5>2, <3>1
                              <6>3. a \in 1 .. Len(lines) /\ n + 1 \in 1 .. Len(lines) /\ a < n + 1
                                    BY <1>3
                              <6> QED
                                  BY <6>1, <6>2, <6>3, <5>1, <4>1 DEF Upwards
                        <5>3. CASE j # Len(q) + 1
                              <6>1. j \in 1 .. Len(q)
                                    BY <5>3, <3>1
                              <6>2. r[j] = q[j]
                                    BY <6>1, <3>1
                              <6> QED
                                  BY <6>1, <6>2, <5>1, <4>1, <2>3 DEF Upwards
                        <5> QED
                            BY <5>2, <5>3
                  <4> HIDE DEF r
                  <4> QED
                      BY <4>1 DEF Upwards
            <3> HIDE DEF From, All
            <3> QED
                BY <3>1, <3>2, <3>3, <3>4
      <2> QED
          BY <2>4, <2>5
<1>4. Ok(Len(lines))
      <2>0. Len(lines) \in Nat
            OBVIOUS
      <2> HIDE DEF Ok
      <2>1. 0 \in S
            BY <1>2
      <2>2. ASSUME NEW n \in Nat, n \in S PROVE n + 1 \in S
            BY <2>0, <2>2, <1>3
      <2> HIDE DEF S
      <2>3. Len(lines) \in S
            BY <2>0, <2>1, <2>2, Induction
      <2> QED
          BY <2>0, <2>3 DEF S
<1> DEFINE r == Events(lines)
<1>5. /\ r \in Seq(LogLines) /\ Upwards(r)
      /\ \A i \in 1 .. Len(r) : \E a \in 1 .. Len(lines) : lines[a].event # 0 /\ r[i] = lines[a]
      /\ \A a \in 1 .. Len(lines) : lines[a].event # 0 => \E i \in 1 .. Len(r) : r[i] = lines[a]
      BY <1>1, <1>4
<1> HIDE DEF r
<1>6. \A i \in 1 .. Len(r) : r[i].event # 0
      BY <1>5
<1>7. Between(r, lo, hi, gone)
      <2>1. ASSUME NEW i \in 1 .. Len(r)
            PROVE  r[i].event \in lo + 1 .. hi /\ r[i].event \notin gone
            <3>1. PICK a \in 1 .. Len(lines) : lines[a].event # 0 /\ r[i] = lines[a]
                  BY <1>5
            <3> QED
                BY <3>1 DEF Between
      <2>2. ASSUME NEW e \in lo + 1 .. hi, e \notin gone
            PROVE  \E i \in 1 .. Len(r) : r[i].event = e
            <3>1. PICK a \in 1 .. Len(lines) : lines[a].event = e
                  BY <2>2 DEF Between
            <3>2. e # 0
                  OBVIOUS
            <3>3. PICK i \in 1 .. Len(r) : r[i] = lines[a]
                  BY <3>1, <3>2, <1>5
            <3> QED
                BY <3>1, <3>3
      <2> QED
          BY <2>1, <2>2 DEF Between
<1> QED
    BY <1>5, <1>6, <1>7 DEF r

-----------------------------------------------------------------------------
(* The event log.  The three generations share out the events between the   *)
(* last one dropped and the last one written; what each has lines for, a    *)
(* rotation hands on, even if it is given up half-way.                      *)

(* A file's lines are those of the events behind lo up to hi, and it has no *)
(* more lines than these and the writes that were cut off account for.      *)
Covers(lines, lo, hi, gone, slack) ==
  /\ Upwards(lines) /\ Between(lines, lo, hi, gone)
  /\ Len(lines) <= (hi - lo) + slack
  /\ \A i \in 1 .. Len(lines) : ~lines[i].ended => lines[i].event = 0

(* What a reader has read. *)
Taken(lines, lo, hi, gone) ==
  /\ Upwards(lines) /\ Between(lines, lo, hi, gone)
  /\ \A i \in 1 .. Len(lines) : lines[i].event # 0

LogTypeOK ==
  /\ log \in [0 .. 2 -> Seq(LogLines) \cup {NoLog}]
  /\ owner \in Writers \cup {Free}
  /\ action \in {"none", "drop", "shift", "move", "write"}
  /\ view \in Seq(LogLines) \cup {NoLog}
  /\ left \in {{}, {0}, 0 .. 1, 0 .. 2}
  /\ events \in Nat /\ lost \subseteq 1 .. events /\ cuts \in Nat

(* A rotation is of a full file; nobody rotates or writes under a reader.    *)
Rotating ==
  /\ action \in {"drop", "shift", "move"} => Limit <= Len(Lines(0))
  /\ action = "shift" => log[2] = NoLog
  /\ action = "move" => log[1] = NoLog
  /\ left # {} => owner = Free /\ view # NoLog

(* Generation g has the events behind b[g + 1] up to b[g]. *)
Boundaries ==
  {b \in [0 .. 3 -> Nat] : b[3] <= b[2] /\ b[2] <= b[1] /\ b[1] <= b[0]}

Shared(b) ==
  /\ b[0] = events
  /\ \A g \in 0 .. 2 : Covers(Lines(g), b[g + 1], b[g], lost, cuts)
  /\ b[3] = 0 \/ b[3] + Limit <= events + cuts
  /\ \A g \in 0 .. 2 : left = 0 .. g => Taken(view, b[3], b[g + 1], lost)

LogInv == LogTypeOK /\ Rotating /\ \E b \in Boundaries : Shared(b)

(* No lines cover no events, or events that are all gone. *)
LEMMA NoneCovered ==
  ASSUME NEW lo \in Nat, NEW hi \in Nat, lo <= hi, NEW gone, NEW slack \in Nat
  PROVE  /\ lo = hi => Covers(<<>>, lo, hi, gone, slack) /\ Taken(<<>>, lo, hi, gone)
         /\ Covers(<<>>, lo, hi, gone, slack) => \A e \in lo + 1 .. hi : e \in gone
BY DEF Covers, Taken, Upwards, Between

(* More may be gone later, and more be cut off.  Events that are gone anyway *)
(* need no line.                                                             *)
LEMMA CoversWiden ==
  ASSUME NEW lines \in Seq(LogLines), NEW lo \in Nat, NEW hi \in Nat, NEW gone, NEW slack \in Nat,
         Covers(lines, lo, hi, gone, slack),
         NEW low \in 0 .. lo, \A e \in low + 1 .. lo : e \in gone,
         NEW after, gone \subseteq after, \A e \in after \ gone : e \in Int /\ e > hi,
         NEW more \in Nat, slack <= more
  PROVE  Covers(lines, low, hi, after, more)
<1>1. Len(lines) \in Nat /\ Len(lines) <= (hi - lo) + slack
      BY DEF Covers
<1>2. Len(lines) <= (hi - low) + more
      BY <1>1
<1>3. Between(lines, low, hi, after)
      <2>1. ASSUME NEW i \in 1 .. Len(lines), lines[i].event # 0
            PROVE  lines[i].event \in low + 1 .. hi /\ lines[i].event \notin after
            <3>1. lines[i].event \in lo + 1 .. hi /\ lines[i].event \notin gone
                  BY <2>1 DEF Covers, Between
            <3> QED
                BY <3>1
      <2>2. ASSUME NEW e \in low + 1 .. hi
            PROVE  e \in after \/ \E i \in 1 .. Len(lines) : lines[i].event = e
            <3>1. CASE e <= lo
                  BY <3>1
            <3>2. CASE e > lo
                  <4>1. e \in lo + 1 .. hi
                        BY <3>2
                  <4> QED
                      BY <4>1 DEF Covers, Between
            <3> QED
                BY <3>1, <3>2
      <2> QED
          BY <2>1, <2>2 DEF Between
<1> QED
    BY <1>2, <1>3 DEF Covers

(* One more line, of the next event or of none. *)
LEMMA CoversAppend ==
  ASSUME NEW lines \in Seq(LogLines), NEW lo \in Nat, NEW hi \in Nat, lo <= hi,
         NEW gone, NEW slack \in Nat, Covers(lines, lo, hi, gone, slack),
         NEW line \in LogLines, ~line.ended => line.event = 0
  PROVE  /\ Append(lines, line) \in Seq(LogLines)
         /\ line.event = 0 => Covers(Append(lines, line), lo, hi, gone, slack + 1)
         /\ line.event = hi + 1 /\ hi + 1 \notin gone =>
              Covers(Append(lines, line), lo, hi + 1, gone, slack)
<1> DEFINE r == Append(lines, line)
<1>1. /\ r \in Seq(LogLines) /\ Len(r) = Len(lines) + 1 /\ Len(lines) \in Nat
      /\ \A i \in 1 .. Len(lines) : r[i] = lines[i]
      /\ r[Len(lines) + 1] = line
      OBVIOUS
<1>2. /\ Len(lines) <= (hi - lo) + slack
      /\ Upwards(lines) /\ Between(lines, lo, hi, gone)
      /\ \A i \in 1 .. Len(lines) : ~lines[i].ended => lines[i].event = 0
      BY DEF Covers
<1> HIDE DEF r
<1>3. \A i \in 1 .. Len(r) : ~r[i].ended => r[i].event = 0
      BY <1>1, <1>2
<1>4. ASSUME line.event = 0 PROVE Covers(r, lo, hi, gone, slack + 1)
      <2>1. Upwards(r)
            <3>1. ASSUME NEW i \in 1 .. Len(r), r[i].event # 0
                  PROVE  i \in 1 .. Len(lines) /\ r[i] = lines[i]
                  <4>1. i # Len(lines) + 1
                        BY <3>1, <1>1, <1>4
                  <4> QED
                      BY <4>1, <1>1
            <3> QED
                BY <3>1, <1>2 DEF Upwards
      <2>2. Between(r, lo, hi, gone)
            <3>1. ASSUME NEW e \in lo + 1 .. hi, e \notin gone
                  PROVE  \E i \in 1 .. Len(r) : r[i].event = e
                  <4>1. PICK i \in 1 .. Len(lines) : lines[i].event = e
                        BY <3>1, <1>2 DEF Between
                  <4>2. i \in 1 .. Len(r) /\ r[i] = lines[i]
                        BY <4>1, <1>1
                  <4> QED
                      BY <4>1, <4>2
            <3>2. ASSUME NEW i \in 1 .. Len(r), r[i].event # 0
                  PROVE  r[i].event \in lo + 1 .. hi /\ r[i].event \notin gone
                  <4>1. i # Len(lines) + 1
                        BY <3>2, <1>1, <1>4
                  <4>2. i \in 1 .. Len(lines) /\ r[i] = lines[i]
                        BY <4>1, <1>1
                  <4> QED
                      BY <4>2, <3>2, <1>2 DEF Between
            <3> QED
                BY <3>1, <3>2 DEF Between
      <2>3. Len(r) <= (hi - lo) + (slack + 1)
            BY <1>1, <1>2
      <2> QED
          BY <2>1, <2>2, <2>3, <1>3 DEF Covers
<1>5. ASSUME line.event = hi + 1, hi + 1 \notin gone
      PROVE  Covers(r, lo, hi + 1, gone, slack)
      <2>1. Upwards(r)
            <3>1. ASSUME NEW i \in 1 .. Len(r), NEW j \in 1 .. Len(r), i < j,
                         r[i].event # 0, r[j].event # 0
                  PROVE  r[i].event < r[j].event
                  <4>1. i \in 1 .. Len(lines) /\ r[i] = lines[i] /\ lines[i].event <= hi
                        BY <3>1, <1>1, <1>2 DEF Between
                  <4>2. CASE j = Len(lines) + 1
                        <5>1. r[i].event \in lo + 1 .. hi
                              BY <4>1, <3>1, <1>2 DEF Between
                        <5>2. r[j].event = hi + 1
                              BY <4>2, <1>1, <1>5
                        <5> QED
                            BY <5>1, <5>2
                  <4>3. CASE j # Len(lines) + 1
                        <5>1. j \in 1 .. Len(lines) /\ r[j] = lines[j]
                              BY <4>3, <1>1
                        <5> QED
                            BY <4>1, <5>1, <3>1, <1>2 DEF Upwards
                  <4> QED
                      BY <4>2, <4>3
            <3> QED
                BY <3>1 DEF Upwards
      <2>2. Between(r, lo, hi + 1, gone)
            <3>1. ASSUME NEW e \in lo + 1 .. hi + 1, e \notin gone
                  PROVE  \E i \in 1 .. Len(r) : r[i].event = e
                  <4>1. CASE e = hi + 1
                        <5>1. Len(lines) + 1 \in 1 .. Len(r)
                              BY <1>1
                        <5> QED
                            BY <5>1, <4>1, <1>1, <1>5
                  <4>2. CASE e # hi + 1
                        <5>1. e \in lo + 1 .. hi
                              BY <4>2
                        <5>2. PICK i \in 1 .. Len(lines) : lines[i].event = e
                              BY <5>1, <3>1, <1>2 DEF Between
                        <5>3. i \in 1 .. Len(r) /\ r[i] = lines[i]
                              BY <5>2, <1>1
                        <5> QED
                            BY <5>2, <5>3
                  <4> QED
                      BY <4>1, <4>2
            <3>2. ASSUME NEW i \in 1 .. Len(r), r[i].event # 0
                  PROVE  r[i].event \in lo + 1 .. hi + 1 /\ r[i].event \notin gone
                  <4>1. CASE i = Len(lines) + 1
                        <5>1. r[i].event = hi + 1 /\ hi + 1 \in lo + 1 .. hi + 1
                              BY <4>1, <1>1, <1>5
                        <5> QED
                            BY <5>1, <1>5
                  <4>2. CASE i # Len(lines) + 1
                        <5>1. i \in 1 .. Len(lines) /\ r[i] = lines[i]
                              BY <4>2, <1>1
                        <5>2. r[i].event \in lo + 1 .. hi /\ r[i].event \notin gone
                              BY <5>1, <3>2, <1>2 DEF Between
                        <5> QED
                            BY <5>2
                  <4> QED
                      BY <4>1, <4>2
            <3> QED
                BY <3>1, <3>2 DEF Between
      <2>3. Len(r) <= ((hi + 1) - lo) + slack
            BY <1>1, <1>2
      <2> QED
          BY <2>1, <2>2, <2>3, <1>3 DEF Covers
<1> QED
    BY <1>1, <1>4, <1>5 DEF r

(* An event that runs into a line that was cut off is gone with it. *)
LEMMA CoversGlued ==
  ASSUME NEW lines \in Seq(LogLines), lines # <<>>, ~Last(lines).ended,
         NEW lo \in Nat, NEW hi \in Nat, lo <= hi,
         NEW gone, NEW slack \in Nat, Covers(lines, lo, hi, gone, slack)
  PROVE  /\ Append(Front(lines), Line(0)) \in Seq(LogLines)
         /\ Covers(Append(Front(lines), Line(0)), lo, hi + 1, gone \cup {hi + 1}, slack)
<1> DEFINE r == Append(Front(lines), Line(0))
           n == Len(lines)
<1>1. n \in Nat /\ n >= 1 /\ lines[n].event = 0
      <2>1. n \in Nat /\ n >= 1
            OBVIOUS
      <2> QED
          BY <2>1 DEF Covers, Last
<1>2. Line(0) \in LogLines /\ Line(0).event = 0 /\ Line(0).ended
      BY DEF Line, LogLines
<1> HIDE DEF n
<1>3. /\ r \in Seq(LogLines) /\ Len(r) = n
      /\ \A i \in 1 .. n - 1 : r[i] = lines[i]
      /\ r[n] = Line(0)
      <2> DEFINE f == Front(lines)
      <2>1. f \in Seq(LogLines) /\ Len(f) = n - 1 /\ \A i \in 1 .. n - 1 : f[i] = lines[i]
            <3>1. f = SubSeq(lines, 1, n - 1) /\ Len(lines) = n
                  BY DEF Front, n
            <3>2. n - 1 \in Nat /\ n - 1 <= n
                  BY <1>1
            <3> HIDE DEF f
            <3>3. Len(f) = n - 1
                  BY <3>1, <3>2
            <3>4. \A i \in 1 .. n - 1 : f[i] = lines[i]
                  BY <3>1, <3>2
            <3>5. f \in Seq(LogLines)
                  BY <3>1, <3>2
            <3> QED
                BY <3>3, <3>4, <3>5
      <2> HIDE DEF f
      <2>2. (n - 1) + 1 = n
            BY <1>1
      <2>3. r = Append(f, Line(0))
            BY DEF f
      <2> HIDE DEF r
      <2> QED
          BY <2>1, <2>2, <2>3, <1>1, <1>2
<1> HIDE DEF r
<1>4. /\ Len(lines) = n /\ n <= (hi - lo) + slack
      /\ Upwards(lines) /\ Between(lines, lo, hi, gone)
      /\ \A i \in 1 .. n : ~lines[i].ended => lines[i].event = 0
      BY DEF Covers, n
<1>5. Upwards(r)
      BY <1>1, <1>2, <1>3, <1>4 DEF Upwards
<1>6. Between(r, lo, hi + 1, gone \cup {hi + 1})
      <2>1. ASSUME NEW e \in lo + 1 .. hi + 1, e \notin gone \cup {hi + 1}
            PROVE  \E i \in 1 .. n : r[i].event = e
            <3>1. e \in lo + 1 .. hi /\ e # 0
                  BY <2>1
            <3>2. PICK i \in 1 .. n : lines[i].event = e
                  BY <3>1, <2>1, <1>4 DEF Between
            <3>3. i # n
                  BY <3>1, <3>2, <1>1
            <3>4. i \in 1 .. n - 1
                  BY <3>3, <1>1
            <3>5. r[i] = lines[i]
                  BY <3>4, <1>3
            <3> QED
                BY <3>2, <3>5
      <2>2. ASSUME NEW i \in 1 .. n, r[i].event # 0
            PROVE  r[i].event \in lo + 1 .. hi + 1 /\ r[i].event \notin gone \cup {hi + 1}
            <3>1. i # n
                  BY <2>2, <1>2, <1>3
            <3>2. r[i] = lines[i]
                  BY <3>1, <1>1, <1>3
            <3>3. r[i].event \in lo + 1 .. hi /\ r[i].event \notin gone
                  BY <3>2, <2>2, <1>4 DEF Between
            <3> QED
                BY <3>3
      <2> QED
          BY <2>1, <2>2, <1>3 DEF Between
<1>7. \A i \in 1 .. n : ~r[i].ended => r[i].event = 0
      BY <1>1, <1>2, <1>3, <1>4
<1>8. n <= ((hi + 1) - lo) + slack
      BY <1>1, <1>4
<1>9. Covers(r, lo, hi + 1, gone \cup {hi + 1}, slack)
      BY <1>3, <1>5, <1>6, <1>7, <1>8 DEF Covers
<1> QED
    BY <1>3, <1>9 DEF r

(* A reader adds what the next file has. *)
LEMMA TakenMore ==
  ASSUME NEW v \in Seq(LogLines), NEW r \in Seq(LogLines),
         NEW lo \in Nat, NEW mid \in Nat, NEW hi \in Nat, lo <= mid, mid <= hi, NEW gone,
         Taken(v, lo, mid, gone), Taken(r, mid, hi, gone)
  PROVE  v \o r \in Seq(LogLines) /\ Taken(v \o r, lo, hi, gone)
<1> DEFINE s == v \o r
           n == Len(v)
<1>1. /\ s \in Seq(LogLines) /\ Len(s) = n + Len(r) /\ n \in Nat /\ Len(r) \in Nat
      /\ \A i \in 1 .. n : s[i] = v[i]
      /\ \A i \in n + 1 .. n + Len(r) : s[i] = r[i - n]
      OBVIOUS
<1>2. /\ \A i \in 1 .. n : v[i].event \in lo + 1 .. mid /\ v[i].event \notin gone /\ v[i].event # 0
      /\ \A i \in 1 .. Len(r) : r[i].event \in mid + 1 .. hi /\ r[i].event \notin gone /\ r[i].event # 0
      BY DEF Taken, Between
<1> HIDE DEF s, n
<1>3. ASSUME NEW i \in 1 .. Len(s)
      PROVE  /\ s[i].event \in lo + 1 .. hi /\ s[i].event \notin gone /\ s[i].event # 0
             /\ i <= n => s[i].event <= mid /\ s[i] = v[i]
             /\ i > n => i - n \in 1 .. Len(r) /\ s[i] = r[i - n] /\ s[i].event > mid
      <2>1. CASE i <= n
            <3>1. i \in 1 .. n /\ s[i] = v[i]
                  BY <2>1, <1>1
            <3>2. v[i].event \in lo + 1 .. mid /\ v[i].event \notin gone /\ v[i].event # 0
                  BY <3>1, <1>2
            <3> QED
                BY <2>1, <3>1, <3>2, <1>1
      <2>2. CASE i > n
            <3>1. i - n \in 1 .. Len(r) /\ s[i] = r[i - n]
                  <4>1. i \in n + 1 .. n + Len(r)
                        BY <2>2, <1>1
                  <4>2. s[i] = r[i - n]
                        BY <4>1, <1>1
                  <4>3. i - n \in 1 .. Len(r)
                        BY <4>1, <1>1
                  <4> QED
                      BY <4>2, <4>3
            <3>2. r[i - n].event \in mid + 1 .. hi /\ r[i - n].event \notin gone /\ r[i - n].event # 0
                  BY <3>1, <1>2
            <3> QED
                BY <2>2, <3>1, <3>2, <1>1
      <2> QED
          BY <2>1, <2>2, <1>1
<1>4. ASSUME NEW i \in 1 .. Len(s), NEW j \in 1 .. Len(s), i < j
      PROVE  s[i].event < s[j].event
      <2>1. CASE j <= n
            <3>1. i \in 1 .. n /\ j \in 1 .. n
                  BY <2>1, <1>1, <1>4
            <3>2. s[i] = v[i] /\ s[j] = v[j]
                  BY <3>1, <1>1
            <3> QED
                BY <3>1, <3>2, <1>2, <1>4 DEF Taken, Upwards, n
      <2>2. CASE i > n
            <3> DEFINE k == i - n
                       l == j - n
            <3>1. k \in 1 .. Len(r) /\ s[i] = r[k]
                  BY <2>2, <1>3
            <3>2. j > n /\ k < l
                  BY <2>2, <1>1, <1>4
            <3>3. l \in 1 .. Len(r) /\ s[j] = r[l]
                  BY <3>2, <1>3
            <3> HIDE DEF k, l
            <3> QED
                BY <3>1, <3>2, <3>3, <1>2 DEF Taken, Upwards
      <2>3. CASE i <= n /\ j > n
            <3>1. /\ s[i].event <= mid /\ s[j].event > mid
                  /\ s[i].event \in Int /\ s[j].event \in Int
                  BY <2>3, <1>3
            <3> QED
                BY <3>1
      <2> QED
          BY <2>1, <2>2, <2>3, <1>1
<1>5. ASSUME NEW e \in lo + 1 .. hi, e \notin gone
      PROVE  \E i \in 1 .. Len(s) : s[i].event = e
      <2>1. CASE e <= mid
            <3>1. e \in lo + 1 .. mid
                  BY <2>1
            <3>2. PICK i \in 1 .. n : v[i].event = e
                  BY <3>1, <1>5 DEF Taken, Between, n
            <3>3. i \in 1 .. Len(s) /\ s[i] = v[i]
                  BY <3>2, <1>1
            <3> QED
                BY <3>2, <3>3
      <2>2. CASE e > mid
            <3>1. e \in mid + 1 .. hi
                  BY <2>2
            <3>2. PICK i \in 1 .. Len(r) : r[i].event = e
                  BY <3>1, <1>5 DEF Taken, Between
            <3>3. n + i \in n + 1 .. n + Len(r) /\ (n + i) - n = i
                  BY <3>2, <1>1
            <3>4. n + i \in 1 .. Len(s) /\ s[n + i] = r[i]
                  BY <3>3, <1>1
            <3> QED
                BY <3>2, <3>4
      <2> QED
          BY <2>1, <2>2
<1>6. Taken(s, lo, hi, gone)
      BY <1>3, <1>4, <1>5 DEF Taken, Upwards, Between
<1> QED
    BY <1>1, <1>6 DEF s

-----------------------------------------------------------------------------
(* What a generation's file, or none, has for lines. *)
File(f) == IF f = NoLog THEN <<>> ELSE f

LEMMA FilesHaveLines ==
  ASSUME LogTypeOK
  PROVE  /\ \A g \in 0 .. 2 : Lines(g) = File(log[g]) /\ Lines(g) \in Seq(LogLines)
         /\ File(NoLog) = <<>>
         /\ \A f \in Seq(LogLines) : File(f) = f
<1>1. NoLog \notin Seq(LogLines)
      BY EventLogAssumption DEF LogLines
<1>2. \A g \in 0 .. 2 : Lines(g) \in Seq(LogLines)
      <2>1. <<>> \in Seq(LogLines)
            OBVIOUS
      <2> QED
          BY <2>1 DEF LogTypeOK, Lines
<1> QED
    BY <1>1, <1>2 DEF Lines, File

(* A boundary is moved, and no other. *)
Moved(b, g, n) ==
  LET c == [b EXCEPT ![g] = n] IN
  c \in Boundaries /\ c[g] = n /\ \A h \in 0 .. 3 : h # g => c[h] = b[h]

(* A generation takes over the next one's events, or has new ones. *)
LEMMA BoundariesMove ==
  ASSUME NEW b \in Boundaries
  PROVE  /\ b[0] \in Nat /\ b[1] \in Nat /\ b[2] \in Nat /\ b[3] \in Nat
         /\ b[3] <= b[2] /\ b[2] <= b[1] /\ b[1] <= b[0]
         /\ Moved(b, 1, b[0]) /\ Moved(b, 2, b[1]) /\ Moved(b, 3, b[2])
         /\ \A n \in Nat : n >= b[0] => Moved(b, 0, n)
<1>1. /\ b \in [0 .. 3 -> Nat]
      /\ b[3] <= b[2] /\ b[2] <= b[1] /\ b[1] <= b[0]
      BY DEF Boundaries
<1>2. b[0] \in Nat /\ b[1] \in Nat /\ b[2] \in Nat /\ b[3] \in Nat
      BY <1>1
<1>3. ASSUME NEW g \in 0 .. 3, NEW n \in Nat,
             g = 0 => b[0] <= n,
             g = 1 => b[2] <= n /\ n <= b[0],
             g = 2 => b[3] <= n /\ n <= b[1],
             g = 3 => n <= b[2]
      PROVE  Moved(b, g, n)
      <2> DEFINE c == [b EXCEPT ![g] = n]
      <2>1. c \in [0 .. 3 -> Nat] /\ c[g] = n /\ \A h \in 0 .. 3 : h # g => c[h] = b[h]
            BY <1>1
      <2> HIDE DEF c
      <2>2. c[3] <= c[2] /\ c[2] <= c[1] /\ c[1] <= c[0]
            <3>1. g \in {0, 1, 2, 3}
                  OBVIOUS
            <3> QED
                BY <3>1, <2>1, <1>1, <1>2, <1>3
      <2>3. c \in Boundaries
            BY <2>1, <2>2 DEF Boundaries
      <2> QED
          BY <2>1, <2>3 DEF c, Moved
<1>4. Moved(b, 1, b[0]) /\ Moved(b, 2, b[1]) /\ Moved(b, 3, b[2])
      BY <1>1, <1>2, <1>3
<1>5. \A n \in Nat : n >= b[0] => Moved(b, 0, n)
      BY <1>1, <1>2, <1>3
<1> QED
    BY <1>1, <1>2, <1>4, <1>5

LEMMA LogStarts == LogInit => LogInv
<1> SUFFICES ASSUME LogInit PROVE LogInv
    OBVIOUS
<1> DEFINE b == [g \in 0 .. 3 |-> 0]
<1>1. LogTypeOK
      BY DEF LogInit, LogTypeOK
<1>2. Rotating
      BY DEF LogInit, Rotating
<1>3. b \in Boundaries /\ \A g \in 0 .. 3 : b[g] = 0
      BY DEF Boundaries
<1>4. \A g \in 0 .. 2 : Lines(g) = <<>>
      BY DEF LogInit, Lines
<1> HIDE DEF b
<1>5. Covers(<<>>, 0, 0, lost, cuts)
      BY NoneCovered DEF LogInit
<1>6. events = 0 /\ left = {}
      BY DEF LogInit
<1>7. \A g \in 0 .. 2 : b[g] = 0 /\ b[g + 1] = 0 /\ left # 0 .. g
      BY <1>3, <1>6
<1>8. Shared(b)
      BY <1>3, <1>4, <1>5, <1>6, <1>7 DEF Shared
<1> QED
    BY <1>1, <1>2, <1>3, <1>8 DEF LogInv

(* What LogInv says, for the proofs that follow. *)
LEMMA LogFacts ==
  ASSUME LogTypeOK, Rotating, NEW b \in Boundaries, Shared(b)
  PROVE  /\ b[0] = events /\ events \in Nat /\ cuts \in Nat /\ lost \subseteq 1 .. events
         /\ Covers(Lines(0), b[1], b[0], lost, cuts)
         /\ Covers(Lines(1), b[2], b[1], lost, cuts)
         /\ Covers(Lines(2), b[3], b[2], lost, cuts)
         /\ b[3] = 0 \/ b[3] + Limit <= events + cuts
         /\ owner # Free => left = {}
         /\ Limit \in Nat \ {0}
<1>1. \A g \in 0 .. 2 : Covers(Lines(g), b[g + 1], b[g], lost, cuts)
      BY DEF Shared
<1>2. /\ 0 \in 0 .. 2 /\ 1 \in 0 .. 2 /\ 2 \in 0 .. 2
      /\ 0 + 1 = 1 /\ 1 + 1 = 2 /\ 2 + 1 = 3
      OBVIOUS
<1>3. /\ Covers(Lines(0), b[1], b[0], lost, cuts)
      /\ Covers(Lines(1), b[2], b[1], lost, cuts)
      /\ Covers(Lines(2), b[3], b[2], lost, cuts)
      BY <1>1, <1>2
<1> QED
    BY <1>3, EventLogAssumption DEF Shared, LogTypeOK, Rotating

(* The steps that show it again. *)
LEMMA SharedAgain ==
  ASSUME NEW c \in Boundaries, c[0] = events',
         Covers(File(log'[0]), c[1], c[0], lost', cuts'),
         Covers(File(log'[1]), c[2], c[1], lost', cuts'),
         Covers(File(log'[2]), c[3], c[2], lost', cuts'),
         c[3] = 0 \/ c[3] + Limit <= events' + cuts',
         \A g \in 0 .. 2 : left' = 0 .. g => Taken(view', c[3], c[g + 1], lost')
  PROVE  Shared(c)'
<1>1. 0 + 1 = 1 /\ 1 + 1 = 2 /\ 2 + 1 = 3
      OBVIOUS
<1>2. ASSUME NEW g \in 0 .. 2
      PROVE  Covers(File(log'[g]), c[g + 1], c[g], lost', cuts')
      BY <1>1
<1> QED
    BY <1>2 DEF Shared, Lines, File

(* While somebody has the lock, nobody has anything left to read. *)
LEMMA NoReader ==
  ASSUME left = {}
  PROVE  \A g \in 0 .. 2 : left # 0 .. g
<1>1. \A g \in 0 .. 2 : 0 \in 0 .. g
      OBVIOUS
<1> QED
    BY <1>1

(* The steps that touch no file. *)
LEMMA QuietStep ==
  ASSUME LogTypeOK, Rotating, NEW b \in Boundaries, Shared(b),
         UNCHANGED <<log, events, lost, cuts>>,
         \A g \in 0 .. 2 : left' = 0 .. g => Taken(view', b[3], b[g + 1], lost)
  PROVE  Shared(b)'
<1>1. /\ File(log[0]) = Lines(0) /\ File(log[1]) = Lines(1) /\ File(log[2]) = Lines(2)
      BY FilesHaveLines
<1> QED
    BY <1>1, LogFacts, SharedAgain

(* Generation 2 is removed: its events are the ones that are dropped. *)
LEMMA DropStep ==
  ASSUME LogTypeOK, Rotating, NEW b \in Boundaries, Shared(b), NEW w \in Writers,
         Rotates(w, "drop", "shift", [log EXCEPT ![2] = NoLog])
  PROVE  LogTypeOK' /\ Rotating' /\ \E c \in Boundaries : Shared(c)'
<1> DEFINE c == [b EXCEPT ![3] = b[2]]
<1>1. /\ owner = w /\ action = "drop" /\ action' = "shift"
      /\ log' = [log EXCEPT ![2] = NoLog]
      /\ UNCHANGED <<owner, view, left, events, lost, cuts>>
      BY DEF Rotates, Holds
<1>2. /\ log' \in [0 .. 2 -> Seq(LogLines) \cup {NoLog}]
      /\ log'[0] = log[0] /\ log'[1] = log[1] /\ log'[2] = NoLog
      BY <1>1 DEF LogTypeOK
<1>3. LogTypeOK'
      BY <1>1, <1>2 DEF LogTypeOK
<1>4. Limit <= Len(Lines(0)) /\ left = {}
      BY <1>1, EventLogAssumption DEF Rotating
<1>5. Rotating'
      <2>1. log'[2] = NoLog /\ Lines(0)' = Lines(0)
            BY <1>2 DEF Lines
      <2> QED
          BY <1>1, <1>4, <2>1 DEF Rotating
<1>6. /\ File(log'[0]) = Lines(0) /\ File(log'[1]) = Lines(1) /\ File(log'[2]) = <<>>
      BY <1>2, FilesHaveLines
<1>7. /\ c \in Boundaries /\ c[0] = b[0] /\ c[1] = b[1] /\ c[2] = b[2] /\ c[3] = b[2]
      /\ b[0] \in Nat /\ b[1] \in Nat /\ b[2] \in Nat /\ b[2] <= b[1]
      <2>1. Moved(b, 3, b[2])
            BY BoundariesMove
      <2>2. c \in Boundaries /\ c[3] = b[2] /\ \A h \in 0 .. 3 : h # 3 => c[h] = b[h]
            BY <2>1 DEF Moved
      <2> HIDE DEF c
      <2> QED
          BY <2>2, BoundariesMove
<1> HIDE DEF c
<1>8. Covers(<<>>, b[2], b[2], lost, cuts)
      BY <1>7, LogFacts, NoneCovered
<1>9. c[3] + Limit <= events + cuts
      <2>1. Len(Lines(0)) <= (b[0] - b[1]) + cuts
            BY LogFacts DEF Covers
      <2>2. Len(Lines(0)) \in Nat
            BY FilesHaveLines
      <2> QED
          BY <2>1, <2>2, <1>4, <1>7, LogFacts
<1>10. \A g \in 0 .. 2 : left' # 0 .. g
      BY <1>1, <1>4, NoReader
<1>11. Shared(c)'
      BY <1>1, <1>6, <1>7, <1>8, <1>9, <1>10, LogFacts, SharedAgain
<1> QED
    BY <1>3, <1>5, <1>7, <1>11

(* Generation 1 becomes 2, if there is one. *)
LEMMA ShiftStep ==
  ASSUME LogTypeOK, Rotating, NEW b \in Boundaries, Shared(b), NEW w \in Writers,
         Rotates(w, "shift", "move", IF log[1] = NoLog THEN log
                                     ELSE [log EXCEPT ![1] = NoLog, ![2] = log[1]])
  PROVE  LogTypeOK' /\ Rotating' /\ \E c \in Boundaries : Shared(c)'
<1> DEFINE c == [b EXCEPT ![2] = b[1]]
<1>1. /\ owner = w /\ action = "shift" /\ action' = "move"
      /\ log' = IF log[1] = NoLog THEN log ELSE [log EXCEPT ![1] = NoLog, ![2] = log[1]]
      /\ UNCHANGED <<owner, view, left, events, lost, cuts>>
      BY DEF Rotates, Holds
<1>2. /\ log' \in [0 .. 2 -> Seq(LogLines) \cup {NoLog}]
      /\ log'[0] = log[0] /\ log'[1] = NoLog
      /\ log[1] # NoLog => log'[2] = log[1]
      /\ log[1] = NoLog => log' = log
      BY <1>1 DEF LogTypeOK
<1>3. LogTypeOK'
      BY <1>1, <1>2 DEF LogTypeOK
<1>4. Limit <= Len(Lines(0)) /\ left = {} /\ log[2] = NoLog
      BY <1>1, EventLogAssumption DEF Rotating
<1>5. Rotating'
      <2>1. Lines(0)' = Lines(0)
            BY <1>2 DEF Lines
      <2> QED
          BY <1>1, <1>2, <1>4, <2>1 DEF Rotating
<1>6. \A g \in 0 .. 2 : left' # 0 .. g
      BY <1>1, <1>4, NoReader
<1>7. CASE log[1] = NoLog
      <2>1. Shared(b)'
            BY <1>1, <1>2, <1>6, <1>7, QuietStep
      <2> QED
          BY <1>3, <1>5, <2>1
<1>8. CASE log[1] # NoLog
      <2>1. /\ File(log'[0]) = Lines(0) /\ File(log'[1]) = <<>> /\ File(log'[2]) = Lines(1)
            /\ Lines(2) = <<>> /\ Lines(1) \in Seq(LogLines)
            BY <1>2, <1>4, <1>8, FilesHaveLines
      <2>2. /\ c \in Boundaries /\ c[0] = b[0] /\ c[1] = b[1] /\ c[2] = b[1] /\ c[3] = b[3]
            /\ b[0] \in Nat /\ b[1] \in Nat /\ b[2] \in Nat /\ b[3] \in Nat
            /\ b[3] <= b[2] /\ b[2] <= b[1]
            <3>1. Moved(b, 2, b[1])
                  BY BoundariesMove
            <3>2. c \in Boundaries /\ c[2] = b[1] /\ \A h \in 0 .. 3 : h # 2 => c[h] = b[h]
                  BY <3>1 DEF Moved
            <3> HIDE DEF c
            <3> QED
                BY <3>2, BoundariesMove
      <2> HIDE DEF c
      <2>3. Covers(<<>>, b[1], b[1], lost, cuts)
            BY <2>2, LogFacts, NoneCovered
      <2>4. Covers(Lines(1), b[3], b[1], lost, cuts)
            <3>1. \A e \in b[3] + 1 .. b[2] : e \in lost
                  BY <2>1, <2>2, LogFacts, NoneCovered
            <3>2. b[3] \in 0 .. b[2]
                  BY <2>2
            <3>3. Covers(Lines(1), b[2], b[1], lost, cuts) /\ cuts \in Nat
                  BY LogFacts
            <3> QED
                BY <2>1, <2>2, <3>1, <3>2, <3>3, CoversWiden
      <2>5. Shared(c)'
            BY <1>1, <1>6, <2>1, <2>2, <2>3, <2>4, LogFacts, SharedAgain
      <2> QED
          BY <1>3, <1>5, <2>2, <2>5
<1> QED
    BY <1>7, <1>8

(* Generation 0 becomes 1. *)
LEMMA MoveStep ==
  ASSUME LogTypeOK, Rotating, NEW b \in Boundaries, Shared(b), NEW w \in Writers,
         Rotates(w, "move", "write", [log EXCEPT ![0] = NoLog, ![1] = log[0]])
  PROVE  LogTypeOK' /\ Rotating' /\ \E c \in Boundaries : Shared(c)'
<1> DEFINE c == [b EXCEPT ![1] = b[0]]
<1>1. /\ owner = w /\ action = "move" /\ action' = "write"
      /\ log' = [log EXCEPT ![0] = NoLog, ![1] = log[0]]
      /\ UNCHANGED <<owner, view, left, events, lost, cuts>>
      BY DEF Rotates, Holds
<1>2. /\ log' \in [0 .. 2 -> Seq(LogLines) \cup {NoLog}]
      /\ log'[0] = NoLog /\ log'[1] = log[0] /\ log'[2] = log[2]
      BY <1>1 DEF LogTypeOK
<1>3. LogTypeOK'
      BY <1>1, <1>2 DEF LogTypeOK
<1>4. left = {} /\ log[1] = NoLog
      BY <1>1, EventLogAssumption DEF Rotating
<1>5. Rotating'
      BY <1>1, <1>4 DEF Rotating
<1>6. \A g \in 0 .. 2 : left' # 0 .. g
      BY <1>1, <1>4, NoReader
<1>7. /\ File(log'[0]) = <<>> /\ File(log'[1]) = Lines(0) /\ File(log'[2]) = Lines(2)
      /\ Lines(1) = <<>> /\ Lines(0) \in Seq(LogLines)
      BY <1>2, <1>4, FilesHaveLines
<1>8. /\ c \in Boundaries /\ c[0] = b[0] /\ c[1] = b[0] /\ c[2] = b[2] /\ c[3] = b[3]
      /\ b[0] \in Nat /\ b[1] \in Nat /\ b[2] \in Nat
      /\ b[2] <= b[1] /\ b[1] <= b[0]
      <2>1. Moved(b, 1, b[0])
            BY BoundariesMove
      <2>2. c \in Boundaries /\ c[1] = b[0] /\ \A h \in 0 .. 3 : h # 1 => c[h] = b[h]
            BY <2>1 DEF Moved
      <2> HIDE DEF c
      <2> QED
          BY <2>2, BoundariesMove
<1> HIDE DEF c
<1>9. Covers(<<>>, b[0], b[0], lost, cuts)
      BY <1>8, LogFacts, NoneCovered
<1>10. Covers(Lines(0), b[2], b[0], lost, cuts)
      <2>1. \A e \in b[2] + 1 .. b[1] : e \in lost
            BY <1>7, <1>8, LogFacts, NoneCovered
      <2>2. b[2] \in 0 .. b[1]
            BY <1>8
      <2>3. Covers(Lines(0), b[1], b[0], lost, cuts) /\ cuts \in Nat
            BY LogFacts
      <2> QED
          BY <1>7, <1>8, <2>1, <2>2, <2>3, CoversWiden
<1>11. Shared(c)'
      BY <1>1, <1>6, <1>7, <1>8, <1>9, <1>10, LogFacts, SharedAgain
<1> QED
    BY <1>3, <1>5, <1>8, <1>11

(* An event is written, or runs into the line that was cut off. *)
LEMMA WriteStep ==
  ASSUME LogTypeOK, Rotating, NEW b \in Boundaries, Shared(b), NEW w \in Writers, WriteEvent(w)
  PROVE  LogTypeOK' /\ Rotating' /\ \E c \in Boundaries : Shared(c)'
<1> DEFINE new == IF CutOff THEN Append(Front(Lines(0)), Line(0))
                  ELSE Append(Lines(0), Line(events + 1))
<1>1. /\ owner = w /\ owner' = Free /\ action' = "none"
      /\ events' = events + 1 /\ lost' = IF CutOff THEN lost \cup {events + 1} ELSE lost
      /\ UNCHANGED <<view, left, cuts>>
      BY DEF WriteEvent, Holds, Unlock
<1>2. left = {}
      BY <1>1, EventLogAssumption DEF Rotating
<1>3. log' = [log EXCEPT ![0] = new]
      <2>1. CutOff => log[0] = Lines(0)
            BY DEF CutOff, Lines
      <2> QED
          BY <2>1 DEF WriteEvent
<1>4. /\ b[0] = events /\ events \in Nat /\ cuts \in Nat /\ lost \subseteq 1 .. events
      /\ Covers(Lines(0), b[1], events, lost, cuts)
      /\ Covers(Lines(1), b[2], b[1], lost, cuts)
      /\ Covers(Lines(2), b[3], b[2], lost, cuts)
      /\ b[3] = 0 \/ b[3] + Limit <= events + cuts
      /\ Limit \in Nat
      BY LogFacts
<1>5. /\ Lines(0) \in Seq(LogLines) /\ Lines(1) \in Seq(LogLines) /\ Lines(2) \in Seq(LogLines)
      /\ Lines(1) = File(log[1]) /\ Lines(2) = File(log[2])
      BY FilesHaveLines
<1>6. /\ b[0] \in Nat /\ b[1] \in Nat /\ b[2] \in Nat /\ b[3] \in Nat
      /\ b[3] <= b[2] /\ b[2] <= b[1] /\ b[1] <= b[0]
      BY BoundariesMove
<1>7. new \in Seq(LogLines) /\ Covers(new, b[1], events + 1, lost', cuts)
      <2>1. CASE CutOff
            <3>1. Lines(0) # <<>> /\ ~Last(Lines(0)).ended
                  BY <2>1 DEF CutOff
            <3>2. /\ Append(Front(Lines(0)), Line(0)) \in Seq(LogLines)
                  /\ Covers(Append(Front(Lines(0)), Line(0)), b[1], events + 1,
                            lost \cup {events + 1}, cuts)
                  BY <3>1, <1>4, <1>5, <1>6, CoversGlued
            <3> QED
                BY <3>2, <2>1, <1>1
      <2>2. CASE ~CutOff
            <3> DEFINE line == Line(events + 1)
            <3>1. line \in LogLines /\ line.ended /\ line.event = events + 1
                  BY <1>4 DEF Line, LogLines
            <3>2. events + 1 \notin lost
                  BY <1>4
            <3>3. new = Append(Lines(0), line) /\ lost' = lost
                  BY <2>2, <1>1
            <3> HIDE DEF line, new
            <3>4. /\ Append(Lines(0), line) \in Seq(LogLines)
                  /\ Covers(Append(Lines(0), line), b[1], events + 1, lost, cuts)
                  BY <3>1, <3>2, <1>4, <1>5, <1>6, CoversAppend
            <3> QED
                BY <3>3, <3>4
      <2> QED
          BY <2>1, <2>2
<1> HIDE DEF new
<1>8. /\ log' \in [0 .. 2 -> Seq(LogLines) \cup {NoLog}]
      /\ log'[0] = new /\ log'[1] = log[1] /\ log'[2] = log[2]
      BY <1>3, <1>7 DEF LogTypeOK
<1>9. lost' \subseteq 1 .. events + 1 /\ lost \subseteq lost'
      /\ \A e \in lost' \ lost : e = events + 1
      BY <1>1, <1>4
<1>10. LogTypeOK'
      BY <1>1, <1>4, <1>8, <1>9 DEF LogTypeOK
<1>11. Rotating'
      BY <1>1, <1>2 DEF Rotating
<1>12. File(log'[0]) = new /\ File(log'[1]) = Lines(1) /\ File(log'[2]) = Lines(2)
      BY <1>5, <1>7, <1>8, FilesHaveLines
<1>13. PICK c \in Boundaries : c[0] = events + 1 /\ c[1] = b[1] /\ c[2] = b[2] /\ c[3] = b[3]
      <2>1. Moved(b, 0, events + 1)
            <3>1. events + 1 \in Nat /\ events + 1 >= b[0]
                  BY <1>4
            <3> QED
                BY <3>1, BoundariesMove
      <2>2. \E c \in Boundaries : c[0] = events + 1 /\ \A h \in 0 .. 3 : h # 0 => c[h] = b[h]
            BY <2>1 DEF Moved
      <2> QED
          BY <2>2
<1>14. ASSUME NEW lines \in Seq(LogLines), NEW lo \in Nat, NEW hi \in Nat, hi <= events,
              Covers(lines, lo, hi, lost, cuts)
       PROVE  Covers(lines, lo, hi, lost', cuts)
      <2>1. \A e \in lost' \ lost : e \in Int /\ e > hi
            BY <1>4, <1>9, <1>14
      <2>2. lo \in 0 .. lo /\ \A e \in lo + 1 .. lo : e \in lost
            OBVIOUS
      <2>3. \A after : /\ lost \subseteq after
                       /\ \A e \in after \ lost : e \in Int /\ e > hi
                       => Covers(lines, lo, hi, after, cuts)
            <3>1. cuts \in Nat /\ cuts <= cuts
                  BY <1>4
            <3> QED
                BY <2>2, <3>1, <1>14, CoversWiden
      <2> QED
          BY <2>1, <2>3, <1>9
<1>15. Covers(Lines(1), b[2], b[1], lost', cuts) /\ Covers(Lines(2), b[3], b[2], lost', cuts)
      <2>1. b[1] <= events /\ b[2] <= events
            BY <1>4, <1>6
      <2> QED
          BY <2>1, <1>4, <1>5, <1>6, <1>14
<1>16. b[3] = 0 \/ b[3] + Limit <= (events + 1) + cuts
      BY <1>4, <1>6
<1>17. \A g \in 0 .. 2 : left' # 0 .. g
      BY <1>1, <1>2, NoReader
<1>18. Shared(c)'
      BY <1>1, <1>7, <1>12, <1>13, <1>15, <1>16, <1>17, SharedAgain
<1> QED
    BY <1>10, <1>11, <1>18

(* A writer is interrupted: half a line may be left behind. *)
LEMMA CutStep ==
  ASSUME LogTypeOK, Rotating, NEW b \in Boundaries, Shared(b), NEW w \in Writers,
         NEW half \in BOOLEAN, Cut(w, half)
  PROVE  LogTypeOK' /\ Rotating' /\ \E c \in Boundaries : Shared(c)'
<1> DEFINE new == IF half /\ ~CutOff THEN Append(Lines(0), Fragment) ELSE Lines(0)
<1>1. /\ owner = w /\ owner' = Free /\ action' = "none" /\ cuts' = cuts + 1
      /\ log' = IF half /\ ~CutOff THEN [log EXCEPT ![0] = Append(Lines(0), Fragment)] ELSE log
      /\ UNCHANGED <<view, left, events, lost>>
      BY DEF Cut, Unlock
<1>2. left = {}
      BY <1>1, EventLogAssumption DEF Rotating
<1>3. /\ b[0] = events /\ events \in Nat /\ cuts \in Nat
      /\ Covers(Lines(0), b[1], b[0], lost, cuts)
      /\ Covers(Lines(1), b[2], b[1], lost, cuts)
      /\ Covers(Lines(2), b[3], b[2], lost, cuts)
      /\ b[3] = 0 \/ b[3] + Limit <= events + cuts
      /\ Limit \in Nat
      BY LogFacts
<1>4. /\ Lines(0) \in Seq(LogLines) /\ Lines(1) \in Seq(LogLines) /\ Lines(2) \in Seq(LogLines)
      /\ Lines(0) = File(log[0]) /\ Lines(1) = File(log[1]) /\ Lines(2) = File(log[2])
      BY FilesHaveLines
<1>5. /\ b[0] \in Nat /\ b[1] \in Nat /\ b[2] \in Nat /\ b[3] \in Nat
      /\ b[3] <= b[2] /\ b[2] <= b[1] /\ b[1] <= b[0]
      BY BoundariesMove
<1>6. ASSUME NEW lines \in Seq(LogLines), NEW lo \in Nat, NEW hi \in Nat,
             Covers(lines, lo, hi, lost, cuts)
      PROVE  Covers(lines, lo, hi, lost, cuts + 1)
      <2>1. lo \in 0 .. lo /\ \A e \in lo + 1 .. lo : e \in lost
            OBVIOUS
      <2>2. cuts + 1 \in Nat /\ cuts <= cuts + 1
            BY <1>3
      <2>3. lost \subseteq lost /\ \A e \in lost \ lost : e \in Int /\ e > hi
            OBVIOUS
      <2> QED
          BY <2>1, <2>2, <2>3, <1>3, <1>6, CoversWiden
<1>7. new \in Seq(LogLines) /\ Covers(new, b[1], b[0], lost, cuts + 1)
      <2>1. CASE half /\ ~CutOff
            <3>1. Fragment \in LogLines /\ ~Fragment.ended /\ Fragment.event = 0
                  BY DEF Fragment, LogLines
            <3>2. /\ Append(Lines(0), Fragment) \in Seq(LogLines)
                  /\ Covers(Append(Lines(0), Fragment), b[1], b[0], lost, cuts + 1)
                  BY <3>1, <1>3, <1>4, <1>5, CoversAppend
            <3> QED
                BY <2>1, <3>2
      <2>2. CASE ~(half /\ ~CutOff)
            <3>1. new = Lines(0)
                  BY <2>2
            <3> HIDE DEF new
            <3> QED
                BY <3>1, <1>3, <1>4, <1>5, <1>6
      <2> QED
          BY <2>1, <2>2
<1>8. /\ log' \in [0 .. 2 -> Seq(LogLines) \cup {NoLog}]
      /\ File(log'[0]) = new /\ log'[1] = log[1] /\ log'[2] = log[2]
      <2>1. CASE half /\ ~CutOff
            <3>1. log' = [log EXCEPT ![0] = new]
                  BY <2>1, <1>1
            <3> HIDE DEF new
            <3>2. /\ log' \in [0 .. 2 -> Seq(LogLines) \cup {NoLog}]
                  /\ log'[0] = new /\ log'[1] = log[1] /\ log'[2] = log[2]
                  BY <3>1, <1>7 DEF LogTypeOK
            <3> QED
                BY <3>2, <1>7, FilesHaveLines
      <2>2. CASE ~(half /\ ~CutOff)
            <3>1. new = Lines(0) /\ log' = log
                  BY <2>2, <1>1
            <3> HIDE DEF new
            <3> QED
                BY <3>1, <1>4 DEF LogTypeOK
      <2> QED
          BY <2>1, <2>2
<1> HIDE DEF new
<1>9. LogTypeOK'
      BY <1>1, <1>3, <1>8 DEF LogTypeOK
<1>10. Rotating'
      BY <1>1, <1>2 DEF Rotating
<1>11. /\ Covers(Lines(1), b[2], b[1], lost, cuts + 1)
       /\ Covers(Lines(2), b[3], b[2], lost, cuts + 1)
      BY <1>3, <1>4, <1>5, <1>6
<1>12. b[3] = 0 \/ b[3] + Limit <= events + (cuts + 1)
      BY <1>3, <1>5
<1>13. \A g \in 0 .. 2 : left' # 0 .. g
      BY <1>1, <1>2, NoReader
<1>14. Shared(b)'
      BY <1>1, <1>3, <1>4, <1>7, <1>8, <1>11, <1>12, <1>13, SharedAgain
<1> QED
    BY <1>9, <1>10, <1>14

(* A reader opens the log: nothing has been dropped of what it will see. *)
LEMMA OpenStep ==
  ASSUME LogTypeOK, Rotating, NEW b \in Boundaries, Shared(b), OpenLog
  PROVE  LogTypeOK' /\ Rotating' /\ \E c \in Boundaries : Shared(c)'
<1>1. /\ owner = Free /\ view' = <<>> /\ left' = 0 .. 2
      /\ UNCHANGED <<log, owner, action, events, lost, cuts>>
      BY DEF OpenLog
<1>2. LogTypeOK'
      <2>1. <<>> \in Seq(LogLines)
            OBVIOUS
      <2> QED
          BY <1>1, <2>1 DEF LogTypeOK
<1>3. Lines(0)' = Lines(0) /\ <<>> # NoLog
      <2>1. <<>> \in Seq(LogLines)
            OBVIOUS
      <2> QED
          BY <1>1, <2>1, EventLogAssumption DEF Lines, LogLines
<1>4. Rotating'
      BY <1>1, <1>3 DEF Rotating
<1>5. b[3] \in Nat /\ Taken(<<>>, b[3], b[3], lost)
      <2>1. b[3] \in Nat
            BY BoundariesMove
      <2>2. cuts \in Nat /\ b[3] <= b[3]
            BY <2>1, LogFacts
      <2> QED
          BY <2>1, <2>2, NoneCovered
<1>6. ASSUME NEW g \in 0 .. 2, left' = 0 .. g
      PROVE  Taken(view', b[3], b[g + 1], lost)
      <2>1. 2 \in 0 .. g
            <3>1. 2 \in 0 .. 2
                  OBVIOUS
            <3>2. 0 .. 2 = 0 .. g
                  BY <1>1, <1>6
            <3> QED
                BY <3>1, <3>2
      <2>2. g + 1 = 3
            BY <2>1
      <2> QED
          BY <2>2, <1>1, <1>5
<1>7. Shared(b)'
      BY <1>1, <1>6, QuietStep
<1> QED
    BY <1>2, <1>4, <1>7

(* A reader reads the oldest generation it has left, and ends with them all. *)
LEMMA ReadStep ==
  ASSUME LogTypeOK, Rotating, NEW b \in Boundaries, Shared(b), ReadGeneration
  PROVE  /\ LogTypeOK' /\ Rotating' /\ Shared(b)' /\ view' \in Seq(LogLines)
         /\ left' = {} => Taken(view', b[3], events, lost)
<1>1. PICK g \in left : /\ \A h \in left : h <= g
                        /\ view' = view \o Events(Lines(g))
                        /\ left' = left \ {g}
      BY DEF ReadGeneration
<1>2. UNCHANGED <<log, owner, action, events, lost, cuts>>
      BY DEF ReadGeneration
<1>3. view \in Seq(LogLines) /\ owner = Free
      BY <1>1 DEF LogTypeOK, Rotating
<1>4. /\ left = 0 .. g /\ g \in 0 .. 2
      /\ g = 0 => left' = {}
      /\ g # 0 => left' = 0 .. g - 1
      <2>1. left \in {{0}, 0 .. 1, 0 .. 2}
            BY <1>1 DEF LogTypeOK
      <2>2. CASE left = {0}
            BY <2>2, <1>1
      <2>3. CASE left = 0 .. 1
            <3>1. g = 1
                  BY <2>3, <1>1
            <3> QED
                BY <2>3, <3>1, <1>1
      <2>4. CASE left = 0 .. 2
            <3>1. g = 2
                  BY <2>4, <1>1
            <3> QED
                BY <2>4, <3>1, <1>1
      <2> QED
          BY <2>1, <2>2, <2>3, <2>4
<1>5. Taken(view, b[3], b[g + 1], lost) /\ Covers(Lines(g), b[g + 1], b[g], lost, cuts)
      BY <1>4 DEF Shared
<1>6. /\ Lines(g) \in Seq(LogLines)
      /\ b[3] \in Nat /\ b[g + 1] \in Nat /\ b[g] \in Nat
      /\ b[3] <= b[g + 1] /\ b[g + 1] <= b[g]
      <2>1. Lines(g) \in Seq(LogLines)
            BY <1>4, FilesHaveLines
      <2>2. /\ b[0] \in Nat /\ b[1] \in Nat /\ b[2] \in Nat /\ b[3] \in Nat
            /\ b[3] <= b[2] /\ b[2] <= b[1] /\ b[1] <= b[0]
            BY BoundariesMove
      <2>3. \/ g = 0 /\ g + 1 = 1
            \/ g = 1 /\ g + 1 = 2
            \/ g = 2 /\ g + 1 = 3
            BY <1>4
      <2> QED
          BY <2>1, <2>2, <2>3
<1> DEFINE r == Events(Lines(g))
<1>7. r \in Seq(LogLines) /\ Taken(r, b[g + 1], b[g], lost)
      <2>1. Upwards(Lines(g)) /\ Between(Lines(g), b[g + 1], b[g], lost)
            BY <1>5 DEF Covers
      <2> QED
          BY <2>1, <1>6, EventsKeep DEF Taken
<1> HIDE DEF r
<1>8. view' \in Seq(LogLines) /\ Taken(view', b[3], b[g], lost)
      <2>1. view' = view \o r
            BY <1>1 DEF r
      <2> QED
          BY <2>1, <1>3, <1>5, <1>6, <1>7, TakenMore
<1>9. LogTypeOK'
      <2>1. left' \in {{}, {0}, 0 .. 1, 0 .. 2}
            <3>1. g = 0 \/ g - 1 = 0 \/ g - 1 = 1
                  BY <1>4
            <3>2. 0 .. 0 = {0}
                  OBVIOUS
            <3> QED
                BY <3>1, <3>2, <1>4
      <2> QED
          BY <2>1, <1>2, <1>8 DEF LogTypeOK
<1>10. Rotating'
      <2>1. Lines(0)' = Lines(0)
            BY <1>2 DEF Lines
      <2>2. view' # NoLog
            BY <1>8, EventLogAssumption DEF LogLines
      <2> QED
          BY <2>1, <2>2, <1>2, <1>3 DEF Rotating
<1>11. Shared(b)'
      <2>1. ASSUME NEW h \in 0 .. 2, left' = 0 .. h
            PROVE  Taken(view', b[3], b[h + 1], lost)
            <3>1. 0 \in 0 .. h /\ h \in 0 .. h
                  OBVIOUS
            <3>2. g # 0 /\ left' = 0 .. g - 1
                  BY <3>1, <2>1, <1>4
            <3>3. h <= g - 1 /\ g - 1 <= h
                  <4>1. h \in 0 .. g - 1
                        BY <3>1, <3>2, <2>1
                  <4>2. g - 1 \in 0 .. g - 1
                        BY <3>2, <1>4
                  <4>3. g - 1 \in 0 .. h
                        BY <4>2, <3>2, <2>1
                  <4> QED
                      BY <4>1, <4>3
            <3>4. h + 1 = g
                  BY <3>3, <1>4
            <3> QED
                BY <3>4, <1>8
      <2> QED
          BY <2>1, <1>2, QuietStep
<1>12. ASSUME left' = {} PROVE Taken(view', b[3], events, lost)
      <2>1. g = 0
            <3>1. CASE g # 0
                  <4>1. 0 \in 0 .. g - 1
                        BY <3>1, <1>4
                  <4> QED
                      BY <4>1, <3>1, <1>4, <1>12
            <3> QED
                BY <3>1
      <2> QED
          BY <2>1, <1>8, LogFacts
<1> QED
    BY <1>8, <1>9, <1>10, <1>11, <1>12

(* The steps of the log keep what it promises. *)
LEMMA LogKeeps == LogInv /\ [LogNext]_logVars => LogInv'
<1> SUFFICES ASSUME LogInv, [LogNext]_logVars PROVE LogInv'
    OBVIOUS
<1>1. PICK b \in Boundaries : Shared(b)
      BY DEF LogInv
<1>2. LogTypeOK /\ Rotating
      BY DEF LogInv
<1> DEFINE Kept == LogTypeOK' /\ Rotating' /\ \E c \in Boundaries : Shared(c)'
<1>3. ASSUME NEW w \in Writers, LockLog(w) PROVE Kept
      <2>1. /\ left = {} /\ owner' = w /\ UNCHANGED <<log, view, left, events, lost, cuts>>
            /\ action' = IF log[0] # NoLog /\ Len(log[0]) >= Limit THEN "drop" ELSE "write"
            BY <1>3 DEF LockLog
      <2>2. LogTypeOK'
            BY <1>2, <2>1 DEF LogTypeOK
      <2>3. action' = "drop" => Limit <= Len(Lines(0)')
            <3>1. ASSUME log[0] # NoLog, Len(log[0]) >= Limit
                  PROVE  Limit <= Len(Lines(0)')
                  <4>1. Lines(0)' = log[0] /\ log[0] = Lines(0)
                        BY <2>1, <3>1 DEF Lines
                  <4>2. Lines(0) \in Seq(LogLines) /\ Limit \in Nat
                        BY <1>2, FilesHaveLines, EventLogAssumption
                  <4>3. Len(Lines(0)) \in Nat
                        BY <4>2
                  <4> QED
                      BY <4>1, <4>2, <4>3, <3>1
            <3> QED
                BY <2>1, <3>1
      <2>4. Rotating'
            BY <2>1, <2>3 DEF Rotating
      <2>5. \A g \in 0 .. 2 : left' # 0 .. g
            BY <2>1, NoReader
      <2>6. Shared(b)'
            BY <1>1, <1>2, <2>1, <2>5, QuietStep
      <2> QED
          BY <2>2, <2>4, <2>6
<1>4. ASSUME NEW w \in Writers, Rotate(w) PROVE Kept
      BY <1>1, <1>2, <1>4, DropStep, ShiftStep, MoveStep DEF Rotate
<1>5. ASSUME NEW w \in Writers, WriteEvent(w) PROVE Kept
      BY <1>1, <1>2, <1>5, WriteStep
<1>6. ASSUME NEW w \in Writers, NEW half \in BOOLEAN, Cut(w, half) PROVE Kept
      BY <1>1, <1>2, <1>6, CutStep
<1>7. ASSUME OpenLog PROVE Kept
      BY <1>1, <1>2, <1>7, OpenStep
<1>8. ASSUME ReadGeneration PROVE Kept
      BY <1>1, <1>2, <1>8, ReadStep
<1>9. ASSUME CloseLog PROVE Kept
      <2>1. /\ left = {} /\ view' = NoLog
            /\ UNCHANGED <<log, owner, action, left, events, lost, cuts>>
            BY <1>9 DEF CloseLog
      <2>2. LogTypeOK'
            BY <1>2, <2>1 DEF LogTypeOK
      <2>3. Lines(0)' = Lines(0)
            BY <2>1 DEF Lines
      <2>4. Rotating'
            BY <1>2, <2>1, <2>3 DEF Rotating
      <2>5. \A g \in 0 .. 2 : left' # 0 .. g
            BY <2>1, NoReader
      <2>6. Shared(b)'
            BY <1>1, <1>2, <2>1, <2>5, QuietStep
      <2> QED
          BY <2>2, <2>4, <2>6
<1>10. ASSUME UNCHANGED <<log, owner, action, view, left, events, lost, cuts>> PROVE Kept
      <2>1. UNCHANGED <<log, owner, action, view, left, events, lost, cuts>>
            BY <1>10
      <2>2. LogTypeOK'
            BY <1>2, <2>1 DEF LogTypeOK
      <2>3. Lines(0)' = Lines(0)
            BY <2>1 DEF Lines
      <2>4. Rotating'
            BY <1>2, <2>1, <2>3 DEF Rotating
      <2>5. \A g \in 0 .. 2 : left' = 0 .. g => Taken(view', b[3], b[g + 1], lost)
            BY <1>1, <2>1 DEF Shared
      <2>6. Shared(b)'
            BY <1>1, <1>2, <2>1, <2>5, QuietStep
      <2> QED
          BY <2>2, <2>4, <2>6
<1>11. ASSUME LookLog \/ LookPrevious \/ UNCHANGED logVars PROVE Kept
      BY <1>10, <1>11 DEF LookLog, LookPrevious, logVars
<1>12. Kept
      BY <1>3, <1>4, <1>5, <1>6, <1>7, <1>8, <1>9, <1>11 DEF LogNext
<1> QED
    BY <1>12 DEF LogInv

(* What a reader that has read all generations has. *)
LatestRead ==
  left # {} /\ left' = {} =>
    \E n \in 0 .. events :
      /\ n + Limit <= events + cuts \/ n = 0
      /\ AllAfter(n, view')

LEMMA ReadsLatestStep == LogInv /\ [LogNext]_logVars => [LatestRead]_logVars
<1> SUFFICES ASSUME LogInv, LogNext, left # {}, left' = {} PROVE LatestRead
    BY DEF LatestRead
<1>1. PICK b \in Boundaries : Shared(b)
      BY DEF LogInv
<1>2. LogTypeOK /\ Rotating
      BY DEF LogInv
<1>3. ReadGeneration
      <2>1. \A w \in Writers : ~LockLog(w) /\ ~WriteEvent(w) /\ ~Rotate(w)
            BY DEF LockLog, WriteEvent, Rotate, Rotates
      <2>2. \A w \in Writers : \A half \in BOOLEAN : ~Cut(w, half)
            BY DEF Cut
      <2>3. ~LookLog /\ ~LookPrevious /\ ~OpenLog /\ ~CloseLog
            <3>1. 0 \in 0 .. 2
                  OBVIOUS
            <3> QED
                BY <3>1 DEF LookLog, LookPrevious, OpenLog, CloseLog
      <2> QED
          BY <2>1, <2>2, <2>3 DEF LogNext
<1>4. Taken(view', b[3], events, lost) /\ view' \in Seq(LogLines)
      BY <1>1, <1>2, <1>3, ReadStep
<1>5. /\ b[3] \in 0 .. events /\ events \in Nat
      /\ b[3] + Limit <= events + cuts \/ b[3] = 0
      <2>1. /\ b[0] \in Nat /\ b[1] \in Nat /\ b[2] \in Nat /\ b[3] \in Nat
            /\ b[3] <= b[2] /\ b[2] <= b[1] /\ b[1] <= b[0]
            BY BoundariesMove
      <2>2. b[0] = events /\ (b[3] = 0 \/ b[3] + Limit <= events + cuts)
            BY <1>1, <1>2, LogFacts
      <2> QED
          BY <2>1, <2>2
<1>6. AllAfter(b[3], view')
      <2> DEFINE v == view'
      <2>1. view' \in Seq(LogLines)
            BY <1>4
      <2>2. DOMAIN v = 1 .. Len(v)
            BY <2>1
      <2>3. Taken(v, b[3], events, lost)
            BY <1>4
      <2> HIDE DEF v
      <2>4. \A i, j \in DOMAIN v : i < j => v[i].event < v[j].event
            BY <2>2, <2>3 DEF Taken, Upwards
      <2>5. {v[i].event : i \in DOMAIN v} = (b[3] + 1 .. events) \ lost
            BY <2>2, <2>3 DEF Taken, Between
      <2> QED
          BY <2>4, <2>5 DEF AllAfter, v
<1> QED
    BY <1>5, <1>6 DEF LatestRead

(***************************************************************************)
(* Before it has the lock: whenever there is no current file, and there    *)
(* were events, there is a previous one.  So a reader that found no        *)
(* current file finds the previous one, unless a rotation has put that     *)
(* aside; then it is for a file filled since the first look.               *)
(***************************************************************************)
Looking ==
  /\ since \in [events : Nat, cuts : Nat]
  /\ log[0] = NoLog /\ events # 0 => log[1] # NoLog
  /\ look = "previous" =>
       \/ Limit <= Since
       \/ Len(Lines(0)) <= Since /\ (since.events = 0 \/ log[1] # NoLog)

LEMMA LookStarts == LogInit => Looking
BY DEF LogInit, Looking

(* The steps that leave the files alone. *)
LEMMA LookUndisturbed ==
  ASSUME Looking, UNCHANGED <<log, events, cuts>>, UNCHANGED <<look, since>>
  PROVE  Looking'
<1>1. Lines(0)' = Lines(0) /\ Since' = Since
      BY DEF Lines, Since
<1> QED
    BY <1>1 DEF Looking

LEMMA LookKeeps == LogInv /\ Looking /\ [LogNext]_logVars => Looking'
<1> SUFFICES ASSUME LogInv, Looking, [LogNext]_logVars PROVE Looking'
    OBVIOUS
<1>1. /\ log \in [0 .. 2 -> Seq(LogLines) \cup {NoLog}] /\ events \in Nat /\ cuts \in Nat
      /\ action \in {"drop", "shift", "move"} => Limit <= Len(Lines(0))
      BY DEF LogInv, LogTypeOK, Rotating
<1>2. /\ Limit \in Nat /\ Limit > 0 /\ NoLog \notin Seq(LogLines)
      BY EventLogAssumption DEF LogLines
<1>3. /\ \A g \in 0 .. 2 : Lines(g) = File(log[g]) /\ Lines(g) \in Seq(LogLines)
      /\ File(NoLog) = <<>> /\ \A f \in Seq(LogLines) : File(f) = f
      BY FilesHaveLines DEF LogInv
<1>4. Len(Lines(0)) \in Nat /\ (log[0] = NoLog => Len(Lines(0)) = 0)
      BY <1>3
<1>5. Since \in Int
      BY <1>1 DEF Since, Looking
<1>6. ASSUME NEW w \in Writers, Rotate(w) PROVE Looking'
  <2>1. UNCHANGED <<look, since, events, cuts>> /\ action \in {"drop", "shift", "move"}
        BY <1>6 DEF Rotate, Rotates, Holds
  <2>2. Limit <= Len(Lines(0)) /\ log[0] # NoLog
        BY <1>1, <1>2, <1>4, <2>1
  <2>3. look = "previous" => Limit <= Since
        BY <1>2, <1>4, <1>5, <2>2 DEF Looking
  <2>4. Since' = Since
        BY <2>1 DEF Since
  <2>5. log'[0] # NoLog \/ log'[1] # NoLog
        BY <1>1, <1>6, <2>2 DEF Rotate, Rotates
  <2> QED
      BY <2>1, <2>3, <2>4, <2>5 DEF Looking
<1>7. ASSUME UNCHANGED <<look, since>>, log'[0] # NoLog, log'[1] = log[1],
             Since' = Since + 1, Len(Lines(0)') <= Len(Lines(0)) + 1, Len(Lines(0)') \in Nat
      PROVE  Looking'
      BY <1>2, <1>4, <1>5, <1>7 DEF Looking
<1>8. ASSUME NEW w \in Writers, WriteEvent(w) PROVE Looking'
  <2> DEFINE new == IF CutOff THEN Append(Front(Lines(0)), Line(0))
                    ELSE Append(Lines(0), Line(events + 1))
  <2>1. /\ UNCHANGED <<look, since, cuts>> /\ events' = events + 1
        /\ log' = [log EXCEPT ![0] = new]
    <3>1. CutOff => log[0] = Lines(0)
          BY DEF CutOff, Lines
    <3> QED
        BY <1>8, <3>1 DEF WriteEvent
  <2>2. Line(0) \in LogLines /\ Line(events + 1) \in LogLines
        BY <1>1 DEF Line, LogLines
  <2>3. new \in Seq(LogLines) /\ Len(new) <= Len(Lines(0)) + 1
    <3>1. Lines(0) \in Seq(LogLines)
          BY <1>3
    <3>2. CASE CutOff
      <4>1. Lines(0) # <<>>
            BY <3>2 DEF CutOff
      <4>2. Front(Lines(0)) \in Seq(LogLines) /\ Len(Front(Lines(0))) = Len(Lines(0)) - 1
        <5> DEFINE lines == Lines(0)
                   n == Len(lines)
        <5>1. lines \in Seq(LogLines) /\ n \in Nat /\ n > 0
              BY <3>1, <4>1
        <5> HIDE DEF lines
        <5>2. Front(lines) = [i \in 1 .. n - 1 |-> lines[i]]
              BY DEF Front
        <5>3. \A i \in 1 .. n - 1 : lines[i] \in LogLines
              BY <5>1
        <5>4. Front(lines) \in Seq(LogLines) /\ Len(Front(lines)) = n - 1
              BY <5>1, <5>2, <5>3
        <5> QED
            BY <5>4 DEF lines
      <4> QED
          BY <2>2, <3>1, <3>2, <4>2
    <3>3. CASE ~CutOff
          BY <2>2, <3>1, <3>3
    <3> QED
        BY <3>2, <3>3
  <2> HIDE DEF new
  <2>4. log'[0] = new /\ log'[1] = log[1] /\ log'[0] # NoLog
        BY <1>1, <1>2, <2>1, <2>3
  <2>5. Lines(0)' = new
        BY <2>4 DEF Lines
  <2>6. Since' = Since + 1
        BY <1>1, <2>1 DEF Since, Looking
  <2> QED
      BY <1>7, <2>1, <2>3, <2>4, <2>5, <2>6
<1>9. ASSUME NEW w \in Writers, NEW half \in BOOLEAN, Cut(w, half) PROVE Looking'
  <2>1. /\ UNCHANGED <<look, since, events>> /\ cuts' = cuts + 1
        /\ log' = IF half /\ ~CutOff THEN [log EXCEPT ![0] = Append(Lines(0), Fragment)] ELSE log
        BY <1>9 DEF Cut
  <2>2. Since' = Since + 1
        BY <1>1, <2>1 DEF Since, Looking
  <2>3. CASE half /\ ~CutOff
    <3>1. Fragment \in LogLines /\ Lines(0) \in Seq(LogLines)
          BY <1>3 DEF Fragment, LogLines
    <3>2. /\ Append(Lines(0), Fragment) \in Seq(LogLines)
          /\ Len(Append(Lines(0), Fragment)) = Len(Lines(0)) + 1
          BY <3>1
    <3>3. log'[0] = Append(Lines(0), Fragment) /\ log'[1] = log[1] /\ log'[0] # NoLog
          BY <1>1, <1>2, <2>1, <2>3, <3>2
    <3>4. Lines(0)' = Append(Lines(0), Fragment)
          BY <3>3 DEF Lines
    <3> QED
        BY <1>4, <1>7, <2>1, <2>2, <3>2, <3>3, <3>4
  <2>4. CASE ~(half /\ ~CutOff)
    <3>1. log' = log /\ Lines(0)' = Lines(0)
          BY <2>1, <2>4 DEF Lines
    <3> QED
        BY <1>2, <1>4, <1>5, <2>1, <2>2, <3>1 DEF Looking
  <2> QED
      BY <2>3, <2>4
<1>10. ASSUME LookLog PROVE Looking'
  <2>1. UNCHANGED <<log, events, cuts>>
        BY <1>10 DEF LookLog
  <2>2. CASE log[0] # NoLog
        BY <1>10, <2>1, <2>2 DEF LookLog, Looking
  <2>3. CASE log[0] = NoLog
    <3>1. since' = [events |-> events, cuts |-> cuts] /\ Lines(0)' = Lines(0)
          BY <1>10, <2>1, <2>3 DEF LookLog, Lines
    <3>2. Since' = 0
          BY <1>1, <2>1, <3>1 DEF Since
    <3>3. /\ since' \in [events : Nat, cuts : Nat] /\ since'.events = events
          /\ Len(Lines(0)') <= 0
          BY <1>1, <1>4, <2>3, <3>1
    <3> QED
        BY <2>1, <2>3, <3>2, <3>3 DEF Looking
  <2> QED
      BY <2>2, <2>3
<1>11. ASSUME LookPrevious PROVE Looking'
       BY <1>11 DEF LookPrevious, Looking
<1>12. ASSUME OpenLog PROVE Looking'
       BY <1>12 DEF OpenLog, Looking
<1>13. ASSUME \/ \E w \in Writers : LockLog(w)
              \/ ReadGeneration \/ CloseLog \/ UNCHANGED logVars
       PROVE  Looking'
       BY <1>13, LookUndisturbed DEF LockLog, ReadGeneration, CloseLog, logVars
<1> QED
    BY <1>6, <1>8, <1>9, <1>10, <1>11, <1>12, <1>13 DEF LogNext

(* What a reader that gives up without the lock has missed. *)
EarlyReturn == look = "previous" /\ look' = "none" => since.events = 0 \/ Limit <= Since

LEMMA EarlyReturnStep == LogInv /\ Looking /\ [LogNext]_logVars => [EarlyReturn]_logVars
<1> SUFFICES ASSUME LogInv, Looking, LogNext, look = "previous", look' = "none"
             PROVE  since.events = 0 \/ Limit <= Since
    BY DEF EarlyReturn
<1>1. LookPrevious
      BY DEF LogNext, LockLog, Rotate, Rotates, WriteEvent, Cut, LookLog, OpenLog,
             ReadGeneration, CloseLog
<1>2. log[1] = NoLog
      BY <1>1 DEF LookPrevious
<1> QED
    BY <1>2 DEF Looking

(* A reader that has read the log has the latest events, complete and in     *)
(* order, and at least as many as the limit holds lines, less the writes     *)
(* that were interrupted - wherever a rotation was given up.  One that is    *)
(* told there is no log looked when nothing had been written, or while a     *)
(* whole generation was (diagnostics.rs:append_with_limit, read_log).        *)
THEOREM ReadersMissNothing == LogSpec => ReadsLatest
<1>1. [][LatestRead]_logVars /\ [][EarlyReturn]_logVars => ReadsLatest
      BY PTL DEF LatestRead, EarlyReturn, ReadsLatest
<1> QED
    BY <1>1, LogStarts, LogKeeps, ReadsLatestStep, LookStarts, LookKeeps, EarlyReturnStep, PTL
    DEF LogSpec

-----------------------------------------------------------------------------
(* The impact of a change.                                                  *)

(* A finite set's elements, in some order, each once. *)
LEMMA SetsHaveOrders ==
  ASSUME NEW S, IsFiniteSet(S)
  PROVE  /\ SetToSeq(S) \in Seq(S)
         /\ Len(SetToSeq(S)) = Cardinality(S) /\ Cardinality(S) \in Nat
         /\ \A x \in S : \E i \in 1 .. Cardinality(S) : SetToSeq(S)[i] = x
<1> DEFINE n == Cardinality(S)
           f == SetToSeq(S)
<1>1. n \in Nat /\ ExistsBijection(1 .. n, S)
      BY FS_CardinalityType
<1> HIDE DEF n
<1>2. \E g \in [1 .. n -> S] : IsInjective(g)
      BY <1>1 DEF ExistsBijection, Bijection, Injection, IsInjective
<1>3. f = CHOOSE g \in [1 .. n -> S] : IsInjective(g)
      BY DEF SetToSeq, n
<1> HIDE DEF f
<1>4. f \in [1 .. n -> S] /\ IsInjective(f)
      BY <1>2, <1>3
<1>5. f \in Seq(S) /\ Len(f) = n
      BY <1>1, <1>4
<1>6. \A x \in S : \E i \in 1 .. n : f[i] = x
      <2>1. IsFiniteSet(1 .. n) /\ Cardinality(1 .. n) = n
            BY <1>1, FS_Interval
      <2>2. f \in Injection(1 .. n, S)
            BY <1>4 DEF Injection, IsInjective
      <2>3. f \in Surjection(1 .. n, S)
            BY <2>1, <2>2, FS_Injection DEF n
      <2> QED
          BY <2>3 DEF Surjection
<1> QED
    BY <1>1, <1>5, <1>6 DEF f, n

(* The recursive function in Spread exists, and is what it says. *)
LEMMA SpreadSteps ==
  ASSUME NEW after, NEW surface, Cardinality(DOMAIN after) \in Nat
  PROVE  \E work :
           /\ Spread(after, surface) = work[Cardinality(DOMAIN after)]
           /\ work[0] = [affected |-> surface, frontier |-> SetToSeq(surface)]
           /\ \A n \in 1 .. Cardinality(DOMAIN after) :
                work[n] = IF work[n - 1].frontier = <<>> THEN work[n - 1]
                          ELSE Round(after, work[n - 1])
<1> DEFINE total == Cardinality(DOMAIN after)
           Step(f, n) == IF n = 0 THEN [affected |-> surface, frontier |-> SetToSeq(surface)]
                         ELSE IF f[n - 1].frontier = <<>> THEN f[n - 1]
                         ELSE Round(after, f[n - 1])
           Recursive(f, m) == f = [n \in 0 .. m |-> Step(f, n)]
           S == {m \in Nat : \E f : Recursive(f, m)}
<1>1. 0 \in S
      <2>1. Recursive([n \in 0 .. 0 |-> [affected |-> surface, frontier |-> SetToSeq(surface)]], 0)
            OBVIOUS
      <2> QED
          BY <2>1
<1>2. ASSUME NEW m \in Nat, m \in S PROVE m + 1 \in S
      <2>1. PICK f : Recursive(f, m)
            BY <1>2
      <2> DEFINE g == [n \in 0 .. m + 1 |-> IF n <= m THEN f[n] ELSE Step(f, m + 1)]
      <2>2. ASSUME NEW n \in 0 .. m + 1 PROVE g[n] = Step(g, n)
            <3>1. CASE n = m + 1
                  <4>1. g[n] = Step(f, m + 1) /\ g[n - 1] = f[n - 1]
                        BY <3>1
                  <4> QED
                      BY <4>1, <3>1
            <3>2. CASE n <= m
                  <4>1. g[n] = f[n] /\ (n # 0 => g[n - 1] = f[n - 1])
                        BY <3>2
                  <4>2. f[n] = Step(f, n)
                        <5> HIDE DEF Step
                        <5> QED
                            BY <2>1, <3>2
                  <4> QED
                      BY <4>1, <4>2
            <3> QED
                BY <3>1, <3>2
      <2>3. g = [n \in 0 .. m + 1 |-> g[n]]
            OBVIOUS
      <2>4. Recursive(g, m + 1)
            <3> HIDE DEF g, Step
            <3> QED
                BY <2>2, <2>3
      <2> HIDE DEF g, Recursive
      <2> QED
          BY <2>4
<1>3. \E f : Recursive(f, total)
      <2> HIDE DEF S, total
      <2>1. total \in S
            BY <1>1, <1>2, Induction DEF total
      <2> QED
          BY <2>1 DEF S
<1> DEFINE work == CHOOSE f : Recursive(f, total)
<1>4. Spread(after, surface) = work[total]
      BY DEF Spread
<1>5. \A n \in 0 .. total : work[n] = Step(work, n)
      <2>1. Recursive(work, total)
            BY <1>3
      <2> HIDE DEF Step, work
      <2> QED
          BY <2>1
<1>6. work[0] = [affected |-> surface, frontier |-> SetToSeq(surface)]
      BY <1>5
<1>7. \A n \in 1 .. total :
        work[n] = IF work[n - 1].frontier = <<>> THEN work[n - 1] ELSE Round(after, work[n - 1])
      <2> HIDE DEF work
      <2> QED
          BY <1>5
<1> HIDE DEF work, Recursive, Step
<1> QED
    BY <1>4, <1>6, <1>7

(* The sets that hold a changed surface and whatever depends on a member. *)
Closed(after, T) == \A id \in T : Downstream(after, id) \subseteq T

(* The worklist after n rounds: nothing is affected that need not be; what   *)
(* has left the frontier has passed its own on; and n have left it.          *)
Spreading(after, surface, work, n) ==
  /\ surface \subseteq work.affected /\ work.affected \subseteq DOMAIN after
  /\ work.frontier \in Seq(work.affected)
  /\ \A id \in work.affected :
       \/ Downstream(after, id) \subseteq work.affected
       \/ \E i \in 1 .. Len(work.frontier) : work.frontier[i] = id
  /\ \A T : surface \subseteq T /\ Closed(after, T) => work.affected \subseteq T
  /\ work.frontier # <<>> => Len(work.frontier) + n <= Cardinality(work.affected)

LEMMA RoundSpreads ==
  ASSUME NEW after, IsFiniteSet(DOMAIN after), NEW surface, NEW work, NEW n \in Nat,
         Spreading(after, surface, work, n), work.frontier # <<>>
  PROVE  Spreading(after, surface, Round(after, work), n + 1)
<1> DEFINE front == work.frontier
           old == work.affected
           m == Len(front)
           new == Downstream(after, Last(front)) \ old
           rest == Front(front)
           more == SetToSeq(new)
           all == old \cup new
           q == rest \o more
<1>1. Round(after, work) = [affected |-> all, frontier |-> q]
      BY DEF Round
<1>2. /\ surface \subseteq old /\ old \subseteq DOMAIN after
      /\ front \in Seq(old) /\ front # <<>>
      /\ \A id \in old : Downstream(after, id) \subseteq old \/ \E i \in 1 .. m : front[i] = id
      /\ \A T : surface \subseteq T /\ Closed(after, T) => old \subseteq T
      /\ m + n <= Cardinality(old)
      BY DEF Spreading
<1> HIDE DEF front, old
<1>3. m \in Nat /\ m >= 1 /\ Last(front) = front[m] /\ front[m] \in old
      <2>1. m \in Nat /\ m >= 1
            BY <1>2
      <2> QED
          BY <2>1, <1>2 DEF Last
<1>4. /\ rest \in Seq(old) /\ Len(rest) = m - 1
      /\ \A i \in 1 .. m - 1 : rest[i] = front[i]
      <2>1. rest = SubSeq(front, 1, m - 1)
            BY DEF Front
      <2>2. m - 1 \in Nat /\ m - 1 <= m
            BY <1>3
      <2> HIDE DEF rest
      <2>3. Len(rest) = m - 1
            <3> HIDE DEF m
            <3> QED
                BY <2>1, <2>2
      <2>4. \A i \in 1 .. m - 1 : rest[i] = front[i]
            BY <2>1, <2>2, <1>2
      <2>5. rest \in Seq(old)
            <3>1. \A i \in 1 .. m - 1 : rest[i] \in old
                  <4>1. \A i \in 1 .. m : front[i] \in old
                        BY <1>2
                  <4> QED
                      BY <4>1, <2>2, <2>4
            <3>2. rest = [i \in 1 .. m - 1 |-> rest[i]]
                  BY <2>1, <2>2, <1>2
            <3> QED
                BY <3>1, <3>2, <2>2
      <2> QED
          BY <2>3, <2>4, <2>5
<1>5. new \subseteq DOMAIN after /\ new \cap old = {}
      BY DEF Downstream
<1>6. IsFiniteSet(old) /\ IsFiniteSet(new) /\ IsFiniteSet(all)
      /\ Cardinality(old) \in Nat /\ Cardinality(all) = Cardinality(old) + Cardinality(new)
      <2>1. IsFiniteSet(old) /\ IsFiniteSet(new)
            BY <1>2, <1>5, FS_Subset
      <2>2. old \cap new = {}
            BY <1>5
      <2> HIDE DEF new
      <2>3. IsFiniteSet(all) /\ Cardinality(all) = Cardinality(old) + Cardinality(new)
            <3>1. /\ IsFiniteSet(old \cup new)
                  /\ Cardinality(old \cup new) =
                       Cardinality(old) + Cardinality(new) - Cardinality(old \cap new)
                  BY <2>1, FS_Union
            <3>2. Cardinality(old \cap new) = 0
                  BY <2>2, FS_EmptySet
            <3>3. Cardinality(old) \in Nat /\ Cardinality(new) \in Nat
                  BY <2>1, FS_CardinalityType
            <3> QED
                BY <3>1, <3>2, <3>3
      <2> QED
          BY <2>1, <2>3, FS_CardinalityType
<1>7. /\ more \in Seq(new) /\ Len(more) = Cardinality(new) /\ Cardinality(new) \in Nat
      /\ \A x \in new : \E i \in 1 .. Len(more) : more[i] = x
      <2> HIDE DEF new
      <2> QED
          BY <1>6, SetsHaveOrders
<1>8. \A id \in old : id # front[m] =>
        Downstream(after, id) \subseteq old \/ \E i \in 1 .. m - 1 : rest[i] = id
      BY <1>2, <1>3, <1>4
<1>9. Downstream(after, front[m]) \subseteq all
      BY <1>3
<1>10. \A T : surface \subseteq T /\ Closed(after, T) => all \subseteq T
      BY <1>2, <1>3 DEF Closed
<1> HIDE DEF m, rest, more, new
<1>11. /\ rest \in Seq(all) /\ more \in Seq(all)
      BY <1>4, <1>7
<1> DEFINE k == Len(more)
<1>12. k \in Nat /\ m - 1 \in Nat
      BY <1>3, <1>7
<1> HIDE DEF all
<1>13. /\ q \in Seq(all) /\ Len(q) = (m - 1) + k
      /\ \A i \in 1 .. m - 1 : q[i] = rest[i]
      <2>1. q \in Seq(all) /\ Len(q) = (m - 1) + k
            BY <1>4, <1>11
      <2>2. \A i \in 1 .. m - 1 : q[i] = rest[i]
            BY <1>4, <1>11, <1>12
      <2> QED
          BY <2>1, <2>2
<1>14. \A x \in new : \E j \in 1 .. Len(q) : q[j] = x
      <2> SUFFICES ASSUME NEW x \in new PROVE \E j \in 1 .. Len(q) : q[j] = x
          OBVIOUS
      <2>1. PICK i \in 1 .. k : more[i] = x
            BY <1>7
      <2> DEFINE j == (m - 1) + i
      <2>2. j \in (m - 1) + 1 .. (m - 1) + k /\ j - (m - 1) = i
            BY <1>12
      <2>3. q[j] = more[i]
            BY <2>2, <1>4, <1>11, <1>12
      <2>4. j \in 1 .. Len(q)
            <3> HIDE DEF q
            <3> QED
                BY <1>13, <2>2, <1>12
      <2> HIDE DEF j, q
      <2>5. q[j] = x
            BY <2>1, <2>3
      <2> QED
          BY <2>4, <2>5
<1> HIDE DEF q, k
<1>15. ASSUME NEW id \in all
      PROVE  Downstream(after, id) \subseteq all \/ \E i \in 1 .. Len(q) : q[i] = id
      <2>1. CASE id \in new
            BY <2>1, <1>14
      <2>2. CASE id = front[m]
            BY <2>2, <1>9
      <2>3. CASE id \in old /\ id # front[m]
            <3>1. CASE Downstream(after, id) \subseteq old
                  BY <3>1 DEF all
            <3>2. ASSUME NEW i \in 1 .. m - 1, rest[i] = id
                  PROVE  \E j \in 1 .. Len(q) : q[j] = id
                  <4>1. i \in 1 .. Len(q)
                        BY <1>12, <1>13
                  <4> QED
                      BY <4>1, <3>2, <1>13
            <3> QED
                BY <3>1, <3>2, <2>3, <1>8
      <2> QED
          BY <2>1, <2>2, <2>3 DEF all
<1>16. Len(q) + (n + 1) <= Cardinality(all)
      <2>1. k = Cardinality(new)
            BY <1>7 DEF k
      <2> QED
          BY <2>1, <1>2, <1>3, <1>6, <1>12, <1>13
<1>17. surface \subseteq all /\ all \subseteq DOMAIN after
      BY <1>2, <1>5 DEF all
<1>18. Round(after, work).affected = all /\ Round(after, work).frontier = q
      BY <1>1
<1> QED
    BY <1>10, <1>13, <1>15, <1>16, <1>17, <1>18 DEF Spreading

(* After as many rounds as there are packages the frontier is empty. *)
LEMMA SpreadEnds ==
  ASSUME NEW after, IsFiniteSet(DOMAIN after), NEW surface, surface \subseteq DOMAIN after
  PROVE  LET work == Spread(after, surface) IN
         Spreading(after, surface, work, Cardinality(DOMAIN after)) /\ work.frontier = <<>>
<1> DEFINE total == Cardinality(DOMAIN after)
           start == [affected |-> surface, frontier |-> SetToSeq(surface)]
<1>1. total \in Nat
      BY FS_CardinalityType
<1>2. PICK work : /\ Spread(after, surface) = work[total]
                  /\ work[0] = start
                  /\ \A n \in 1 .. total :
                       work[n] = IF work[n - 1].frontier = <<>> THEN work[n - 1]
                                 ELSE Round(after, work[n - 1])
      BY <1>1, SpreadSteps
<1> HIDE DEF total
<1>3. Spreading(after, surface, work[0], 0)
      <2>1. IsFiniteSet(surface)
            BY FS_Subset
      <2> DEFINE q == SetToSeq(surface)
      <2>2. /\ q \in Seq(surface) /\ Len(q) = Cardinality(surface) /\ Cardinality(surface) \in Nat
            /\ \A x \in surface : \E i \in 1 .. Cardinality(surface) : q[i] = x
            BY <2>1, SetsHaveOrders
      <2>3. start.affected = surface /\ start.frontier = q
            OBVIOUS
      <2> HIDE DEF q, start
      <2> QED
          BY <1>2, <2>2, <2>3 DEF Spreading
<1> DEFINE S == {n \in Nat : n <= total => Spreading(after, surface, work[n], n)}
<1>4. 0 \in S
      BY <1>3
<1>5. ASSUME NEW n \in Nat, n \in S PROVE n + 1 \in S
      <2> SUFFICES ASSUME n + 1 <= total PROVE Spreading(after, surface, work[n + 1], n + 1)
          BY <1>5
      <2>1. Spreading(after, surface, work[n], n)
            BY <1>1, <1>5
      <2>2. work[n + 1] = IF work[n].frontier = <<>> THEN work[n] ELSE Round(after, work[n])
            <3>1. n + 1 \in 1 .. total /\ (n + 1) - 1 = n
                  BY <1>1
            <3> QED
                BY <3>1, <1>2
      <2>3. CASE work[n].frontier = <<>>
            BY <2>1, <2>2, <2>3 DEF Spreading
      <2>4. CASE work[n].frontier # <<>>
            BY <2>1, <2>2, <2>4, RoundSpreads
      <2> QED
          BY <2>3, <2>4
<1> HIDE DEF S
<1>6. total \in S
      BY <1>1, <1>4, <1>5, Induction
<1>7. Spreading(after, surface, work[total], total)
      BY <1>1, <1>6 DEF S
<1>8. work[total].frontier = <<>>
      <2> SUFFICES ASSUME work[total].frontier # <<>> PROVE FALSE
          OBVIOUS
      <2> DEFINE w == work[total]
      <2>1. /\ w.affected \subseteq DOMAIN after /\ w.frontier \in Seq(w.affected)
            /\ Len(w.frontier) + total <= Cardinality(w.affected)
            BY <1>7 DEF Spreading
      <2> HIDE DEF w
      <2>2. Cardinality(w.affected) <= total /\ Cardinality(w.affected) \in Nat
            BY <2>1, FS_Subset, FS_CardinalityType DEF total
      <2>3. Len(w.frontier) \in Nat /\ Len(w.frontier) > 0
            <3> DEFINE f == w.frontier
            <3>1. f \in Seq(w.affected) /\ f # <<>>
                  BY <2>1 DEF w
            <3> HIDE DEF f
            <3>2. Len(f) \in Nat /\ Len(f) > 0
                  BY <3>1
            <3> QED
                BY <3>2 DEF f
      <2> QED
          BY <2>1, <2>2, <2>3, <1>1
<1> QED
    BY <1>2, <1>7, <1>8 DEF total

(* The packages that are reported as affected are those whose surface        *)
(* changed, those that depend on one of these, and so on, and no others: the *)
(* least set that has the first and whatever depends on a member - for any   *)
(* workspaces, and the worklist ends (main.rs:compare_workspace_snapshots).  *)
THEOREM AffectedIsLeast ==
  ASSUME NEW before, NEW after, IsFiniteSet(DOMAIN after)
  PROVE  LET report == Compare(before, after) IN
         /\ report.surface = ChangedIn("surface", before, after)
         /\ report.surface \subseteq report.affected
         /\ Closed(after, report.affected)
         /\ \A T : report.surface \subseteq T /\ Closed(after, T) => report.affected \subseteq T
         /\ Spread(after, report.surface).frontier = <<>>
<1> DEFINE surface == ChangedIn("surface", before, after)
           report == Compare(before, after)
           work == Spread(after, surface)
<1>1. surface \subseteq DOMAIN after
      BY DEF ChangedIn
<1>2. report.surface = surface /\ report.affected = work.affected
      BY DEF Compare
<1> HIDE DEF surface, report
<1>3. Spreading(after, surface, work, Cardinality(DOMAIN after)) /\ work.frontier = <<>>
      BY <1>1, SpreadEnds
<1> HIDE DEF work
<1>4. Closed(after, work.affected)
      <2>1. Len(work.frontier) = 0
            BY <1>3
      <2> SUFFICES ASSUME NEW id \in work.affected
                   PROVE  Downstream(after, id) \subseteq work.affected
          BY DEF Closed
      <2>2. \/ Downstream(after, id) \subseteq work.affected
            \/ \E i \in 1 .. Len(work.frontier) : work.frontier[i] = id
            BY <1>3 DEF Spreading
      <2> QED
          BY <2>1, <2>2
<1>5. /\ surface \subseteq work.affected
      /\ \A T : surface \subseteq T /\ Closed(after, T) => work.affected \subseteq T
      BY <1>3 DEF Spreading
<1> QED
    BY <1>2, <1>3, <1>4, <1>5 DEF surface, report, work
=============================================================================
