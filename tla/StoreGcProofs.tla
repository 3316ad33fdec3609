--------------------------- MODULE StoreGcProofs ----------------------------
(***************************************************************************)
(* Theorems about the store and its collection (StoreGc) and about what a  *)
(* collection plans (GcPlan).                                              *)
(*                                                                         *)
(* A collection decides on what it read without a lock, so what makes it   *)
(* safe is spread over a snapshot, a journal and the publishers that still *)
(* have a line to write.  The invariant says of every candidate in an      *)
(* index why the collection will not take its blobs.                       *)
(***************************************************************************)
EXTENDS StoreGc, TLAPS, WellFoundedInduction, FiniteSetTheorems, SequenceTheorems

-----------------------------------------------------------------------------
(* The inductive invariant. *)

Units ==
  [path : Keys \cup Names, action : Actions \cup {None}, created : 0 .. MaxTime,
   candidate : BOOLEAN, protocol : {1}, kind : {"library", "declared"},
   last : 0 .. MaxTime, blobs : SUBSET Blobs]

Listings ==
  (UNION {[B -> [bytes : {1}, modified : 0 .. MaxTime]] : B \in SUBSET Blobs}) \cup {None}

Collections ==
  [pc : {"idle", "rotate", "journal", "list", "indexes", "names", "records"},
   started : 0 .. MaxTime, max_bytes : Budgets \cup {0}, journal : SUBSET Lines,
   listed : Listings, unread : SUBSET (Keys \cup Names), units : Seq(Units),
   evicted : SUBSET Nat, doomed : SUBSET Blobs, batch : SUBSET (Keys \cup Names \cup Blobs),
   removing : Blobs \cup {None}, offset : Nat, uses : SUBSET (Keys \X Actions),
   blobs : SUBSET Blobs]

Counters == [publications : Nat, uses : Nat, collections : Nat, faults : Nat, unlogged : Nat]

Reading == gc.pc \in {"indexes", "names"}

(* The types, variable by variable; together they give StoreTypeOK. *)
FileOK  == file \in [Blobs -> [state : {"absent", "good", "corrupt", "removed"}, mtime : 0 .. MaxTime]]
NamedOK == named \in [Names -> Records \cup {None}]
JournalOK == journal \in [current : Seq(Lines), rotated : SUBSET Lines]
UseOK   == use \in Logs
CountOK == now \in 0 .. MaxTime /\ begun \in Counters

(* An index has one candidate for an action key. *)
OneForAction(ix) == \A i, j \in DOMAIN ix : ix[i].action = ix[j].action => i = j

IndexOK ==
  /\ index \in [Keys -> Seq(Candidates)]
  /\ \A k \in Keys : Len(index[k]) <= Max({MaxCandidates, 1}) /\ OneForAction(index[k])

(* A publication under way follows the kind of its request. *)
PubOK ==
  /\ pub \in [Publishers -> Publications \cup {IdlePublisher}]
  /\ \A p \in Publishers :
       /\ pub[p].pc = "journal" => pub[p].request.kind = "candidate"
       /\ pub[p].pc = "outputs" => pub[p].request.kind = "execute"

(* What the collection has read so far is of the store. *)
GcOK ==
  /\ gc \in Collections
  /\ gc.evicted \subseteq DOMAIN gc.units
  /\ \A i \in DOMAIN gc.units :
       gc.units[i].candidate => gc.units[i].path \in Keys /\ gc.units[i].action \in Actions
  /\ Reading => /\ DOMAIN gc.listed \subseteq Blobs
                /\ \A i \in DOMAIN gc.units : gc.units[i].blobs \subseteq DOMAIN gc.listed
  /\ gc.pc = "indexes" => gc.unread \subseteq Keys
  /\ gc.pc \in {"idle", "rotate", "journal", "list"} => gc.units = <<>>

(* The write lock is held by the step inside it.  A batch is taken from the *)
(* records while any is left, and from the blobs only when every record     *)
(* file was visited.                                                         *)
LockOK ==
  /\ \A p \in Publishers : writer = p <=> pub[p].pc = "journal"
  /\ writer = "gc" <=> gc.batch # {}
  /\ gc.removing # None => gc.removing \in gc.batch
  /\ gc.batch # {} => gc.pc = "records"
  /\ \/ gc.batch \subseteq gc.unread /\ gc.removing = None
     \/ gc.unread = {} /\ gc.batch \subseteq Blobs

TypeInv ==
  /\ FileOK /\ IndexOK /\ NamedOK /\ JournalOK /\ UseOK
  /\ PubOK /\ GcOK /\ LockOK /\ CountOK

(* A publisher opens the journal under the lock only, for its own line.      *)
LogOK(log, pc, key) ==
  /\ pc = "offer" => log = None
  /\ log # None => log.line[1] = key

(* What the collection saw of the journal before it plans, and since.        *)
JournalInv ==
  /\ \A p \in Publishers : LogOK(pub[p].log, pub[p].pc, pub[p].request.key)
  /\ gc.offset <= Len(journal.current)
  /\ gc.pc # "records" => gc.offset = 0 /\ gc.uses = {} /\ gc.blobs = {}
  /\ \A i \in 1 .. gc.offset : <<journal.current[i][1], journal.current[i][2]>> \in gc.uses

(* A line of static key k the collection has yet to look at, and a           *)
(* publisher of static key k that will append one.                           *)
Logged(k) == \E i \in gc.offset + 1 .. Len(journal.current) : journal.current[i][1] = k
Logging(k) ==
  \E p \in Publishers :
    /\ pub[p].pc = "journal" /\ pub[p].request.key = k
    /\ pub[p].log = None \/ pub[p].log.into = "current"
Pending(k) == Logged(k) \/ Logging(k)

(* Unit i of the snapshot is candidate c of static key k. *)
UnitOf(i, k, c) ==
  gc.units[i].path = k /\ gc.units[i].action = c.action /\ gc.units[i].created = c.created

(* A candidate of an index that was read is in the snapshot with its blobs,  *)
(* or was published since.                                                   *)
SnapshotInv ==
  Reading =>
    \A k \in Keys : gc.pc = "names" \/ k \notin gc.unread =>
      \A c \in ToSet(index[k]) :
        \/ Pending(k)
        \/ \E i \in DOMAIN gc.units :
             UnitOf(i, k, c) /\ c.blobs \cap DOMAIN gc.listed \subseteq gc.units[i].blobs

(* Why doomed blob b of candidate c will not be removed before c is: it is   *)
(* known to be used, c goes with its unvisited index, or the next look at    *)
(* the journal will find c.                                                  *)
Covered(k, c, b) ==
  \/ b \in gc.blobs
  \/ /\ k \in gc.unread /\ <<k, c.action>> \notin gc.uses
     /\ \E i \in gc.evicted : UnitOf(i, k, c)
  \/ gc.batch = {} /\ Pending(k)

DoomedInv ==
  gc.pc = "records" =>
    \A k \in Keys : \A c \in ToSet(index[k]) : \A b \in c.blobs \cap gc.doomed : Covered(k, c, b)

(* The blob about to be removed is nobody's. *)
RemovingInv == \A k \in Keys : \A c \in ToSet(index[k]) : gc.removing \notin c.blobs

(* No blob of a candidate is gone but to be replaced.                        *)
Whole == \A k \in Keys : \A c \in ToSet(index[k]) : \A b \in c.blobs : file[b].state # "absent"

Safe == SnapshotInv /\ DoomedInv /\ RemovingInv /\ Whole

IInv == TypeInv /\ JournalInv /\ (begun.unlogged = 0 => Safe)

-----------------------------------------------------------------------------
(* Recursion over a sequence.  The library's induction theorem takes a      *)
(* predicate as a parameter; this one takes a set.                          *)

(* Every nonempty set of naturals has a least element. *)
LEMMA Least ==
  ASSUME NEW T \in SUBSET Nat, T # {}
  PROVE  \E n \in T : \A m \in T : n <= m
<1>1. \E n \in T : \A m \in T : ~ (<<m, n>> \in OpToRel(<, Nat))
  BY NatLessThanWellFounded, WFMin
<1>2. \A m, n \in Nat : <<m, n>> \in OpToRel(<, Nat) <=> m < n
  BY DEF OpToRel
<1>3. PICK n \in T : \A m \in T : ~ (<<m, n>> \in OpToRel(<, Nat))
  BY <1>1
<1>4. \A m \in T : ~ (m < n)
  BY <1>2, <1>3
<1> QED BY <1>4

(* A set of naturals with 0 and the successor of each of its elements is    *)
(* all of them.                                                             *)
LEMMA Induction ==
  ASSUME NEW S, 0 \in S, \A n \in Nat : n \in S => n + 1 \in S
  PROVE  \A n \in Nat : n \in S
<1> SUFFICES ASSUME Nat \ S # {} PROVE FALSE
  OBVIOUS
<1>1. PICK n \in Nat \ S : \A m \in Nat \ S : n <= m
  BY Least
<1>2. n # 0 /\ n - 1 \in Nat /\ ~ (n <= n - 1)
  BY <1>1
<1>3. n - 1 \in S
  BY <1>1, <1>2
<1>4. (n - 1) + 1 \in S
  BY <1>2, <1>3
<1> QED BY <1>1, <1>4

(* The recursive function in Retained exists, and is what it says. *)
LEMMA RetainedSteps ==
  ASSUME NEW s, Len(s) \in Nat, NEW T
  PROVE  \E kept :
           /\ Retained(s, T) = kept[Len(s)]
           /\ kept[0] = <<>>
           /\ \A n \in 1 .. Len(s) :
                kept[n] = IF s[n] \in T THEN Append(kept[n - 1], s[n]) ELSE kept[n - 1]
<1> DEFINE Step(f, n) == IF n = 0 THEN <<>>
                         ELSE IF s[n] \in T THEN Append(f[n - 1], s[n]) ELSE f[n - 1]
           Recursive(f, m) == f = [n \in 0 .. m |-> Step(f, n)]
           S == {m \in Nat : \E f : Recursive(f, m)}
<1>1. 0 \in S
  <2>1. Recursive([n \in 0 .. 0 |-> <<>>], 0)
    OBVIOUS
  <2> QED BY <2>1
<1>2. ASSUME NEW m \in Nat, m \in S PROVE m + 1 \in S
  <2>1. PICK f : Recursive(f, m)
    BY <1>2
  <2> DEFINE g == [n \in 0 .. m + 1 |-> IF n <= m THEN f[n] ELSE Step(f, m + 1)]
  <2>2. ASSUME NEW n \in 0 .. m + 1 PROVE g[n] = Step(g, n)
    <3>1. CASE n = m + 1
      <4>1. g[n] = Step(f, m + 1) /\ g[n - 1] = f[n - 1]
        BY <3>1
      <4> QED BY <4>1, <3>1
    <3>2. CASE n <= m
      <4>1. g[n] = f[n] /\ (n # 0 => g[n - 1] = f[n - 1])
        BY <3>2
      <4>2. f[n] = Step(f, n)
        <5> HIDE DEF Step
        <5> QED BY <2>1, <3>2
      <4> QED BY <4>1, <4>2
    <3> QED BY <3>1, <3>2
  <2>3. g = [n \in 0 .. m + 1 |-> g[n]]
    OBVIOUS
  <2>4. Recursive(g, m + 1)
    <3> HIDE DEF g, Step
    <3> QED BY <2>2, <2>3
  <2> HIDE DEF g, Recursive
  <2> QED BY <2>4
<1>3. \E f : Recursive(f, Len(s))
  <2> HIDE DEF S
  <2>1. Len(s) \in S
    BY <1>1, <1>2, Induction
  <2> QED BY <2>1 DEF S
<1>4. Recursive(CHOOSE f : Recursive(f, Len(s)), Len(s))
  BY <1>3
<1>5. Retained(s, T) = (CHOOSE f : Recursive(f, Len(s)))[Len(s)]
  BY DEF Retained
<1> DEFINE kept == CHOOSE f : Recursive(f, Len(s))
<1>6. \A n \in 0 .. Len(s) : kept[n] = Step(kept, n)
  <2> HIDE DEF Step, kept
  <2>1. Recursive(kept, Len(s))
    BY <1>4 DEF kept
  <2> QED BY <2>1
<1>7. kept[0] = <<>>
  BY <1>6
<1>8. \A n \in 1 .. Len(s) :
        kept[n] = IF s[n] \in T THEN Append(kept[n - 1], s[n]) ELSE kept[n - 1]
  <2> HIDE DEF kept
  <2> QED BY <1>6
<1> HIDE DEF kept, Recursive, Step
<1> QED BY <1>5, <1>7, <1>8 DEF kept

(* Retained keeps the elements of s that are in T, and their order. *)
LEMMA RetainedInOrder ==
  ASSUME NEW D, NEW s \in Seq(D), NEW T
  PROVE  LET r == Retained(s, T) IN
         /\ r \in Seq(D)
         /\ Len(r) <= Len(s)
         /\ \A i \in 1 .. Len(r) : \E a \in 1 .. Len(s) : s[a] \in T /\ r[i] = s[a]
         /\ \A a \in 1 .. Len(s) : s[a] \in T => \E i \in 1 .. Len(r) : r[i] = s[a]
         /\ \A i, j \in 1 .. Len(r) : i < j =>
              \E a, b \in 1 .. Len(s) : a < b /\ r[i] = s[a] /\ r[j] = s[b]
<1>1. PICK kept : /\ Retained(s, T) = kept[Len(s)]
                  /\ kept[0] = <<>>
                  /\ \A n \in 1 .. Len(s) :
                       kept[n] = IF s[n] \in T THEN Append(kept[n - 1], s[n]) ELSE kept[n - 1]
  BY RetainedSteps
<1> DEFINE From(n) == \A i \in 1 .. Len(kept[n]) : \E a \in 1 .. n : s[a] \in T /\ kept[n][i] = s[a]
           All(n) == \A a \in 1 .. n : s[a] \in T => \E i \in 1 .. Len(kept[n]) : kept[n][i] = s[a]
           Ordered(n) == \A i, j \in 1 .. Len(kept[n]) : i < j =>
                           \E a, b \in 1 .. n : a < b /\ kept[n][i] = s[a] /\ kept[n][j] = s[b]
           Ok(n) == kept[n] \in Seq(D) /\ Len(kept[n]) <= n /\ From(n) /\ All(n) /\ Ordered(n)
           S == {n \in Nat : n <= Len(s) => Ok(n)}
<1>2. 0 \in S
  <2>1. kept[0] \in Seq(D) /\ Len(kept[0]) = 0 /\ 1 .. Len(kept[0]) = {} /\ 1 .. 0 = {}
    BY <1>1
  <2>2. From(0) /\ All(0) /\ Ordered(0)
    BY <2>1
  <2> HIDE DEF From, All, Ordered
  <2> QED BY <2>1, <2>2
<1>3. ASSUME NEW n \in Nat, n \in S PROVE n + 1 \in S
  <2> SUFFICES ASSUME n + 1 <= Len(s) PROVE Ok(n + 1)
    OBVIOUS
  <2>1. Ok(n)
    BY <1>3
  <2>2. kept[n + 1] = IF s[n + 1] \in T THEN Append(kept[n], s[n + 1]) ELSE kept[n]
    BY <1>1
  <2>3. CASE s[n + 1] \notin T
    <3>1. kept[n + 1] = kept[n]
      BY <2>2, <2>3
    <3>2. From(n + 1)
      BY <3>1, <2>1
    <3>3. All(n + 1)
      BY <3>1, <2>1, <2>3
    <3>4. Ordered(n + 1)
      BY <3>1, <2>1
    <3> QED BY <3>1, <3>2, <3>3, <3>4, <2>1
  <2>4. CASE s[n + 1] \in T
    <3>1. /\ kept[n + 1] \in Seq(D) /\ Len(kept[n + 1]) = Len(kept[n]) + 1
          /\ \A i \in 1 .. Len(kept[n]) : kept[n + 1][i] = kept[n][i]
          /\ kept[n + 1][Len(kept[n]) + 1] = s[n + 1]
      BY <2>1, <2>2, <2>4
    <3>2. From(n + 1)
      <4> TAKE i \in 1 .. Len(kept[n + 1])
      <4>1. CASE i = Len(kept[n]) + 1
        BY <4>1, <3>1, <2>4
      <4>2. CASE i # Len(kept[n]) + 1
        <5>1. i \in 1 .. Len(kept[n])
          BY <4>2, <3>1, <2>1
        <5>2. PICK a \in 1 .. n : s[a] \in T /\ kept[n][i] = s[a]
          BY <5>1, <2>1
        <5> QED BY <5>1, <5>2, <3>1
      <4> QED BY <4>1, <4>2
    <3>3. All(n + 1)
      <4> TAKE a \in 1 .. n + 1
      <4> HAVE s[a] \in T
      <4>1. CASE a = n + 1
        BY <4>1, <3>1, <2>1
      <4>2. CASE a # n + 1
        <5>1. PICK i \in 1 .. Len(kept[n]) : kept[n][i] = s[a]
          BY <4>2, <2>1
        <5> QED BY <5>1, <3>1, <2>1
      <4> QED BY <4>1, <4>2
    <3>4. ASSUME NEW i \in 1 .. Len(kept[n + 1]), NEW j \in 1 .. Len(kept[n + 1]), i < j
          PROVE  \E a, b \in 1 .. n + 1 : a < b /\ kept[n + 1][i] = s[a] /\ kept[n + 1][j] = s[b]
      <4>0. i \in 1 .. Len(kept[n])
        BY <3>1, <3>4, <2>1
      <4>1. CASE j = Len(kept[n]) + 1
        <5>1. PICK a \in 1 .. n : kept[n][i] = s[a]
          BY <4>0, <2>1
        <5> QED BY <5>1, <4>0, <4>1, <3>1
      <4>2. CASE j # Len(kept[n]) + 1
        <5>1. j \in 1 .. Len(kept[n])
          BY <4>2, <3>1, <2>1
        <5>2. PICK a, b \in 1 .. n : a < b /\ kept[n][i] = s[a] /\ kept[n][j] = s[b]
          BY <5>1, <4>0, <3>4, <2>1
        <5> QED BY <5>1, <5>2, <4>0, <3>1
      <4> QED BY <4>1, <4>2
    <3> HIDE DEF From, All
    <3>5. Ordered(n + 1)
      BY <3>4
    <3> QED BY <3>1, <3>2, <3>3, <3>5, <2>1
  <2> QED BY <2>3, <2>4
<1>4. Ok(Len(s))
  <2> HIDE DEF S
  <2>1. Len(s) \in S
    BY <1>2, <1>3, Induction
  <2> HIDE DEF Ok
  <2> QED BY <2>1 DEF S
<1> QED BY <1>1, <1>4

(* The set of what Retained keeps. *)
LEMMA RetainedSet ==
  ASSUME NEW D, NEW s \in Seq(D), NEW T
  PROVE  ToSet(Retained(s, T)) = ToSet(s) \cap T
<1> DEFINE r == Retained(s, T)
<1>1. /\ r \in Seq(D)
      /\ \A i \in 1 .. Len(r) : \E a \in 1 .. Len(s) : s[a] \in T /\ r[i] = s[a]
      /\ \A a \in 1 .. Len(s) : s[a] \in T => \E i \in 1 .. Len(r) : r[i] = s[a]
  BY RetainedInOrder
<1> HIDE DEF r
<1>2. DOMAIN r = 1 .. Len(r) /\ DOMAIN s = 1 .. Len(s)
  BY <1>1
<1>3. ToSet(r) = {r[i] : i \in 1 .. Len(r)} /\ ToSet(s) = {s[a] : a \in 1 .. Len(s)}
  BY <1>2 DEF ToSet
<1>4. ASSUME NEW x PROVE x \in ToSet(r) <=> x \in ToSet(s) \cap T
  BY <1>1, <1>3
<1>5. ToSet(r) = ToSet(s) \cap T
  BY <1>4
<1> QED BY <1>5 DEF r


(* The extremes of two naturals. *)
LEMMA MaxMin ==
  ASSUME NEW m \in Nat, NEW n \in Nat
  PROVE  /\ Max({m, n}) \in {m, n} /\ Max({m, n}) >= m /\ Max({m, n}) >= n
         /\ Min({m, n}) \in {m, n} /\ Min({m, n}) <= m /\ Min({m, n}) <= n
<1>1. \E x \in {m, n} : \A y \in {m, n} : x >= y
  OBVIOUS
<1>2. \E x \in {m, n} : \A y \in {m, n} : x <= y
  OBVIOUS
<1>3. Max({m, n}) \in {m, n} /\ \A y \in {m, n} : Max({m, n}) >= y
  BY <1>1 DEF Max
<1>4. Min({m, n}) \in {m, n} /\ \A y \in {m, n} : Min({m, n}) <= y
  BY <1>2 DEF Min
<1> QED BY <1>3, <1>4

(* An index stays one candidate for an action key, and within its bound. *)
LEMMA WithCandidateKeeps ==
  ASSUME NEW D, NEW ix \in Seq(D), NEW c \in D, OneForAction(ix)
  PROVE  /\ WithCandidate(ix, c) \in Seq(D)
         /\ Len(WithCandidate(ix, c)) <= Max({MaxCandidates, 1})
         /\ OneForAction(WithCandidate(ix, c))
         /\ ToSet(WithCandidate(ix, c)) \subseteq ToSet(ix) \cup {c}
<1> USE DEF OneForAction
<1> DEFINE T == {d \in ToSet(ix) : d.action # c.action}
           r == Retained(ix, T)
           new == <<c>> \o r
           max == Max({MaxCandidates, 1})
           m == Min({Len(new), max})
           w == SubSeq(new, 1, m)
<1>1. /\ r \in Seq(D)
      /\ \A i \in 1 .. Len(r) : \E a \in 1 .. Len(ix) :
           ix[a] \in T /\ r[i] = ix[a]
      /\ \A i, j \in 1 .. Len(r) : i < j =>
           \E a, b \in 1 .. Len(ix) : a < b /\ r[i] = ix[a] /\ r[j] = ix[b]
  <2> HIDE DEF T
  <2> QED BY RetainedInOrder
<1> HIDE DEF r
<1>2. /\ new \in Seq(D) /\ Len(new) = 1 + Len(r) /\ new[1] = c
      /\ \A i \in 2 .. Len(new) : new[i] = r[i - 1]
  BY <1>1, ConcatProperties
<1> HIDE DEF new
<1>3. max \in Nat /\ max >= 1
  BY MaxMin, BoundsAssumption
<1> HIDE DEF max
<1>4. m \in 1 .. Len(new) /\ m <= max
  <2>1. Len(new) \in Nat /\ Len(new) >= 1
    BY <1>1, <1>2
  <2>2. m \in {Len(new), max} /\ m <= Len(new) /\ m <= max
    BY <2>1, <1>3, MaxMin
  <2> QED BY <2>1, <2>2, <1>3
<1> HIDE DEF m
<1>5. /\ w \in Seq(D) /\ Len(w) = m /\ DOMAIN w = 1 .. m
      /\ \A i \in 1 .. m : w[i] = new[i]
  BY <1>2, <1>4, SubSeqProperties
<1> HIDE DEF w
<1>6. ASSUME NEW i \in 2 .. Len(new)
      PROVE  \E a \in DOMAIN ix : new[i] = ix[a] /\ ix[a].action # c.action
  <2>1. i - 1 \in 1 .. Len(r) /\ new[i] = r[i - 1]
    BY <1>1, <1>2
  <2>2. PICK a \in 1 .. Len(ix) : ix[a] \in T /\ r[i - 1] = ix[a]
    BY <2>1, <1>1
  <2>3. a \in DOMAIN ix /\ ix[a].action # c.action
    BY <2>2
  <2> QED BY <2>1, <2>2, <2>3
<1>7. ASSUME NEW i \in 1 .. Len(new), NEW j \in 1 .. Len(new), i < j
      PROVE  new[i].action # new[j].action
  <2>1. CASE i = 1
    BY <1>2, <1>6, <1>7, <2>1
  <2>2. CASE i # 1
    <3>1. /\ i - 1 \in 1 .. Len(r) /\ j - 1 \in 1 .. Len(r) /\ i - 1 < j - 1
          /\ new[i] = r[i - 1] /\ new[j] = r[j - 1]
      BY <1>1, <1>2, <1>7, <2>2
    <3>2. PICK a, b \in 1 .. Len(ix) : a < b /\ r[i - 1] = ix[a] /\ r[j - 1] = ix[b]
      BY <3>1, <1>1
    <3>3. a \in DOMAIN ix /\ b \in DOMAIN ix /\ a # b
      BY <3>2
    <3> QED BY <3>1, <3>2, <3>3
  <2> QED BY <2>1, <2>2
<1>8. \A i, j \in DOMAIN w : w[i].action = w[j].action => i = j
  <2> SUFFICES ASSUME NEW i \in DOMAIN w, NEW j \in DOMAIN w, i # j
               PROVE  w[i].action # w[j].action
    OBVIOUS
  <2>1. i \in 1 .. Len(new) /\ j \in 1 .. Len(new) /\ w[i] = new[i] /\ w[j] = new[j]
    BY <1>2, <1>4, <1>5
  <2>2. i < j \/ j < i
    BY <2>1
  <2> QED BY <2>1, <2>2, <1>7
<1>9. ASSUME NEW x \in ToSet(w) PROVE x \in ToSet(ix) \cup {c}
  <2>1. PICK i \in 1 .. m : x = new[i]
    BY <1>5, <1>9 DEF ToSet
  <2> QED BY <2>1, <1>2, <1>4, <1>6 DEF ToSet
<1>10. WithCandidate(ix, c) = w
  BY DEF WithCandidate, w, m, max, new, r
<1> QED BY <1>3, <1>4, <1>5, <1>8, <1>9, <1>10 DEF max


-----------------------------------------------------------------------------
(* The order of eviction. *)

(* A strict total order of 1..N, given by what comes before each element. *)
TotalOrder(N, before) ==
  /\ before \in [1 .. N -> SUBSET (1 .. N)]
  /\ \A i \in 1 .. N : i \notin before[i]
  /\ \A i, j \in 1 .. N : i # j => i \in before[j] \/ j \in before[i]
  /\ \A i, j, k \in 1 .. N : i \in before[j] /\ j \in before[k] => i \in before[k]

(* Every place of the order is taken, and the places follow it. *)
InPlaces(N, before, rank) ==
  /\ \A i \in 1 .. N : rank[i] \in 0 .. N - 1
  /\ \A i, j \in 1 .. N : i \in before[j] => rank[i] < rank[j]
  /\ \A n \in 0 .. N - 1 : \E i \in 1 .. N : rank[i] = n

(* The place of an element is how many come before it. *)
LEMMA Ranks ==
  ASSUME NEW N \in Nat, NEW before, TotalOrder(N, before),
         NEW rank \in [1 .. N -> Nat], \A i \in 1 .. N : rank[i] = Cardinality(before[i])
  PROVE  InPlaces(N, before, rank)
<1> USE DEF TotalOrder
<1>1. IsFiniteSet(1 .. N) /\ Cardinality(1 .. N) = N
  BY FS_Interval
<1>2. IsFiniteSet(0 .. N - 1) /\ Cardinality(0 .. N - 1) = N
  <2>1. 0 \in Int /\ N - 1 \in Int /\ (0 > N - 1 <=> N = 0)
    OBVIOUS
  <2>2. Cardinality(0 .. N - 1) = IF 0 > N - 1 THEN 0 ELSE (N - 1) - 0 + 1
    BY <2>1, FS_Interval
  <2> QED BY <2>1, <2>2, FS_Interval
<1>3. ASSUME NEW i \in 1 .. N
      PROVE  IsFiniteSet(before[i]) /\ rank[i] \in 0 .. N - 1
  <2>1. before[i] \in SUBSET (1 .. N) /\ i \notin before[i]
    OBVIOUS
  <2>2. IsFiniteSet(before[i]) /\ Cardinality(before[i]) \in Nat
    BY <2>1, <1>1, FS_Subset, FS_CardinalityType
  <2>3. Cardinality(before[i]) <= N /\ Cardinality(before[i]) # N
    BY <2>1, <1>1, FS_Subset
  <2> QED BY <2>2, <2>3
<1>4. ASSUME NEW i \in 1 .. N, NEW j \in 1 .. N, i \in before[j]
      PROVE  rank[i] < rank[j]
  <2>1. before[i] \in SUBSET before[j] /\ i \in before[j] /\ i \notin before[i]
    BY <1>4
  <2>2. Cardinality(before[i]) <= Cardinality(before[j])
    BY <2>1, <1>3, FS_Subset
  <2>3. Cardinality(before[i]) # Cardinality(before[j])
    BY <2>1, <1>3, FS_Subset
  <2> QED BY <2>2, <2>3, <1>3
<1>5. rank \in [1 .. N -> 0 .. N - 1]
  BY <1>3
<1>6. rank \in Injection(1 .. N, 0 .. N - 1)
  <2>1. ASSUME NEW i \in 1 .. N, NEW j \in 1 .. N, i # j
        PROVE  rank[i] # rank[j]
    <3>1. rank[i] < rank[j] \/ rank[j] < rank[i]
      BY <2>1, <1>4
    <3> QED BY <3>1, <1>5
  <2>2. DOMAIN rank = 1 .. N
    BY <1>5
  <2>3. \A a, b \in DOMAIN rank : rank[a] = rank[b] => a = b
    BY <2>1, <2>2
  <2>4. IsInjective(rank)
    BY <2>3, Zenon DEF IsInjective
  <2> QED BY <2>4, <1>5, Zenon DEF Injection
<1>7. rank \in Surjection(1 .. N, 0 .. N - 1)
  BY <1>1, <1>2, <1>6, FS_Injection
<1>8. \A n \in 0 .. N - 1 : \E i \in 1 .. N : rank[i] = n
  BY <1>7 DEF Surjection
<1> QED BY <1>3, <1>4, <1>8 DEF InPlaces

(* A snapshot as far as the theorems need it: a list of units with last     *)
(* uses.                                                                    *)
UnitList(s) ==
  /\ Len(s.units) \in Nat /\ DOMAIN s.units = 1 .. Len(s.units)
  /\ \A i \in DOMAIN s.units : s.units[i].last \in Int

(* An order of all the units, each before those that go after it. *)
Sorted(s, options, order) ==
  /\ \A n \in 1 .. Len(s.units) : order[n] \in DOMAIN s.units
  /\ \A i \in DOMAIN s.units : \E n \in 1 .. Len(s.units) : order[n] = i
  /\ \A m, n \in 1 .. Len(s.units) : m < n => EvictedBefore(s, options, order[m], order[n])

(* The order of eviction lists every unit once: obsolete candidates first,  *)
(* then the least recently used (order.sort_by_key of Plan::new).           *)
LEMMA OrderSorts ==
  ASSUME NEW s, NEW options, UnitList(s)
  PROVE  Sorted(s, options, EvictionOrder(s, options))
<1> USE DEF UnitList
<1> DEFINE N == Len(s.units)
           order == EvictionOrder(s, options)
           before == [i \in 1 .. N |-> {j \in 1 .. N : EvictedBefore(s, options, j, i)}]
           rank == [i \in 1 .. N |-> Cardinality(before[i])]
           old == {i \in 1 .. N : Obsolete(s.units[i], options)}
           last == [i \in 1 .. N |-> s.units[i].last]
<1>1. ASSUME NEW i \in 1 .. N, NEW j \in 1 .. N
      PROVE  i \in before[j] <=>
               \/ i \in old /\ j \notin old
               \/ /\ i \in old <=> j \in old
                  /\ last[i] < last[j] \/ (last[i] = last[j] /\ i < j)
  <2>1. i \in before[j] <=> EvictedBefore(s, options, i, j)
    OBVIOUS
  <2>2. /\ i \in old <=> Obsolete(s.units[i], options)
        /\ j \in old <=> Obsolete(s.units[j], options)
        /\ last[i] = s.units[i].last /\ last[j] = s.units[j].last
    OBVIOUS
  <2> HIDE DEF before, old, last
  <2> QED BY <2>1, <2>2, Zenon DEF EvictedBefore
<1>2. \A i \in 1 .. N : last[i] \in Int
  OBVIOUS
<1>3. before \in [1 .. N -> SUBSET (1 .. N)]
  OBVIOUS
<1> HIDE DEF old, last
<1>4. /\ \A i \in 1 .. N : i \notin before[i]
      /\ \A i, j \in 1 .. N : i # j => i \in before[j] \/ j \in before[i]
      /\ \A i, j, k \in 1 .. N : i \in before[j] /\ j \in before[k] => i \in before[k]
  <2> HIDE DEF before
  <2>1. \A i \in 1 .. N : i \notin before[i]
    BY <1>1, <1>2
  <2>2. \A i, j \in 1 .. N : i # j => i \in before[j] \/ j \in before[i]
    <3> TAKE i, j \in 1 .. N
    <3> HAVE i # j
    <3>1. last[i] \in Int /\ last[j] \in Int
      BY <1>2
    <3>2. i \in Int /\ j \in Int /\ (i < j \/ j < i)
      OBVIOUS
    <3>3. CASE i \in old <=> j \in old
      BY <3>1, <3>2, <3>3, <1>1
    <3>4. CASE ~ (i \in old <=> j \in old)
      BY <3>4, <1>1
    <3> QED BY <3>3, <3>4
  <2>3. \A i, j, k \in 1 .. N : i \in before[j] /\ j \in before[k] => i \in before[k]
    <3> TAKE i, j, k \in 1 .. N
    <3> HAVE i \in before[j] /\ j \in before[k]
    <3>1. last[i] \in Int /\ last[j] \in Int /\ last[k] \in Int
      BY <1>2
    <3>2. i \in Int /\ j \in Int /\ k \in Int
      OBVIOUS
    <3>3. CASE i \in old /\ k \notin old
      BY <3>3, <1>1
    <3>4. CASE ~ (i \in old /\ k \notin old)
      <4>1. (i \in old <=> j \in old) /\ (j \in old <=> k \in old)
        BY <3>4, <1>1
      <4>2. /\ last[i] < last[j] \/ (last[i] = last[j] /\ i < j)
            /\ last[j] < last[k] \/ (last[j] = last[k] /\ j < k)
        BY <4>1, <1>1
      <4>3. last[i] < last[k] \/ (last[i] = last[k] /\ i < k)
        BY <4>2, <3>1, <3>2
      <4> QED BY <4>1, <4>3, <1>1
    <3> QED BY <3>3, <3>4
  <2> QED BY <2>1, <2>2, <2>3
<1>5. /\ \A i \in 1 .. N : rank[i] \in 0 .. N - 1
      /\ \A i, j \in 1 .. N : i \in before[j] => rank[i] < rank[j]
      /\ \A n \in 0 .. N - 1 : \E i \in 1 .. N : rank[i] = n
  <2> HIDE DEF N, before
  <2>1. N \in Nat
    BY DEF N
  <2>2. \A i \in 1 .. N : rank[i] = Cardinality(before[i]) /\ rank[i] \in Nat
    <3> TAKE i \in 1 .. N
    <3>1. IsFiniteSet(1 .. N)
      BY <2>1, FS_Interval
    <3>2. before[i] \in SUBSET (1 .. N)
      BY <1>3
    <3>3. IsFiniteSet(before[i])
      BY <3>1, <3>2, FS_Subset
    <3> QED BY <3>3, FS_CardinalityType
  <2>3. rank \in [1 .. N -> Nat]
    BY <2>2
  <2> HIDE DEF rank
  <2>4. \A i \in 1 .. N : rank[i] = Cardinality(before[i])
    BY <2>2
  <2>5. TotalOrder(N, before)
    BY <1>3, <1>4 DEF TotalOrder
  <2>6. InPlaces(N, before, rank)
    BY <2>1, <2>3, <2>4, <2>5, Ranks
  <2> QED BY <2>6 DEF InPlaces
<1>6. ASSUME NEW i \in 1 .. N
      PROVE  rank[i] = Cardinality({j \in DOMAIN s.units : EvictedBefore(s, options, j, i)})
  OBVIOUS
<1>6a. \A i, j \in 1 .. N : EvictedBefore(s, options, i, j) <=> i \in before[j]
  OBVIOUS
<1> HIDE DEF before
<1>7. order = [n \in 1 .. N |-> order[n]]
  <2> DEFINE at(n) == CHOOSE i \in DOMAIN s.units :
                        Cardinality({j \in DOMAIN s.units : EvictedBefore(s, options, j, i)}) = n - 1
  <2>1. order = [n \in 1 .. N |-> at(n)]
    BY DEF EvictionOrder
  <2> HIDE DEF at, order
  <2> QED BY <2>1
<1> HIDE DEF rank
<1>8. ASSUME NEW n \in 1 .. N
      PROVE  order[n] \in 1 .. N /\ rank[order[n]] = n - 1
  <2> DEFINE At(i) == Cardinality({j \in DOMAIN s.units : EvictedBefore(s, options, j, i)}) = n - 1
  <2>1. order[n] = CHOOSE i \in DOMAIN s.units : At(i)
    BY DEF EvictionOrder
  <2>2. n - 1 \in 0 .. N - 1
    OBVIOUS
  <2>3. PICK i \in 1 .. N : rank[i] = n - 1
    BY <2>2, <1>5
  <2>4. At(i)
    BY <2>3, <1>6
  <2> HIDE DEF At
  <2>5. order[n] \in DOMAIN s.units /\ At(order[n])
    BY <2>1, <2>4
  <2> QED BY <2>5, <1>6 DEF At
<1> HIDE DEF order
<1>9. ASSUME NEW i \in 1 .. N PROVE \E n \in 1 .. N : order[n] = i
  <2> DEFINE n == rank[i] + 1
  <2>1. n \in 1 .. N
    BY <1>5
  <2>2. rank[order[n]] = rank[i] /\ order[n] \in 1 .. N
    <3>1. rank[order[n]] = n - 1 /\ order[n] \in 1 .. N
      BY <2>1, <1>8
    <3> QED BY <3>1, <1>5
  <2> HIDE DEF n
  <2>3. order[n] = i
    <3> SUFFICES ASSUME order[n] # i PROVE FALSE
      OBVIOUS
    <3>1. order[n] \in before[i] \/ i \in before[order[n]]
      BY <2>2, <1>4
    <3>2. rank[order[n]] < rank[i] \/ rank[i] < rank[order[n]]
      BY <3>1, <2>2, <1>5
    <3> QED BY <3>2, <2>2, <1>5
  <2> QED BY <2>1, <2>3
<1>10. ASSUME NEW m \in 1 .. N, NEW n \in 1 .. N, m < n
       PROVE  EvictedBefore(s, options, order[m], order[n])
  <2>1. rank[order[m]] < rank[order[n]] /\ order[m] \in 1 .. N /\ order[n] \in 1 .. N
    BY <1>8, <1>10
  <2>2. order[m] # order[n] /\ ~ (rank[order[n]] < rank[order[m]])
    BY <2>1, <1>5
  <2>3. order[m] \in before[order[n]]
    BY <2>1, <2>2, <1>4, <1>5
  <2> QED BY <2>1, <2>3, <1>6a
<1> QED BY <1>8, <1>9, <1>10 DEF order, Sorted


-----------------------------------------------------------------------------
(* What a collection plans. *)

(* The recursive function in Pass exists, and is what it says. *)
LEMMA PassSteps ==
  ASSUME NEW s, NEW options, NEW pass, NEW start, Len(s.units) \in Nat
  PROVE  \E after :
           /\ Pass(s, options, pass, start) = after[Len(s.units)]
           /\ after[0] = start
           /\ \A n \in 1 .. Len(s.units) :
                after[n] = IF Due(s, options, pass, after[n - 1], EvictionOrder(s, options)[n])
                           THEN Evict(s, after[n - 1], EvictionOrder(s, options)[n])
                           ELSE after[n - 1]
<1> DEFINE order == EvictionOrder(s, options)
           Visit(n, p) == IF Due(s, options, pass, p, order[n]) THEN Evict(s, p, order[n]) ELSE p
           Step(f, n) == IF n = 0 THEN start
                         ELSE IF Due(s, options, pass, f[n - 1], order[n])
                         THEN Evict(s, f[n - 1], order[n])
                         ELSE f[n - 1]
           Recursive(f, m) == f = [n \in 0 .. m |-> Step(f, n)]
           S == {m \in Nat : \E f : Recursive(f, m)}
           after == CHOOSE f : Recursive(f, Len(s.units))
<1>1. Pass(s, options, pass, start) = after[Len(s.units)]
  BY DEF Pass
<1>2. \A f, n : Step(f, n) = IF n = 0 THEN start ELSE Visit(n, f[n - 1])
  OBVIOUS
<1> HIDE DEF Step, Visit
<1>3. 0 \in S
  <2>1. Recursive([n \in 0 .. 0 |-> start], 0)
    BY <1>2
  <2> QED BY <2>1
<1>4. ASSUME NEW m \in Nat, m \in S PROVE m + 1 \in S
  <2>1. PICK f : Recursive(f, m)
    BY <1>4
  <2> DEFINE g == [n \in 0 .. m + 1 |-> IF n <= m THEN f[n] ELSE Step(f, m + 1)]
  <2>2. ASSUME NEW n \in 0 .. m + 1 PROVE g[n] = Step(g, n)
    <3>1. CASE n = m + 1
      <4>1. g[n] = Step(f, m + 1) /\ g[n - 1] = f[n - 1]
        BY <3>1
      <4> HIDE DEF g
      <4> QED BY <4>1, <3>1, <1>2
    <3>2. CASE n <= m
      <4>1. g[n] = f[n] /\ (n # 0 => g[n - 1] = f[n - 1])
        BY <3>2
      <4>2. f[n] = Step(f, n)
        BY <2>1, <3>2
      <4> HIDE DEF g
      <4> QED BY <4>1, <4>2, <1>2
    <3> QED BY <3>1, <3>2
  <2>3. g = [n \in 0 .. m + 1 |-> g[n]]
    OBVIOUS
  <2>4. Recursive(g, m + 1)
    <3> HIDE DEF g
    <3> QED BY <2>2, <2>3
  <2> HIDE DEF g, Recursive
  <2> QED BY <2>4
<1>5. \E f : Recursive(f, Len(s.units))
  <2> HIDE DEF S
  <2>1. Len(s.units) \in S
    BY <1>3, <1>4, Induction
  <2> QED BY <2>1 DEF S
<1>6. Recursive(after, Len(s.units))
  <2> HIDE DEF Recursive
  <2> QED BY <1>5
<1> HIDE DEF after
<1>7. \A n \in 0 .. Len(s.units) : after[n] = Step(after, n)
  BY <1>6
<1>8. after[0] = start
  BY <1>2, <1>7
<1>9. \A n \in 1 .. Len(s.units) : after[n] = Visit(n, after[n - 1])
  BY <1>2, <1>7
<1> QED BY <1>1, <1>8, <1>9 DEF Visit

(* A plan under way: what it evicts are units, and what it frees is what    *)
(* only they reference, each blob once, for a unit that referenced it.      *)
PlanOk(s, p) ==
  /\ p.evicted \subseteq DOMAIN s.units
  /\ \A f \in p.freed : f[2] \in Referrers(s, f[1]) /\ Referrers(s, f[1]) \subseteq p.evicted
  /\ \A b : Referrers(s, b) # {} /\ Referrers(s, b) \subseteq p.evicted =>
       \E f \in p.freed : f[1] = b
  /\ \A f, g \in p.freed : f[1] = g[1] => f = g

(* The closure `evict` keeps the plan right, and evicts its unit. *)
LEMMA EvictKeeps ==
  ASSUME NEW s, NEW p, NEW i \in DOMAIN s.units, PlanOk(s, p)
  PROVE  PlanOk(s, Evict(s, p, i)) /\ Evict(s, p, i).evicted = p.evicted \cup {i}
<1>1. CASE i \in p.evicted
  BY <1>1 DEF Evict
<1>2. CASE i \notin p.evicted
  <2> DEFINE q == Evict(s, p, i)
             freed == {b \in s.units[i].blobs : Referrers(s, b) \subseteq p.evicted \cup {i}}
  <2>1. q.evicted = p.evicted \cup {i} /\ q.freed = p.freed \cup (freed \X {i})
    BY <1>2 DEF Evict
  <2> HIDE DEF q
  <2>2. \A b : i \in Referrers(s, b) <=> b \in s.units[i].blobs
    BY DEF Referrers
  <2>3. \A f \in freed \X {i} : /\ f[2] = i /\ i \in Referrers(s, f[1])
                                /\ Referrers(s, f[1]) \subseteq q.evicted
                                /\ ~ (Referrers(s, f[1]) \subseteq p.evicted)
    BY <1>2, <2>1, <2>2
  <2>4. \A f \in q.freed : f[2] \in Referrers(s, f[1]) /\ Referrers(s, f[1]) \subseteq q.evicted
    BY <2>1, <2>3 DEF PlanOk
  <2>5. ASSUME NEW b, Referrers(s, b) # {}, Referrers(s, b) \subseteq q.evicted
        PROVE  \E f \in q.freed : f[1] = b
    <3>1. CASE Referrers(s, b) \subseteq p.evicted
      BY <3>1, <2>1, <2>5 DEF PlanOk
    <3>2. CASE ~ (Referrers(s, b) \subseteq p.evicted)
      <4>1. i \in Referrers(s, b)
        BY <3>2, <2>1, <2>5
      <4>2. b \in freed
        BY <4>1, <2>1, <2>2, <2>5
      <4>3. <<b, i>> \in q.freed
        BY <4>2, <2>1
      <4> QED BY <4>3
    <3> QED BY <3>1, <3>2
  <2>6. ASSUME NEW f \in q.freed, NEW g \in q.freed, f[1] = g[1] PROVE f = g
    <3>1. CASE f \in p.freed /\ g \in p.freed
      BY <3>1, <2>6 DEF PlanOk
    <3>2. CASE f \in freed \X {i} /\ g \in freed \X {i}
      BY <3>2, <2>6
    <3>3. CASE f \in p.freed /\ g \in freed \X {i}
      BY <3>3, <2>3, <2>6 DEF PlanOk
    <3>4. CASE f \in freed \X {i} /\ g \in p.freed
      BY <3>4, <2>3, <2>6 DEF PlanOk
    <3> QED BY <3>1, <3>2, <3>3, <3>4, <2>1
  <2>7. q.evicted \subseteq DOMAIN s.units
    BY <2>1 DEF PlanOk
  <2>8. PlanOk(s, q)
    BY <2>4, <2>5, <2>6, <2>7 DEF PlanOk
  <2> QED BY <2>1, <2>8 DEF q
<1> QED BY <1>1, <1>2


(* A pass keeps the plan right and takes nothing back. *)
LEMMA PassKeeps ==
  ASSUME NEW s, NEW options, NEW pass, NEW start, UnitList(s), PlanOk(s, start)
  PROVE  /\ PlanOk(s, Pass(s, options, pass, start))
         /\ start.evicted \subseteq Pass(s, options, pass, start).evicted
<1> DEFINE N == Len(s.units)
           order == EvictionOrder(s, options)
<1>1. PICK after :
        /\ Pass(s, options, pass, start) = after[N]
        /\ after[0] = start
        /\ \A n \in 1 .. N : after[n] = IF Due(s, options, pass, after[n - 1], order[n])
                                        THEN Evict(s, after[n - 1], order[n])
                                        ELSE after[n - 1]
  BY PassSteps DEF UnitList
<1>2. \A n \in 1 .. N : order[n] \in DOMAIN s.units
  BY OrderSorts DEF Sorted
<1> DEFINE S == {n \in Nat : n <= N => PlanOk(s, after[n]) /\ start.evicted \subseteq after[n].evicted}
<1> HIDE DEF order
<1>3. 0 \in S
  BY <1>1
<1>4. ASSUME NEW n \in Nat, n \in S PROVE n + 1 \in S
  <2> SUFFICES ASSUME n + 1 <= N
               PROVE  PlanOk(s, after[n + 1]) /\ start.evicted \subseteq after[n + 1].evicted
    OBVIOUS
  <2>1. n + 1 \in 1 .. N /\ PlanOk(s, after[n]) /\ start.evicted \subseteq after[n].evicted
    BY <1>4 DEF UnitList
  <2>2. \/ after[n + 1] = Evict(s, after[n], order[n + 1])
        \/ after[n + 1] = after[n]
    BY <2>1, <1>1
  <2> QED BY <2>1, <2>2, <1>2, EvictKeeps
<1>5. N \in S
  <2> HIDE DEF S
  <2> QED BY <1>3, <1>4, Induction DEF UnitList
<1> QED BY <1>1, <1>5

(* The last pass evicts every obsolete candidate. *)
LEMMA PassEvictsObsolete ==
  ASSUME NEW s, NEW options, NEW pass, NEW start, UnitList(s), PlanOk(s, start),
         pass # Executable,
         NEW i \in DOMAIN s.units, Obsolete(s.units[i], options)
  PROVE  i \in Pass(s, options, pass, start).evicted
<1> DEFINE N == Len(s.units)
           order == EvictionOrder(s, options)
<1>1. PICK after :
        /\ Pass(s, options, pass, start) = after[N]
        /\ after[0] = start
        /\ \A n \in 1 .. N : after[n] = IF Due(s, options, pass, after[n - 1], order[n])
                                        THEN Evict(s, after[n - 1], order[n])
                                        ELSE after[n - 1]
  BY PassSteps DEF UnitList
<1>2. /\ \A n \in 1 .. N : order[n] \in DOMAIN s.units
      /\ \E n \in 1 .. N : order[n] = i
  BY OrderSorts DEF Sorted
<1>3. PICK at \in 1 .. N : order[at] = i
  BY <1>2
<1> DEFINE S == {n \in Nat : n <= N => PlanOk(s, after[n]) /\ (at <= n => i \in after[n].evicted)}
<1> HIDE DEF order
<1>4. 0 \in S
  BY <1>1 DEF UnitList
<1>5. ASSUME NEW n \in Nat, n \in S PROVE n + 1 \in S
  <2> SUFFICES ASSUME n + 1 <= N
               PROVE  PlanOk(s, after[n + 1]) /\ (at <= n + 1 => i \in after[n + 1].evicted)
    OBVIOUS
  <2>1. n + 1 \in 1 .. N /\ PlanOk(s, after[n]) /\ (at <= n => i \in after[n].evicted)
    BY <1>5 DEF UnitList
  <2>2. /\ PlanOk(s, Evict(s, after[n], order[n + 1]))
        /\ Evict(s, after[n], order[n + 1]).evicted = after[n].evicted \cup {order[n + 1]}
    BY <2>1, <1>2, EvictKeeps
  <2>3. CASE at = n + 1
    <3>1. Due(s, options, pass, after[n], order[n + 1])
      BY <2>3, <1>3, Zenon DEF Due
    <3> QED BY <3>1, <2>1, <2>2, <2>3, <1>1, <1>3
  <2>4. CASE at # n + 1
    <3>1. \/ after[n + 1] = Evict(s, after[n], order[n + 1])
          \/ after[n + 1] = after[n]
      BY <2>1, <1>1
    <3>2. at <= n + 1 => at <= n
      BY <2>4
    <3> QED BY <3>1, <3>2, <2>1, <2>2
  <2> QED BY <2>3, <2>4
<1>6. N \in S
  <2> HIDE DEF S
  <2> QED BY <1>4, <1>5, Induction DEF UnitList
<1> QED BY <1>1, <1>6

(* The last pass alone evicts the units it comes to first: what it leaves   *)
(* goes after everything it takes.                                          *)
LEMMA PassInOrder ==
  ASSUME NEW s, NEW options, NEW pass, NEW start, UnitList(s), PlanOk(s, start),
         pass # Executable, start.evicted = {},
         NEW i \in Pass(s, options, pass, start).evicted,
         NEW j \in DOMAIN s.units \ Pass(s, options, pass, start).evicted
  PROVE  EvictedBefore(s, options, i, j)
<1> DEFINE N == Len(s.units)
           order == EvictionOrder(s, options)
<1>1. PICK after :
        /\ Pass(s, options, pass, start) = after[N]
        /\ after[0] = start
        /\ \A n \in 1 .. N : after[n] = IF Due(s, options, pass, after[n - 1], order[n])
                                        THEN Evict(s, after[n - 1], order[n])
                                        ELSE after[n - 1]
  BY PassSteps DEF UnitList
<1>2. /\ \A n \in 1 .. N : order[n] \in DOMAIN s.units
      /\ \A k \in DOMAIN s.units : \E n \in 1 .. N : order[n] = k
      /\ \A m, n \in 1 .. N : m < n => EvictedBefore(s, options, order[m], order[n])
  BY OrderSorts DEF Sorted
<1> DEFINE Taken(n) == {order[m] : m \in 1 .. n}
           Stopped(n) == \E t \in 1 .. n :
             after[n].evicted = Taken(t - 1) /\ ~ Due(s, options, pass, after[n], order[t])
           Ok(n) == PlanOk(s, after[n]) /\ (after[n].evicted = Taken(n) \/ Stopped(n))
           S == {n \in Nat : n <= N => Ok(n)}
<1> HIDE DEF order
<1>3. 0 \in S
  BY <1>1
<1>4. ASSUME NEW n \in Nat, n \in S PROVE n + 1 \in S
  <2> SUFFICES ASSUME n + 1 <= N PROVE Ok(n + 1)
    OBVIOUS
  <2>0. n + 1 \in 1 .. N /\ n <= N
    BY DEF UnitList
  <2>1. n + 1 \in 1 .. N /\ Ok(n) /\ order[n + 1] \in DOMAIN s.units
    <3> HIDE DEF Ok, N
    <3> QED BY <2>0, <1>2, <1>4
  <2>2. /\ PlanOk(s, Evict(s, after[n], order[n + 1]))
        /\ Evict(s, after[n], order[n + 1]).evicted = after[n].evicted \cup {order[n + 1]}
    BY <2>1, EvictKeeps
  <2>3. CASE Due(s, options, pass, after[n], order[n + 1])
    <3>1. after[n + 1] = Evict(s, after[n], order[n + 1])
      BY <2>1, <2>3, <1>1
    <3>2. ~ Stopped(n)
      <4> SUFFICES ASSUME NEW t \in 1 .. n, ~ Due(s, options, pass, after[n], order[t])
                   PROVE  FALSE
        OBVIOUS
      <4>0. t \in 1 .. N /\ t < n + 1
        BY <2>0 DEF UnitList
      <4>1. EvictedBefore(s, options, order[t], order[n + 1])
        <5> HIDE DEF N
        <5> QED BY <4>0, <2>0, <1>2
      <4>2. Obsolete(s.units[order[n + 1]], options) /\ ~ Obsolete(s.units[order[t]], options)
        BY <2>3, Zenon DEF Due
      <4> QED BY <4>1, <4>2, Zenon DEF EvictedBefore
    <3>3. after[n].evicted = Taken(n)
      BY <3>2, <2>1
    <3>4. Taken(n + 1) = Taken(n) \cup {order[n + 1]}
      OBVIOUS
    <3> HIDE DEF Taken, Stopped
    <3> QED BY <3>1, <3>3, <3>4, <2>2
  <2>4. CASE ~ Due(s, options, pass, after[n], order[n + 1])
    <3>1. after[n + 1] = after[n]
      BY <2>1, <2>4, <1>1
    <3>2. CASE after[n].evicted = Taken(n)
      <4>1. (n + 1) - 1 = n /\ n + 1 \in 1 .. n + 1
        OBVIOUS
      <4>2. Stopped(n + 1)
        <5> HIDE DEF Taken
        <5> QED BY <4>1, <3>1, <3>2, <2>4
      <4> HIDE DEF Taken, Stopped
      <4> QED BY <4>2, <3>1, <2>1
    <3>3. CASE Stopped(n)
      <4>1. Stopped(n + 1)
        <5> HIDE DEF Taken
        <5> QED BY <3>1, <3>3
      <4> HIDE DEF Taken, Stopped
      <4> QED BY <4>1, <3>1, <2>1
    <3> QED BY <3>2, <3>3, <2>1
  <2> QED BY <2>3, <2>4
<1>5. Ok(N)
  <2> HIDE DEF S
  <2>1. N \in S
    BY <1>3, <1>4, Induction DEF UnitList
  <2> HIDE DEF Ok
  <2> QED BY <2>1 DEF UnitList, S
<1>6. PICK t \in 0 .. N : after[N].evicted = Taken(t)
  <2>1. N \in Nat
    BY DEF UnitList
  <2> HIDE DEF N
  <2>2. CASE after[N].evicted = Taken(N)
    <3>1. N \in 0 .. N
      BY <2>1
    <3> HIDE DEF Taken
    <3> QED BY <2>2, <3>1
  <2>3. CASE Stopped(N)
    <3>1. PICK t \in 1 .. N : after[N].evicted = Taken(t - 1)
      BY <2>3
    <3>2. t - 1 \in 0 .. N
      BY <2>1
    <3> HIDE DEF Taken
    <3> QED BY <3>1, <3>2
  <2> QED BY <1>5, <2>2, <2>3
<1>7. PICK m \in 1 .. t : order[m] = i
  BY <1>6, <1>1
<1>8. PICK n \in 1 .. N : order[n] = j
  BY <1>2
<1>9. j \notin Taken(t)
  BY <1>1, <1>6
<1>10. m \in 1 .. N /\ m < n
  <2>1. ~ (n <= t)
    BY <1>8, <1>9
  <2> QED BY <2>1, <1>6, <1>7, <1>8 DEF UnitList
<1> HIDE DEF N
<1> QED BY <1>2, <1>7, <1>8, <1>10


(***************************************************************************)
(* A plan evicts units of the snapshot, every obsolete candidate among     *)
(* them, and plans a blob for deletion for its referrers exactly when all  *)
(* of them go: each such blob once, for an evicted unit that referenced it *)
(* (remaining[blob] == 0 of Plan::new, gc.rs:363-380).                     *)
(***************************************************************************)
THEOREM PlanFreesExactly ==
  ASSUME NEW s, NEW options, NEW time, UnitList(s)
  PROVE  LET plan == Plan(s, options, time) IN
         /\ plan.evicted \subseteq DOMAIN s.units
         /\ \A i \in DOMAIN s.units : Obsolete(s.units[i], options) => i \in plan.evicted
         /\ \A b : (\E f \in plan.freed : f[1] = b) <=>
                     Referrers(s, b) # {} /\ Referrers(s, b) \subseteq plan.evicted
         /\ \A f \in plan.freed : f[2] \in Referrers(s, f[1])
         /\ \A f, g \in plan.freed : f[1] = g[1] => f = g
         /\ plan.unreferenced = Unreferenced(s, time)
<1> DEFINE start ==
             [evicted |-> {}, freed |-> {},
              bytes_after |-> SaturatingSub(Bytes(s, DOMAIN s.blobs),
                                            Bytes(s, Unreferenced(s, time))),
              executable_bytes |-> Bytes(s, ExecutableOnly(s))]
           first == IF options.max_executable_bytes = NoBudget THEN start
                    ELSE Pass(s, options, Executable, start)
           last == Pass(s, options, "all", first)
           plan == Plan(s, options, time)
<1>1. /\ plan.evicted = last.evicted /\ plan.freed = last.freed
      /\ plan.unreferenced = Unreferenced(s, time)
  BY DEF Plan
<1>2. PlanOk(s, start)
  <2>1. start.evicted = {} /\ start.freed = {}
    OBVIOUS
  <2> HIDE DEF start
  <2> QED BY <2>1 DEF PlanOk
<1> HIDE DEF start, plan
<1>3. PlanOk(s, first)
  BY <1>2, PassKeeps
<1> HIDE DEF first
<1>4. PlanOk(s, last)
  BY <1>3, PassKeeps
<1>5. \A i \in DOMAIN s.units : Obsolete(s.units[i], options) => i \in last.evicted
  BY <1>3, PassEvictsObsolete DEF Executable
<1> HIDE DEF last
<1>6. ASSUME NEW f \in last.freed
      PROVE  /\ f[2] \in Referrers(s, f[1])
             /\ Referrers(s, f[1]) # {} /\ Referrers(s, f[1]) \subseteq last.evicted
  BY <1>4 DEF PlanOk
<1>7. \A b : (\E f \in last.freed : f[1] = b) <=>
               Referrers(s, b) # {} /\ Referrers(s, b) \subseteq last.evicted
  BY <1>4, <1>6 DEF PlanOk
<1>8. /\ last.evicted \subseteq DOMAIN s.units
      /\ \A f, g \in last.freed : f[1] = g[1] => f = g
  BY <1>4 DEF PlanOk
<1> QED BY <1>1, <1>5, <1>6, <1>7, <1>8 DEF plan

(***************************************************************************)
(* Without a budget of their own for executables, a plan takes the units   *)
(* from the front of the order: whatever stays was used after everything   *)
(* that goes, but for the obsolete candidates, which go first.             *)
(***************************************************************************)
THEOREM PlanEvictsOldestFirst ==
  ASSUME NEW s, NEW options, NEW time, UnitList(s),
         options.max_executable_bytes = NoBudget,
         NEW i \in Plan(s, options, time).evicted,
         NEW j \in DOMAIN s.units \ Plan(s, options, time).evicted
  PROVE  EvictedBefore(s, options, i, j)
<1> DEFINE start ==
             [evicted |-> {}, freed |-> {},
              bytes_after |-> SaturatingSub(Bytes(s, DOMAIN s.blobs),
                                            Bytes(s, Unreferenced(s, time))),
              executable_bytes |-> Bytes(s, ExecutableOnly(s))]
<1>1. Plan(s, options, time).evicted = Pass(s, options, "all", start).evicted
  BY DEF Plan
<1>2. start.evicted = {} /\ start.freed = {}
  OBVIOUS
<1> HIDE DEF start
<1>3. PlanOk(s, start)
  BY <1>2 DEF PlanOk
<1> QED BY <1>1, <1>2, <1>3, PassInOrder DEF Executable


-----------------------------------------------------------------------------
(* Types and locks. *)

(* A set of times has a latest one. *)
LEMMA MaxOfTimes ==
  ASSUME NEW T \in SUBSET (0 .. MaxTime), T # {}
  PROVE  Max(T) \in T /\ \A t \in T : t <= Max(T)
<1>0. MaxTime \in Nat
  BY BoundsAssumption
<1> DEFINE U == {MaxTime - t : t \in T}
<1>1. U \in SUBSET Nat /\ U # {}
  <2>1. \A t \in T : MaxTime - t \in Nat
    BY <1>0
  <2> QED BY <2>1
<1>2. PICK u \in U : \A v \in U : u <= v
  BY <1>1, Least
<1>3. PICK t \in T : u = MaxTime - t
  OBVIOUS
<1>4. \A x \in T : t >= x
  BY <1>0, <1>2, <1>3
<1>5. \E y \in T : \A x \in T : y >= x
  BY <1>4
<1>6. Max(T) \in T /\ \A x \in T : Max(T) >= x
  BY <1>5 DEF Max
<1> QED BY <1>0, <1>6

(* What an index holds is a candidate. *)
LEMMA Indexed ==
  ASSUME TypeInv, NEW k \in Keys
  PROVE  index[k] \in Seq(Candidates) /\ \A c \in ToSet(index[k]) : c \in Candidates
<1>1. index[k] \in Seq(Candidates)
  BY DEF TypeInv, IndexOK
<1>2. \A i \in DOMAIN index[k] : index[k][i] \in Candidates
  BY <1>1
<1> QED BY <1>1, <1>2 DEF ToSet

(* What no step touches stays right. *)
LEMMA Frame ==
  /\ FileOK /\ UNCHANGED file => FileOK'
  /\ IndexOK /\ UNCHANGED index => IndexOK'
  /\ NamedOK /\ UNCHANGED named => NamedOK'
  /\ JournalOK /\ UNCHANGED journal => JournalOK'
  /\ UseOK /\ UNCHANGED use => UseOK'
  /\ PubOK /\ UNCHANGED pub => PubOK'
  /\ GcOK /\ UNCHANGED gc => GcOK'
  /\ LockOK /\ UNCHANGED <<writer, pub, gc>> => LockOK'
  /\ CountOK /\ UNCHANGED <<now, begun>> => CountOK'
BY DEF FileOK, IndexOK, NamedOK, JournalOK, UseOK, PubOK, GcOK, LockOK, CountOK, Reading

(* The parts give the type invariant of StoreGc. *)
LEMMA TypeParts == TypeInv => StoreTypeOK
BY DEF TypeInv, StoreTypeOK, FileOK, IndexOK, NamedOK, JournalOK, UseOK, PubOK, LockOK,
       OneForAction

(* An idle publisher is IdlePublisher; any other has a request.              *)
LEMMA PubFields ==
  ASSUME PubOK, NEW p \in Publishers
  PROVE  /\ pub[p].pc \in {"idle", "offer", "journal", "outputs"}
         /\ pub[p].pc = "idle" => pub[p] = IdlePublisher
         /\ pub[p].pc # "idle" => pub[p] \in Publications
         /\ pub[p].log \in Logs
BY DEF PubOK, Publications, IdlePublisher, Logs

(* A collection that is not running. *)
LEMMA IdleType ==
  IdleGc \in Collections /\ IdleGc.pc = "idle" /\ IdleGc.evicted = {} /\ IdleGc.units = <<>>
<1>1. None \in Listings
  BY DEF Listings
<1>2. <<>> \in Seq(Units)
  OBVIOUS
<1> QED BY <1>1, <1>2, BoundsAssumption DEF IdleGc, Collections

LEMMA InitType == Init => TypeInv
<1> SUFFICES ASSUME Init PROVE TypeInv
  OBVIOUS
<1> USE BoundsAssumption, DistinctAssumption DEF Init
<1>1. FileOK
  BY DEF FileOK
<1>2. IndexOK
  <2>1. Max({MaxCandidates, 1}) >= 1 /\ Max({MaxCandidates, 1}) \in Nat
    BY MaxMin
  <2> QED BY <2>1 DEF IndexOK, OneForAction
<1>3. NamedOK
  BY DEF NamedOK
<1>4. JournalOK
  BY DEF JournalOK
<1>5. UseOK
  BY DEF UseOK, Logs
<1>6. PubOK
  BY DEF PubOK, IdlePublisher
<1>7. GcOK
  BY IdleType DEF GcOK, Reading
<1>8. LockOK
  BY DEF LockOK, IdleGc, IdlePublisher
<1>9. CountOK
  BY DEF CountOK, Counters
<1> QED BY <1>1, <1>2, <1>3, <1>4, <1>5, <1>6, <1>7, <1>8, <1>9 DEF TypeInv


(* One publisher moves on. *)
LEMMA PubStep ==
  ASSUME PubOK, NEW p \in Publishers, NEW v \in Publications \cup {IdlePublisher},
         v.pc = "journal" => v.request.kind = "candidate",
         v.pc = "outputs" => v.request.kind = "execute",
         pub' = [pub EXCEPT ![p] = v]
  PROVE  PubOK' /\ pub'[p] = v /\ \A q \in Publishers : q # p => pub'[q] = pub[q]
BY DEF PubOK

(* It moves on outside the write lock. *)
LEMMA LockOutside ==
  ASSUME LockOK, NEW p \in Publishers,
         pub[p].pc # "journal", pub'[p].pc # "journal",
         \A q \in Publishers : q # p => pub'[q] = pub[q],
         UNCHANGED <<writer, gc>>
  PROVE  LockOK'
BY DEF LockOK

(* The publication of an idle publisher. *)
LEMMA IdleFields ==
  /\ IdlePublisher.pc = "idle" /\ IdlePublisher.log = None
  /\ IdlePublisher \in Publications \cup {IdlePublisher}
BY DEF IdlePublisher

LEMMA BeginType ==
  ASSUME TypeInv, NEW p \in Publishers, NEW r \in Requests, Begin(p, r)
  PROVE  TypeInv'
<1> DEFINE v == [pc |-> "offer", request |-> r, created |-> now, log |-> None,
                 moving |-> None,
                 left |-> IF r.kind = "execute" THEN r.inputs ELSE r.blobs]
<1>1. pub' = [pub EXCEPT ![p] = v] /\ pub[p].pc = "idle"
  BY DEF Begin
<1>2. v \in Publications /\ v.pc = "offer"
  <2>1. now \in 0 .. MaxTime
    BY DEF TypeInv, CountOK
  <2>2. (IF r.kind = "execute" THEN r.inputs ELSE r.blobs) \in SUBSET Blobs
    BY RequestsAssumption
  <2> QED BY <2>1, <2>2 DEF Publications, Logs
<1> HIDE DEF v
<1>3. PubOK' /\ pub'[p] = v /\ \A q \in Publishers : q # p => pub'[q] = pub[q]
  BY <1>1, <1>2, PubStep DEF TypeInv
<1>4. LockOK'
  BY <1>1, <1>2, <1>3, LockOutside DEF TypeInv, Begin
<1>5. CountOK'
  BY DEF TypeInv, CountOK, Counters, Begin, Bounded
<1> QED BY <1>3, <1>4, <1>5, Frame DEF TypeInv, Begin

(* A publication with one blob less to offer. *)
LEMMA OfferedType ==
  ASSUME TypeInv, NEW p \in Publishers, NEW b, Offered(p, b),
         pub[p].pc \in {"offer", "outputs"}, UNCHANGED <<writer, gc>>
  PROVE  PubOK' /\ LockOK'
<1> DEFINE v == [pub[p] EXCEPT !.left = @ \ {b}, !.moving = None]
<1>1. pub[p] \in Publications
  BY PubFields DEF TypeInv
<1>2. v \in Publications /\ v.pc = pub[p].pc /\ v.request = pub[p].request
  BY <1>1 DEF Publications
<1>3. pub' = [pub EXCEPT ![p] = v]
  BY DEF Offered
<1> HIDE DEF v
<1>4. PubOK' /\ pub'[p] = v /\ \A q \in Publishers : q # p => pub'[q] = pub[q]
  <2>1. v.pc = "outputs" => v.request.kind = "execute"
    BY <1>2 DEF TypeInv, PubOK
  <2> QED BY <1>2, <1>3, <2>1, PubStep DEF TypeInv
<1> QED BY <1>2, <1>4, LockOutside DEF TypeInv

LEMMA HeadBlobType ==
  ASSUME TypeInv, NEW p \in Publishers, NEW b \in Blobs, HeadBlob(p, b)
  PROVE  TypeInv'
<1>1. PubOK' /\ LockOK'
  BY OfferedType DEF HeadBlob
<1>2. FileOK'
  BY DEF TypeInv, FileOK, CountOK, HeadBlob
<1> QED BY <1>1, <1>2, Frame DEF TypeInv, HeadBlob

LEMMA CommitBlobType ==
  ASSUME TypeInv, NEW p \in Publishers, NEW b \in Blobs, CommitBlob(p, b)
  PROVE  TypeInv'
<1>1. PubOK' /\ LockOK'
  BY OfferedType DEF CommitBlob
<1>2. FileOK'
  BY DEF TypeInv, FileOK, CountOK, CommitBlob
<1> QED BY <1>1, <1>2, Frame DEF TypeInv, CommitBlob

LEMMA RemoveCorruptType ==
  ASSUME TypeInv, NEW p \in Publishers, NEW b \in Blobs, RemoveCorrupt(p, b)
  PROVE  TypeInv'
<1> DEFINE v == [pub[p] EXCEPT !.moving = b]
<1>1. pub[p] \in Publications /\ pub[p].pc \in {"offer", "outputs"}
  BY PubFields DEF TypeInv, RemoveCorrupt
<1>2. v \in Publications /\ v.pc = pub[p].pc /\ v.request = pub[p].request
  BY <1>1 DEF Publications
<1>3. pub' = [pub EXCEPT ![p] = v]
  BY DEF RemoveCorrupt
<1> HIDE DEF v
<1>4. PubOK' /\ pub'[p] = v /\ \A q \in Publishers : q # p => pub'[q] = pub[q]
  <2>1. v.pc = "outputs" => v.request.kind = "execute"
    BY <1>2 DEF TypeInv, PubOK
  <2> QED BY <1>1, <1>2, <1>3, <2>1, PubStep DEF TypeInv
<1>5. LockOK'
  BY <1>1, <1>2, <1>4, LockOutside DEF TypeInv, RemoveCorrupt
<1>6. FileOK'
  BY DEF TypeInv, FileOK, RemoveCorrupt
<1> QED BY <1>4, <1>5, <1>6, Frame DEF TypeInv, RemoveCorrupt

LEMMA MoveBlobType ==
  ASSUME TypeInv, NEW p \in Publishers, MoveBlob(p)
  PROVE  TypeInv'
<1>1. PubOK' /\ LockOK'
  BY OfferedType DEF MoveBlob
<1>2. FileOK'
  BY DEF TypeInv, FileOK, CountOK, MoveBlob
<1> QED BY <1>1, <1>2, Frame DEF TypeInv, MoveBlob

(* A publication that ends outside the write lock. *)
LEMMA EndedType ==
  ASSUME TypeInv, NEW p \in Publishers, Ended(p), pub[p].pc # "journal",
         UNCHANGED <<writer, gc>>
  PROVE  PubOK' /\ LockOK'
<1>1. PubOK' /\ pub'[p] = IdlePublisher /\ \A q \in Publishers : q # p => pub'[q] = pub[q]
  BY PubStep, IdleFields DEF TypeInv, Ended
<1> QED BY <1>1, LockOutside, IdleFields DEF TypeInv

LEMMA PutCandidateType ==
  ASSUME TypeInv, NEW p \in Publishers, PutCandidate(p)
  PROVE  TypeInv'
<1> DEFINE r == pub[p].request
           c == [action |-> r.action, created |-> pub[p].created, blobs |-> r.blobs]
           v == [pub[p] EXCEPT !.pc = "journal"]
<1>1. /\ pub[p].pc = "offer" /\ r.kind = "candidate" /\ writer = None
      /\ index' = [index EXCEPT ![r.key] = WithCandidate(@, c)]
      /\ writer' = p /\ pub' = [pub EXCEPT ![p] = v]
      /\ UNCHANGED <<file, named, journal, use, gc, now, begun>>
  BY DEF PutCandidate, Sending, Unlocked
<1>2. pub[p] \in Publications /\ r \in Requests
  BY <1>1, PubFields DEF TypeInv, Publications
<1>3. r.key \in Keys /\ c \in Candidates
  BY <1>1, <1>2, RequestsAssumption DEF Candidates, Publications
<1> HIDE DEF c
<1>4. v \in Publications /\ v.pc = "journal" /\ v.request.kind = "candidate"
  BY <1>1, <1>2 DEF Publications
<1> HIDE DEF v
<1>5. PubOK' /\ pub'[p] = v /\ \A q \in Publishers : q # p => pub'[q] = pub[q]
  BY <1>1, <1>4, PubStep DEF TypeInv
<1>6. IndexOK'
  <2> DEFINE w == WithCandidate(index[r.key], c)
  <2>1. /\ index[r.key] \in Seq(Candidates)
        /\ OneForAction(index[r.key])
    BY <1>3 DEF TypeInv, IndexOK
  <2>2. /\ w \in Seq(Candidates) /\ Len(w) <= Max({MaxCandidates, 1})
        /\ OneForAction(w)
    <3>1. \A ix \in Seq(Candidates) : OneForAction(ix) =>
            /\ WithCandidate(ix, c) \in Seq(Candidates)
            /\ Len(WithCandidate(ix, c)) <= Max({MaxCandidates, 1})
            /\ OneForAction(WithCandidate(ix, c))
      BY <1>3, WithCandidateKeeps
    <3> QED BY <2>1, <3>1
  <2>3. index' = [index EXCEPT ![r.key] = w]
    BY <1>1
  <2> HIDE DEF w, r
  <2> QED BY <1>3, <2>2, <2>3 DEF TypeInv, IndexOK
<1>7. LockOK'
  <2>1. gc.batch = {} /\ p # "gc" /\ \A q \in Publishers : pub[q].pc # "journal"
    BY <1>1, DistinctAssumption DEF TypeInv, LockOK
  <2> QED BY <2>1, <1>1, <1>4, <1>5, DistinctAssumption DEF TypeInv, LockOK
<1> QED BY <1>1, <1>5, <1>6, <1>7, Frame DEF TypeInv


(* The line of an open journal, and the journal it is appended to. *)
LEMMA AppendedType ==
  ASSUME JournalOK, NEW log \in OpenJournals
  PROVE  /\ Appended(log) \in [current : Seq(Lines), rotated : SUBSET Lines]
         /\ log.into = "current" => Appended(log).current = Append(journal.current, log.line)
         /\ log.into # "current" => Appended(log).current = journal.current
<1>1. journal.current \in Seq(Lines) /\ journal.rotated \in SUBSET Lines /\ log.line \in Lines
  BY DEF JournalOK, OpenJournals
<1>2. CASE log.into = "current"
  BY <1>1, <1>2 DEF Appended, JournalOK
<1>3. CASE log.into = "rotated"
  BY <1>1, <1>3 DEF Appended, JournalOK
<1>4. CASE log.into = "removed"
  BY <1>1, <1>4 DEF Appended, JournalOK
<1> QED BY <1>2, <1>3, <1>4 DEF OpenJournals

LEMMA OpenType ==
  ASSUME CountOK, NEW k \in Keys, NEW a \in Actions
  PROVE  Open(k, a) \in OpenJournals /\ Open(k, a) # None /\ Open(k, a).into = "current"
         /\ Open(k, a).line[1] = k
BY LogsAssumption DEF CountOK, Open, OpenJournals, Lines

(* The holder of the write lock appends its line or fails. *)
LEMMA LockReleased ==
  ASSUME TypeInv, NEW p \in Publishers, pub[p].pc = "journal",
         Ended(p), writer' = None, UNCHANGED gc
  PROVE  PubOK' /\ LockOK'
<1>1. PubOK' /\ pub'[p] = IdlePublisher /\ \A q \in Publishers : q # p => pub'[q] = pub[q]
  BY PubStep, IdleFields DEF TypeInv, Ended
<1>2. writer = p /\ gc.batch = {} /\ \A q \in Publishers : q # p => pub[q].pc # "journal"
  BY DistinctAssumption DEF TypeInv, LockOK
<1> QED BY <1>1, <1>2, IdleFields, DistinctAssumption DEF TypeInv, LockOK

LEMMA OpenJournalType ==
  ASSUME TypeInv, NEW p \in Publishers, OpenJournal(p)
  PROVE  TypeInv'
<1> DEFINE r == pub[p].request
           v == [pub[p] EXCEPT !.log = Open(r.key, r.action)]
<1>1. pub[p] \in Publications /\ r \in Requests /\ r.kind = "candidate" /\ pub[p].pc = "journal"
  BY PubFields DEF TypeInv, PubOK, OpenJournal, Publications
<1>2. Open(r.key, r.action) \in OpenJournals
  BY <1>1, OpenType, RequestsAssumption DEF TypeInv
<1>3. v \in Publications /\ v.pc = "journal" /\ v.request = r
  BY <1>1, <1>2 DEF Publications, Logs
<1>4. pub' = [pub EXCEPT ![p] = v]
  BY DEF OpenJournal
<1> HIDE DEF v
<1>5. PubOK' /\ pub'[p] = v /\ \A q \in Publishers : q # p => pub'[q] = pub[q]
  BY <1>1, <1>3, <1>4, PubStep DEF TypeInv
<1>6. LockOK'
  BY <1>1, <1>3, <1>5 DEF TypeInv, LockOK, OpenJournal
<1> QED BY <1>5, <1>6, Frame DEF TypeInv, OpenJournal

LEMMA AppendJournalType ==
  ASSUME TypeInv, NEW p \in Publishers, AppendJournal(p)
  PROVE  TypeInv'
<1>1. PubOK' /\ LockOK'
  BY LockReleased DEF AppendJournal
<1>2. JournalOK'
  <2>1. pub[p].log \in OpenJournals
    BY PubFields DEF TypeInv, AppendJournal, Logs
  <2> QED BY <2>1, AppendedType DEF TypeInv, JournalOK, AppendJournal
<1> QED BY <1>1, <1>2, Frame DEF TypeInv, AppendJournal

LEMMA JournalFailsType ==
  ASSUME TypeInv, NEW p \in Publishers, JournalFails(p)
  PROVE  TypeInv'
<1>1. PubOK' /\ LockOK'
  BY LockReleased DEF JournalFails
<1>2. CountOK'
  <2>1. begun \in Counters /\ now \in 0 .. MaxTime /\ now' = now
    BY DEF TypeInv, CountOK, JournalFails
  <2>2. begun.faults + 1 \in Nat /\ begun.unlogged + 1 \in Nat
    BY <2>1 DEF Counters
  <2>3. begun' = [begun EXCEPT !.faults = begun.faults + 1, !.unlogged = begun.unlogged + 1]
    BY DEF JournalFails
  <2> QED BY <2>1, <2>2, <2>3 DEF CountOK, Counters
<1> QED BY <1>1, <1>2, Frame DEF TypeInv, JournalFails

(* What is bound to a name. *)
LEMMA WrittenType ==
  ASSUME TypeInv, NEW p \in Publishers, pub[p].pc # "idle",
         pub[p].request.kind # "candidate", Written(p)
  PROVE  NamedOK'
<1>1. pub[p] \in Publications /\ pub[p].request \in Requests
  BY PubFields DEF TypeInv, Publications
<1>2. [created |-> pub[p].created, written |-> now, blobs |-> pub[p].request.blobs] \in Records
  BY <1>1, RequestsAssumption DEF Records, Publications, TypeInv, CountOK
<1> QED BY <1>1, <1>2, RequestsAssumption DEF Written, TypeInv, NamedOK

LEMMA PutNamedType ==
  ASSUME TypeInv, NEW p \in Publishers, PutNamed(p)
  PROVE  TypeInv'
<1>1. PubOK' /\ LockOK'
  BY EndedType DEF PutNamed, Sending
<1>2. NamedOK'
  BY WrittenType DEF PutNamed, Sending
<1> QED BY <1>1, <1>2, Frame DEF TypeInv, PutNamed

LEMMA PutExecutedType ==
  ASSUME TypeInv, NEW p \in Publishers, PutExecuted(p)
  PROVE  TypeInv'
<1>1. PubOK' /\ LockOK'
  BY EndedType DEF PutExecuted
<1>2. NamedOK'
  BY WrittenType DEF PutExecuted, TypeInv, PubOK
<1> QED BY <1>1, <1>2, Frame DEF TypeInv, PutExecuted

LEMMA RefuseType ==
  ASSUME TypeInv, NEW p \in Publishers, Refuse(p)
  PROVE  TypeInv'
<1>1. PubOK' /\ LockOK'
  BY EndedType DEF Refuse, Sending
<1> QED BY <1>1, Frame DEF TypeInv, Refuse

LEMMA GiveUpType ==
  ASSUME TypeInv, NEW p \in Publishers, GiveUp(p)
  PROVE  TypeInv'
<1>1. PubOK' /\ LockOK'
  BY EndedType DEF GiveUp
<1> QED BY <1>1, Frame DEF TypeInv, GiveUp

LEMMA ExecuteType ==
  ASSUME TypeInv, NEW p \in Publishers, Execute(p)
  PROVE  TypeInv'
<1> DEFINE r == pub[p].request
           v == [pub[p] EXCEPT !.pc = "outputs", !.left = r.blobs \ r.inputs, !.created = now]
<1>1. /\ pub[p].pc = "offer" /\ r.kind = "execute"
      /\ Ended(p) \/ pub' = [pub EXCEPT ![p] = v]
      /\ UNCHANGED <<file, index, named, journal, use, writer, gc, now, begun>>
  BY DEF Execute, Sending
<1>2. pub[p] \in Publications /\ r \in Requests
  BY <1>1, PubFields DEF TypeInv, Publications
<1>3. v \in Publications /\ v.pc = "outputs" /\ v.request = r
  BY <1>2, RequestsAssumption DEF TypeInv, CountOK, Publications
<1> HIDE DEF v
<1>4. CASE Ended(p)
  <2>1. PubOK' /\ LockOK'
    BY <1>1, <1>4, EndedType
  <2> QED BY <2>1, <1>1, Frame DEF TypeInv
<1>5. CASE pub' = [pub EXCEPT ![p] = v]
  <2>1. PubOK' /\ pub'[p] = v /\ \A q \in Publishers : q # p => pub'[q] = pub[q]
    BY <1>1, <1>3, <1>5, PubStep DEF TypeInv
  <2>2. LockOK'
    BY <1>1, <1>3, <2>1, LockOutside DEF TypeInv
  <2> QED BY <2>1, <2>2, <1>1, Frame DEF TypeInv
<1> QED BY <1>1, <1>4, <1>5

LEMMA UseCandidateType ==
  ASSUME TypeInv, NEW k \in Keys, NEW c \in ToSet(index[k]), UseCandidate(k, c)
  PROVE  TypeInv'
<1>1. c.action \in Actions
  BY Indexed DEF Candidates
<1>2. UseOK'
  BY <1>1, OpenType DEF TypeInv, UseOK, UseCandidate, Logs
<1>3. CountOK'
  BY DEF TypeInv, CountOK, Counters, UseCandidate, Bounded
<1> QED BY <1>2, <1>3, Frame DEF TypeInv, UseCandidate

LEMMA AppendUseType ==
  ASSUME TypeInv, AppendUse
  PROVE  TypeInv'
<1>1. use \in OpenJournals
  BY DEF TypeInv, UseOK, AppendUse, Logs
<1>2. JournalOK'
  BY <1>1, AppendedType DEF TypeInv, JournalOK, AppendUse
<1>3. UseOK'
  BY DEF UseOK, AppendUse, Logs
<1> QED BY <1>2, <1>3, Frame DEF TypeInv, AppendUse


(* Moving a journal leaves the publications otherwise as they are. *)
LEMMA MoveType ==
  ASSUME TypeInv, NEW from, NEW to \in {"rotated", "removed"}, MoveJournals(from, to)
  PROVE  /\ PubOK' /\ UseOK'
         /\ \A p \in Publishers : /\ pub'[p].pc = pub[p].pc
                                  /\ pub'[p].request = pub[p].request
                                  /\ pub'[p].log = Moved(pub[p].log, from, to)
<1>1. \A log \in Logs : Moved(log, from, to) \in Logs
  BY DEF Moved, Logs, OpenJournals
<1>2. UseOK'
  BY <1>1 DEF TypeInv, UseOK, MoveJournals
<1>3. ASSUME NEW p \in Publishers
      PROVE  LET v == [pub[p] EXCEPT !.log = Moved(pub[p].log, from, to)] IN
             /\ v \in Publications \cup {IdlePublisher}
             /\ v.pc = pub[p].pc /\ v.request = pub[p].request
             /\ v.log = Moved(pub[p].log, from, to)
  <2>1. CASE pub[p] = IdlePublisher
    <3>1. Moved(None, from, to) = None
      BY DEF Moved
    <3> QED BY <2>1, <3>1 DEF IdlePublisher
  <2>2. CASE pub[p] # IdlePublisher
    <3>1. pub[p] \in Publications
      BY <2>2 DEF TypeInv, PubOK
    <3> QED BY <3>1, <1>1 DEF Publications
  <2> QED BY <2>1, <2>2
<1>4. pub' = [p \in Publishers |-> [pub[p] EXCEPT !.log = Moved(pub[p].log, from, to)]]
  BY DEF MoveJournals
<1>5. \A p \in Publishers : /\ pub'[p] \in Publications \cup {IdlePublisher}
                            /\ pub'[p].pc = pub[p].pc
                            /\ pub'[p].request = pub[p].request
                            /\ pub'[p].log = Moved(pub[p].log, from, to)
  BY <1>3, <1>4
<1>6. pub' = [p \in Publishers |-> pub'[p]]
  BY <1>4
<1>7. PubOK'
  BY <1>5, <1>6 DEF TypeInv, PubOK
<1> QED BY <1>2, <1>5, <1>7

(* A collection that fails, or is over, gives the lock back. *)
LEMMA GcIdle ==
  ASSUME gc' = IdleGc
  PROVE  GcOK'
BY IdleType DEF GcOK, Reading

LEMMA GcBeginType ==
  ASSUME TypeInv, NEW max \in Budgets, GcBegin(max)
  PROVE  TypeInv'
<1>1. /\ gc' \in Collections /\ gc'.pc = "rotate" /\ gc'.batch = {} /\ gc'.removing = None
      /\ gc'.evicted = {} /\ gc'.units = <<>> /\ gc'.unread = {}
  BY IdleType DEF TypeInv, CountOK, GcBegin, Collections, IdleGc
<1>2. GcOK'
  BY <1>1 DEF GcOK, Reading
<1>3. LockOK'
  BY <1>1 DEF TypeInv, LockOK, GcBegin
<1>4. CountOK'
  BY DEF TypeInv, CountOK, Counters, GcBegin, Bounded
<1> QED BY <1>2, <1>3, <1>4, Frame DEF TypeInv, GcBegin

(* What a journal holds. *)
LEMMA JournalLines ==
  ASSUME JournalOK
  PROVE  /\ journal.current \in Seq(Lines) /\ journal.rotated \subseteq Lines
         /\ ToSet(journal.current) \subseteq Lines
<1>1. journal.current \in Seq(Lines) /\ journal.rotated \subseteq Lines
  BY DEF JournalOK
<1>2. \A i \in DOMAIN journal.current : journal.current[i] \in Lines
  BY <1>1
<1> QED BY <1>1, <1>2 DEF ToSet

LEMMA GcRotateType ==
  ASSUME TypeInv, GcRotate
  PROVE  TypeInv'
<1>1. /\ PubOK' /\ UseOK'
      /\ \A p \in Publishers : pub'[p].pc = pub[p].pc
  BY MoveType DEF GcRotate
<1>2. /\ gc' \in Collections /\ gc'.pc = "journal"
      /\ gc'.units = gc.units /\ gc'.evicted = gc.evicted /\ gc'.batch = gc.batch
      /\ gc'.removing = gc.removing /\ gc'.unread = gc.unread
  BY DEF GcRotate, TypeInv, GcOK, Collections
<1>3. GcOK'
  <2>1. gc.units = <<>> /\ gc.evicted \subseteq DOMAIN gc.units
    BY DEF GcOK, TypeInv, GcRotate
  <2> QED BY <1>2, <2>1 DEF GcOK, Reading
<1>4. LockOK'
  BY <1>1, <1>2 DEF LockOK, TypeInv, GcRotate
<1>5. JournalOK'
  <2>1. journal.rotated \cup ToSet(journal.current) \in SUBSET Lines
    BY JournalLines DEF TypeInv
  <2> QED BY <2>1 DEF JournalOK, GcRotate
<1> QED BY <1>1, <1>3, <1>4, <1>5, Frame DEF TypeInv, GcRotate

LEMMA GcReadJournalType ==
  ASSUME TypeInv, GcReadJournal
  PROVE  TypeInv'
<1>1. journal.rotated \cup ToSet(journal.current) \in SUBSET Lines
  BY JournalLines DEF TypeInv
<1>2. /\ gc' \in Collections /\ gc'.pc = "list"
      /\ gc'.units = gc.units /\ gc'.evicted = gc.evicted /\ gc'.batch = gc.batch
      /\ gc'.removing = gc.removing /\ gc'.unread = gc.unread
  BY <1>1 DEF GcReadJournal, TypeInv, GcOK, Collections
<1>3. GcOK'
  <2>1. gc.units = <<>> /\ gc.evicted \subseteq DOMAIN gc.units
    BY DEF GcOK, TypeInv, GcReadJournal
  <2> QED BY <1>2, <2>1 DEF GcOK, Reading
<1>4. LockOK'
  BY <1>2 DEF LockOK, TypeInv, GcReadJournal
<1> QED BY <1>3, <1>4, Frame DEF TypeInv, GcReadJournal


LEMMA GcListBlobsType ==
  ASSUME TypeInv, GcListBlobs
  PROVE  TypeInv'
<1> DEFINE B == {x \in Blobs : OnDisk(x)}
           listed == [b \in B |-> [bytes |-> 1, modified |-> file[b].mtime]]
<1>1. listed \in [B -> [bytes : {1}, modified : 0 .. MaxTime]] /\ B \in SUBSET Blobs
  BY DEF TypeInv, FileOK
<1>2. gc' = [gc EXCEPT !.pc = "indexes", !.unread = Keys, !.listed = listed] /\ gc.pc = "list"
  BY DEF GcListBlobs
<1> HIDE DEF listed, B
<1>3. listed \in Listings
  BY <1>1 DEF Listings
<1>4. /\ gc' \in Collections /\ gc'.pc = "indexes" /\ gc'.listed = listed /\ gc'.unread = Keys
      /\ gc'.units = gc.units /\ gc'.evicted = gc.evicted /\ gc'.batch = gc.batch
      /\ gc'.removing = gc.removing
  BY <1>2, <1>3 DEF TypeInv, GcOK, Collections
<1>5. gc.units = <<>> /\ gc.batch = {} /\ gc.removing = None
  BY <1>2 DEF TypeInv, GcOK, LockOK
<1>6. DOMAIN listed \subseteq Blobs
  BY <1>1
<1>7. GcOK'
  BY <1>4, <1>5, <1>6 DEF GcOK, Reading, TypeInv
<1>8. LockOK'
  BY <1>4, <1>5 DEF LockOK, TypeInv, GcListBlobs
<1> QED BY <1>7, <1>8, Frame DEF TypeInv, GcListBlobs


(* A unit of the snapshot: of a candidate, or of a named record. *)
UnitFits(u) ==
  /\ u \in Units /\ u.blobs \subseteq DOMAIN gc.listed
  /\ u.candidate => u.path \in Keys /\ u.action \in Actions

LEMMA CandidateUnitFits ==
  ASSUME TypeInv, Reading, NEW k \in Keys, NEW c \in Candidates
  PROVE  /\ UnitFits(CandidateUnit(k, c))
         /\ CandidateUnit(k, c).path = k /\ CandidateUnit(k, c).action = c.action
         /\ CandidateUnit(k, c).created = c.created
         /\ CandidateUnit(k, c).blobs = c.blobs \cap DOMAIN gc.listed
<1> DEFINE T == {c.created} \cup {l[3] : l \in {m \in gc.journal : m[1] = k /\ m[2] = c.action}}
<1>1. c.action \in Actions /\ c.created \in 0 .. MaxTime /\ c.blobs \in SUBSET Blobs
  BY DEF Candidates
<1>2. \A l \in gc.journal : l[3] \in 0 .. MaxTime
  BY DEF TypeInv, GcOK, Collections, Lines
<1>3. T \in SUBSET (0 .. MaxTime) /\ T # {}
  BY <1>1, <1>2
<1> HIDE DEF T
<1>4. LastUsed(k, c) \in 0 .. MaxTime
  BY <1>3, MaxOfTimes DEF LastUsed, T
<1> QED BY <1>1, <1>4 DEF UnitFits, CandidateUnit, Units

LEMMA NamedUnitFits ==
  ASSUME TypeInv, Reading, NEW n \in Names, named[n] # None
  PROVE  UnitFits(NamedUnit(n)) /\ NamedUnit(n).path = n
<1>1. named[n] \in Records
  BY DEF TypeInv, NamedOK
<1>2. /\ named[n].created \in 0 .. MaxTime /\ named[n].written \in 0 .. MaxTime
      /\ named[n].blobs \in SUBSET Blobs
  BY <1>1 DEF Records
<1>3. Max({named[n].written, named[n].created}) \in 0 .. MaxTime
  BY <1>2, MaxOfTimes
<1> QED BY <1>2, <1>3 DEF UnitFits, NamedUnit, Units

(* Units that were read are added to those there are. *)
LEMMA UnitsGrow ==
  ASSUME TypeInv, Reading, NEW U \in SUBSET gc.unread, NEW new \in Seq(Units),
         \A i \in DOMAIN new : UnitFits(new[i]),
         gc' = [gc EXCEPT !.unread = U, !.units = gc.units \o new],
         UNCHANGED <<writer, pub>>
  PROVE  /\ GcOK' /\ LockOK'
         /\ gc'.units = gc.units \o new /\ gc'.unread = U /\ gc'.pc = gc.pc
         /\ gc'.listed = gc.listed
         /\ DOMAIN gc.units \subseteq DOMAIN gc'.units
         /\ \A i \in DOMAIN gc.units : gc'.units[i] = gc.units[i]
         /\ \A i \in DOMAIN new : /\ Len(gc.units) + i \in DOMAIN gc'.units
                                  /\ gc'.units[Len(gc.units) + i] = new[i]
<1> DEFINE units == gc.units \o new
<1>1. gc.units \in Seq(Units) /\ Len(gc.units) \in Nat /\ Len(new) \in Nat
  BY DEF TypeInv, GcOK, Collections
<1>2. /\ units \in Seq(Units) /\ Len(units) = Len(gc.units) + Len(new)
      /\ \A i \in 1 .. Len(gc.units) + Len(new) :
           units[i] = IF i <= Len(gc.units) THEN gc.units[i] ELSE new[i - Len(gc.units)]
  BY <1>1, ConcatProperties
<1>3. gc' = [gc EXCEPT !.unread = U, !.units = units]
  OBVIOUS
<1> HIDE DEF units
<1>4. /\ gc' \in Collections /\ gc'.pc = gc.pc /\ gc'.listed = gc.listed
      /\ gc'.units = units /\ gc'.evicted = gc.evicted /\ gc'.batch = gc.batch
      /\ gc'.removing = gc.removing /\ gc'.unread = U
  <2>1. gc \in Collections /\ units \in Seq(Units) /\ U \in SUBSET (Keys \cup Names)
    BY <1>2 DEF TypeInv, GcOK, Collections
  <2> QED BY <2>1, <1>3 DEF Collections
<1>5. DOMAIN gc.units = 1 .. Len(gc.units) /\ DOMAIN new = 1 .. Len(new) /\ DOMAIN units = 1 .. Len(units)
  BY <1>1, <1>2
<1>6. /\ DOMAIN gc.units \subseteq DOMAIN units
      /\ \A i \in DOMAIN gc.units : units[i] = gc.units[i]
  BY <1>1, <1>2, <1>5
<1>7. \A i \in DOMAIN new : Len(gc.units) + i \in DOMAIN units /\ units[Len(gc.units) + i] = new[i]
  <2> TAKE i \in DOMAIN new
  <2>1. i \in 1 .. Len(new) /\ Len(gc.units) + i \in 1 .. Len(gc.units) + Len(new)
    BY <1>1, <1>5
  <2>2. ~ (Len(gc.units) + i <= Len(gc.units)) /\ (Len(gc.units) + i) - Len(gc.units) = i
    BY <2>1, <1>1
  <2>3. units[Len(gc.units) + i] = new[(Len(gc.units) + i) - Len(gc.units)]
    BY <2>1, <2>2, <1>2
  <2> QED BY <2>1, <2>2, <2>3, <1>2, <1>5
<1>8. \A i \in DOMAIN units : UnitFits(units[i])
  <2> TAKE i \in DOMAIN units
  <2>1. CASE i \in DOMAIN gc.units
    BY <2>1, <1>1, <1>6 DEF TypeInv, GcOK, UnitFits
  <2>2. CASE i \notin DOMAIN gc.units
    <3>1. i - Len(gc.units) \in DOMAIN new /\ units[i] = new[i - Len(gc.units)]
      BY <2>2, <1>1, <1>2, <1>5
    <3> QED BY <3>1
  <2> QED BY <2>1, <2>2
<1>9. GcOK'
  <2>1. gc.evicted \subseteq DOMAIN units
    BY <1>6 DEF TypeInv, GcOK
  <2>2. DOMAIN gc.listed \subseteq Blobs /\ (gc.pc = "indexes" => U \subseteq Keys)
    BY DEF TypeInv, GcOK
  <2> QED BY <1>4, <1>8, <2>1, <2>2 DEF GcOK, Reading, UnitFits
<1>10. LockOK'
  <2>1. gc.batch = {} /\ gc.removing = None
    BY DEF TypeInv, LockOK, Reading
  <2> QED BY <2>1, <1>4 DEF TypeInv, LockOK
<1> QED BY <1>4, <1>6, <1>7, <1>9, <1>10 DEF units


(* The units of an index, and where they are in the snapshot. *)
LEMMA GcReadIndexUnits ==
  ASSUME TypeInv, NEW k \in Keys, GcReadIndex(k)
  PROVE  LET new == [i \in DOMAIN index[k] |-> CandidateUnit(k, index[k][i])] IN
         /\ Reading /\ new \in Seq(Units) /\ DOMAIN new = DOMAIN index[k]
         /\ \A i \in DOMAIN new : UnitFits(new[i])
         /\ gc.unread \ {k} \in SUBSET gc.unread
         /\ gc' = [gc EXCEPT !.unread = gc.unread \ {k}, !.units = gc.units \o new]
         /\ UNCHANGED <<file, index, named, journal, use, writer, pub, now, begun>>
<1> DEFINE new == [i \in DOMAIN index[k] |-> CandidateUnit(k, index[k][i])]
<1>1. Reading
  BY DEF Reading, GcReadIndex
<1>2. index[k] \in Seq(Candidates) /\ DOMAIN index[k] = 1 .. Len(index[k]) /\ Len(index[k]) \in Nat
  BY Indexed
<1>3. \A i \in DOMAIN index[k] : index[k][i] \in Candidates
  BY <1>2
<1>4. \A i \in DOMAIN new : UnitFits(new[i])
  BY <1>1, <1>3, CandidateUnitFits
<1>5. new \in Seq(Units)
  <2>1. \A i \in 1 .. Len(index[k]) : new[i] \in Units
    BY <1>2, <1>4 DEF UnitFits
  <2>2. new = [i \in 1 .. Len(index[k]) |-> new[i]]
    BY <1>2
  <2> HIDE DEF new
  <2>3. new \in [1 .. Len(index[k]) -> Units]
    BY <2>1, <2>2
  <2> QED BY <1>2, <2>3
<1>6. /\ gc' = [gc EXCEPT !.unread = gc.unread \ {k}, !.units = gc.units \o new]
      /\ UNCHANGED <<file, index, named, journal, use, writer, pub, now, begun>>
  BY DEF GcReadIndex
<1> QED BY <1>1, <1>4, <1>5, <1>6

LEMMA GcReadIndexType ==
  ASSUME TypeInv, NEW k \in Keys, GcReadIndex(k)
  PROVE  TypeInv'
<1> DEFINE new == [i \in DOMAIN index[k] |-> CandidateUnit(k, index[k][i])]
<1>1. /\ Reading /\ new \in Seq(Units)
      /\ \A i \in DOMAIN new : UnitFits(new[i])
      /\ gc.unread \ {k} \in SUBSET gc.unread
      /\ gc' = [gc EXCEPT !.unread = gc.unread \ {k}, !.units = gc.units \o new]
      /\ UNCHANGED <<file, index, named, journal, use, writer, pub, now, begun>>
  BY GcReadIndexUnits
<1> HIDE DEF new
<1>2. GcOK' /\ LockOK'
  BY <1>1, UnitsGrow
<1> QED BY <1>1, <1>2, Frame DEF TypeInv

LEMMA GcReadNamesType ==
  ASSUME TypeInv, GcReadNames
  PROVE  TypeInv'
<1>1. /\ gc' \in Collections /\ gc'.pc = "names" /\ gc'.unread = Names /\ gc'.listed = gc.listed
      /\ gc'.units = gc.units /\ gc'.evicted = gc.evicted /\ gc'.batch = gc.batch
      /\ gc'.removing = gc.removing
  BY DEF GcReadNames, TypeInv, GcOK, Collections
<1>2. GcOK'
  BY <1>1 DEF GcOK, Reading, TypeInv, GcReadNames
<1>3. LockOK'
  BY <1>1 DEF LockOK, TypeInv, GcReadNames
<1> QED BY <1>2, <1>3, Frame DEF TypeInv, GcReadNames

(* A named record is a unit, if there is one. *)
LEMMA GcReadNamedUnits ==
  ASSUME TypeInv, NEW n \in Names, GcReadNamed(n)
  PROVE  \E new \in Seq(Units) :
           /\ Reading
           /\ \A i \in DOMAIN new : UnitFits(new[i])
           /\ gc.unread \ {n} \in SUBSET gc.unread
           /\ gc' = [gc EXCEPT !.unread = gc.unread \ {n}, !.units = gc.units \o new]
           /\ UNCHANGED <<file, index, named, journal, use, writer, pub, now, begun>>
<1>1. Reading /\ gc.units \in Seq(Units)
  BY DEF GcReadNamed, Reading, TypeInv, GcOK, Collections
<1>2. CASE named[n] = None
  <2>1. gc.units = gc.units \o <<>>
    BY <1>1, ConcatEmptySeq
  <2>2. gc' = [gc EXCEPT !.unread = gc.unread \ {n}, !.units = gc.units \o <<>>]
    BY <1>2, <2>1 DEF GcReadNamed
  <2>3. <<>> \in Seq(Units) /\ DOMAIN <<>> = {}
    OBVIOUS
  <2> QED BY <1>1, <2>2, <2>3 DEF GcReadNamed
<1>3. CASE named[n] # None
  <2> DEFINE u == NamedUnit(n)
  <2>1. UnitFits(u)
    BY <1>1, <1>3, NamedUnitFits
  <2>2. gc' = [gc EXCEPT !.unread = gc.unread \ {n}, !.units = Append(gc.units, u)]
    BY <1>3 DEF GcReadNamed
  <2> HIDE DEF u
  <2>3. <<u>> \in Seq(Units) /\ \A i \in DOMAIN <<u>> : UnitFits(<<u>>[i])
    BY <2>1 DEF UnitFits
  <2>4. Append(gc.units, u) = gc.units \o <<u>>
    BY <1>1, <2>1, AppendIsConcat DEF UnitFits
  <2> QED BY <1>1, <2>2, <2>3, <2>4 DEF GcReadNamed
<1> QED BY <1>2, <1>3

LEMMA GcReadNamedType ==
  ASSUME TypeInv, NEW n \in Names, GcReadNamed(n)
  PROVE  TypeInv'
<1>1. PICK new \in Seq(Units) :
        /\ Reading
        /\ \A i \in DOMAIN new : UnitFits(new[i])
        /\ gc.unread \ {n} \in SUBSET gc.unread
        /\ gc' = [gc EXCEPT !.unread = gc.unread \ {n}, !.units = gc.units \o new]
        /\ UNCHANGED <<file, index, named, journal, use, writer, pub, now, begun>>
  BY GcReadNamedUnits
<1>2. GcOK' /\ LockOK'
  BY <1>1, UnitsGrow
<1> QED BY <1>1, <1>2, Frame DEF TypeInv


(* What the plan says of the snapshot: every unit that references a doomed  *)
(* blob is evicted.                                                         *)
LEMMA GcMakePlanFields ==
  ASSUME TypeInv, GcMakePlan
  PROVE  /\ Reading /\ gc'.pc = "records" /\ gc' \in Collections
         /\ gc'.units = gc.units /\ gc'.evicted \subseteq DOMAIN gc.units
         /\ gc'.unread = {gc.units[i].path : i \in gc'.evicted}
         /\ gc'.doomed \subseteq DOMAIN gc.listed
         /\ gc'.batch = gc.batch /\ gc'.removing = gc.removing
         /\ gc'.offset = gc.offset /\ gc'.uses = gc.uses /\ gc'.blobs = gc.blobs
         /\ \A b \in gc'.doomed : \A i \in DOMAIN gc.units :
              b \in gc.units[i].blobs => i \in gc'.evicted
<1> DEFINE s == [units |-> gc.units, blobs |-> gc.listed]
           options == [max_bytes |-> gc.max_bytes, min_protocol |-> 0,
                       max_executable_bytes |-> NoBudget]
           plan == Plan(s, options, gc.started)
           unread == {gc.units[i].path : i \in plan.evicted}
           doomed == {f[1] : f \in plan.freed} \cup plan.unreferenced
<1>1. /\ gc.pc = "names"
      /\ gc' = [gc EXCEPT !.pc = "records", !.evicted = plan.evicted, !.journal = {},
                          !.listed = None, !.unread = unread, !.doomed = doomed]
  BY DEF GcMakePlan
<1>2. s.units = gc.units /\ s.blobs = gc.listed /\ gc.units \in Seq(Units)
  BY DEF TypeInv, GcOK, Collections
<1> HIDE DEF s, options
<1>3. UnitList(s)
  <2>1. Len(gc.units) \in Nat /\ DOMAIN gc.units = 1 .. Len(gc.units)
    BY <1>2
  <2>2. \A i \in DOMAIN gc.units : gc.units[i].last \in Int
    <3>1. \A i \in DOMAIN gc.units : gc.units[i] \in Units
      BY <1>2
    <3>2. \A t \in 0 .. MaxTime : t \in Int
      BY BoundsAssumption
    <3> QED BY <3>1, <3>2 DEF Units
  <2> QED BY <1>2, <2>1, <2>2 DEF UnitList
<1>4. /\ plan.evicted \subseteq DOMAIN gc.units
      /\ \A b : (\E f \in plan.freed : f[1] = b) <=>
                  Referrers(s, b) # {} /\ Referrers(s, b) \subseteq plan.evicted
      /\ plan.unreferenced = Unreferenced(s, gc.started)
  BY <1>2, <1>3, PlanFreesExactly
<1> HIDE DEF plan
<1>5. /\ Reading /\ DOMAIN gc.listed \subseteq Blobs
      /\ \A i \in DOMAIN gc.units : gc.units[i].blobs \subseteq DOMAIN gc.listed
  BY <1>1 DEF Reading, TypeInv, GcOK
<1>6. \A b, i : i \in Referrers(s, b) <=> i \in DOMAIN gc.units /\ b \in gc.units[i].blobs
  BY <1>2 DEF Referrers
<1>7. ASSUME NEW b \in doomed
      PROVE  b \in DOMAIN gc.listed /\ Referrers(s, b) \subseteq plan.evicted
  <2>1. CASE b \in plan.unreferenced
    BY <2>1, <1>2, <1>4 DEF Unreferenced
  <2>2. CASE b \notin plan.unreferenced
    <3>1. Referrers(s, b) # {} /\ Referrers(s, b) \subseteq plan.evicted
      BY <2>2, <1>4, <1>7
    <3> QED BY <3>1, <1>5, <1>6
  <2> QED BY <2>1, <2>2
<1>8. unread \in SUBSET (Keys \cup Names)
  <2>1. \A i \in DOMAIN gc.units : gc.units[i].path \in Keys \cup Names
    <3>1. \A i \in DOMAIN gc.units : gc.units[i] \in Units
      BY <1>2
    <3> QED BY <3>1 DEF Units
  <2> QED BY <2>1, <1>4
<1>9. doomed \in SUBSET Blobs /\ doomed \subseteq DOMAIN gc.listed
  BY <1>5, <1>7
<1>10. plan.evicted \in SUBSET Nat
  BY <1>2, <1>4
<1> HIDE DEF unread, doomed
<1>11. None \in Listings
  BY DEF Listings
<1>12. /\ gc' \in Collections /\ gc'.pc = "records" /\ gc'.evicted = plan.evicted
       /\ gc'.unread = unread /\ gc'.doomed = doomed
       /\ gc'.units = gc.units /\ gc'.batch = gc.batch /\ gc'.removing = gc.removing
       /\ gc'.offset = gc.offset /\ gc'.uses = gc.uses /\ gc'.blobs = gc.blobs
  BY <1>1, <1>8, <1>9, <1>10, <1>11 DEF TypeInv, GcOK, Collections
<1> QED BY <1>4, <1>5, <1>6, <1>7, <1>9, <1>12 DEF unread

LEMMA GcMakePlanType ==
  ASSUME TypeInv, GcMakePlan
  PROVE  TypeInv'
<1>1. /\ gc' \in Collections /\ gc'.pc = "records"
      /\ gc'.units = gc.units /\ gc'.evicted \subseteq DOMAIN gc.units
      /\ gc'.batch = gc.batch /\ gc'.removing = gc.removing
  BY GcMakePlanFields
<1>2. GcOK'
  BY <1>1 DEF GcOK, Reading, TypeInv
<1>3. gc.batch = {} /\ gc.removing = None
  BY DEF TypeInv, LockOK, GcMakePlan
<1>4. LockOK'
  BY <1>1, <1>3 DEF LockOK, TypeInv, GcMakePlan
<1> QED BY <1>2, <1>4, Frame DEF TypeInv, GcMakePlan


(* The look at the journal before a batch: every new line is noted, and     *)
(* every blob of the index it names.                                        *)
LEMMA GcLockFields ==
  ASSUME TypeInv, NEW files \in SUBSET Remaining, GcLock(files)
  PROVE  LET new == {journal.current[i] : i \in gc.offset + 1 .. Len(journal.current)} IN
         /\ gc' \in Collections /\ gc'.batch = files
         /\ gc'.pc = gc.pc /\ gc'.units = gc.units /\ gc'.evicted = gc.evicted
         /\ gc'.unread = gc.unread /\ gc'.doomed = gc.doomed /\ gc'.removing = gc.removing
         /\ gc'.offset = Len(journal.current)
         /\ gc'.uses = gc.uses \cup {<<l[1], l[2]>> : l \in new}
         /\ gc.blobs \subseteq gc'.blobs
         /\ \A l \in new : l \in Lines /\ \A c \in ToSet(index[l[1]]) : c.blobs \subseteq gc'.blobs
<1> DEFINE new == {journal.current[i] : i \in gc.offset + 1 .. Len(journal.current)}
           read == UNION {ToSet(index[l[1]]) : l \in new}
           uses == gc.uses \cup {<<l[1], l[2]>> : l \in new}
           blobs == gc.blobs \cup UNION {c.blobs : c \in read}
<1>1. gc' = [gc EXCEPT !.offset = Len(journal.current), !.uses = uses, !.blobs = blobs,
                       !.batch = files]
  <2>1. Refreshed(gc) = [gc EXCEPT !.offset = Len(journal.current), !.uses = uses, !.blobs = blobs]
    BY DEF Refreshed
  <2>2. gc' = [Refreshed(gc) EXCEPT !.batch = files]
    BY DEF GcLock
  <2> HIDE DEF uses, blobs
  <2> QED BY <2>1, <2>2 DEF TypeInv, GcOK, Collections
<1>2. journal.current \in Seq(Lines) /\ Len(journal.current) \in Nat /\ gc.offset \in Nat
  BY JournalLines DEF TypeInv, GcOK, Collections
<1>3. \A l \in new : l \in Lines /\ l[1] \in Keys /\ l[2] \in Actions
  <2>1. \A i \in gc.offset + 1 .. Len(journal.current) : journal.current[i] \in Lines
    BY <1>2
  <2> QED BY <2>1 DEF Lines
<1> HIDE DEF new
<1>4. uses \in SUBSET (Keys \X Actions)
  BY <1>3 DEF TypeInv, GcOK, Collections
<1>5. blobs \in SUBSET Blobs
  <2>1. \A c \in read : c.blobs \subseteq Blobs
    <3> TAKE c \in read
    <3>1. PICK l \in new : c \in ToSet(index[l[1]])
      OBVIOUS
    <3> QED BY <3>1, <1>3, Indexed DEF Candidates
  <2> QED BY <2>1 DEF TypeInv, GcOK, Collections
<1>6. gc.blobs \subseteq blobs /\ \A l \in new : \A c \in ToSet(index[l[1]]) : c.blobs \subseteq blobs
  OBVIOUS
<1>7. files \in SUBSET (Keys \cup Names \cup Blobs)
  BY DEF Remaining, TypeInv, GcOK, Collections
<1> HIDE DEF uses, blobs
<1>8. /\ gc' \in Collections /\ gc'.batch = files
      /\ gc'.pc = gc.pc /\ gc'.units = gc.units /\ gc'.evicted = gc.evicted
      /\ gc'.unread = gc.unread /\ gc'.doomed = gc.doomed /\ gc'.removing = gc.removing
      /\ gc'.offset = Len(journal.current) /\ gc'.uses = uses /\ gc'.blobs = blobs
  BY <1>1, <1>2, <1>4, <1>5, <1>7 DEF TypeInv, GcOK, Collections
<1> QED BY <1>3, <1>6, <1>8 DEF new, uses

LEMMA GcLockType ==
  ASSUME TypeInv, NEW files \in SUBSET Remaining, GcLock(files)
  PROVE  TypeInv'
<1>1. /\ gc' \in Collections /\ gc'.batch = files
      /\ gc'.pc = gc.pc /\ gc'.units = gc.units /\ gc'.evicted = gc.evicted
      /\ gc'.unread = gc.unread /\ gc'.doomed = gc.doomed /\ gc'.removing = gc.removing
  BY GcLockFields
<1>2. GcOK'
  BY <1>1 DEF GcOK, Reading, TypeInv, GcLock
<1>3. LockOK'
  <2>1. gc.removing = None /\ gc.pc = "records" /\ files # {} /\ writer' = "gc"
        /\ gc.doomed \subseteq Blobs
    BY DistinctAssumption DEF GcLock, Unlocked, TypeInv, LockOK, GcOK, Collections
  <2>2. \A p \in Publishers : pub[p].pc # "journal" /\ p # "gc"
    BY DistinctAssumption DEF GcLock, Unlocked, TypeInv, LockOK
  <2>3. gc'.batch \subseteq gc'.unread \/ (gc'.unread = {} /\ gc'.batch \subseteq Blobs)
    BY <1>1, <2>1 DEF Remaining
  <2>4. pub' = pub
    BY DEF GcLock
  <2> QED BY <1>1, <2>1, <2>2, <2>3, <2>4 DEF LockOK
<1> QED BY <1>2, <1>3, Frame DEF TypeInv, GcLock

(* One record file of the batch, with the locks.                            *)
LEMMA GcEvictFields ==
  ASSUME TypeInv, NEW path \in Keys \cup Names, GcEvict(path)
  PROVE  /\ gc' \in Collections /\ gc.pc = "records"
         /\ path \in gc.batch /\ path \in gc.unread /\ path \notin Blobs
         /\ gc' = [gc EXCEPT !.unread = gc.unread \ {path}, !.batch = gc.batch \ {path}]
         /\ gc'.pc = gc.pc /\ gc'.units = gc.units /\ gc'.evicted = gc.evicted
         /\ gc'.unread = gc.unread \ {path} /\ gc'.batch = gc.batch \ {path}
         /\ gc'.doomed = gc.doomed /\ gc'.removing = gc.removing /\ gc'.blobs = gc.blobs
         /\ gc'.offset = gc.offset /\ gc'.uses = gc.uses
         /\ gc.removing = None /\ gc.batch \subseteq gc.unread
<1>1. path \in gc.batch /\ path \in gc.unread /\ path \notin Blobs
  BY DistinctAssumption DEF GcEvict
<1>2. gc' = [gc EXCEPT !.unread = gc.unread \ {path}, !.batch = gc.batch \ {path}]
  BY DEF GcEvict
<1>3. gc.pc = "records" /\ gc.removing = None /\ gc.batch \subseteq gc.unread
  BY <1>1 DEF TypeInv, LockOK
<1> QED BY <1>1, <1>2, <1>3 DEF TypeInv, GcOK, Collections

(* The index of a static key keeps the candidates that survive. *)
LEMMA GcEvictIndex ==
  ASSUME TypeInv, NEW path \in Keys \cup Names, GcEvict(path)
  PROVE  /\ IndexOK'
         /\ \A k \in Keys \ {path} : index'[k] = index[k]
         /\ path \in Keys => \A c : c \in ToSet(index'[path]) <=>
                               c \in ToSet(index[path]) /\ Survives(gc, path, c)
<1>1. CASE path \notin Keys
  BY <1>1, Frame DEF GcEvict, TypeInv
<1>2. CASE path \in Keys
  <2> DEFINE T == {c \in ToSet(index[path]) : Survives(gc, path, c)}
             ix == index[path]
             r == Retained(ix, T)
  <2>1. index' = [index EXCEPT ![path] = r]
    BY <1>2 DEF GcEvict
  <2>1a. ix \in Seq(Candidates)
    BY <1>2, Indexed
  <2>2. DOMAIN ix = 1 .. Len(ix) /\ Len(ix) <= Max({MaxCandidates, 1}) /\ OneForAction(ix)
    <3>1. Len(ix) <= Max({MaxCandidates, 1}) /\ OneForAction(ix)
      BY <1>2 DEF TypeInv, IndexOK
    <3> HIDE DEF ix
    <3> QED BY <2>1a, <3>1
  <2>3. \A c : c \in T <=> c \in ToSet(ix) /\ Survives(gc, path, c)
    OBVIOUS
  <2> HIDE DEF T, ix
  <2>4. /\ r \in Seq(Candidates)
        /\ Len(r) <= Len(ix)
        /\ \A i, j \in 1 .. Len(r) : i < j =>
             \E a, b \in 1 .. Len(ix) : a < b /\ r[i] = ix[a] /\ r[j] = ix[b]
    BY <2>1a, RetainedInOrder
  <2>5. ToSet(r) = ToSet(ix) \cap T
    BY <2>1a, RetainedSet
  <2> HIDE DEF r
  <2>6. Len(r) <= Max({MaxCandidates, 1})
    <3>1. Max({MaxCandidates, 1}) \in Nat
      BY MaxMin, BoundsAssumption
    <3> QED BY <2>2, <2>4, <3>1
  <2>7. OneForAction(r)
    <3> SUFFICES ASSUME NEW i \in DOMAIN r, NEW j \in DOMAIN r, i < j
                 PROVE  r[i].action # r[j].action
      <4>1. \A i, j \in DOMAIN r : i = j \/ i < j \/ j < i
        BY <2>4
      <4> QED BY <4>1 DEF OneForAction
    <3>0. i \in 1 .. Len(r) /\ j \in 1 .. Len(r)
      BY <2>4
    <3>1. PICK a, b \in 1 .. Len(ix) : a < b /\ r[i] = ix[a] /\ r[j] = ix[b]
      BY <2>4, <3>0
    <3> QED BY <3>1, <2>2 DEF OneForAction
  <2>8. IndexOK'
    BY <1>2, <2>1, <2>4, <2>6, <2>7 DEF TypeInv, IndexOK
  <2>9. index'[path] = r /\ \A k \in Keys \ {path} : index'[k] = index[k]
    BY <1>2, <2>1 DEF TypeInv, IndexOK
  <2> QED BY <2>3, <2>5, <2>8, <2>9 DEF ix
<1> QED BY <1>1, <1>2


LEMMA GcEvictType ==
  ASSUME TypeInv, NEW path \in Keys \cup Names, GcEvict(path)
  PROVE  TypeInv'
<1>1. /\ gc' \in Collections /\ gc.pc = "records" /\ path \in gc.batch
      /\ gc'.pc = gc.pc /\ gc'.units = gc.units /\ gc'.evicted = gc.evicted
      /\ gc'.unread = gc.unread \ {path} /\ gc'.batch = gc.batch \ {path}
      /\ gc'.removing = gc.removing /\ gc.removing = None /\ gc.batch \subseteq gc.unread
  BY GcEvictFields
<1>2. GcOK'
  BY <1>1 DEF GcOK, Reading, TypeInv
<1>3. LockOK'
  <2>1. /\ writer = "gc" /\ pub' = pub
        /\ writer' = IF gc.batch = {path} THEN None ELSE writer
        /\ \A p \in Publishers : pub[p].pc # "journal" /\ p # "gc" /\ p # None
    BY <1>1, DistinctAssumption DEF TypeInv, LockOK, GcEvict, Visited
  <2>2. gc'.batch = {} <=> gc.batch = {path}
    BY <1>1
  <2> QED BY <1>1, <2>1, <2>2, DistinctAssumption DEF LockOK
<1>4. NamedOK'
  BY DEF TypeInv, NamedOK, GcEvict
<1>5. IndexOK'
  BY GcEvictIndex
<1> QED BY <1>2, <1>3, <1>4, <1>5, Frame DEF TypeInv, GcEvict

(* A blob of the batch is visited when no record file is left, and kept or  *)
(* about to be removed.                                                     *)
LEMMA GcCheckBlobFields ==
  ASSUME TypeInv, NEW b \in Blobs, GcCheckBlob(b)
  PROVE  /\ gc' \in Collections /\ gc.pc = "records"
         /\ b \in gc.batch /\ b \in gc.doomed /\ gc.unread = {}
         /\ gc'.pc = gc.pc /\ gc'.units = gc.units /\ gc'.evicted = gc.evicted
         /\ gc'.unread = gc.unread /\ gc'.doomed = gc.doomed \ {b}
         /\ gc'.blobs = gc.blobs /\ gc'.offset = gc.offset /\ gc'.uses = gc.uses
         /\ \/ /\ gc'.batch = gc.batch \ {b} /\ gc'.removing = None
               /\ writer' = IF gc.batch = {b} THEN None ELSE writer
            \/ /\ gc'.batch = gc.batch /\ gc'.removing = b /\ b \notin gc.blobs
               /\ writer' = writer
<1>1. b \in gc.batch /\ b \in gc.doomed /\ gc.removing = None
  BY DEF GcCheckBlob
<1>2. gc.pc = "records" /\ gc.unread = {}
  BY <1>1, DistinctAssumption DEF TypeInv, LockOK, GcOK, Collections
<1>3. CASE gc' = [gc EXCEPT !.doomed = @ \ {b}, !.batch = @ \ {b}] /\ Visited(b)
  <2>1. /\ gc' \in Collections
        /\ gc'.pc = gc.pc /\ gc'.units = gc.units /\ gc'.evicted = gc.evicted
        /\ gc'.unread = gc.unread /\ gc'.doomed = gc.doomed \ {b}
        /\ gc'.blobs = gc.blobs /\ gc'.offset = gc.offset /\ gc'.uses = gc.uses
        /\ gc'.batch = gc.batch \ {b} /\ gc'.removing = gc.removing
    BY <1>3 DEF TypeInv, GcOK, Collections
  <2> QED BY <1>1, <1>2, <1>3, <2>1 DEF Visited
<1>4. CASE gc' = [gc EXCEPT !.doomed = @ \ {b}, !.removing = b] /\ writer' = writer /\ b \notin gc.blobs
  <2>1. /\ gc' \in Collections
        /\ gc'.pc = gc.pc /\ gc'.units = gc.units /\ gc'.evicted = gc.evicted
        /\ gc'.unread = gc.unread /\ gc'.doomed = gc.doomed \ {b}
        /\ gc'.blobs = gc.blobs /\ gc'.offset = gc.offset /\ gc'.uses = gc.uses
        /\ gc'.batch = gc.batch /\ gc'.removing = b
    BY <1>4 DEF TypeInv, GcOK, Collections
  <2> QED BY <1>1, <1>2, <1>4, <2>1
<1> QED BY <1>3, <1>4 DEF GcCheckBlob

LEMMA GcCheckBlobType ==
  ASSUME TypeInv, NEW b \in Blobs, GcCheckBlob(b)
  PROVE  TypeInv'
<1>1. /\ gc' \in Collections /\ gc.pc = "records"
      /\ b \in gc.batch /\ gc.unread = {}
      /\ gc'.pc = gc.pc /\ gc'.units = gc.units /\ gc'.evicted = gc.evicted
      /\ gc'.unread = gc.unread
      /\ \/ /\ gc'.batch = gc.batch \ {b} /\ gc'.removing = None
            /\ writer' = IF gc.batch = {b} THEN None ELSE writer
         \/ /\ gc'.batch = gc.batch /\ gc'.removing = b /\ writer' = writer
  BY GcCheckBlobFields
<1>2. GcOK'
  BY <1>1 DEF GcOK, Reading, TypeInv
<1>3. LockOK'
  <2>1. /\ writer = "gc" /\ pub' = pub /\ gc.batch \subseteq Blobs
        /\ \A p \in Publishers : pub[p].pc # "journal" /\ p # "gc" /\ p # None
    BY <1>1, DistinctAssumption DEF TypeInv, LockOK, GcCheckBlob
  <2>2. gc.batch \ {b} = {} <=> gc.batch = {b}
    BY <1>1
  <2> QED BY <1>1, <2>1, <2>2, DistinctAssumption DEF LockOK
<1> QED BY <1>2, <1>3, Frame DEF TypeInv, GcCheckBlob

LEMMA GcRemoveBlobFields ==
  ASSUME TypeInv, GcRemoveBlob
  PROVE  /\ gc' \in Collections /\ gc.pc = "records"
         /\ gc.removing \in gc.batch /\ gc.removing \in Blobs /\ gc.unread = {}
         /\ gc'.pc = gc.pc /\ gc'.units = gc.units /\ gc'.evicted = gc.evicted
         /\ gc'.unread = gc.unread /\ gc'.doomed = gc.doomed
         /\ gc'.blobs = gc.blobs /\ gc'.offset = gc.offset /\ gc'.uses = gc.uses
         /\ gc'.batch = gc.batch \ {gc.removing} /\ gc'.removing = None
<1>1. gc.removing # None /\ gc.removing \in gc.batch /\ gc.removing \in Blobs
      /\ gc.pc = "records" /\ gc.unread = {}
  BY DEF GcRemoveBlob, TypeInv, LockOK, GcOK, Collections
<1>2. gc' = [gc EXCEPT !.batch = gc.batch \ {gc.removing}, !.removing = None]
  BY DEF GcRemoveBlob
<1> QED BY <1>1, <1>2 DEF TypeInv, GcOK, Collections

LEMMA GcRemoveBlobType ==
  ASSUME TypeInv, GcRemoveBlob
  PROVE  TypeInv'
<1>1. /\ gc' \in Collections /\ gc.pc = "records"
      /\ gc.removing \in gc.batch /\ gc.removing \in Blobs /\ gc.unread = {}
      /\ gc'.pc = gc.pc /\ gc'.units = gc.units /\ gc'.evicted = gc.evicted
      /\ gc'.unread = gc.unread
      /\ gc'.batch = gc.batch \ {gc.removing} /\ gc'.removing = None
  BY GcRemoveBlobFields
<1>2. GcOK'
  BY <1>1 DEF GcOK, Reading, TypeInv
<1>3. LockOK'
  <2>1. /\ writer = "gc" /\ pub' = pub /\ gc.batch \subseteq Blobs
        /\ writer' = IF gc.batch = {gc.removing} THEN None ELSE writer
        /\ \A p \in Publishers : pub[p].pc # "journal" /\ p # "gc" /\ p # None
    BY <1>1, DistinctAssumption DEF TypeInv, LockOK, GcRemoveBlob, Visited
  <2>2. gc'.batch = {} <=> gc.batch = {gc.removing}
    BY <1>1
  <2> QED BY <1>1, <2>1, <2>2, DistinctAssumption DEF LockOK
<1>4. FileOK'
  BY <1>1 DEF TypeInv, FileOK, GcRemoveBlob
<1> QED BY <1>2, <1>3, <1>4, Frame DEF TypeInv, GcRemoveBlob

LEMMA GcCompactType ==
  ASSUME TypeInv, GcCompact
  PROVE  TypeInv'
<1> DEFINE lines == {<<gc.units[i].path, gc.units[i].action, gc.units[i].last>> :
                       i \in {j \in DOMAIN gc.units \ gc.evicted :
                                gc.units[j].candidate /\ gc.units[j].last > gc.units[j].created}}
<1>1. /\ PubOK' /\ UseOK'
      /\ \A p \in Publishers : pub'[p].pc = pub[p].pc
  BY MoveType DEF GcCompact
<1>2. gc' = IdleGc /\ gc'.batch = {} /\ gc'.removing = None /\ gc'.unread = {} /\ gc.batch = {}
  BY DEF GcCompact, IdleGc
<1>3. lines \in SUBSET Lines
  <2>1. \A i \in DOMAIN gc.units : gc.units[i] \in Units
    BY DEF TypeInv, GcOK, Collections
  <2>2. \A i \in DOMAIN gc.units : gc.units[i].candidate =>
          <<gc.units[i].path, gc.units[i].action, gc.units[i].last>> \in Lines
    BY <2>1 DEF TypeInv, GcOK, Units, Lines
  <2> QED BY <2>2
<1>4. JournalOK'
  <2>1. journal' = [journal EXCEPT !.rotated = lines]
    BY DEF GcCompact
  <2> HIDE DEF lines
  <2> QED BY <2>1, <1>3 DEF TypeInv, JournalOK
<1>5. LockOK'
  BY <1>1, <1>2 DEF LockOK, TypeInv, GcCompact
<1>6. GcOK'
  BY <1>2, GcIdle
<1> QED BY <1>1, <1>4, <1>5, <1>6, Frame DEF TypeInv, GcCompact

LEMMA GcFailType ==
  ASSUME TypeInv, GcFail
  PROVE  TypeInv'
<1>1. gc' = IdleGc /\ gc'.batch = {} /\ gc'.removing = None /\ gc'.unread = {}
  BY DEF GcFail, IdleGc
<1>2. GcOK'
  BY <1>1, GcIdle
<1>3. LockOK'
  BY <1>1, DistinctAssumption DEF LockOK, TypeInv, GcFail
<1>4. CountOK'
  BY DEF TypeInv, CountOK, Counters, GcFail, Bounded
<1> QED BY <1>2, <1>3, <1>4, Frame DEF TypeInv, GcFail

LEMMA CrashType ==
  ASSUME TypeInv, Crash
  PROVE  TypeInv'
<1>1. gc' = IdleGc /\ gc'.batch = {} /\ gc'.removing = None /\ gc'.unread = {}
  BY DEF Crash, IdleGc
<1>2. GcOK'
  BY <1>1, GcIdle
<1>3. PubOK' /\ \A p \in Publishers : pub'[p].pc # "journal"
  <2>1. ASSUME NEW p \in Publishers
        PROVE  /\ pub'[p] \in Publications \cup {IdlePublisher}
               /\ pub'[p].pc \in {"idle", "offer"}
    <3>1. CASE pub[p].pc = "offer"
      <4>1. pub'[p] = [pub[p] EXCEPT !.moving = None] /\ pub[p] \in Publications
        BY <3>1, PubFields DEF TypeInv, Crash
      <4> QED BY <3>1, <4>1 DEF Publications
    <3>2. CASE pub[p].pc # "offer"
      BY <3>2 DEF Crash, IdlePublisher
    <3> QED BY <3>1, <3>2
  <2>2. pub' = [p \in Publishers |-> pub'[p]]
    BY DEF Crash
  <2> QED BY <2>1, <2>2 DEF PubOK
<1>4. LockOK'
  BY <1>1, <1>3, DistinctAssumption DEF LockOK, Crash
<1>5. UseOK'
  BY DEF UseOK, Logs, Crash
<1>6. CountOK'
  BY DEF TypeInv, CountOK, Counters, Crash, Bounded
<1> QED BY <1>2, <1>3, <1>4, <1>5, <1>6, Frame DEF TypeInv, Crash

LEMMA DecayType ==
  ASSUME TypeInv, NEW b \in Blobs, Decay(b)
  PROVE  TypeInv'
<1>1. FileOK'
  BY DEF TypeInv, FileOK, Decay
<1>2. CountOK'
  BY DEF TypeInv, CountOK, Counters, Decay, Bounded
<1> QED BY <1>1, <1>2, Frame DEF TypeInv, Decay

LEMMA TickType ==
  ASSUME TypeInv, Tick
  PROVE  TypeInv'
<1>1. CountOK'
  BY BoundsAssumption DEF TypeInv, CountOK, Tick
<1> QED BY <1>1, Frame DEF TypeInv, Tick


LEMMA NextType ==
  ASSUME TypeInv, [Next]_vars
  PROVE  TypeInv'
<1>1. ASSUME NEW p \in Publishers, PublisherNext(p) PROVE TypeInv'
  BY <1>1, BeginType, HeadBlobType, CommitBlobType, RemoveCorruptType, MoveBlobType,
  PutCandidateType, OpenJournalType,
     AppendJournalType, JournalFailsType, PutNamedType, ExecuteType, PutExecutedType,
     RefuseType, GiveUpType DEF PublisherNext
<1>2. ASSUME GcNext PROVE TypeInv'
  BY <1>2, GcBeginType, GcRotateType, GcReadJournalType, GcListBlobsType, GcReadIndexType,
     GcReadNamesType, GcReadNamedType, GcMakePlanType, GcLockType, GcEvictType,
     GcCheckBlobType, GcRemoveBlobType, GcCompactType, GcFailType DEF GcNext
<1>3. CASE UNCHANGED vars
  BY <1>3, Frame DEF TypeInv, vars
<1> QED
  BY <1>1, <1>2, <1>3, UseCandidateType, AppendUseType, CrashType, DecayType, TickType DEF Next

(***************************************************************************)
(* The store, its publishers and its locks keep their types: an index      *)
(* never holds more than MaxCandidates candidates nor two for an action    *)
(* key, and the server's write lock is held by exactly the publication or  *)
(* the batch that is inside it, through every failure and restart.         *)
(***************************************************************************)
THEOREM StoreTypes == Spec => []StoreTypeOK
<1>1. Init => TypeInv
  BY InitType
<1>2. TypeInv /\ [Next]_vars => TypeInv'
  BY NextType
<1>3. TypeInv => StoreTypeOK
  BY TypeParts
<1> QED BY <1>1, <1>2, <1>3, PTL DEF Spec

-----------------------------------------------------------------------------
(* A name is bound once. *)

(* What a step does to the named records. *)
LEMMA NamedStep ==
  ASSUME TypeInv, Next, NEW n \in Names, named[n] # None
  PROVE  named'[n] = named[n] \/ (named'[n] = None /\ gc.pc = "records")
<1>1. ASSUME NEW p \in Publishers, Written(p), pub[p].pc # "idle",
             pub[p].request.kind # "candidate"
      PROVE  named'[n] = named[n]
  <2>1. pub[p].request \in Requests
    BY <1>1, PubFields DEF TypeInv, Publications
  <2>2. pub[p].request.key \in Names /\ named = [m \in Names |-> named[m]]
    BY <1>1, <2>1, RequestsAssumption DEF TypeInv, NamedOK
  <2> QED BY <1>1, <2>2 DEF Written
<1>2. ASSUME NEW p \in Publishers, PutNamed(p) PROVE named'[n] = named[n]
  BY <1>1, <1>2 DEF PutNamed, Sending
<1>3. ASSUME NEW p \in Publishers, PutExecuted(p) PROVE named'[n] = named[n]
  BY <1>1, <1>3 DEF PutExecuted, TypeInv, PubOK
<1>4. ASSUME NEW path \in Keys \cup Names, GcEvict(path)
      PROVE  named'[n] = named[n] \/ (named'[n] = None /\ gc.pc = "records")
  BY <1>4, GcEvictFields DEF GcEvict, TypeInv, NamedOK
<1>5. ASSUME NEW p \in Publishers, PublisherNext(p)
      PROVE  PutNamed(p) \/ PutExecuted(p) \/ named' = named
  BY <1>5 DEF PublisherNext, Begin, HeadBlob, CommitBlob, RemoveCorrupt, MoveBlob,
              PutCandidate, OpenJournal,
              AppendJournal, JournalFails, Execute, Refuse, GiveUp
<1>6. ASSUME GcNext PROVE (\E path \in Keys \cup Names : GcEvict(path)) \/ named' = named
  <2>1. ASSUME NEW b, GcCheckBlob(b) PROVE named' = named
    BY <2>1 DEF GcCheckBlob
  <2>2. ASSUME NEW files, GcLock(files) PROVE named' = named
    BY <2>2 DEF GcLock
  <2> QED BY <1>6, <2>1, <2>2
          DEF GcNext, GcBegin, GcRotate, GcReadJournal, GcListBlobs, GcReadIndex, GcReadNames,
              GcReadNamed, GcMakePlan, GcRemoveBlob, GcCompact, GcFail
<1>7. (\E p \in Publishers : PublisherNext(p)) \/ GcNext \/ named' = named
  BY DEF Next, UseCandidate, AppendUse, Crash, Decay, Tick
<1>8. ASSUME NEW p \in Publishers, PublisherNext(p) PROVE named'[n] = named[n]
  BY <1>2, <1>3, <1>5, <1>8
<1>9. ASSUME GcNext PROVE named'[n] = named[n] \/ (named'[n] = None /\ gc.pc = "records")
  BY <1>4, <1>6, <1>9
<1> QED BY <1>7, <1>8, <1>9

(***************************************************************************)
(* For every store: a name that is bound stays bound to the same record    *)
(* until a collection evicts it.  Neither a second publication nor an      *)
(* execution that ended late replaces what another one wrote               *)
(* (put_declared_unlocked, put_archive_unlocked).                          *)
(***************************************************************************)
THEOREM NamesBindOnce == Spec => PublishedOnce
<1>1. TypeInv /\ [Next]_vars => [\A n \in Names : StaysBound(n)]_vars
  BY NamedStep DEF StaysBound
<1>2. Init => TypeInv
  BY InitType
<1>3. TypeInv /\ [Next]_vars => TypeInv'
  BY NextType
<1> QED BY <1>1, <1>2, <1>3, PTL DEF Spec, PublishedOnce

-----------------------------------------------------------------------------
(* What a collection saw of the journal. *)

(* The journal a step leaves has the lines it had, in their places. *)
Grown ==
  /\ Len(journal.current) <= Len(journal'.current)
  /\ \A i \in 1 .. Len(journal.current) : journal'.current[i] = journal.current[i]

LEMMA AppendedGrows ==
  ASSUME JournalOK, NEW log \in OpenJournals, journal' = Appended(log)
  PROVE  /\ Grown
         /\ log.into = "current" =>
              /\ Len(journal'.current) = Len(journal.current) + 1
              /\ journal'.current[Len(journal.current) + 1] = log.line
<1>1. journal.current \in Seq(Lines) /\ log.line \in Lines
  BY DEF JournalOK, OpenJournals
<1>2. CASE log.into = "current"
  <2>1. journal'.current = Append(journal.current, log.line)
    BY <1>2, AppendedType
  <2> QED BY <1>1, <1>2, <2>1 DEF Grown
<1>3. CASE log.into # "current"
  <2>1. journal'.current = journal.current
    BY <1>3, AppendedType
  <2> QED BY <1>1, <1>3, <2>1 DEF Grown
<1> QED BY <1>2, <1>3

(* The steps that are not of the collection.                                 *)
OtherNext ==
  \/ \E p \in Publishers : PublisherNext(p)
  \/ \E k \in Keys : \E c \in ToSet(index[k]) : UseCandidate(k, c)
  \/ AppendUse
  \/ \E b \in Blobs : Decay(b)
  \/ Tick

LEMMA NextSteps == Next <=> OtherNext \/ GcNext \/ Crash
BY DEF Next, OtherNext

(* They leave the collection alone and only add to the journal.              *)
LEMMA OthersGrow ==
  ASSUME TypeInv, OtherNext
  PROVE  Grown /\ UNCHANGED gc
<1>1. ASSUME UNCHANGED journal PROVE Grown
  <2>1. journal.current \in Seq(Lines)
    BY DEF TypeInv, JournalOK
  <2> QED BY <1>1, <2>1 DEF Grown
<1>2. ASSUME NEW p \in Publishers, AppendJournal(p) PROVE Grown
  <2>1. pub[p].log \in OpenJournals
    BY <1>2, PubFields DEF TypeInv, AppendJournal, Logs
  <2> QED BY <1>2, <2>1, AppendedGrows DEF TypeInv, AppendJournal
<1>3. ASSUME AppendUse PROVE Grown
  <2>1. use \in OpenJournals
    BY <1>3 DEF TypeInv, UseOK, AppendUse, Logs
  <2> QED BY <1>3, <2>1, AppendedGrows DEF TypeInv, AppendUse
<1>4. ASSUME NEW p \in Publishers, PublisherNext(p) PROVE AppendJournal(p) \/ UNCHANGED journal
  BY <1>4 DEF PublisherNext, Begin, HeadBlob, CommitBlob, RemoveCorrupt, MoveBlob,
              PutCandidate, OpenJournal,
              JournalFails, PutNamed, Execute, PutExecuted, Refuse, GiveUp
<1>5. ASSUME NEW p \in Publishers, PublisherNext(p) PROVE Grown
  <2>1. CASE AppendJournal(p)
    BY <2>1, <1>2
  <2>2. CASE UNCHANGED journal
    BY <2>2, <1>1
  <2> QED BY <1>4, <1>5, <2>1, <2>2
<1>6. Grown
  BY <1>1, <1>3, <1>5 DEF OtherNext, UseCandidate, Decay, Tick
<1>7. UNCHANGED gc
  BY DEF OtherNext, PublisherNext, Begin, HeadBlob, CommitBlob, RemoveCorrupt, MoveBlob,
         PutCandidate, OpenJournal,
         AppendJournal, JournalFails, PutNamed, Execute, PutExecuted, Refuse, GiveUp,
         UseCandidate, AppendUse, Decay, Tick
<1> QED BY <1>6, <1>7

(* Each step of the collection: it takes in the journal at a batch, and       *)
(* otherwise goes on with what it has, or is over.                           *)
Kept == gc'.offset = gc.offset /\ gc'.uses = gc.uses /\ gc'.blobs = gc.blobs

LEMMA GcReads ==
  ASSUME TypeInv, GcNext
  PROVE  \/ \E files \in SUBSET Remaining : GcLock(files)
         \/ /\ gc'.pc # "records" /\ gc'.removing = None
            /\ gc'.offset = 0 /\ gc'.uses = {} /\ gc'.blobs = {}
         \/ GcRotate
         \/ /\ Kept /\ UNCHANGED <<journal, pub>>
            /\ gc'.pc # "records" => gc.pc # "records"
<1> USE DEF Kept
<1>1. ASSUME NEW max, GcBegin(max)
      PROVE  /\ gc'.pc # "records" /\ gc'.removing = None
             /\ gc'.offset = 0 /\ gc'.uses = {} /\ gc'.blobs = {}
  BY <1>1 DEF GcBegin, IdleGc
<1>2. ASSUME GcCompact \/ GcFail
      PROVE  /\ gc'.pc # "records" /\ gc'.removing = None
             /\ gc'.offset = 0 /\ gc'.uses = {} /\ gc'.blobs = {}
  BY <1>2 DEF GcCompact, GcFail, IdleGc
<1>3. CASE GcReadJournal
  BY <1>3 DEF GcReadJournal, TypeInv, GcOK, Collections
<1>4. CASE GcListBlobs
  BY <1>4 DEF GcListBlobs, TypeInv, GcOK, Collections
<1>5. ASSUME NEW k \in Keys, GcReadIndex(k)
      PROVE  Kept /\ UNCHANGED <<journal, pub>> /\ gc.pc # "records"
  BY <1>5 DEF GcReadIndex, TypeInv, GcOK, Collections
<1>6. CASE GcReadNames
  BY <1>6 DEF GcReadNames, TypeInv, GcOK, Collections
<1>7. ASSUME NEW n \in Names, GcReadNamed(n)
      PROVE  Kept /\ UNCHANGED <<journal, pub>> /\ gc.pc # "records"
  BY <1>7 DEF GcReadNamed, TypeInv, GcOK, Collections
<1>8. CASE GcMakePlan
  BY <1>8, GcMakePlanFields DEF GcMakePlan
<1>9. ASSUME NEW path \in Keys \cup Names, GcEvict(path)
      PROVE  Kept /\ UNCHANGED <<journal, pub>> /\ gc'.pc = gc.pc
  BY <1>9, GcEvictFields DEF GcEvict
<1>10. ASSUME NEW b \in Blobs, GcCheckBlob(b)
       PROVE  Kept /\ UNCHANGED <<journal, pub>> /\ gc'.pc = gc.pc
  BY <1>10, GcCheckBlobFields DEF GcCheckBlob
<1>11. CASE GcRemoveBlob
  BY <1>11, GcRemoveBlobFields DEF GcRemoveBlob
<1> HIDE DEF Kept
<1> QED BY <1>1, <1>2, <1>3, <1>4, <1>5, <1>6, <1>7, <1>8, <1>9, <1>10, <1>11 DEF GcNext

(* A publication opens the journal under the lock, for its own line.         *)
LEMMA OpenedUnderLock ==
  ASSUME TypeInv, \A p \in Publishers : LogOK(pub[p].log, pub[p].pc, pub[p].request.key),
         [Next]_vars, NEW q \in Publishers
  PROVE  LogOK(pub'[q].log, pub'[q].pc, pub'[q].request.key)
<1> DEFINE Goal == LogOK(pub'[q].log, pub'[q].pc, pub'[q].request.key)
<1>0. /\ \A p \in Publishers : /\ DOMAIN pub[p] = {"pc", "request", "left", "created", "log", "moving"}
                               /\ pub[p] = [x \in DOMAIN pub[p] |-> pub[p][x]]
      /\ pub = [p \in Publishers |-> pub[p]]
  BY DEF TypeInv, PubOK, Publications, IdlePublisher
<1>1. LogOK(pub[q].log, pub[q].pc, pub[q].request.key)
  OBVIOUS
<1>2. ASSUME pub' = pub PROVE Goal
  BY <1>1, <1>2
<1>3. ASSUME NEW p \in Publishers, p # q, PublisherNext(p) PROVE pub'[q] = pub[q]
  BY <1>3, <1>0
     DEF PublisherNext, Begin, HeadBlob, CommitBlob, RemoveCorrupt, MoveBlob, PutCandidate,
         OpenJournal, AppendJournal,
         JournalFails, PutNamed, Execute, PutExecuted, Refuse, GiveUp, Offered, Ended
<1>4. ASSUME pub'[q].log = pub[q].log, pub'[q].request = pub[q].request,
             pub'[q].pc = "offer" => pub[q].pc = "offer"
      PROVE  Goal
  BY <1>1, <1>4 DEF LogOK
<1>5. ASSUME pub'[q].log = None PROVE Goal
  BY <1>5 DEF LogOK
<1>6. ASSUME PublisherNext(q) PROVE Goal
  <2>1. ASSUME NEW r, Begin(q, r) PROVE pub'[q].log = None
    BY <2>1, <1>0 DEF Begin
  <2>2. ASSUME NEW b, Offered(q, b)
        PROVE  pub'[q].log = pub[q].log /\ pub'[q].request = pub[q].request /\ pub'[q].pc = pub[q].pc
    BY <2>2, <1>0 DEF Offered
  <2>3. ASSUME Ended(q) PROVE pub'[q].log = None
    BY <2>3, <1>0 DEF Ended, IdlePublisher
  <2>4. ASSUME PutCandidate(q)
        PROVE  pub'[q].log = pub[q].log /\ pub'[q].request = pub[q].request /\ pub'[q].pc = "journal"
    BY <2>4, <1>0 DEF PutCandidate
  <2>5. ASSUME OpenJournal(q)
        PROVE  /\ pub'[q].request = pub[q].request /\ pub'[q].pc = "journal"
               /\ pub'[q].log.line[1] = pub[q].request.key
    BY <2>5, <1>0 DEF OpenJournal, Open
  <2>6. ASSUME Execute(q), ~ Ended(q)
        PROVE  pub'[q].log = pub[q].log /\ pub'[q].request = pub[q].request /\ pub'[q].pc = "outputs"
    BY <2>6, <1>0 DEF Execute
  <2>7. CASE OpenJournal(q)
    BY <2>5, <2>7 DEF LogOK
  <2> HIDE DEF Goal
  <2>8. CASE \E r \in Requests : Begin(q, r)
    BY <2>8, <2>1, <1>5
  <2>9. CASE \E b : Offered(q, b)
    BY <2>9, <2>2, <1>4
  <2>13. ASSUME NEW b, RemoveCorrupt(q, b)
         PROVE  pub'[q].log = pub[q].log /\ pub'[q].request = pub[q].request /\ pub'[q].pc = pub[q].pc
    BY <2>13, <1>0 DEF RemoveCorrupt
  <2>14. CASE \E b \in Blobs : RemoveCorrupt(q, b)
    BY <2>14, <2>13, <1>4
  <2>10. CASE Ended(q)
    BY <2>10, <2>3, <1>5
  <2>11. CASE PutCandidate(q)
    BY <2>11, <2>4, <1>4
  <2>12. CASE Execute(q) /\ ~ Ended(q)
    BY <2>12, <2>6, <1>4
  <2> QED BY <1>6, <2>7, <2>8, <2>9, <2>10, <2>11, <2>12, <2>14
          DEF PublisherNext, HeadBlob, CommitBlob, MoveBlob, AppendJournal,
              JournalFails, PutNamed, PutExecuted, Refuse, GiveUp
<1>7. ASSUME NEW from, NEW to, MoveJournals(from, to) PROVE Goal
  <2>1. /\ pub'[q].pc = pub[q].pc /\ pub'[q].log = Moved(pub[q].log, from, to)
        /\ pub'[q].request = pub[q].request
    BY <1>0, <1>7 DEF MoveJournals
  <2>2. pub[q].log \in Logs
    BY PubFields DEF TypeInv
  <2> QED BY <1>1, <2>1, <2>2 DEF Moved, LogOK, Logs, OpenJournals
<1>8. ASSUME GcNext, pub' # pub PROVE Goal
  <2>1. GcRotate \/ GcCompact
    BY <1>8 DEF GcNext, GcBegin, GcReadJournal, GcListBlobs, GcReadIndex, GcReadNames,
       GcReadNamed, GcMakePlan, GcLock, GcEvict, GcCheckBlob, GcRemoveBlob, GcFail
  <2> HIDE DEF Goal
  <2> QED BY <1>7, <2>1 DEF GcRotate, GcCompact
<1>9. ASSUME Crash PROVE Goal
  BY <1>1, <1>9 DEF Crash, IdlePublisher, LogOK
<1>10. \/ pub' = pub \/ Crash \/ GcNext \/ \E p \in Publishers : PublisherNext(p)
  BY DEF Next, UseCandidate, AppendUse, Decay, Tick, vars
<1>11. ASSUME NEW p \in Publishers, PublisherNext(p) PROVE Goal
  <2>1. CASE p = q
    BY <2>1, <1>6, <1>11
  <2>2. CASE p # q
    BY <2>2, <1>1, <1>3, <1>11
  <2> QED BY <2>1, <2>2
<1> HIDE DEF Goal
<1>12. Goal
  <2>1. CASE pub' = pub
    BY <2>1, <1>2
  <2>2. CASE pub' # pub /\ GcNext
    BY <2>2, <1>8
  <2>3. CASE \E p \in Publishers : PublisherNext(p)
    BY <2>3, <1>11
  <2>4. CASE Crash
    BY <2>4, <1>9
  <2> QED BY <1>10, <2>1, <2>2, <2>3, <2>4
<1> QED BY <1>12 DEF Goal

LEMMA JournalInit == Init => JournalInv
BY DEF Init, JournalInv, LogOK, IdlePublisher, IdleGc

(* What the collection noted stays in the journal until it rotates it.       *)
LEMMA JournalNext ==
  ASSUME TypeInv, JournalInv, [Next]_vars
  PROVE  JournalInv'
<1>1. \A p \in Publishers : LogOK(pub'[p].log, pub'[p].pc, pub'[p].request.key)
  BY OpenedUnderLock DEF JournalInv
<1>2. /\ journal.current \in Seq(Lines) /\ journal'.current \in Seq(Lines)
      /\ gc.offset \in Nat /\ gc'.offset \in Nat
  BY NextType DEF TypeInv, JournalOK, GcOK, Collections
<1> DEFINE Noted == \A i \in 1 .. gc.offset :
                      <<journal.current[i][1], journal.current[i][2]>> \in gc.uses
<1>3. ASSUME Grown, Kept, gc'.pc # "records" => gc.pc # "records" PROVE JournalInv'
  <2>1. \A i \in 1 .. gc.offset : journal'.current[i] = journal.current[i]
    BY <1>2, <1>3 DEF Grown, JournalInv
  <2> QED BY <1>1, <1>2, <1>3, <2>1 DEF Grown, JournalInv, Kept
<1>4. ASSUME gc'.offset = 0, gc'.uses = {}, gc'.blobs = {} PROVE JournalInv'
  BY <1>1, <1>2, <1>4 DEF JournalInv
<1>5. ASSUME UNCHANGED journal PROVE Grown
  BY <1>2, <1>5 DEF Grown
<1>6. CASE GcRotate
  <2>1. gc.offset = 0 /\ gc.uses = {} /\ gc.blobs = {}
    BY <1>6 DEF GcRotate, JournalInv
  <2>2. gc'.offset = 0 /\ gc'.uses = {} /\ gc'.blobs = {}
    BY <1>6, <2>1 DEF GcRotate, TypeInv, GcOK, Collections
  <2> QED BY <1>4, <2>2
<1>7. ASSUME NEW files \in SUBSET Remaining, GcLock(files) PROVE JournalInv'
  <2> DEFINE new == {journal.current[i] : i \in gc.offset + 1 .. Len(journal.current)}
  <2>1. /\ gc'.offset = Len(journal.current) /\ gc'.pc = gc.pc /\ gc.pc = "records"
        /\ gc'.uses = gc.uses \cup {<<l[1], l[2]>> : l \in new}
        /\ UNCHANGED journal
    BY <1>7, GcLockFields DEF GcLock
  <2>2. ASSUME NEW i \in 1 .. gc'.offset
        PROVE  <<journal.current[i][1], journal.current[i][2]>> \in gc'.uses
    <3>1. CASE i <= gc.offset
      BY <3>1, <2>1, <1>2 DEF JournalInv
    <3>2. CASE i > gc.offset
      <4>1. journal.current[i] \in new
        BY <3>2, <2>1, <1>2
      <4> QED BY <4>1, <2>1
    <3> QED BY <3>1, <3>2, <1>2
  <2> QED BY <1>1, <1>2, <2>1, <2>2 DEF JournalInv
<1>8. CASE UNCHANGED gc /\ Grown
  BY <1>8, <1>3 DEF Kept
<1>9. CASE GcNext
  BY <1>9, <1>3, <1>4, <1>5, <1>6, <1>7, GcReads
<1>10. CASE Crash
  BY <1>10, <1>4 DEF Crash, IdleGc
<1>11. CASE UNCHANGED vars
  BY <1>11, <1>8, <1>5 DEF vars
<1>12. CASE OtherNext
  BY <1>12, <1>8, OthersGrow
<1> QED BY <1>9, <1>10, <1>11, <1>12, NextSteps

-----------------------------------------------------------------------------
(* What a collection evicts. *)

(* An index changes by a publication and by an eviction. *)
LEMMA IndexStep ==
  ASSUME Next
  PROVE  \/ index' = index
         \/ \E p \in Publishers : PutCandidate(p)
         \/ \E path \in Keys \cup Names : GcEvict(path)
<1>1. ASSUME NEW p \in Publishers, PublisherNext(p) PROVE PutCandidate(p) \/ index' = index
  BY <1>1 DEF PublisherNext, Begin, HeadBlob, CommitBlob, RemoveCorrupt, MoveBlob, OpenJournal,
              AppendJournal,
              JournalFails, PutNamed, Execute, PutExecuted, Refuse, GiveUp
<1>2. ASSUME GcNext PROVE (\E path \in Keys \cup Names : GcEvict(path)) \/ index' = index
  <2>1. ASSUME NEW b, GcCheckBlob(b) PROVE index' = index
    BY <2>1 DEF GcCheckBlob
  <2>2. ASSUME NEW files, GcLock(files) PROVE index' = index
    BY <2>2 DEF GcLock
  <2> QED BY <1>2, <2>1, <2>2
          DEF GcNext, GcBegin, GcRotate, GcReadJournal, GcListBlobs, GcReadIndex, GcReadNames,
              GcReadNamed, GcMakePlan, GcRemoveBlob, GcCompact, GcFail
<1>3. (\E p \in Publishers : PublisherNext(p)) \/ GcNext \/ index' = index
  BY DEF Next, UseCandidate, AppendUse, Crash, Decay, Tick
<1> QED BY <1>1, <1>2, <1>3

(* A publication that writes an index moves on. *)
LEMMA PutCandidateMoves ==
  ASSUME TypeInv, NEW p \in Publishers, PutCandidate(p)
  PROVE  pub'[p] # pub[p]
<1>1. pub[p] \in Publications /\ pub[p].pc = "offer"
  BY PubFields DEF TypeInv, PutCandidate, Sending
<1>2. pub'[p] = [pub[p] EXCEPT !.pc = "journal"]
  BY DEF PutCandidate, TypeInv, PubOK
<1> QED BY <1>1, <1>2 DEF Publications

LEMMA EvictStep ==
  ASSUME TypeInv, JournalInv, [Next]_vars,
         NEW k \in Keys, NEW c \in ToSet(index[k]) \ ToSet(index'[k]),
         \A p \in Publishers : pub'[p] = pub[p],
         NEW i \in 1 .. gc.offset, journal.current[i][1] = k
  PROVE  journal.current[i][2] # c.action
<1>1. index' # index
  OBVIOUS
<1>2. PICK path \in Keys \cup Names : GcEvict(path)
  BY <1>1, IndexStep, PutCandidateMoves DEF vars
<1>3. k = path /\ ~ Survives(gc, k, c)
  BY <1>2, GcEvictIndex
<1>4. <<k, c.action>> \notin gc.uses
  BY <1>3 DEF Survives
<1>5. <<journal.current[i][1], journal.current[i][2]>> \in gc.uses
  BY DEF JournalInv
<1> QED BY <1>4, <1>5

(***************************************************************************)
(* For every store and every plan: a batch never evicts a candidate with a *)
(* line in the part of the journal it looked at under the lock, whatever   *)
(* the plan was made from (evict_from, and Recent::refresh before each     *)
(* batch).                                                                 *)
(***************************************************************************)
THEOREM UsedStays == Spec => EvictsOnlyUnused
<1>1. Init => TypeInv /\ JournalInv
  BY InitType, JournalInit
<1>2. TypeInv /\ JournalInv /\ [Next]_vars => TypeInv' /\ JournalInv'
  BY NextType, JournalNext
<1>3. TypeInv /\ JournalInv /\ [Next]_vars =>
        [gc.pc = "records" =>
           \A k \in Keys : \A c \in ToSet(index[k]) \ ToSet(index'[k]) :
             (\A p \in Publishers : pub'[p] = pub[p]) =>
               \A i \in 1 .. gc.offset :
                 journal.current[i][1] = k => journal.current[i][2] # c.action]_vars
  BY EvictStep
<1> QED BY <1>1, <1>2, <1>3, PTL DEF Spec, EvictsOnlyUnused

-----------------------------------------------------------------------------
(* The blobs of a candidate stay. *)

(* A line that is to be written, or was and is not yet looked at, stays so   *)
(* until the collection looks.                                               *)
LEMMA PendingStays ==
  ASSUME TypeInv, JournalInv, OtherNext, \A p \in Publishers : ~ JournalFails(p),
         NEW k \in Keys, Pending(k)
  PROVE  Pending(k)'
<1>1. Grown /\ UNCHANGED gc
  BY OthersGrow
<1>2. /\ journal.current \in Seq(Lines) /\ journal'.current \in Seq(Lines)
      /\ gc.offset \in Nat /\ gc.offset <= Len(journal.current)
  BY NextType, NextSteps DEF TypeInv, JournalOK, GcOK, Collections, JournalInv
<1>3. ASSUME Logged(k) PROVE Logged(k)'
  <2>1. PICK i \in gc.offset + 1 .. Len(journal.current) : journal.current[i][1] = k
    BY <1>3 DEF Logged
  <2>2. i \in gc'.offset + 1 .. Len(journal'.current) /\ journal'.current[i] = journal.current[i]
    BY <1>1, <1>2 DEF Grown
  <2> QED BY <2>1, <2>2 DEF Logged
<1>4. ASSUME NEW q \in Publishers,
             pub[q].pc = "journal", pub[q].request.key = k,
             pub[q].log = None \/ pub[q].log.into = "current"
      PROVE  Pending(k)'
  <2>1. CASE pub'[q] = pub[q]
    BY <2>1, <1>4 DEF Pending, Logging
  <2>2. CASE OpenJournal(q)
    <3>1. /\ pub'[q].pc = "journal" /\ pub'[q].request = pub[q].request
          /\ pub'[q].log.into = "current"
      BY <2>2 DEF OpenJournal, Open, TypeInv, PubOK, Publications, IdlePublisher
    <3> QED BY <3>1, <1>4 DEF Pending, Logging
  <2>3. CASE AppendJournal(q)
    <3>1. pub[q].log \in OpenJournals /\ pub[q].log # None
      BY <2>3, PubFields DEF TypeInv, AppendJournal, Logs
    <3>2. pub[q].log.line[1] = k
      BY <3>1, <1>4 DEF JournalInv, LogOK
    <3>3. /\ Len(journal'.current) = Len(journal.current) + 1
          /\ journal'.current[Len(journal.current) + 1] = pub[q].log.line
      BY <2>3, <3>1, <1>4, AppendedGrows DEF AppendJournal, TypeInv
    <3>4. Logged(k)'
      BY <1>1, <1>2, <3>2, <3>3 DEF Logged
    <3> QED BY <3>4 DEF Pending
  <2>4. \/ OpenJournal(q) \/ AppendJournal(q) \/ pub'[q] = pub[q]
    <3>0. pub = [p \in Publishers |-> pub[p]]
      BY DEF TypeInv, PubOK
    <3>1. ASSUME NEW p \in Publishers, p # q, PublisherNext(p) PROVE pub'[q] = pub[q]
      BY <3>0, <3>1
         DEF PublisherNext, Begin, HeadBlob, CommitBlob, RemoveCorrupt, MoveBlob, PutCandidate,
             OpenJournal, AppendJournal,
             JournalFails, PutNamed, Execute, PutExecuted, Refuse, GiveUp, Offered, Ended
    <3>2. ASSUME PublisherNext(q) PROVE OpenJournal(q) \/ AppendJournal(q)
      BY <3>2, <1>4 DEF PublisherNext, Begin, HeadBlob, CommitBlob, RemoveCorrupt, MoveBlob,
                        PutCandidate,
             PutNamed, Execute, PutExecuted, Refuse, GiveUp, Sending
    <3>3. (\E p \in Publishers : PublisherNext(p)) \/ pub' = pub
      BY DEF OtherNext, UseCandidate, AppendUse, Decay, Tick
    <3> QED BY <3>1, <3>2, <3>3
  <2> QED BY <2>1, <2>2, <2>3, <2>4
<1> QED BY <1>3, <1>4 DEF Pending, Logging

(* A step that no index and no collection takes part in.                     *)
LEMMA QuietSafe ==
  ASSUME TypeInv, Safe, UNCHANGED gc, index' = index,
         \A k \in Keys : Pending(k) => Pending(k)',
         \A b \in Blobs : file[b].state # "absent" => file'[b].state # "absent"
  PROVE  Safe'
<1>1. ASSUME NEW k \in Keys, NEW c \in ToSet(index[k]) PROVE c.blobs \subseteq Blobs
  BY Indexed DEF Candidates
<1>2. SnapshotInv'
  BY DEF Safe, SnapshotInv, Reading, UnitOf
<1>3. DoomedInv'
  BY DEF Safe, DoomedInv, Covered, UnitOf
<1>4. RemovingInv'
  BY DEF Safe, RemovingInv
<1>5. Whole'
  BY <1>1 DEF Safe, Whole
<1> QED BY <1>2, <1>3, <1>4, <1>5 DEF Safe

(* A step that leaves the collection with nothing it read.                   *)
LEMMA ForgetsSafe ==
  ASSUME TypeInv, Safe, UNCHANGED <<file, index>>,
         gc'.pc \notin {"indexes", "names", "records"}, gc'.removing = None
  PROVE  Safe'
<1>1. ASSUME NEW k \in Keys, NEW c \in ToSet(index[k]) PROVE None \notin c.blobs
  BY Indexed, DistinctAssumption DEF Candidates
<1> QED BY <1>1 DEF Safe, SnapshotInv, DoomedInv, RemovingInv, Whole, Reading

(* A publication that writes an index will journal its key.                  *)
LEMMA PutCandidateSafe ==
  ASSUME TypeInv, JournalInv, Safe, NEW p \in Publishers, PutCandidate(p)
  PROVE  Safe'
<1> DEFINE r == pub[p].request
           d == [action |-> r.action, created |-> pub[p].created, blobs |-> r.blobs]
<1>1. /\ pub[p].pc = "offer" /\ r.kind = "candidate" /\ writer = None /\ AllGood(r.blobs)
      /\ index' = [index EXCEPT ![r.key] = WithCandidate(@, d)]
      /\ pub' = [pub EXCEPT ![p].pc = "journal"]
      /\ UNCHANGED <<file, named, journal, use, gc, now, begun>>
  BY DEF PutCandidate, Sending, Unlocked
<1>2. pub[p] \in Publications /\ r \in Requests /\ pub[p].log = None
  BY <1>1, PubFields DEF TypeInv, Publications, JournalInv, LogOK
<1>3. r.key \in Keys /\ d \in Candidates /\ d.blobs = r.blobs
  BY <1>1, <1>2, RequestsAssumption DEF Candidates, Publications
<1> HIDE DEF d
<1>4. /\ ToSet(index'[r.key]) \subseteq ToSet(index[r.key]) \cup {d}
      /\ \A k \in Keys \ {r.key} : index'[k] = index[k]
  <2>1. index[r.key] \in Seq(Candidates) /\ OneForAction(index[r.key])
    BY <1>3 DEF TypeInv, IndexOK
  <2>2. ToSet(WithCandidate(index[r.key], d)) \subseteq ToSet(index[r.key]) \cup {d}
    BY <1>3, <2>1, WithCandidateKeeps
  <2>3. index = [k \in Keys |-> index[k]]
    BY DEF TypeInv, IndexOK
  <2> QED BY <1>1, <1>3, <2>2, <2>3
<1>5. /\ pub'[p].pc = "journal" /\ pub'[p].request = r /\ pub'[p].log = None
      /\ \A q \in Publishers : q # p => pub'[q] = pub[q]
  BY <1>1, <1>2 DEF TypeInv, PubOK, Publications
<1>0. PICK key \in Keys : key = r.key
  BY <1>3
<1>6. Pending(key)'
  BY <1>0, <1>5 DEF Pending, Logging
<1>7. ASSUME NEW k \in Keys, Pending(k) PROVE Pending(k)'
  <2>1. Logged(k) => Logged(k)'
    BY <1>1 DEF Logged
  <2>2. Logging(k) => Logging(k)'
    BY <1>1, <1>5 DEF Logging
  <2> QED BY <1>7, <2>1, <2>2 DEF Pending
<1>8. gc.batch = {} /\ gc.removing = None
  BY <1>1, DistinctAssumption DEF TypeInv, LockOK
<1> HIDE DEF r
<1>9. SnapshotInv'
  <2> SUFFICES ASSUME Reading, NEW k \in Keys, gc.pc = "names" \/ k \notin gc.unread,
                      NEW c \in ToSet(index'[k]), k # key
               PROVE  \/ Pending(k)'
                      \/ \E i \in DOMAIN gc.units :
                           UnitOf(i, k, c) /\ c.blobs \cap DOMAIN gc.listed \subseteq gc.units[i].blobs
    BY <1>1, <1>6 DEF SnapshotInv, Reading, UnitOf
  <2> QED BY <1>0, <1>4, <1>7 DEF Safe, SnapshotInv
<1>10. DoomedInv'
  <2> SUFFICES ASSUME gc.pc = "records", NEW k \in Keys, NEW c \in ToSet(index'[k]),
                      NEW b \in c.blobs \cap gc.doomed
               PROVE  Covered(k, c, b)'
    BY <1>1 DEF DoomedInv
  <2>1. CASE k = key
    BY <2>1, <1>1, <1>6, <1>8 DEF Covered
  <2>2. CASE k # key
    <3>1. Covered(k, c, b)
      BY <2>2, <1>0, <1>4 DEF Safe, DoomedInv
    <3> QED BY <3>1, <1>1, <1>7 DEF Covered, UnitOf
  <2> QED BY <2>1, <2>2
<1>11. RemovingInv'
  <2>1. \A k \in Keys : \A c \in ToSet(index'[k]) : None \notin c.blobs
    <3>1. \A c \in Candidates : None \notin c.blobs
      BY DistinctAssumption DEF Candidates
    <3>2. \A k \in Keys : \A c \in ToSet(index'[k]) : c \in ToSet(index[k]) \/ c = d
      BY <1>0, <1>4
    <3> QED BY <3>1, <3>2, <1>3, Indexed
  <2> QED BY <2>1, <1>1, <1>8 DEF RemovingInv
<1>12. Whole'
  <2>1. \A b \in r.blobs : file[b].state # "absent"
    BY <1>1 DEF AllGood, Good
  <2> QED BY <2>1, <1>1, <1>3, <1>4 DEF Safe, Whole
<1> QED BY <1>9, <1>10, <1>11, <1>12 DEF Safe

(* Reading the store without a lock.  What a record read before a            *)
(* publication misses, the publication journals.                             *)
LEMMA ReadsSafe ==
  ASSUME TypeInv, Safe, Reading, Reading', UNCHANGED <<file, index, journal, pub>>,
         gc'.listed = gc.listed, gc'.offset = gc.offset, gc'.removing = gc.removing,
         DOMAIN gc.units \subseteq DOMAIN gc'.units,
         \A i \in DOMAIN gc.units : gc'.units[i] = gc.units[i],
         \A k \in Keys : gc'.pc = "names" \/ k \notin gc'.unread =>
           \/ gc.pc = "names" \/ k \notin gc.unread
           \/ \A c \in ToSet(index[k]) : \E i \in DOMAIN gc'.units :
                UnitOf(i, k, c)' /\ c.blobs \cap DOMAIN gc.listed \subseteq gc'.units[i].blobs
  PROVE  Safe'
<1>1. \A k \in Keys : Pending(k) => Pending(k)'
  BY DEF Pending, Logged, Logging
<1>2. SnapshotInv'
  <2> SUFFICES ASSUME NEW k \in Keys, gc'.pc = "names" \/ k \notin gc'.unread,
                      NEW c \in ToSet(index[k])
               PROVE  \/ Pending(k)'
                      \/ \E i \in DOMAIN gc'.units :
                           UnitOf(i, k, c)' /\ c.blobs \cap DOMAIN gc.listed \subseteq gc'.units[i].blobs
    BY DEF SnapshotInv
  <2>1. CASE gc.pc = "names" \/ k \notin gc.unread
    <3>1. \/ Pending(k)
          \/ \E i \in DOMAIN gc.units :
               UnitOf(i, k, c) /\ c.blobs \cap DOMAIN gc.listed \subseteq gc.units[i].blobs
      BY <2>1 DEF Safe, SnapshotInv
    <3> QED BY <3>1, <1>1 DEF UnitOf
  <2> QED BY <2>1
<1>3. DoomedInv'
  BY DEF DoomedInv, Reading
<1>4. RemovingInv' /\ Whole'
  BY DEF Safe, RemovingInv, Whole
<1> QED BY <1>2, <1>3, <1>4 DEF Safe

LEMMA GcReadIndexSafe ==
  ASSUME TypeInv, Safe, NEW k \in Keys, GcReadIndex(k)
  PROVE  Safe'
<1> DEFINE new == [i \in DOMAIN index[k] |-> CandidateUnit(k, index[k][i])]
<1>1. /\ Reading /\ new \in Seq(Units) /\ DOMAIN new = DOMAIN index[k]
      /\ \A i \in DOMAIN new : UnitFits(new[i])
      /\ gc.unread \ {k} \in SUBSET gc.unread
      /\ gc' = [gc EXCEPT !.unread = gc.unread \ {k}, !.units = gc.units \o new]
      /\ UNCHANGED <<file, index, named, journal, use, writer, pub, now, begun>>
  BY GcReadIndexUnits
<1>2. \A i \in DOMAIN index[k] : new[i] = CandidateUnit(k, index[k][i])
  OBVIOUS
<1> HIDE DEF new
<1>3. /\ gc'.unread = gc.unread \ {k} /\ gc'.pc = gc.pc /\ gc'.listed = gc.listed
      /\ DOMAIN gc.units \subseteq DOMAIN gc'.units
      /\ \A i \in DOMAIN gc.units : gc'.units[i] = gc.units[i]
      /\ \A i \in DOMAIN new : /\ Len(gc.units) + i \in DOMAIN gc'.units
                               /\ gc'.units[Len(gc.units) + i] = new[i]
  BY <1>1, UnitsGrow
<1>4. gc'.offset = gc.offset /\ gc'.removing = gc.removing /\ gc.pc = "indexes"
  BY <1>1 DEF TypeInv, GcOK, Collections, GcReadIndex
<1>5. ASSUME NEW c \in ToSet(index[k])
      PROVE  \E i \in DOMAIN gc'.units :
               UnitOf(i, k, c)' /\ c.blobs \cap DOMAIN gc.listed \subseteq gc'.units[i].blobs
  <2>1. PICK i \in DOMAIN index[k] : c = index[k][i]
    BY DEF ToSet
  <2>2. c \in Candidates
    BY Indexed
  <2>3. /\ new[i].path = k /\ new[i].action = c.action /\ new[i].created = c.created
        /\ new[i].blobs = c.blobs \cap DOMAIN gc.listed
    BY <1>1, <1>2, <2>1, <2>2, CandidateUnitFits
  <2>4. Len(gc.units) + i \in DOMAIN gc'.units /\ gc'.units[Len(gc.units) + i] = new[i]
    BY <1>1, <1>3, <2>1
  <2> QED BY <2>3, <2>4 DEF UnitOf
<1>6. Reading'
  BY <1>1, <1>3 DEF Reading
<1>7. \A j \in Keys : gc'.pc = "names" \/ j \notin gc'.unread => j = k \/ j \notin gc.unread
  BY <1>3, <1>4
<1>8. UNCHANGED <<file, index, journal, pub>>
  BY <1>1
<1> QED
  <2>1. Reading
    BY <1>1
  <2>2. \A j \in Keys : gc'.pc = "names" \/ j \notin gc'.unread =>
          \/ gc.pc = "names" \/ j \notin gc.unread
          \/ \A c \in ToSet(index[j]) : \E i \in DOMAIN gc'.units :
               UnitOf(i, j, c)' /\ c.blobs \cap DOMAIN gc.listed \subseteq gc'.units[i].blobs
    BY <1>5, <1>7
  <2> QED BY <1>3, <1>4, <1>6, <1>8, <2>1, <2>2, ReadsSafe

LEMMA GcReadNamesSafe ==
  ASSUME TypeInv, Safe, GcReadNames
  PROVE  Safe'
<1>1. /\ gc'.pc = "names" /\ gc'.listed = gc.listed /\ gc'.units = gc.units
      /\ gc'.removing = gc.removing /\ gc'.offset = gc.offset
      /\ gc.pc = "indexes" /\ gc.unread = {}
      /\ UNCHANGED <<file, index, journal, pub>>
  BY DEF GcReadNames, TypeInv, GcOK, Collections
<1>2. Reading /\ Reading'
  BY <1>1 DEF Reading
<1> QED BY <1>1, <1>2, ReadsSafe

LEMMA GcReadNamedSafe ==
  ASSUME TypeInv, Safe, NEW n \in Names, GcReadNamed(n)
  PROVE  Safe'
<1>1. PICK new \in Seq(Units) :
        /\ Reading
        /\ \A i \in DOMAIN new : UnitFits(new[i])
        /\ gc.unread \ {n} \in SUBSET gc.unread
        /\ gc' = [gc EXCEPT !.unread = gc.unread \ {n}, !.units = gc.units \o new]
        /\ UNCHANGED <<file, index, named, journal, use, writer, pub, now, begun>>
  BY GcReadNamedUnits
<1>2. /\ gc'.pc = gc.pc /\ gc'.listed = gc.listed
      /\ DOMAIN gc.units \subseteq DOMAIN gc'.units
      /\ \A i \in DOMAIN gc.units : gc'.units[i] = gc.units[i]
  BY <1>1, UnitsGrow
<1>3. gc'.offset = gc.offset /\ gc'.removing = gc.removing /\ gc.pc = "names"
  BY <1>1 DEF TypeInv, GcOK, Collections, GcReadNamed
<1>4. Reading'
  BY <1>1, <1>2 DEF Reading
<1> QED BY <1>1, <1>2, <1>3, <1>4, ReadsSafe

LEMMA GcMakePlanSafe ==
  ASSUME TypeInv, JournalInv, Safe, GcMakePlan
  PROVE  Safe'
<1>1. /\ Reading /\ gc'.pc = "records" /\ gc'.units = gc.units /\ gc'.evicted \subseteq DOMAIN gc.units
      /\ gc'.unread = {gc.units[i].path : i \in gc'.evicted}
      /\ gc'.doomed \subseteq DOMAIN gc.listed
      /\ gc'.batch = gc.batch /\ gc'.removing = gc.removing
      /\ gc'.offset = gc.offset /\ gc'.uses = gc.uses
      /\ \A b \in gc'.doomed : \A i \in DOMAIN gc.units :
           b \in gc.units[i].blobs => i \in gc'.evicted
  BY GcMakePlanFields
<1>2. gc.pc = "names" /\ UNCHANGED <<file, index, journal, pub>>
  BY DEF GcMakePlan
<1>3. gc.uses = {} /\ gc.batch = {}
  BY <1>2 DEF JournalInv, TypeInv, LockOK
<1>4. DoomedInv'
  <2> SUFFICES ASSUME NEW k \in Keys, NEW c \in ToSet(index[k]), NEW b \in c.blobs \cap gc'.doomed
               PROVE  Covered(k, c, b)'
    BY <1>2 DEF DoomedInv
  <2>1. CASE Pending(k)
    <3>1. Pending(k)'
      BY <2>1, <1>1, <1>2 DEF Pending, Logged, Logging
    <3> QED BY <3>1, <1>1, <1>3 DEF Covered
  <2>2. CASE ~ Pending(k)
    <3>1. PICK i \in DOMAIN gc.units :
            UnitOf(i, k, c) /\ c.blobs \cap DOMAIN gc.listed \subseteq gc.units[i].blobs
      BY <2>2, <1>1, <1>2 DEF Safe, SnapshotInv
    <3>2. i \in gc'.evicted /\ k \in gc'.unread
      BY <3>1, <1>1 DEF UnitOf
    <3> QED BY <3>1, <3>2, <1>1, <1>3 DEF Covered, UnitOf
  <2> QED BY <2>1, <2>2
<1>5. SnapshotInv' /\ RemovingInv' /\ Whole'
  BY <1>1, <1>2 DEF Safe, SnapshotInv, Reading, RemovingInv, Whole
<1> QED BY <1>4, <1>5 DEF Safe

(* A batch begins with a look at every line it had not seen: what was        *)
(* pending is now known.                                                     *)
LEMMA GcLockSafe ==
  ASSUME TypeInv, JournalInv, Safe, NEW files \in SUBSET Remaining, GcLock(files)
  PROVE  Safe'
<1> DEFINE new == {journal.current[i] : i \in gc.offset + 1 .. Len(journal.current)}
<1>1. /\ gc'.pc = gc.pc /\ gc'.units = gc.units /\ gc'.evicted = gc.evicted
      /\ gc'.unread = gc.unread /\ gc'.doomed = gc.doomed /\ gc'.removing = gc.removing
      /\ gc'.uses = gc.uses \cup {<<l[1], l[2]>> : l \in new}
      /\ gc.blobs \subseteq gc'.blobs
      /\ \A l \in new : l \in Lines /\ \A c \in ToSet(index[l[1]]) : c.blobs \subseteq gc'.blobs
  BY GcLockFields
<1>2. gc.pc = "records" /\ writer = None /\ UNCHANGED <<file, index, journal, pub>>
  BY DEF GcLock, Unlocked
<1>3. \A p \in Publishers : pub[p].pc # "journal"
  BY <1>2, DistinctAssumption DEF TypeInv, LockOK
<1>4. \A i \in gc.offset + 1 .. Len(journal.current) : journal.current[i] \in new
  OBVIOUS
<1> HIDE DEF new
<1>5. DoomedInv'
  <2> SUFFICES ASSUME NEW k \in Keys, NEW c \in ToSet(index[k]), NEW b \in c.blobs \cap gc.doomed
               PROVE  Covered(k, c, b)'
    BY <1>1, <1>2 DEF DoomedInv
  <2>1. Covered(k, c, b)
    BY <1>2 DEF Safe, DoomedInv
  <2>2. CASE \E l \in new : l[1] = k
    BY <2>2, <1>1 DEF Covered
  <2>3. CASE ~ \E l \in new : l[1] = k
    <3>1. ~ Pending(k)
      BY <2>3, <1>3, <1>4 DEF Pending, Logged, Logging
    <3>2. <<k, c.action>> \notin gc.uses => <<k, c.action>> \notin gc'.uses
      BY <2>3, <1>1
    <3> QED BY <2>1, <3>1, <3>2, <1>1 DEF Covered, UnitOf
  <2> QED BY <2>2, <2>3
<1>6. SnapshotInv' /\ RemovingInv' /\ Whole'
  BY <1>1, <1>2 DEF Safe, SnapshotInv, Reading, RemovingInv, Whole
<1> QED BY <1>5, <1>6 DEF Safe

(* A record file of the batch is visited: the candidates that stay were      *)
(* used or published since, and their blobs are known.                       *)
LEMMA GcEvictSafe ==
  ASSUME TypeInv, Safe, NEW path \in Keys \cup Names, GcEvict(path)
  PROVE  Safe'
<1>1. /\ gc.pc = "records" /\ path \in gc.batch
      /\ gc'.pc = gc.pc /\ gc'.units = gc.units /\ gc'.evicted = gc.evicted
      /\ gc'.unread = gc.unread \ {path}
      /\ gc'.doomed = gc.doomed /\ gc'.removing = gc.removing /\ gc'.blobs = gc.blobs
      /\ gc'.uses = gc.uses
  BY GcEvictFields
<1>2. /\ file' = file
      /\ \A k \in Keys \ {path} : index'[k] = index[k]
      /\ path \in Keys => \A c : c \in ToSet(index'[path]) <=>
                            c \in ToSet(index[path]) /\ Survives(gc, path, c)
  BY GcEvictIndex DEF GcEvict
<1>3. \A k \in Keys : \A c \in ToSet(index'[k]) : c \in ToSet(index[k])
  BY <1>2
<1>4. DoomedInv'
  <2> SUFFICES ASSUME NEW k \in Keys, NEW c \in ToSet(index'[k]), NEW b \in c.blobs \cap gc.doomed
               PROVE  Covered(k, c, b)'
    BY <1>1 DEF DoomedInv
  <2>1. Covered(k, c, b) /\ gc.batch # {}
    BY <1>1, <1>3 DEF Safe, DoomedInv
  <2>2. CASE k # path
    BY <2>1, <2>2, <1>1 DEF Covered, UnitOf
  <2>3. CASE k = path
    <3>1. Survives(gc, k, c)
      BY <2>3, <1>2
    <3>2. ~ (<<k, c.action>> \notin gc.uses /\ \E i \in gc.evicted : UnitOf(i, k, c))
      BY <3>1 DEF Survives, Planned, UnitOf
    <3> QED BY <2>1, <3>2, <1>1 DEF Covered
  <2> QED BY <2>2, <2>3
<1>5. SnapshotInv' /\ RemovingInv' /\ Whole'
  BY <1>1, <1>2, <1>3 DEF Safe, SnapshotInv, Reading, RemovingInv, Whole
<1> QED BY <1>4, <1>5 DEF Safe

(* A blob is about to be removed: every record file was visited, and nobody  *)
(* published since the lock was taken.                                       *)
LEMMA GcCheckBlobSafe ==
  ASSUME TypeInv, Safe, NEW b \in Blobs, GcCheckBlob(b)
  PROVE  Safe'
<1>1. /\ gc.pc = "records" /\ b \in gc.batch /\ b \in gc.doomed /\ gc.unread = {}
      /\ gc'.pc = gc.pc /\ gc'.doomed = gc.doomed \ {b} /\ gc'.blobs = gc.blobs
      /\ gc'.removing = None \/ (gc'.removing = b /\ b \notin gc.blobs)
  BY GcCheckBlobFields
<1>2. UNCHANGED <<file, index, journal, pub>>
  BY DEF GcCheckBlob
<1>3. \A k \in Keys : \A c \in ToSet(index[k]) : \A x \in c.blobs \cap gc.doomed : x \in gc.blobs
  BY <1>1 DEF Safe, DoomedInv, Covered
<1>4. DoomedInv'
  BY <1>1, <1>2, <1>3 DEF DoomedInv, Covered
<1>5. RemovingInv'
  <2>1. \A k \in Keys : \A c \in ToSet(index[k]) : None \notin c.blobs
    BY Indexed, DistinctAssumption DEF Candidates
  <2> QED BY <1>1, <1>2, <1>3, <2>1 DEF RemovingInv
<1>6. SnapshotInv' /\ Whole'
  BY <1>1, <1>2 DEF Safe, SnapshotInv, Reading, Whole
<1> QED BY <1>4, <1>5, <1>6 DEF Safe

LEMMA GcRemoveBlobSafe ==
  ASSUME TypeInv, Safe, GcRemoveBlob
  PROVE  Safe'
<1>1. /\ gc.pc = "records" /\ gc.removing \in gc.batch /\ gc.removing \in Blobs /\ gc.unread = {}
      /\ gc'.pc = gc.pc /\ gc'.doomed = gc.doomed /\ gc'.blobs = gc.blobs /\ gc'.removing = None
  BY GcRemoveBlobFields
<1>2. /\ file' = [file EXCEPT ![gc.removing].state = "absent"]
      /\ UNCHANGED <<index, journal, pub>>
  BY DEF GcRemoveBlob
<1>3. DoomedInv'
  <2>1. \A k \in Keys : \A c \in ToSet(index[k]) : \A x \in c.blobs \cap gc.doomed : x \in gc.blobs
    BY <1>1 DEF Safe, DoomedInv, Covered
  <2> QED BY <2>1, <1>1, <1>2 DEF DoomedInv, Covered
<1>4. RemovingInv'
  <2>1. \A k \in Keys : \A c \in ToSet(index[k]) : None \notin c.blobs
    BY Indexed, DistinctAssumption DEF Candidates
  <2> QED BY <2>1, <1>1, <1>2 DEF RemovingInv
<1>5. Whole'
  <2> SUFFICES ASSUME NEW k \in Keys, NEW c \in ToSet(index[k]), NEW b \in c.blobs
               PROVE  file'[b].state # "absent"
    BY <1>2 DEF Whole
  <2>1. b # gc.removing /\ file[b].state # "absent" /\ b \in Blobs
    BY Indexed DEF Safe, RemovingInv, Whole, Candidates
  <2> QED BY <2>1, <1>2 DEF TypeInv, FileOK
<1>6. SnapshotInv'
  BY <1>1 DEF SnapshotInv, Reading
<1> QED BY <1>3, <1>4, <1>5, <1>6 DEF Safe

(* Other steps lose no blob file but a bad one, to its replacement.          *)
LEMMA OtherSafe ==
  ASSUME TypeInv, JournalInv, Safe, OtherNext, \A p \in Publishers : ~ JournalFails(p)
  PROVE  Safe'
<1>1. UNCHANGED gc /\ \A k \in Keys : Pending(k) => Pending(k)'
  BY OthersGrow, PendingStays
<1>2. ASSUME NEW b \in Blobs, file[b].state # "absent" PROVE file'[b].state # "absent"
  <2>0. /\ file = [x \in Blobs |-> file[x]]
        /\ \A x \in Blobs : file[x] \in [state : {"absent", "good", "corrupt", "removed"}, mtime : 0 .. MaxTime]
    BY DEF TypeInv, FileOK
  <2>1. ASSUME NEW p \in Publishers, NEW x \in Blobs, HeadBlob(p, x) \/ CommitBlob(p, x)
        PROVE  file'[b].state # "absent"
    BY <1>2, <2>0, <2>1 DEF HeadBlob, CommitBlob
  <2>2. ASSUME NEW x \in Blobs, Decay(x) PROVE file'[b].state # "absent"
    BY <1>2, <2>0, <2>2 DEF Decay
  <2>3. ASSUME NEW p \in Publishers, NEW x \in Blobs, RemoveCorrupt(p, x)
        PROVE  file'[b].state # "absent"
    BY <1>2, <2>0, <2>3 DEF RemoveCorrupt
  <2>4. ASSUME NEW p \in Publishers, MoveBlob(p) PROVE file'[b].state # "absent"
    BY <1>2, <2>0, <2>4 DEF MoveBlob
  <2>5. ASSUME NEW p \in Publishers, PublisherNext(p)
        PROVE  \/ \E x \in Blobs : HeadBlob(p, x) \/ CommitBlob(p, x) \/ RemoveCorrupt(p, x)
               \/ MoveBlob(p)
               \/ file' = file
    BY <2>5 DEF PublisherNext, Begin, PutCandidate, OpenJournal, AppendJournal,
                JournalFails, PutNamed, Execute, PutExecuted, Refuse, GiveUp
  <2>6. \/ \E p \in Publishers :
             \/ \E x \in Blobs : HeadBlob(p, x) \/ CommitBlob(p, x) \/ RemoveCorrupt(p, x)
             \/ MoveBlob(p)
        \/ \E x \in Blobs : Decay(x)
        \/ file' = file
    BY <2>5 DEF OtherNext, UseCandidate, AppendUse, Tick
  <2> QED BY <1>2, <2>1, <2>2, <2>3, <2>4, <2>6
<1>3. CASE index' = index
  BY <1>1, <1>2, <1>3, QuietSafe
<1>4. CASE index' # index
  <2>1. (\E p \in Publishers : PutCandidate(p)) \/ (\E path \in Keys \cup Names : GcEvict(path))
    BY <1>4, IndexStep, NextSteps
  <2>2. ASSUME NEW path \in Keys \cup Names, GcEvict(path) PROVE Safe'
    BY <2>2, GcEvictSafe
  <2> QED BY <2>1, <2>2, PutCandidateSafe
<1> QED BY <1>3, <1>4

LEMMA GcSafe ==
  ASSUME TypeInv, JournalInv, Safe, GcNext
  PROVE  Safe'
<1>1. ASSUME NEW max, GcBegin(max) PROVE Safe'
  <2>1. gc'.pc = "rotate" /\ gc'.removing = None /\ UNCHANGED <<file, index>>
    BY <1>1 DEF GcBegin, IdleGc
  <2> QED BY <2>1, ForgetsSafe
<1>2. ASSUME GcRotate \/ GcReadJournal PROVE Safe'
  <2>1. gc'.pc \in {"journal", "list"} /\ gc'.removing = gc.removing /\ UNCHANGED <<file, index>>
    BY <1>2 DEF GcRotate, GcReadJournal, TypeInv, GcOK, Collections
  <2>2. gc.removing = None
    BY <1>2 DEF GcRotate, GcReadJournal, TypeInv, LockOK
  <2> QED BY <2>1, <2>2, ForgetsSafe
<1>3. ASSUME GcCompact \/ GcFail PROVE Safe'
  <2>1. gc'.pc = "idle" /\ gc'.removing = None /\ UNCHANGED <<file, index>>
    BY <1>3 DEF GcCompact, GcFail, IdleGc
  <2> QED BY <2>1, ForgetsSafe
<1>4. ASSUME GcListBlobs PROVE Safe'
  <2>1. /\ gc'.pc = "indexes" /\ gc'.unread = Keys /\ gc'.removing = gc.removing
        /\ UNCHANGED <<file, index>>
    BY <1>4 DEF GcListBlobs, TypeInv, GcOK, Collections
  <2> QED BY <2>1 DEF Safe, SnapshotInv, DoomedInv, RemovingInv, Whole
<1> QED BY <1>1, <1>2, <1>3, <1>4, GcReadIndexSafe, GcReadNamesSafe, GcReadNamedSafe,
           GcMakePlanSafe, GcLockSafe, GcEvictSafe, GcCheckBlobSafe, GcRemoveBlobSafe
        DEF GcNext

(* No step makes up for a line that was lost, and a step that loses none     *)
(* keeps every blob that a candidate needs.                                  *)
LEMMA SafeNext ==
  ASSUME TypeInv, JournalInv, begun.unlogged = 0 => Safe, [Next]_vars, begun'.unlogged = 0
  PROVE  Safe'
<1>0. begun \in Counters
  BY DEF TypeInv, CountOK
<1>1. ASSUME NEW p \in Publishers, JournalFails(p) PROVE FALSE
  <2>1. begun' = [begun EXCEPT !.faults = @ + 1, !.unlogged = @ + 1]
    BY <1>1 DEF JournalFails
  <2>2. begun.unlogged \in Nat /\ begun'.unlogged = begun.unlogged + 1
    BY <1>0, <2>1 DEF Counters
  <2> QED BY <2>2
<1>2. begun.unlogged = 0
  <2>1. \/ begun' = begun
        \/ \E kind \in {"publications", "uses", "collections", "faults"} :
             begun' = [begun EXCEPT ![kind] = @ + 1]
    <3>1. ASSUME NEW p \in Publishers, PublisherNext(p)
          PROVE  begun' = begun \/ begun' = [begun EXCEPT !["publications"] = @ + 1]
      BY <3>1, <1>1 DEF PublisherNext, Begin, Bounded, HeadBlob, CommitBlob, RemoveCorrupt,
                        MoveBlob, PutCandidate,
         OpenJournal, AppendJournal, PutNamed, Execute, PutExecuted, Refuse, GiveUp
    <3>2. ASSUME GcNext
          PROVE  \/ begun' = begun \/ begun' = [begun EXCEPT !["collections"] = @ + 1]
                 \/ begun' = [begun EXCEPT !["faults"] = @ + 1]
      BY <3>2 DEF GcNext, GcBegin, Bounded, GcRotate, GcReadJournal, GcListBlobs, GcReadIndex,
         GcReadNames, GcReadNamed, GcMakePlan, GcLock, GcEvict, GcCheckBlob, GcRemoveBlob,
         GcCompact, GcFail
    <3>3. ASSUME NEW k, NEW c, UseCandidate(k, c) PROVE begun' = [begun EXCEPT !["uses"] = @ + 1]
      BY <3>3 DEF UseCandidate, Bounded
    <3>4. ASSUME NEW b, Crash \/ Decay(b) PROVE begun' = [begun EXCEPT !["faults"] = @ + 1]
      BY <3>4 DEF Crash, Decay, Bounded
    <3>5. ASSUME AppendUse \/ Tick \/ UNCHANGED vars PROVE begun' = begun
      BY <3>5 DEF AppendUse, Tick, vars
    <3> QED BY <3>1, <3>2, <3>3, <3>4, <3>5 DEF Next
  <2> QED BY <2>1, <1>0 DEF Counters
<1>3. Safe
  BY <1>2
<1>4. CASE OtherNext
  BY <1>1, <1>3, <1>4, OtherSafe
<1>5. CASE GcNext
  BY <1>3, <1>5, GcSafe
<1>6. CASE Crash
  <2>1. gc'.pc = "idle" /\ gc'.removing = None /\ UNCHANGED <<file, index>>
    BY <1>6 DEF Crash, IdleGc
  <2> QED BY <1>3, <2>1, ForgetsSafe
<1>7. CASE UNCHANGED vars
  <2>1. UNCHANGED <<file, index, gc, journal, pub>>
    BY <1>7 DEF vars
  <2>2. \A k \in Keys : Pending(k) => Pending(k)'
    BY <2>1 DEF Pending, Logged, Logging
  <2> QED BY <1>3, <2>1, <2>2, QuietSafe
<1> QED BY <1>4, <1>5, <1>6, <1>7, NextSteps

LEMMA SafeInit == Init => Safe
<1> SUFFICES ASSUME Init PROVE Safe
  OBVIOUS
<1>1. \A k \in Keys : ToSet(index[k]) = {}
  BY DEF Init, ToSet
<1> QED BY <1>1 DEF Init, IdleGc, Safe, SnapshotInv, DoomedInv, RemovingInv, Whole, Reading

(***************************************************************************)
(* For any keys, blobs and publishers, whatever publications, hits,        *)
(* collections, crashes and failures interleave, a candidate of an index   *)
(* has all its blobs on disk as long as every publication could append its *)
(* line, except blobs that went bad on disk and that an upload removed to  *)
(* replace them (commit_blob): no collection takes one.  It deletes blobs  *)
(* after records (Plan::apply) and rereads the journal under the lock      *)
(* before each batch (Recent::refresh), and a publication writes its line  *)
(* before it gives the lock back (store_candidate).                        *)
(***************************************************************************)
THEOREM CandidatesKeepTheirBlobs == Spec => []NoDanglingCandidate
<1>1. Init => IInv
  BY InitType, JournalInit, SafeInit DEF IInv
<1>2. IInv /\ [Next]_vars => IInv'
  BY NextType, JournalNext, SafeNext DEF IInv
<1>3. IInv => NoDanglingCandidate
  BY DEF IInv, Safe, Whole, NoDanglingCandidate
<1> QED BY <1>1, <1>2, <1>3, PTL DEF Spec

=============================================================================
