--------------------------- MODULE RecoveryProofs ---------------------------
(***************************************************************************)
(* What outlives kills, lost answers and processes that overlap: proofs    *)
(* about the hash-chained event log, the checkpointed deep loop, the queue *)
(* and the episodes of the post-mortems, and the delivery of results, each *)
(* for every value of its constants.                                       *)
(*                                                                         *)
(* The four have no state in common.  In each a process that dies leaves   *)
(* rows, checkpoints, events or commits behind, and the inductive          *)
(* invariant says what the survivor can rely on in them.                   *)
(***************************************************************************)
EXTENDS EventLog, DeepLoop, PostMortem, Delivery, FiniteSetTheorems,
        SequenceTheorems, WellFoundedInduction, TLAPS

-----------------------------------------------------------------------------
(***************************************************************************)
(* The event log, for any number of writers, any contents and any bound.   *)
(*                                                                         *)
(* LogInv adds to the checked invariants what an append under way knows: the*)
(* hash it has read is that of a committed row (SeenCommitted), its own is *)
(* new while it holds the lock (InsertFresh) and its row stored after the  *)
(* commit (CommitStored); and, as long as no appends have overlapped, that *)
(* it is alone and has read the present last hash (Alone).                 *)
(*                                                                         *)
(* None of this survives the loss of rows from the file, so it is asked of an *)
(* intact one only (KeptInv).  What survives is LossInv: the hash          *)
(* of a row was computed over the previous hash that is stored with it     *)
(* (Chained); what a log that verifies holds follows from that alone.      *)
(***************************************************************************)

\* The hash stored with a row was computed over the previous one and a content.
Chained == \A i \in DOMAIN rows : \E c \in Contents : rows[i].hash = HashOf(rows[i].prev, c)

LossInv == TypeOK /\ Chained

SeenCommitted ==
    \A p \in Writers : seen[p] = Genesis \/ \E j \in DOMAIN rows : seen[p] = rows[j].hash

InsertFresh == \A p \in Writers : phase[p] = "inserted" => ~HashTaken(p)

RowStored(p) == \E i \in DOMAIN rows : rows[i] = NewRow(p)

CommitStored == \A p \in Writers : phase[p] = "committed" => RowStored(p)

Alone ==
    ~overlapped =>
        /\ \A p, q \in Writers : Underway(p) /\ Underway(q) => p = q
        /\ \A p \in Writers : Underway(p) => seen[p] = LastHash(rows)

StoredOnce ==
    /\ \A r \in acked : \E i \in DOMAIN rows : rows[i] = r
    /\ \A i, j \in DOMAIN rows : rows[i].hash = rows[j].hash => i = j

Continuous == ~overlapped => Verified(rows)

Tree ==
    \A i \in DOMAIN rows :
        rows[i].prev = Genesis \/ \E j \in DOMAIN rows : j < i /\ rows[i].prev = rows[j].hash

LogInv ==
    /\ TypeOK
    /\ SeenCommitted
    /\ InsertFresh
    /\ CommitStored
    /\ Alone
    /\ StoredOnce
    /\ Continuous
    /\ Tree

KeptInv == LossInv /\ (intact => LogInv)

-----------------------------------------------------------------------------
(* Facts about rows and hashes.                                            *)

\* A new row leaves the earlier ones where they were.
LEMMA AppendRow ==
    ASSUME NEW S, NEW s \in Seq(S), NEW e \in S
    PROVE  /\ Append(s, e) \in Seq(S)
           /\ Len(Append(s, e)) = Len(s) + 1
           /\ DOMAIN Append(s, e) = DOMAIN s \cup {Len(s) + 1}
           /\ \A i \in DOMAIN s : Append(s, e)[i] = s[i]
           /\ Append(s, e)[Len(s) + 1] = e
           /\ Len(s) + 1 \notin DOMAIN s
           /\ DOMAIN s = 1..Len(s) /\ Len(s) \in Nat
  OBVIOUS

\* The last hash, and every hash of the log, is a sequence of contents.
LEMMA HashTypes ==
    ASSUME TypeOK
    PROVE  /\ LastHash(rows) \in Hashes
           /\ \A i \in DOMAIN rows : rows[i] \in Rows
           /\ \A p \in Writers : NewRow(p) \in Rows
           /\ \A p \in Writers : NewRow(p).prev = seen[p] /\ NewRow(p).content = content[p]
                                 /\ NewRow(p).hash = HashOf(seen[p], content[p])
  <1>1. \A i \in DOMAIN rows : rows[i] \in Rows
    BY DEF TypeOK
  <1>2. LastHash(rows) \in Hashes
    <2>1. CASE rows = <<>>
      BY <2>1 DEF LastHash, Genesis, Hashes
    <2>2. CASE rows # <<>>
      <3>1. Len(rows) \in DOMAIN rows
        BY <2>2 DEF TypeOK
      <3> QED
        BY <1>1, <2>2, <3>1 DEF LastHash, Rows
    <2> QED
      BY <2>1, <2>2
  <1>3. ASSUME NEW p \in Writers PROVE HashOf(seen[p], content[p]) \in Hashes
    BY <1>3 DEF TypeOK, HashOf, Hashes
  <1>4. \A p \in Writers : NewRow(p) \in Rows
    BY <1>3 DEF TypeOK, NewRow, Row, Rows
  <1> QED
    BY <1>1, <1>2, <1>4 DEF NewRow, Row

\* The last hash is genesis or that of a committed row.
LEMMA LastCommitted ==
    ASSUME TypeOK
    PROVE  LastHash(rows) = Genesis \/ \E j \in DOMAIN rows : LastHash(rows) = rows[j].hash
  BY DEF LastHash, TypeOK

-----------------------------------------------------------------------------
(* Every step keeps the types, and the invariant.                          *)

\* The types of the empty log.
LEMMA LogInitType == Init => TypeOK
  <1> SUFFICES ASSUME Init PROVE TypeOK
    OBVIOUS
  <1>1. Genesis \in Hashes
    BY DEF Genesis, Hashes
  <1>2. \A p \in Writers : phase[p] = "idle" /\ lock # p
    BY EventLogAssumption DEF Init
  <1>3. rows \in Seq(Rows) /\ acked \subseteq Rows /\ lock \in Writers \cup {NoWriter}
    BY DEF Init
  <1>4. overlapped \in BOOLEAN /\ lastId \in Nat
    BY DEF Init
  <1> QED
    BY <1>1, <1>2, <1>3, <1>4 DEF Init, TypeOK

\* No step of an append breaks the types.
LEMMA LogStepType == ASSUME TypeOK, [Appends]_logVars PROVE TypeOK'
  <1>1. CASE UNCHANGED logVars
    BY <1>1 DEF logVars, TypeOK
  <1>2. ASSUME NEW p \in Writers, Read(p) PROVE TypeOK'
    <2>1. PICK c \in Contents : content' = [content EXCEPT ![p] = c]
      BY <1>2 DEF Read
    <2>2. PICK d \in Stamps : stamp' = [stamp EXCEPT ![p] = d]
      BY <1>2 DEF Read
    <2>3. LastHash(rows) \in Hashes
      BY HashTypes
    <2>4. overlapped' \in BOOLEAN
      BY <1>2 DEF Read, TypeOK
    <2>5. /\ phase[p] = "idle" /\ phase' = [phase EXCEPT ![p] = "read"]
          /\ seen' = [seen EXCEPT ![p] = LastHash(rows)]
          /\ UNCHANGED <<rows, lastId, lock, acked, intact>>
      BY <1>2 DEF Read
    <2> QED
      BY <2>1, <2>2, <2>3, <2>4, <2>5 DEF TypeOK
  <1>3. ASSUME NEW p \in Writers, Insert(p) PROVE TypeOK'
    BY <1>3, EventLogAssumption DEF Insert, TypeOK
  <1>4. ASSUME NEW p \in Writers, Commit(p) PROVE TypeOK'
    <2>1. NewRow(p) \in Rows
      BY HashTypes
    <2>2. rows' \in Seq(Rows)
      BY <1>4, <2>1, AppendRow DEF Commit, TypeOK
    <2>3. \A q \in Writers \ {p} : phase[q] # "inserted"
      BY <1>4 DEF Commit, TypeOK
    <2>4. lastId' \in Nat
      BY <1>4 DEF Commit, TypeOK
    <2> QED
      BY <1>4, <2>2, <2>3, <2>4, EventLogAssumption DEF Commit, TypeOK
  <1>5. ASSUME NEW p \in Writers, Return(p) PROVE TypeOK'
    <2>1. NewRow(p) \in Rows
      BY HashTypes
    <2> QED
      BY <1>5, <2>1, EventLogAssumption DEF Return, TypeOK
  <1>6. ASSUME NEW p \in Writers, GiveUp(p) PROVE TypeOK'
    BY <1>6, EventLogAssumption DEF GiveUp, TypeOK
  <1> QED
    BY <1>1, <1>2, <1>3, <1>4, <1>5, <1>6 DEF Appends

\* The empty log.
LEMMA LogInitInv == Init => LogInv
  <1> SUFFICES ASSUME Init PROVE LogInv
    OBVIOUS
  <1>1. TypeOK
    BY LogInitType
  <1>2. SeenCommitted
    <2>1. DOMAIN rows = {} /\ \A p \in Writers : seen[p] = Genesis
      BY DEF Init
    <2> QED
      BY <2>1 DEF SeenCommitted
  <1>3. Alone
    BY DEF Init, Alone, Underway
  <1>4. Verified(rows)
    BY DEF Init, Verified
  <1>5. StoredOnce /\ Tree
    BY DEF Init, StoredOnce, Tree
  <1>6. InsertFresh /\ CommitStored
    <2>1. \A p \in Writers : phase[p] = "idle"
      BY DEF Init
    <2> QED
      BY <2>1 DEF InsertFresh, CommitStored
  <1> QED
    BY <1>1, <1>2, <1>3, <1>4, <1>5, <1>6 DEF LogInv, Continuous

\* Reading the last hash.
LEMMA ReadStep == ASSUME LogInv, NEW p \in Writers, Read(p) PROVE LogInv'
  <1>1. /\ phase[p] = "idle" /\ rows' = rows /\ lastId' = lastId /\ lock' = lock /\ acked' = acked
        /\ seen' = [seen EXCEPT ![p] = LastHash(rows)]
        /\ phase' = [phase EXCEPT ![p] = "read"]
        /\ overlapped' = (overlapped \/ \E q \in Writers : Underway(q))
    BY DEF Read
  <1>2. TypeOK'
    BY LogStepType DEF LogInv, Appends
  <1>3. \A q \in Writers \ {p} : /\ seen'[q] = seen[q] /\ phase'[q] = phase[q]
                                 /\ content'[q] = content[q] /\ stamp'[q] = stamp[q]
    BY <1>1 DEF Read, LogInv, TypeOK
  <1>4. seen'[p] = LastHash(rows) /\ phase'[p] = "read"
    BY <1>1 DEF LogInv, TypeOK
  <1>5. SeenCommitted'
    BY <1>1, <1>3, <1>4, LastCommitted DEF LogInv, SeenCommitted
  <1>6. InsertFresh' /\ CommitStored'
    BY <1>1, <1>3, <1>4 DEF LogInv, InsertFresh, CommitStored, HashTaken, RowStored, NewRow
  <1>7. Alone'
    BY <1>1, <1>3, <1>4 DEF LogInv, Alone, Underway
  <1>8. StoredOnce' /\ Tree'
    BY <1>1 DEF LogInv, StoredOnce, Tree
  <1>9. Continuous'
    <2>1. Verified(rows)' <=> Verified(rows)
      BY <1>1
    <2>2. overlapped => overlapped'
      BY <1>1
    <2> QED
      BY <2>1, <2>2 DEF LogInv, Continuous
  <1> QED
    BY <1>2, <1>5, <1>6, <1>7, <1>8, <1>9 DEF LogInv

\* Taking the lock.
LEMMA InsertStep == ASSUME LogInv, NEW p \in Writers, Insert(p) PROVE LogInv'
  <1>1. /\ phase[p] = "read" /\ lock = NoWriter /\ ~HashTaken(p) /\ lock' = p
        /\ phase' = [phase EXCEPT ![p] = "inserted"]
        /\ UNCHANGED <<rows, lastId, seen, content, stamp, acked, overlapped>>
    BY DEF Insert
  <1>2. TypeOK'
    BY LogStepType DEF LogInv, Appends
  <1>3. (\A q \in Writers \ {p} : phase'[q] = phase[q]) /\ phase'[p] = "inserted"
    BY <1>1 DEF LogInv, TypeOK
  <1>4. SeenCommitted' /\ InsertFresh' /\ CommitStored'
    BY <1>1, <1>3 DEF LogInv, SeenCommitted, InsertFresh, CommitStored, HashTaken, RowStored, NewRow
  <1>5. Alone'
    BY <1>1, <1>3 DEF LogInv, Alone, Underway
  <1>6. StoredOnce' /\ Continuous' /\ Tree'
    BY <1>1 DEF LogInv, StoredOnce, Continuous, Tree
  <1> QED
    BY <1>2, <1>4, <1>5, <1>6 DEF LogInv

\* The commit: the one step that changes the rows.
LEMMA CommitStep == ASSUME LogInv, NEW p \in Writers, Commit(p) PROVE LogInv'
  <1> DEFINE n == Len(rows)
             r == NewRow(p)
  <1>1. /\ phase[p] = "inserted" /\ rows' = Append(rows, r) /\ lock' = NoWriter
        /\ phase' = [phase EXCEPT ![p] = "committed"]
        /\ UNCHANGED <<seen, content, stamp, acked, overlapped>>
    BY DEF Commit
  <1>2. /\ r \in Rows /\ r.prev = seen[p] /\ r.content = content[p]
        /\ r.hash = HashOf(seen[p], content[p])
    BY HashTypes DEF LogInv
  <1>3. /\ rows' \in Seq(Rows) /\ n \in Nat /\ DOMAIN rows = 1..n
        /\ DOMAIN rows' = DOMAIN rows \cup {n + 1} /\ n + 1 \notin DOMAIN rows
        /\ \A i \in DOMAIN rows : rows'[i] = rows[i]
        /\ rows'[n + 1] = r /\ Len(rows') = n + 1
    BY <1>1, <1>2, AppendRow DEF LogInv, TypeOK
  <1> HIDE DEF n, r
  <1>4. (\A q \in Writers \ {p} : phase'[q] = phase[q]) /\ phase'[p] = "committed"
    BY <1>1 DEF LogInv, TypeOK
  <1>5. \A q \in Writers : phase[q] = "inserted" => q = p
    BY <1>1 DEF LogInv, TypeOK
  <1>6. TypeOK'
    BY LogStepType DEF LogInv, Appends
  <1>8. SeenCommitted'
    BY <1>1, <1>3 DEF LogInv, SeenCommitted
  <1>9. ~HashTaken(p)
    BY <1>1 DEF LogInv, InsertFresh
  <1>10. InsertFresh'
    BY <1>4, <1>5 DEF InsertFresh
  <1>11. CommitStored'
    <2>1. \A q \in Writers : NewRow(q)' = NewRow(q)
      BY <1>1 DEF NewRow
    <2>2. RowStored(p)'
      BY <1>3, <2>1 DEF RowStored, r
    <2>3. \A q \in Writers : RowStored(q) => RowStored(q)'
      BY <1>3, <2>1 DEF RowStored
    <2> QED
      BY <1>4, <2>2, <2>3 DEF LogInv, CommitStored
  <1>12. StoredOnce'
    <2>1. \A i \in DOMAIN rows : rows[i].hash # r.hash
      BY <1>9 DEF HashTaken, r
    <2>2. \A i, j \in DOMAIN rows' : rows'[i].hash = rows'[j].hash => i = j
      BY <1>3, <2>1 DEF LogInv, StoredOnce
    <2>3. \A a \in acked' : \E i \in DOMAIN rows' : rows'[i] = a
      BY <1>1, <1>3 DEF LogInv, StoredOnce
    <2> QED
      BY <2>2, <2>3 DEF StoredOnce
  <1>13. Tree'
    <2>1. seen[p] = Genesis \/ \E j \in DOMAIN rows : seen[p] = rows[j].hash
      BY DEF LogInv, SeenCommitted
    <2>2. rows'[n + 1].prev = Genesis
            \/ \E j \in DOMAIN rows' : j < n + 1 /\ rows'[n + 1].prev = rows'[j].hash
      BY <1>2, <1>3, <2>1
    <2> QED
      BY <1>3, <2>2 DEF LogInv, Tree
  <1>14. Alone'
    <2>1. \A q \in Writers : Underway(q)' => Underway(q) /\ q # p
      BY <1>4 DEF Underway
    <2>2. Underway(p)
      BY <1>1 DEF Underway
    <2> QED
      BY <1>1, <2>1, <2>2 DEF LogInv, Alone
  <1>15. ~overlapped => seen[p] = LastHash(rows)
    BY <1>1 DEF LogInv, Alone, Underway
  <1>16. Continuous'
    <2> SUFFICES ASSUME ~overlapped PROVE Verified(rows)'
      BY <1>1 DEF Continuous
    <2>1. Verified(rows) /\ seen[p] = LastHash(rows)
      BY <1>15 DEF LogInv, Continuous
    <2>2. CASE rows = <<>>
      BY <1>2, <1>3, <2>1, <2>2 DEF Verified, LastHash
    <2>3. CASE rows # <<>>
      <3>1. n \in DOMAIN rows /\ seen[p] = rows[n].hash
        BY <1>3, <2>1, <2>3 DEF LastHash, n, LogInv, TypeOK
      <3> QED
        BY <1>2, <1>3, <2>1, <2>3, <3>1 DEF Verified
    <2> QED
      BY <2>2, <2>3
  <1> QED
    BY <1>6, <1>8, <1>10, <1>11, <1>12, <1>13, <1>14, <1>16 DEF LogInv

\* The return of an append: its row is stored, so its hash may be acknowledged.
LEMMA ReturnStep == ASSUME LogInv, NEW p \in Writers, Return(p) PROVE LogInv'
  <1>1. /\ phase[p] = "committed" /\ acked' = acked \cup {NewRow(p)}
        /\ phase' = [phase EXCEPT ![p] = "idle"]
        /\ UNCHANGED <<rows, lastId, lock, seen, content, stamp, overlapped>>
    BY DEF Return
  <1>3. TypeOK'
    BY LogStepType DEF LogInv, Appends
  <1>4. (\A q \in Writers \ {p} : phase'[q] = phase[q]) /\ phase'[p] = "idle"
    BY <1>1 DEF LogInv, TypeOK
  <1>5. SeenCommitted' /\ InsertFresh' /\ CommitStored'
    BY <1>1, <1>4 DEF LogInv, SeenCommitted, InsertFresh, CommitStored, HashTaken, RowStored, NewRow
  <1>6. Alone'
    BY <1>1, <1>4 DEF LogInv, Alone, Underway
  <1>7. StoredOnce'
    BY <1>1 DEF LogInv, CommitStored, RowStored, StoredOnce
  <1>8. Continuous' /\ Tree'
    BY <1>1 DEF LogInv, Continuous, Tree
  <1> QED
    BY <1>3, <1>5, <1>6, <1>7, <1>8 DEF LogInv

\* Giving an append up: a rollback, a timeout or a kill.
LEMMA GiveUpStep == ASSUME LogInv, NEW p \in Writers, GiveUp(p) PROVE LogInv'
  <1>1. /\ phase[p] # "idle" /\ lock' = (IF lock = p THEN NoWriter ELSE lock)
        /\ phase' = [phase EXCEPT ![p] = "idle"]
        /\ UNCHANGED <<rows, lastId, seen, content, stamp, acked, overlapped>>
    BY DEF GiveUp
  <1>2. (\A q \in Writers \ {p} : phase'[q] = phase[q]) /\ phase'[p] = "idle"
    BY <1>1 DEF LogInv, TypeOK
  <1>3. TypeOK'
    BY LogStepType DEF LogInv, Appends
  <1>4. SeenCommitted' /\ InsertFresh' /\ CommitStored'
    BY <1>1, <1>2 DEF LogInv, SeenCommitted, InsertFresh, CommitStored, HashTaken, RowStored, NewRow
  <1>5. Alone'
    BY <1>1, <1>2 DEF LogInv, Alone, Underway
  <1>6. StoredOnce' /\ Continuous' /\ Tree'
    BY <1>1 DEF LogInv, StoredOnce, Continuous, Tree
  <1> QED
    BY <1>3, <1>4, <1>5, <1>6 DEF LogInv

\* Every step of the log, a stutter included.
LEMMA LogStepInv == LogInv /\ [Appends]_logVars => LogInv'
  <1>1. LogInv /\ UNCHANGED logVars => LogInv'
    BY DEF logVars, LogInv, TypeOK, SeenCommitted, InsertFresh, CommitStored, Alone,
           Underway, StoredOnce, Continuous, Tree, HashTaken,
           RowStored, NewRow
  <1> QED
    BY <1>1, ReadStep, InsertStep, CommitStep, ReturnStep, GiveUpStep DEF Appends

-----------------------------------------------------------------------------
(* What a log that verifies holds, whatever was lost from it.              *)

\* Numbers that are bounded have a least one.
LEMMA LeastNumber ==
    ASSUME NEW n \in Nat, NEW B, B \subseteq 1..n, B # {}
    PROVE  \E b \in B : \A j \in B : b <= j
  <1> DEFINE T == {1..b : b \in B}
  <1>1. IsFiniteSet(1..n)
    BY FS_Interval
  <1>2. IsWellFoundedOn(StrictSubsetOrdering(1..n), SUBSET (1..n))
    BY <1>1, FS_FiniteSubsetsOfFinite, FS_StrictSubsetOrderingWellFounded
  <1>3. T \subseteq SUBSET (1..n) /\ T # {}
    <2>1. \A b \in B : 1..b \subseteq 1..n
      OBVIOUS
    <2> QED
      BY <2>1
  <1>4. PICK t \in T : \A u \in T : <<u, t>> \notin StrictSubsetOrdering(1..n)
    <2> HIDE DEF T
    <2> QED
      BY <1>2, <1>3, WFMin
  <1>5. PICK b \in B : t = 1..b
    BY <1>4
  <1>6. ASSUME NEW j \in B, j < b PROVE FALSE
    <2>1. 1..j \in T /\ 1..j \in SUBSET (1..n) /\ 1..b \in SUBSET (1..n)
      BY <1>3
    <2>2. 1..j \subseteq 1..b /\ 1..j # 1..b
      BY <1>6
    <2> QED
      BY <1>4, <1>5, <2>1, <2>2 DEF StrictSubsetOrdering
  <1> QED
    BY <1>6

\* A hash computed over one content more begins as the one before it.
LEMMA HashPrefixes ==
    ASSUME NEW h \in Hashes, NEW c \in Contents
    PROVE  /\ HashOf(h, c) \in Hashes
           /\ Len(HashOf(h, c)) = Len(h) + 1
           /\ \A k \in 1..Len(h) : SubSeq(HashOf(h, c), 1, k) = SubSeq(h, 1, k)
           /\ SubSeq(HashOf(h, c), 1, Len(h) + 1) = HashOf(h, c)
  BY DEF HashOf, Hashes

\* The first row that does not hold what it should has either genesis or a row
\* that does under it.
LEMMA VerifiedIsChained ==
    ASSUME LossInv
    PROVE  VerifiedIsWhole
  <1> DEFINE Whole(i) == /\ Len(rows[i].hash) = i
                         /\ \A k \in 1..i : rows[k].hash = SubSeq(rows[i].hash, 1, k)
             B == {i \in DOMAIN rows : ~Whole(i)}
  <1> SUFFICES ASSUME Verified(rows), B # {}
               PROVE  FALSE
    BY DEF VerifiedIsWhole
  <1>1. DOMAIN rows = 1..Len(rows) /\ Len(rows) \in Nat
    BY DEF LossInv, TypeOK
  <1>2. PICK b \in B : \A j \in B : b <= j
    <2>1. B \subseteq 1..Len(rows)
      BY <1>1
    <2> HIDE DEF B
    <2> QED
      BY <1>1, <2>1, LeastNumber
  <1>3. PICK c \in Contents : rows[b].hash = HashOf(rows[b].prev, c)
    BY DEF LossInv, Chained
  <1>4. \A i \in DOMAIN rows : rows[i].prev \in Hashes /\ rows[i].hash \in Hashes
    BY HashTypes DEF LossInv, Rows
  <1>5. CASE b = 1
    <2>1. rows # <<>> /\ rows[1].prev = Genesis
      BY <1>1, <1>5 DEF Verified
    <2>2. Len(rows[1].prev) = 0
      BY <2>1 DEF Genesis
    <2> DEFINE g == rows[1].prev
    <2>3. g \in Hashes /\ Len(g) = 0 /\ rows[1].hash = HashOf(g, c)
      BY <1>3, <1>4, <1>5, <2>2
    <2> HIDE DEF g
    <2>6. Len(HashOf(g, c)) = 0 + 1 /\ SubSeq(HashOf(g, c), 1, 0 + 1) = HashOf(g, c)
      BY <2>3, HashPrefixes
    <2>4. Len(rows[1].hash) = 1 /\ SubSeq(rows[1].hash, 1, 1) = rows[1].hash
      BY <2>3, <2>6
    <2>5. Whole(1)
      BY <2>4
    <2> QED
      BY <1>5, <2>5
  <1>6. CASE b # 1
    <2> DEFINE a == b - 1
               h == rows[a].hash
    <2>1. a \in DOMAIN rows /\ a + 1 = b /\ b \in Nat /\ a \in Nat /\ ~(b <= a)
      BY <1>1, <1>6
    <2>2. Whole(a)
      BY <1>2, <2>1
    <2>3. rows[b].prev = h
      BY <2>1 DEF Verified
    <2>4. h \in Hashes /\ Len(h) = a /\ \A k \in 1..a : rows[k].hash = SubSeq(h, 1, k)
      BY <1>4, <2>1, <2>2
    <2> HIDE DEF a, h
    <2>5. /\ Len(HashOf(h, c)) = a + 1
          /\ \A k \in 1..a : SubSeq(HashOf(h, c), 1, k) = SubSeq(h, 1, k)
          /\ SubSeq(HashOf(h, c), 1, a + 1) = HashOf(h, c)
      BY <2>4, HashPrefixes
    <2>6. rows[b].hash = HashOf(h, c)
      BY <1>3, <2>3
    <2>7. \A k \in 1..b : k \in 1..a \/ k = b
      BY <2>1
    <2>8. \A k \in 1..b : rows[k].hash = SubSeq(rows[b].hash, 1, k)
      BY <2>1, <2>4, <2>5, <2>6, <2>7
    <2>9. Len(rows[b].hash) = b
      BY <2>1, <2>5, <2>6
    <2> QED
      BY <2>8, <2>9
  <1> QED
    BY <1>5, <1>6

\* What is left after a loss was there before, in the same order.
LEMMA LossLeaves ==
    ASSUME NEW S, NEW s \in Seq(S), NEW i \in DOMAIN s
    PROVE  /\ Without(s, i) \in Seq(S)
           /\ \A j \in DOMAIN Without(s, i) : \E k \in DOMAIN s : Without(s, i)[j] = s[k]
  <1> DEFINE u == SubSeq(s, 1, i - 1)
             v == SubSeq(s, i + 1, Len(s))
             t == Without(s, i)
  <1>1. Len(s) \in Nat /\ DOMAIN s = 1..Len(s) /\ i \in 1..Len(s)
        /\ \A j \in 1..Len(s) : s[j] \in S
    OBVIOUS
  <1>2. u \in Seq(S) /\ \A j \in DOMAIN u : \E k \in DOMAIN s : u[j] = s[k]
    <2>1. \A k \in 1..(i - 1) : s[k] \in S
      BY <1>1
    <2>2. /\ u \in Seq(S) /\ Len(u) = IF 1 <= i - 1 THEN (i - 1) - 1 + 1 ELSE 0
          /\ \A j \in 1..((i - 1) - 1 + 1) : u[j] = s[1 + j - 1]
      BY <1>1, <2>1, SubSeqProperties
    <2> HIDE DEF u
    <2>3. DOMAIN u = 1..((i - 1) - 1 + 1)
      BY <1>1, <2>2, LenProperties
    <2>4. \A j \in 1..((i - 1) - 1 + 1) : 1 + j - 1 \in 1..Len(s)
      BY <1>1
    <2> QED
      BY <1>1, <2>2, <2>3, <2>4
  <1>3. v \in Seq(S) /\ \A j \in DOMAIN v : \E k \in DOMAIN s : v[j] = s[k]
    <2>1. \A k \in (i + 1)..Len(s) : s[k] \in S
      BY <1>1
    <2>2. /\ v \in Seq(S) /\ Len(v) = IF i + 1 <= Len(s) THEN Len(s) - (i + 1) + 1 ELSE 0
          /\ \A j \in 1..(Len(s) - (i + 1) + 1) : v[j] = s[(i + 1) + j - 1]
      BY <1>1, <2>1, SubSeqProperties
    <2> HIDE DEF v
    <2>3. DOMAIN v = 1..(Len(s) - (i + 1) + 1)
      BY <1>1, <2>2, LenProperties
    <2>4. \A j \in 1..(Len(s) - (i + 1) + 1) : (i + 1) + j - 1 \in 1..Len(s)
      BY <1>1
    <2> QED
      BY <1>1, <2>2, <2>3, <2>4
  <1> HIDE DEF u, v, t
  <1>4. /\ t \in Seq(S) /\ Len(t) = Len(u) + Len(v)
        /\ \A j \in 1..(Len(u) + Len(v)) : t[j] = IF j <= Len(u) THEN u[j] ELSE v[j - Len(u)]
    BY <1>2, <1>3, ConcatProperties DEF u, v, t, Without
  <1>5. ASSUME NEW j \in DOMAIN t PROVE \E k \in DOMAIN s : t[j] = s[k]
    <2>1. /\ j \in 1..(Len(u) + Len(v))
          /\ DOMAIN u = 1..Len(u) /\ Len(u) \in Nat
          /\ DOMAIN v = 1..Len(v) /\ Len(v) \in Nat
      BY <1>2, <1>3, <1>4, LenProperties
    <2>2. CASE j <= Len(u)
      <3>1. j \in DOMAIN u /\ t[j] = u[j]
        BY <1>4, <2>1, <2>2
      <3> QED
        BY <1>2, <3>1
    <2>3. CASE ~(j <= Len(u))
      <3>1. j - Len(u) \in DOMAIN v /\ t[j] = v[j - Len(u)]
        BY <1>4, <2>1, <2>3
      <3> QED
        BY <1>3, <3>1
    <2> QED
      BY <2>2, <2>3
  <1> QED
    BY <1>4, <1>5 DEF t

\* Every step of a log that may lose rows keeps what its hashes say.
LEMMA LossStepInv == LossInv /\ [Next]_logVars => LossInv'
  <1> SUFFICES ASSUME LossInv, [Next]_logVars PROVE LossInv'
    OBVIOUS
  <1>1. CASE [Appends]_logVars
    <2>1. TypeOK'
      BY <1>1, LogStepType DEF LossInv
    <2>2. CASE rows' = rows
      BY <2>1, <2>2 DEF LossInv, Chained
    <2>3. ASSUME NEW p \in Writers, Commit(p) PROVE Chained'
      <3>1. NewRow(p) \in Rows /\ NewRow(p).hash = HashOf(NewRow(p).prev, content[p])
        BY HashTypes DEF LossInv
      <3>2. content[p] \in Contents
        BY DEF LossInv, TypeOK
      <3>3. /\ DOMAIN rows' = DOMAIN rows \cup {Len(rows) + 1}
            /\ \A i \in DOMAIN rows : rows'[i] = rows[i]
            /\ rows'[Len(rows) + 1] = NewRow(p)
        BY <2>3, <3>1, AppendRow DEF Commit, LossInv, TypeOK
      <3> QED
        BY <3>1, <3>2, <3>3 DEF LossInv, Chained
    <2> QED
      BY <1>1, <2>1, <2>2, <2>3 DEF LossInv, Appends, Read, Insert, Return, GiveUp, logVars
  <1>2. CASE LoseRow
    <2>1. PICK i \in DOMAIN rows : rows' = Without(rows, i)
      BY <1>2 DEF LoseRow
    <2>2. rows' \in Seq(Rows) /\ \A j \in DOMAIN rows' : \E k \in DOMAIN rows : rows'[j] = rows[k]
      <3>1. rows \in Seq(Rows)
        BY DEF LossInv, TypeOK
      <3> QED
        BY <2>1, <3>1, LossLeaves
    <2>3. TypeOK'
      BY <1>2, <2>1, <2>2 DEF LoseRow, LossInv, TypeOK
    <2>4. Chained'
      <3> SUFFICES ASSUME NEW j \in DOMAIN rows'
                   PROVE  \E c \in Contents : rows'[j].hash = HashOf(rows'[j].prev, c)
        BY DEF Chained
      <3>1. PICK k \in DOMAIN rows : rows'[j] = rows[k]
        BY <2>2
      <3> QED
        BY <3>1 DEF LossInv, Chained
    <2> QED
      BY <2>3, <2>4 DEF LossInv
  <1> QED
    BY <1>1, <1>2 DEF Next

\* An intact file has lost nothing yet, so its step is one of an append.
LEMMA KeptStepInv == KeptInv /\ [Next]_logVars => KeptInv'
  <1> SUFFICES ASSUME KeptInv, [Next]_logVars PROVE KeptInv'
    OBVIOUS
  <1>1. LossInv'
    BY LossStepInv DEF KeptInv
  <1>2. CASE [Appends]_logVars
    <2>1. intact' = intact
      BY <1>2 DEF Appends, Read, Insert, Commit, Return, GiveUp, logVars
    <2>2. LogInv => LogInv'
      BY <1>2, LogStepInv
    <2> QED
      BY <1>1, <2>1, <2>2 DEF KeptInv
  <1>3. CASE LoseRow
    BY <1>1, <1>3 DEF KeptInv, LoseRow
  <1> QED
    BY <1>2, <1>3 DEF Next

\* The inductive invariant holds in every reachable state.
THEOREM LogInvariant == Spec => []KeptInv
  <1>1. Init => KeptInv
    <2> SUFFICES ASSUME Init PROVE KeptInv
      OBVIOUS
    <2>1. DOMAIN rows = {}
      BY DEF Init
    <2>2. LogInv
      BY LogInitInv
    <2> QED
      BY <2>1, <2>2, LogInitType DEF KeptInv, LossInv, Chained
  <1> QED
    BY <1>1, KeptStepInv, PTL DEF Spec

-----------------------------------------------------------------------------
(* The theorems.                                                           *)

\* Every variable of the log keeps its type, and the lock its holder.
THEOREM LogTypeCorrect == Spec => []TypeOK
  <1>1. KeptInv => TypeOK
    BY DEF KeptInv, LossInv
  <1> QED
    BY <1>1, LogInvariant, PTL

\* An append that returned has stored its event once, in a file that has lost nothing.
THEOREM AckedIsStoredOnce == Spec => []AckedOnce
  <1>1. KeptInv => AckedOnce
    BY DEF KeptInv, LogInv, AckedOnce, StoredOnce
  <1> QED
    BY <1>1, LogInvariant, PTL

\* Appends that do not overlap keep the chain continuous.
THEOREM SerialIsContinuous == Spec => []SerialChain
  <1>1. KeptInv => SerialChain
    BY DEF KeptInv, LogInv, SerialChain, Continuous
  <1> QED
    BY <1>1, LogInvariant, PTL

\* Whatever overlaps, the rows form a tree rooted in genesis.
THEOREM TreeOfRows == Spec => []RowsFormTree
  <1>1. KeptInv => RowsFormTree
    BY DEF KeptInv, LogInv, RowsFormTree, Tree
  <1> QED
    BY <1>1, LogInvariant, PTL

\* Rows lost under a row that is left are always reported.
THEOREM LossIsReported == Spec => []VerifiedIsWhole
  <1>1. KeptInv => VerifiedIsWhole
    BY VerifiedIsChained DEF KeptInv
  <1> QED
    BY <1>1, LogInvariant, PTL

-----------------------------------------------------------------------------
(***************************************************************************)
(* The deep loop, for any proposals, any debate and any number of kills.   *)
(*                                                                         *)
(* DeepInv adds what a node under way knows: its process holds what is on  *)
(* disk (MemoryIsDisk) and its updates are of its own kind (DraftFollows); *)
(* the log is nowhere ahead of the checkpoint (EventsBehind), in the present*)
(* life it is behind the running node's next slot (ThisLife), and what was *)
(* saved or is about to be is the last of its type in it (Recorded).       *)
(***************************************************************************)

\* What the PM may have proposed.
Proposed == Proposals \cup {NoProposal}

EventTypes == {"cycle_open", "memo_written", "debate_turn", "ballot_cast", "proposal_written",
               "intended_order", "no_trade", "cycle_failed"}

\* The events of a cycle, as its nodes append them.
Events == [type : EventTypes, node : Int, slot : Int,
           body : [proposal : Proposed, tradeId : Int], life : Int]

CycleStates == [done : 0..10, proposal : Proposed, passed : BOOLEAN,
                decision : {"none", "intended_order", "no_trade"}, tradeId : Int,
                halted : BOOLEAN]

DeepTyped ==
    /\ events \in Seq(Events)
    /\ disk \in CycleStates /\ mem \in CycleStates /\ draft \in CycleStates
    /\ slot \in Int /\ slot >= -1
    /\ running \in BOOLEAN
    /\ life \in Nat

\* The process holds what is on disk, and works on a node only while it runs.
MemoryIsDisk ==
    /\ running => mem = disk
    /\ slot >= 0 => running /\ ~mem.halted /\ mem.done < 10

\* What a cycle state says, by how far it is.
Sound(state) ==
    /\ state.done < 7 => state.proposal = NoProposal
    /\ state.done < 8 => ~state.passed
    /\ state.done < 9 => state.decision = "none"
    /\ state.passed => state.proposal # NoProposal /\ state.proposal.fits
    /\ state.decision = "intended_order" => state.passed

\* A node's updates are those of its kind alone: pm is the seventh node, the risk gate
\* the eighth, terminal the ninth.  A failed node has none.
DraftFollows ==
    slot >= 0 =>
        /\ draft.halted => draft = [mem EXCEPT !.halted = TRUE]
        /\ ~draft.halted =>
              /\ draft.done = mem.done
              /\ mem.done # 6 => draft.proposal = mem.proposal
              /\ mem.done # 7 => draft.passed = mem.passed
              /\ mem.done = 7 /\ draft.passed => mem.proposal # NoProposal /\ mem.proposal.fits
              /\ mem.done # 8 => draft.decision = mem.decision /\ draft.tradeId = mem.tradeId
              /\ mem.done = 8 => draft.decision # "none"
              /\ mem.done = 8 /\ draft.decision = "intended_order" => mem.passed

\* No event is of a node beyond the one that is due, or of a life to come.
EventsBehind ==
    \A i \in DOMAIN events :
        events[i].node <= disk.done + 1 /\ events[i].life <= life

\* In the present life a failure has halted the cycle, and the node that is due has
\* appended the slots below the present one.
ThisLife ==
    \A i \in DOMAIN events : events[i].life = life =>
        /\ events[i].type = "cycle_failed" => disk.halted \/ (slot >= 0 /\ draft.halted)
        /\ events[i].node = disk.done + 1 =>
              disk.halted \/ (slot >= 0 /\ (draft.halted \/ events[i].slot < slot))

\* Event i is the last of its type.
LastAt(type, i) ==
    /\ i \in DOMAIN events /\ events[i].type = type
    /\ \A j \in DOMAIN events : events[j].type = type => j <= i

ProposalOnRecord(p) ==
    \E i \in DOMAIN events : LastAt("proposal_written", i) /\ events[i].body.proposal = p

OrderOnRecord(p, id) ==
    \E i \in DOMAIN events :
        LastAt("intended_order", i) /\ events[i].body = [proposal |-> p, tradeId |-> id]

\* What is checkpointed is what the log says last, and what the running node has
\* computed is what it has just logged.
Recorded ==
    /\ disk.proposal # NoProposal => ProposalOnRecord(disk.proposal)
    /\ disk.decision = "intended_order" => OrderOnRecord(disk.proposal, disk.tradeId)
    /\ slot >= 1 /\ ~draft.halted =>
          /\ mem.done = 6 => ProposalOnRecord(draft.proposal)
          /\ mem.done = 8 /\ draft.decision = "intended_order" =>
                OrderOnRecord(draft.proposal, draft.tradeId)

DeepInv ==
    /\ DeepTyped
    /\ MemoryIsDisk
    /\ Sound(disk)
    /\ DraftFollows
    /\ EventsBehind
    /\ ThisLife
    /\ Recorded
    /\ RepeatsAreKills

-----------------------------------------------------------------------------
(* Facts about the nodes and the log. *)

\* Where each kind of node stands, and how many events it appends.
LEMMA NodeIs ==
    ASSUME mem.done \in 0..9
    PROVE  /\ Node = "pm" <=> mem.done = 6
           /\ Node = "risk_gate" <=> mem.done = 7
           /\ Node = "terminal" <=> mem.done = 8
           /\ mem.done = 6 => Emits = IF draft.proposal = NoProposal THEN 0 ELSE 1
           /\ mem.done = 8 => Emits = 1
           /\ Emits \in Nat
  <1>1. Turns \in Nat
    BY BoundsAreNaturals
  <1>2. \/ mem.done = 0 /\ Node = "cycle_open"
        \/ mem.done = 1 /\ Node = "research"
        \/ mem.done = 2 /\ Node = "verify"
        \/ mem.done = 3 /\ Node = "debate_gate"
        \/ mem.done = 4 /\ Node = "debate"
        \/ mem.done = 5 /\ Node = "ballot"
        \/ mem.done = 6 /\ Node = "pm"
        \/ mem.done = 7 /\ Node = "risk_gate"
        \/ mem.done = 8 /\ Node = "terminal"
        \/ mem.done = 9 /\ Node = "post_mortem"
    BY DEF Node, NodeOrder
  <1> QED
    BY <1>1, <1>2 DEF Emits

\* The type and the body of an event a node appends.
LEMMA EventIs ==
    ASSUME DeepTyped, DraftFollows, MemoryIsDisk, slot >= 0, slot < Emits, ~draft.halted
    PROVE  /\ EventType \in EventTypes
           /\ EventType # "cycle_failed"
           /\ EventType = "proposal_written" <=> mem.done = 6
           /\ EventType = "intended_order" <=> mem.done = 8 /\ draft.decision = "intended_order"
           /\ mem.done = 6 \/ mem.done = 8 =>
                  Body = [proposal |-> draft.proposal, tradeId |-> draft.tradeId]
           /\ Body \in [proposal : Proposed, tradeId : Int]
  <1>1. mem.done \in 0..9 /\ slot \in Int
    BY DEF DeepTyped, CycleStates, MemoryIsDisk
  <1>2. /\ draft.proposal \in Proposed /\ draft.tradeId \in Int
        /\ draft.decision \in {"none", "intended_order", "no_trade"}
    BY DEF DeepTyped, CycleStates
  <1>3. mem.done = 8 => draft.decision \in {"intended_order", "no_trade"}
    BY <1>2 DEF DraftFollows
  <1>4. \/ mem.done = 0 /\ Node = "cycle_open"
        \/ mem.done = 1 /\ Node = "research"
        \/ mem.done = 2 /\ Node = "verify"
        \/ mem.done = 3 /\ Node = "debate_gate"
        \/ mem.done = 4 /\ Node = "debate"
        \/ mem.done = 5 /\ Node = "ballot"
        \/ mem.done = 6 /\ Node = "pm"
        \/ mem.done = 7 /\ Node = "risk_gate"
        \/ mem.done = 8 /\ Node = "terminal"
        \/ mem.done = 9 /\ Node = "post_mortem"
    BY <1>1 DEF Node, NodeOrder
  <1>5. Node \notin {"verify", "debate_gate", "risk_gate", "post_mortem"}
    BY <1>1, <1>4 DEF Emits
  <1>6. /\ EventType \in EventTypes
        /\ EventType # "cycle_failed"
        /\ EventType = "proposal_written" <=> mem.done = 6
        /\ EventType = "intended_order" <=> mem.done = 8 /\ draft.decision = "intended_order"
    BY <1>3, <1>4, <1>5 DEF EventType, EventTypes
  <1>7. mem.done = 6 \/ mem.done = 8 =>
            Body = [proposal |-> draft.proposal, tradeId |-> draft.tradeId]
    BY <1>4 DEF Body
  <1>8. Body \in [proposal : Proposed, tradeId : Int]
    BY <1>2 DEF Body, Proposed
  <1> QED
    BY <1>6, <1>7, <1>8

\* What an append does to the log of the cycle.
LEMMA EventAppended ==
    ASSUME DeepTyped, NEW type \in EventTypes,
           NEW body \in [proposal : Proposed, tradeId : Int], AppendEvent(type, body)
    PROVE  /\ events' \in Seq(Events) /\ Len(events) \in Nat
           /\ DOMAIN events = 1..Len(events)
           /\ DOMAIN events' = DOMAIN events \cup {Len(events) + 1}
           /\ \A i \in DOMAIN events : events'[i] = events[i]
           /\ events'[Len(events) + 1] = [type |-> type, node |-> mem.done + 1, slot |-> slot,
                                          body |-> body, life |-> life]
           /\ \A i \in DOMAIN events : events[i].node \in Int /\ events[i].slot \in Int
                                       /\ events[i].life \in Int
  <1>1. [type |-> type, node |-> mem.done + 1, slot |-> slot, body |-> body, life |-> life]
            \in Events
    <2>1. mem.done + 1 \in Int /\ slot \in Int /\ life \in Int
      BY DEF DeepTyped, CycleStates
    <2> QED
      BY <2>1 DEF Events
  <1>2. \A e \in Events : e.node \in Int /\ e.slot \in Int /\ e.life \in Int
    BY DEF Events
  <1> QED
    BY <1>1, <1>2, AppendRow DEF AppendEvent, DeepTyped

\* Appending an event of another type leaves what the log says last.
LEMMA RecordsStay ==
    ASSUME DeepTyped, NEW type \in EventTypes,
           NEW body \in [proposal : Proposed, tradeId : Int], AppendEvent(type, body)
    PROVE  /\ type # "proposal_written" =>
                  \A p : ProposalOnRecord(p) => ProposalOnRecord(p)'
           /\ type # "intended_order" =>
                  \A p, id : OrderOnRecord(p, id) => OrderOnRecord(p, id)'
           /\ type = "proposal_written" => ProposalOnRecord(body.proposal)'
           /\ type = "intended_order" => OrderOnRecord(body.proposal, body.tradeId)'
  <1> DEFINE n == Len(events) + 1
  <1>1. /\ Len(events) \in Nat /\ DOMAIN events = 1..Len(events)
        /\ DOMAIN events' = DOMAIN events \cup {n}
        /\ \A i \in DOMAIN events : events'[i] = events[i]
        /\ events'[n] = [type |-> type, node |-> mem.done + 1, slot |-> slot,
                         body |-> body, life |-> life]
    BY EventAppended
  <1>2. \A j \in DOMAIN events' : j <= n
    BY <1>1
  <1> HIDE DEF n
  <1>3. events'[n].type = type /\ events'[n].body = body
    BY <1>1
  <1>4. body = [proposal |-> body.proposal, tradeId |-> body.tradeId]
    OBVIOUS
  <1>5. \E k \in DOMAIN events' : LastAt(type, k)' /\ events'[k].body = body
    BY <1>1, <1>2, <1>3 DEF LastAt
  <1>6. \A t, i : t # type /\ LastAt(t, i) => LastAt(t, i)'
    BY <1>1, <1>3 DEF LastAt
  <1>7. type = "proposal_written" => ProposalOnRecord(body.proposal)'
    BY <1>5 DEF ProposalOnRecord
  <1>8. type = "intended_order" => OrderOnRecord(body.proposal, body.tradeId)'
    BY <1>4, <1>5 DEF OrderOnRecord
  <1>9. type # "proposal_written" => \A p : ProposalOnRecord(p) => ProposalOnRecord(p)'
    BY <1>1, <1>6 DEF ProposalOnRecord
  <1>10. type # "intended_order" => \A p, id : OrderOnRecord(p, id) => OrderOnRecord(p, id)'
    BY <1>1, <1>6 DEF OrderOnRecord
  <1> QED
    BY <1>7, <1>8, <1>9, <1>10

\* The running node adds its event behind those of its life, and no failure is there.
LEMMA RepeatsStay ==
    ASSUME DeepInv, NEW type \in EventTypes,
           NEW body \in [proposal : Proposed, tradeId : Int], AppendEvent(type, body),
           slot >= 0, ~draft.halted
    PROVE  RepeatsAreKills'
  <1> DEFINE n == Len(events) + 1
  <1>1. /\ Len(events) \in Nat /\ DOMAIN events = 1..Len(events)
        /\ DOMAIN events' = DOMAIN events \cup {n}
        /\ \A i \in DOMAIN events : events'[i] = events[i]
        /\ events'[n] = [type |-> type, node |-> mem.done + 1, slot |-> slot,
                         body |-> body, life |-> life]
    BY EventAppended DEF DeepInv
  <1>2. \A i \in DOMAIN events : i < n /\ i \in Int
    BY <1>1
  <1>3. n \in Int /\ n \notin DOMAIN events
    BY <1>1
  <1> HIDE DEF n
  <1>4. mem = disk /\ ~disk.halted
    BY DEF DeepInv, MemoryIsDisk
  <1>5. /\ events'[n].node = disk.done + 1 /\ events'[n].life = life
        /\ events'[n].slot = slot
    BY <1>1, <1>4
  <1>6. \A i \in DOMAIN events :
            /\ events[i].node <= events'[n].node
            /\ events[i].life = events'[n].life =>
                  /\ events[i].type # "cycle_failed"
                  /\ events[i].node = events'[n].node => events[i].slot < events'[n].slot
    BY <1>4, <1>5 DEF DeepInv, EventsBehind, ThisLife
  <1>7. ASSUME NEW i \in DOMAIN events', NEW j \in DOMAIN events', i < j
        PROVE  /\ events'[i].node <= events'[j].node
               /\ events'[i].life = events'[j].life =>
                     /\ events'[i].type # "cycle_failed"
                     /\ events'[i].node = events'[j].node /\ events'[j].type # "cycle_failed"
                           => events'[i].slot < events'[j].slot
    <2>1. i \in DOMAIN events
      BY <1>1, <1>2, <1>3, <1>7
    <2>2. CASE j \in DOMAIN events
      BY <1>1, <1>7, <2>1, <2>2 DEF DeepInv, RepeatsAreKills
    <2>3. CASE j = n
      BY <1>1, <1>6, <2>1, <2>3
    <2> QED
      BY <1>1, <2>2, <2>3
  <1> QED
    BY <1>7 DEF RepeatsAreKills

-----------------------------------------------------------------------------
(* Every step keeps the invariant. *)

\* Nothing logged, nothing checkpointed.
LEMMA DeepInitInv == DeepInit => DeepInv
  <1> SUFFICES ASSUME DeepInit PROVE DeepInv
    OBVIOUS
  <1>1. events \in Seq(Events) /\ DOMAIN events = {}
    BY DEF DeepInit
  <1>2. Fresh \in CycleStates
    BY DEF Fresh, CycleStates, Proposed
  <1>3. DeepTyped /\ MemoryIsDisk
    BY <1>1, <1>2 DEF DeepInit, DeepTyped, MemoryIsDisk
  <1>4. Sound(disk) /\ disk.proposal = NoProposal /\ disk.decision = "none"
    BY DEF DeepInit, Fresh, Sound
  <1>5. DraftFollows /\ EventsBehind /\ ThisLife /\ RepeatsAreKills
    BY <1>1 DEF DeepInit, DraftFollows, EventsBehind, ThisLife, RepeatsAreKills
  <1> QED
    BY <1>3, <1>4, <1>5 DEF DeepInv, Recorded, DeepInit

\* A node begins: its updates are computed, nothing is appended yet.
LEMMA BeginStep == ASSUME DeepInv, BeginNode PROVE DeepInv'
  <1>1. /\ running /\ slot = -1 /\ ~Finished(mem) /\ slot' = 0
        /\ UNCHANGED <<events, disk, mem, running, life>>
    BY DEF BeginNode
  <1>2. mem \in CycleStates /\ mem = disk /\ Sound(mem)
    BY <1>1 DEF DeepInv, DeepTyped, MemoryIsDisk
  <1>3. ~mem.halted /\ mem.done \in 0..9
    BY <1>1, <1>2 DEF Finished, NodeOrder, CycleStates
  <1>4. PICK p \in Proposed :
            /\ Node # "pm" => p = NoProposal
            /\ draft' = CASE Node = "pm"        -> [mem EXCEPT !.proposal = p]
                          [] Node = "risk_gate" -> [mem EXCEPT !.passed =
                                 mem.proposal # NoProposal /\ mem.proposal.fits]
                          [] Node = "terminal" /\ mem.passed ->
                                 [mem EXCEPT !.decision = "intended_order", !.tradeId = life]
                          [] Node = "terminal" /\ ~mem.passed ->
                                 [mem EXCEPT !.decision = "no_trade"]
                          [] OTHER -> mem
    BY DEF BeginNode, Proposed
  <1>5. draft' \in CycleStates /\ ~draft'.halted /\ DraftFollows'
    <2>1. CASE mem.done = 6
      <3>1. draft' = [mem EXCEPT !.proposal = p]
        BY <1>3, <1>4, <2>1, NodeIs
      <3> QED
        BY <1>1, <1>2, <1>3, <2>1, <3>1 DEF DraftFollows, CycleStates
    <2>2. CASE mem.done = 7
      <3> DEFINE fits == mem.proposal # NoProposal /\ mem.proposal.fits
      <3>1. draft' = [mem EXCEPT !.passed = fits]
        BY <1>3, <1>4, <2>2, NodeIs
      <3>2. fits \in BOOLEAN
        OBVIOUS
      <3>3. fits => mem.proposal # NoProposal /\ mem.proposal.fits
        OBVIOUS
      <3> HIDE DEF fits
      <3>4. draft' \in CycleStates /\ draft'.passed = fits /\ ~draft'.halted
        BY <1>2, <1>3, <3>1, <3>2 DEF CycleStates
      <3>5. /\ draft'.done = mem.done /\ draft'.proposal = mem.proposal
            /\ draft'.decision = mem.decision /\ draft'.tradeId = mem.tradeId
        BY <1>2, <3>1 DEF CycleStates
      <3>6. draft'.passed => mem.proposal # NoProposal /\ mem.proposal.fits
        BY <3>3, <3>4
      <3> QED
        BY <1>1, <2>2, <3>4, <3>5, <3>6 DEF DraftFollows
    <2>3. CASE mem.done = 8
      <3>1. \/ mem.passed /\ draft' = [mem EXCEPT !.decision = "intended_order", !.tradeId = life]
            \/ ~mem.passed /\ draft' = [mem EXCEPT !.decision = "no_trade"]
        BY <1>3, <1>4, <2>3, NodeIs
      <3>2. life \in Int
        BY DEF DeepInv, DeepTyped
      <3>3. draft' \in CycleStates
        BY <1>2, <3>1, <3>2 DEF CycleStates
      <3>4. /\ draft'.done = mem.done /\ draft'.proposal = mem.proposal
            /\ draft'.passed = mem.passed /\ draft'.halted = mem.halted
        BY <1>2, <3>1 DEF CycleStates
      <3>5. (draft'.decision = "intended_order" /\ mem.passed) \/ draft'.decision = "no_trade"
        BY <1>2, <3>1 DEF CycleStates
      <3> QED
        BY <1>1, <1>3, <2>3, <3>3, <3>4, <3>5 DEF DraftFollows
    <2>4. CASE mem.done \notin {6, 7, 8}
      <3>1. draft' = mem
        BY <1>3, <1>4, <2>4, NodeIs
      <3> QED
        BY <1>1, <1>2, <1>3, <2>4, <3>1 DEF DraftFollows, CycleStates
    <2> QED
      BY <2>1, <2>2, <2>3, <2>4
  <1>6. DeepTyped' /\ MemoryIsDisk'
    BY <1>1, <1>2, <1>3, <1>5 DEF DeepInv, DeepTyped, MemoryIsDisk
  <1>7. ThisLife'
    BY <1>1, <1>2, <1>3 DEF DeepInv, ThisLife
  <1>8. Sound(disk)' /\ EventsBehind' /\ RepeatsAreKills'
    BY <1>1 DEF DeepInv, Sound, EventsBehind, RepeatsAreKills
  <1>9. Recorded'
    BY <1>1 DEF DeepInv, Recorded, ProposalOnRecord, OrderOnRecord, LastAt
  <1> QED
    BY <1>5, <1>6, <1>7, <1>8, <1>9 DEF DeepInv

\* A node appends its next event.
LEMMA EmitStep == ASSUME DeepInv, Emit PROVE DeepInv'
  <1> DEFINE n == Len(events) + 1
  <1>1. /\ running /\ slot >= 0 /\ slot < Emits /\ ~draft.halted
        /\ AppendEvent(EventType, Body) /\ slot' = slot + 1
        /\ UNCHANGED <<disk, mem, draft, running, life>>
    BY DEF Emit
  <1>2. /\ EventType \in EventTypes /\ EventType # "cycle_failed"
        /\ EventType = "proposal_written" <=> mem.done = 6
        /\ EventType = "intended_order" <=> mem.done = 8 /\ draft.decision = "intended_order"
        /\ mem.done = 6 \/ mem.done = 8 =>
               Body = [proposal |-> draft.proposal, tradeId |-> draft.tradeId]
        /\ Body \in [proposal : Proposed, tradeId : Int]
    BY <1>1, EventIs DEF DeepInv
  <1>3. mem = disk /\ ~mem.halted /\ mem.done \in 0..9 /\ slot \in Int
    BY <1>1 DEF DeepInv, MemoryIsDisk, DeepTyped, CycleStates
  <1>4. /\ events' \in Seq(Events) /\ Len(events) \in Nat /\ DOMAIN events = 1..Len(events)
        /\ DOMAIN events' = DOMAIN events \cup {n}
        /\ \A i \in DOMAIN events : events'[i] = events[i]
        /\ events'[n] = [type |-> EventType, node |-> mem.done + 1, slot |-> slot,
                         body |-> Body, life |-> life]
        /\ \A i \in DOMAIN events : events[i].slot \in Int
    BY <1>1, <1>2, EventAppended DEF DeepInv
  <1> HIDE DEF n
  <1>5. DeepTyped' /\ MemoryIsDisk' /\ Sound(disk)'
    BY <1>1, <1>3, <1>4 DEF DeepInv, DeepTyped, MemoryIsDisk, Sound
  <1>6. DraftFollows'
    BY <1>1, <1>3 DEF DeepInv, DraftFollows
  <1>7. EventsBehind'
    <2>1. events'[n].node = disk.done + 1 /\ events'[n].life = life /\ life \in Int
          /\ disk.done \in Int
      BY <1>3, <1>4 DEF DeepInv, DeepTyped
    <2> QED
      BY <1>1, <1>4, <2>1 DEF DeepInv, EventsBehind
  <1>8. ThisLife'
    <2>1. events'[n].type # "cycle_failed" /\ events'[n].slot < slot'
      BY <1>1, <1>2, <1>3, <1>4
    <2>2. slot' >= 0
      BY <1>1, <1>3
    <2>3. \A i \in DOMAIN events : events[i].slot < slot => events[i].slot < slot'
      BY <1>1, <1>3, <1>4
    <2> QED
      BY <1>1, <1>4, <2>1, <2>2, <2>3 DEF DeepInv, ThisLife
  <1>9. Recorded'
    <2>1. disk.proposal # NoProposal => mem.done # 6
      BY <1>3 DEF DeepInv, Sound
    <2>2. disk.decision = "intended_order" => mem.done # 8
      BY <1>3 DEF DeepInv, Sound
    <2>3. disk.proposal # NoProposal => ProposalOnRecord(disk.proposal)'
      BY <1>1, <1>2, <2>1, RecordsStay DEF DeepInv, Recorded
    <2>4. disk.decision = "intended_order" => OrderOnRecord(disk.proposal, disk.tradeId)'
      BY <1>1, <1>2, <2>2, RecordsStay DEF DeepInv, Recorded
    <2>5. mem.done = 6 => ProposalOnRecord(draft.proposal)'
      BY <1>1, <1>2, RecordsStay DEF DeepInv
    <2>6. mem.done = 8 /\ draft.decision = "intended_order" =>
              OrderOnRecord(draft.proposal, draft.tradeId)'
      BY <1>1, <1>2, RecordsStay DEF DeepInv
    <2> QED
      BY <1>1, <2>3, <2>4, <2>5, <2>6 DEF Recorded
  <1>10. RepeatsAreKills'
    BY <1>1, <1>2, RepeatsStay
  <1> QED
    BY <1>5, <1>6, <1>7, <1>8, <1>9, <1>10 DEF DeepInv

\* A node raises: its failure is logged and its updates are dropped.
LEMMA RaiseStep == ASSUME DeepInv, Raise PROVE DeepInv'
  <1> DEFINE n == Len(events) + 1
             body == [proposal |-> NoProposal, tradeId |-> -1]
  <1>1. /\ running /\ slot >= 0 /\ ~draft.halted
        /\ AppendEvent("cycle_failed", body)
        /\ draft' = [mem EXCEPT !.halted = TRUE]
        /\ UNCHANGED <<disk, mem, slot, running, life>>
    BY DEF Raise
  <1>2. "cycle_failed" \in EventTypes /\ body \in [proposal : Proposed, tradeId : Int]
    BY DEF EventTypes, Proposed
  <1>3. mem = disk /\ mem \in CycleStates
    BY <1>1 DEF DeepInv, MemoryIsDisk, DeepTyped
  <1>4. draft' \in CycleStates /\ draft'.halted
    BY <1>1, <1>3 DEF CycleStates
  <1>5. /\ events' \in Seq(Events) /\ DOMAIN events' = DOMAIN events \cup {n}
        /\ \A i \in DOMAIN events : events'[i] = events[i]
        /\ events'[n] = [type |-> "cycle_failed", node |-> mem.done + 1, slot |-> slot,
                         body |-> body, life |-> life]
    BY <1>1, <1>2, EventAppended DEF DeepInv
  <1>6. \A p : ProposalOnRecord(p) => ProposalOnRecord(p)'
    BY <1>1, <1>2, RecordsStay DEF DeepInv
  <1>7. \A p, id : OrderOnRecord(p, id) => OrderOnRecord(p, id)'
    BY <1>1, <1>2, RecordsStay DEF DeepInv
  <1>8. RepeatsAreKills'
    BY <1>1, <1>2, RepeatsStay
  <1> HIDE DEF n, body
  <1>9. DeepTyped' /\ MemoryIsDisk' /\ Sound(disk)'
    BY <1>1, <1>4, <1>5 DEF DeepInv, DeepTyped, MemoryIsDisk, Sound
  <1>10. DraftFollows'
    BY <1>1, <1>4 DEF DraftFollows
  <1>11. EventsBehind'
    <2>1. events'[n].node = disk.done + 1 /\ events'[n].life = life /\ life \in Int
          /\ disk.done \in Int
      BY <1>3, <1>5 DEF DeepInv, DeepTyped, CycleStates
    <2> QED
      BY <1>1, <1>5, <2>1 DEF DeepInv, EventsBehind
  <1>12. ThisLife'
    BY <1>1, <1>4 DEF ThisLife
  <1>13. Recorded'
    BY <1>1, <1>4, <1>6, <1>7 DEF DeepInv, Recorded
  <1> QED
    BY <1>8, <1>9, <1>10, <1>11, <1>12, <1>13 DEF DeepInv

\* A node has returned and its updates are saved.
LEMMA CheckpointStep == ASSUME DeepInv, Checkpoint PROVE DeepInv'
  <1>1. /\ running /\ slot >= 0 /\ slot = Emits /\ ~draft.halted
        /\ mem' = [draft EXCEPT !.done = @ + 1] /\ disk' = mem' /\ slot' = -1
        /\ UNCHANGED <<events, draft, running, life>>
    BY DEF Checkpoint
  <1>2. /\ mem = disk /\ ~mem.halted /\ mem.done \in 0..9
        /\ mem \in CycleStates /\ draft \in CycleStates
    BY <1>1 DEF DeepInv, MemoryIsDisk, DeepTyped, CycleStates
  <1>3. /\ draft.done = mem.done
        /\ mem.done # 6 => draft.proposal = mem.proposal
        /\ mem.done # 7 => draft.passed = mem.passed
        /\ mem.done = 7 /\ draft.passed => mem.proposal # NoProposal /\ mem.proposal.fits
        /\ mem.done # 8 => draft.decision = mem.decision /\ draft.tradeId = mem.tradeId
        /\ mem.done = 8 /\ draft.decision = "intended_order" => mem.passed
    BY <1>1 DEF DeepInv, DraftFollows
  <1>4. /\ disk'.done = mem.done + 1 /\ disk'.proposal = draft.proposal
        /\ disk'.passed = draft.passed /\ disk'.decision = draft.decision
        /\ disk'.tradeId = draft.tradeId /\ disk'.halted = draft.halted
        /\ disk' \in CycleStates
    BY <1>1, <1>2, <1>3 DEF CycleStates
  <1>5. DeepTyped' /\ MemoryIsDisk' /\ DraftFollows'
    BY <1>1, <1>4 DEF DeepInv, DeepTyped, MemoryIsDisk, DraftFollows
  <1>6. Sound(mem)
    BY <1>2 DEF DeepInv
  <1>7. Sound(disk)'
    <2>1. disk'.done < 7 => disk'.proposal = NoProposal
      BY <1>2, <1>3, <1>4, <1>6 DEF Sound
    <2>2. disk'.done < 8 => ~disk'.passed
      BY <1>2, <1>3, <1>4, <1>6 DEF Sound
    <2>3. disk'.done < 9 => disk'.decision = "none"
      BY <1>2, <1>3, <1>4, <1>6 DEF Sound
    <2>4. disk'.passed => disk'.proposal # NoProposal /\ disk'.proposal.fits
      <3> SUFFICES ASSUME draft.passed
                   PROVE  draft.proposal # NoProposal /\ draft.proposal.fits
        BY <1>4
      <3>1. CASE mem.done = 7
        BY <1>3, <3>1
      <3>2. CASE mem.done # 7
        <4>1. mem.passed
          BY <1>3, <3>2
        <4>2. ~(mem.done < 8)
          BY <1>6, <4>1 DEF Sound
        <4>3. draft.proposal = mem.proposal
          BY <1>2, <1>3, <4>2
        <4> QED
          BY <1>6, <4>1, <4>3 DEF Sound
      <3> QED
        BY <3>1, <3>2
    <2>5. disk'.decision = "intended_order" => disk'.passed
      BY <1>2, <1>3, <1>4, <1>6 DEF Sound
    <2> QED
      BY <2>1, <2>2, <2>3, <2>4, <2>5 DEF Sound
  <1>8. EventsBehind' /\ ThisLife'
    <2>1. \A i \in DOMAIN events : events[i].node \in Int
      <3>1. \A e \in Events : e.node \in Int
        BY DEF Events
      <3> QED
        BY <3>1 DEF DeepInv, DeepTyped
    <2>2. \A i \in DOMAIN events : events[i].node < disk'.done + 1
      BY <1>2, <1>4, <2>1 DEF DeepInv, EventsBehind
    <2>3. \A i \in DOMAIN events : events[i].node <= disk'.done + 1
                                   /\ events[i].node # disk'.done + 1
      BY <1>2, <1>4, <2>1, <2>2
    <2>4. \A i \in DOMAIN events : events[i].life = life => events[i].type # "cycle_failed"
      BY <1>1, <1>2 DEF DeepInv, ThisLife
    <2> QED
      BY <1>1, <2>3, <2>4 DEF DeepInv, EventsBehind, ThisLife
  <1>9. Recorded'
    <2>1. mem.done = 6 /\ draft.proposal # NoProposal => ProposalOnRecord(draft.proposal)
      BY <1>1, <1>2, NodeIs DEF DeepInv, Recorded
    <2>2. mem.done # 6 /\ draft.proposal # NoProposal => ProposalOnRecord(draft.proposal)
      BY <1>2, <1>3 DEF DeepInv, Recorded
    <2>3. mem.done = 8 /\ draft.decision = "intended_order" =>
              OrderOnRecord(draft.proposal, draft.tradeId)
      BY <1>1, <1>2, NodeIs DEF DeepInv, Recorded
    <2>4. mem.done # 8 /\ draft.decision = "intended_order" =>
              OrderOnRecord(draft.proposal, draft.tradeId)
      <3> SUFFICES ASSUME mem.done # 8, draft.decision = "intended_order"
                   PROVE  OrderOnRecord(draft.proposal, draft.tradeId)
        OBVIOUS
      <3>1. disk.decision = "intended_order" /\ draft.tradeId = disk.tradeId
        BY <1>2, <1>3
      <3>2. mem.done >= 9
        BY <1>2, <1>6, <3>1 DEF Sound
      <3>3. draft.proposal = disk.proposal
        BY <1>2, <1>3, <3>2
      <3> QED
        BY <3>1, <3>3 DEF DeepInv, Recorded
    <2>5. \A p : ProposalOnRecord(p) => ProposalOnRecord(p)'
      BY <1>1 DEF ProposalOnRecord, LastAt
    <2>6. \A p, id : OrderOnRecord(p, id) => OrderOnRecord(p, id)'
      BY <1>1 DEF OrderOnRecord, LastAt
    <2> QED
      BY <1>1, <1>4, <2>1, <2>2, <2>3, <2>4, <2>5, <2>6 DEF Recorded
  <1>10. RepeatsAreKills'
    BY <1>1 DEF DeepInv, RepeatsAreKills
  <1> QED
    BY <1>5, <1>7, <1>8, <1>9, <1>10 DEF DeepInv

\* A node has failed and the halted state is saved.
LEMMA CheckpointFailureStep == ASSUME DeepInv, CheckpointFailure PROVE DeepInv'
  <1>1. /\ running /\ slot >= 0 /\ draft.halted
        /\ mem' = draft /\ disk' = draft /\ slot' = -1
        /\ UNCHANGED <<events, draft, running, life>>
    BY DEF CheckpointFailure
  <1>2. mem = disk /\ mem \in CycleStates /\ draft \in CycleStates
    BY <1>1 DEF DeepInv, MemoryIsDisk, DeepTyped
  <1>3. draft = [mem EXCEPT !.halted = TRUE]
    BY <1>1 DEF DeepInv, DraftFollows
  <1>4. /\ disk'.done = disk.done /\ disk'.proposal = disk.proposal
        /\ disk'.passed = disk.passed /\ disk'.decision = disk.decision
        /\ disk'.tradeId = disk.tradeId /\ disk'.halted
    BY <1>1, <1>2, <1>3 DEF CycleStates
  <1>5. DeepTyped' /\ MemoryIsDisk' /\ DraftFollows'
    BY <1>1, <1>2 DEF DeepInv, DeepTyped, MemoryIsDisk, DraftFollows
  <1>6. Sound(disk)' /\ EventsBehind' /\ ThisLife' /\ RepeatsAreKills'
    BY <1>1, <1>4 DEF DeepInv, Sound, EventsBehind, ThisLife, RepeatsAreKills
  <1>7. Recorded'
    <2>1. \A p : ProposalOnRecord(p) => ProposalOnRecord(p)'
      BY <1>1 DEF ProposalOnRecord, LastAt
    <2>2. \A p, id : OrderOnRecord(p, id) => OrderOnRecord(p, id)'
      BY <1>1 DEF OrderOnRecord, LastAt
    <2> QED
      BY <1>1, <1>4, <2>1, <2>2 DEF DeepInv, Recorded
  <1> QED
    BY <1>5, <1>6, <1>7 DEF DeepInv

\* A kill loses what the process held, and starts a life without events.
LEMMA KillStep == ASSUME DeepInv, KillCycle PROVE DeepInv'
  <1>1. /\ running /\ life' = life + 1 /\ running' = FALSE
        /\ mem' = Fresh /\ draft' = Fresh /\ slot' = -1
        /\ UNCHANGED <<events, disk>>
    BY DEF KillCycle
  <1>2. Fresh \in CycleStates
    BY DEF Fresh, CycleStates, Proposed
  <1>3. DeepTyped' /\ MemoryIsDisk' /\ DraftFollows'
    <2>1. life' \in Nat
      BY <1>1 DEF DeepInv, DeepTyped
    <2>2. (slot' \in Int /\ slot' >= -1) /\ running' \in BOOLEAN
      <3>1. slot' \in Int /\ slot' >= -1
        BY <1>1
      <3>2. running' = FALSE
        BY <1>1
      <3>3. running' \in BOOLEAN
        BY <3>2, Zenon
      <3> QED
        BY <3>1, <3>3
    <2>3. /\ events' \in Seq(Events)
          /\ disk' \in CycleStates /\ mem' \in CycleStates /\ draft' \in CycleStates
      BY <1>1, <1>2 DEF DeepInv, DeepTyped
    <2>4. DeepTyped'
      BY <2>1, <2>2, <2>3 DEF DeepTyped
    <2> QED
      BY <1>1, <2>4 DEF MemoryIsDisk, DraftFollows
  <1>4. \A i \in DOMAIN events : events[i].life <= life' /\ events[i].life # life'
    <2>1. \A e \in Events : e.life \in Int
      BY DEF Events
    <2>2. \A i \in DOMAIN events : events[i].life \in Int /\ events[i].life <= life
      BY <2>1 DEF DeepInv, DeepTyped, EventsBehind
    <2>3. life \in Nat
      BY DEF DeepInv, DeepTyped
    <2> QED
      BY <1>1, <2>2, <2>3
  <1>5. EventsBehind' /\ ThisLife'
    BY <1>1, <1>4 DEF DeepInv, EventsBehind, ThisLife
  <1>6. Sound(disk)' /\ RepeatsAreKills'
    BY <1>1 DEF DeepInv, Sound, RepeatsAreKills
  <1>7. Recorded'
    BY <1>1 DEF DeepInv, Recorded, ProposalOnRecord, OrderOnRecord, LastAt
  <1> QED
    BY <1>3, <1>5, <1>6, <1>7 DEF DeepInv

\* The cycle goes on from what is on disk.
LEMMA ResumeStep == ASSUME DeepInv, Resume PROVE DeepInv'
  <1>1. /\ ~running /\ running' = TRUE /\ mem' = disk
        /\ UNCHANGED <<events, disk, draft, slot, life>>
    BY DEF Resume
  <1>2. ~(slot >= 0) /\ ~(slot >= 1)
    BY <1>1 DEF DeepInv, MemoryIsDisk, DeepTyped
  <1>3. DeepTyped' /\ MemoryIsDisk' /\ DraftFollows'
    BY <1>1, <1>2 DEF DeepInv, DeepTyped, MemoryIsDisk, DraftFollows
  <1>4. Sound(disk)' /\ EventsBehind' /\ ThisLife' /\ RepeatsAreKills'
    BY <1>1 DEF DeepInv, Sound, EventsBehind, ThisLife, RepeatsAreKills
  <1>5. Recorded'
    BY <1>1, <1>2 DEF DeepInv, Recorded, ProposalOnRecord, OrderOnRecord, LastAt
  <1> QED
    BY <1>3, <1>4, <1>5 DEF DeepInv

\* Every step of the cycle, a stutter included.
LEMMA DeepStepInv == DeepInv /\ [DeepNext]_deepVars => DeepInv'
  <1>1. ASSUME DeepInv, UNCHANGED deepVars PROVE DeepInv'
    <2>1. DeepTyped' /\ MemoryIsDisk' /\ DraftFollows' /\ Sound(disk)'
      BY <1>1 DEF deepVars, DeepInv, DeepTyped, MemoryIsDisk, DraftFollows, Sound
    <2>2. EventsBehind' /\ ThisLife' /\ RepeatsAreKills'
      BY <1>1 DEF deepVars, DeepInv, EventsBehind, ThisLife, RepeatsAreKills
    <2>3. Recorded'
      BY <1>1 DEF deepVars, DeepInv, Recorded, ProposalOnRecord, OrderOnRecord, LastAt
    <2> QED
      BY <2>1, <2>2, <2>3 DEF DeepInv
  <1> QED
    BY <1>1, BeginStep, EmitStep, RaiseStep, CheckpointStep, CheckpointFailureStep, KillStep,
       ResumeStep DEF DeepNext

\* The inductive invariant holds in every reachable state.
THEOREM DeepLoopInvariant == DeepSpec => []DeepInv
  <1>1. DeepInit => DeepInv
    BY DeepInitInv
  <1>2. DeepInv /\ [DeepNext]_deepVars => DeepInv'
    BY DeepStepInv
  <1> QED
    BY <1>1, <1>2, PTL DEF DeepSpec

-----------------------------------------------------------------------------
(* The theorems. *)

\* Whatever is repeated in the log of a cycle is repeated because of a kill.
THEOREM OnlyKillsRepeat == DeepSpec => []RepeatsAreKills
  BY DeepLoopInvariant, PTL DEF DeepInv

\* The last event of a type is the one no later event of the type follows.
LEMMA LatestIs ==
    ASSUME DeepTyped, NEW type, NEW i, LastAt(type, i)
    PROVE  Latest(type) = events[i]
  <1> DEFINE at == {k \in DOMAIN events : events[k].type = type}
  <1>1. \A k \in at : k \in Int
    BY DEF DeepTyped
  <1>2. i \in at /\ \A j \in at : j <= i
    BY DEF LastAt
  <1>3. \A k \in at : (\A j \in at : j <= k) => k = i
    BY <1>1, <1>2
  <1> HIDE DEF at
  <1>4. (CHOOSE k \in at : \A j \in at : j <= k) = i
    BY <1>2, <1>3
  <1> QED
    BY <1>4 DEF Latest, at

\* The decision of the checkpoints is the last one in the log.
THEOREM LastRecordDecides == DeepSpec => []DecisionIsLastRecorded
  <1>1. DeepInv => DecisionIsLastRecorded
    <2> SUFFICES ASSUME DeepInv, disk.decision = "intended_order"
                 PROVE  /\ Has("intended_order") /\ Has("proposal_written")
                        /\ Latest("intended_order").body =
                               [proposal |-> disk.proposal, tradeId |-> disk.tradeId]
                        /\ Latest("proposal_written").body.proposal = disk.proposal
                        /\ disk.proposal.fits
      BY DEF DecisionIsLastRecorded
    <2>1. disk.proposal # NoProposal /\ disk.proposal.fits
      BY DEF DeepInv, Sound
    <2>2. PICK i \in DOMAIN events :
              LastAt("proposal_written", i) /\ events[i].body.proposal = disk.proposal
      BY <2>1 DEF DeepInv, Recorded, ProposalOnRecord
    <2>3. PICK j \in DOMAIN events :
              /\ LastAt("intended_order", j)
              /\ events[j].body = [proposal |-> disk.proposal, tradeId |-> disk.tradeId]
      BY DEF DeepInv, Recorded, OrderOnRecord
    <2>4. Latest("proposal_written") = events[i] /\ Latest("intended_order") = events[j]
      BY <2>2, <2>3, LatestIs DEF DeepInv
    <2>5. Has("intended_order") /\ Has("proposal_written")
      BY <2>2, <2>3 DEF Has, LastAt
    <2> QED
      BY <2>1, <2>2, <2>3, <2>4, <2>5
  <1> QED
    BY <1>1, DeepLoopInvariant, PTL

\* A decision that is checkpointed stands: no rerun, failure or resume revises it, its
\* proposal or its trade id.
THEOREM DecisionStands ==
    DeepSpec => [][disk.decision # "none" =>
                       /\ disk'.decision = disk.decision
                       /\ disk'.proposal = disk.proposal
                       /\ disk'.tradeId = disk.tradeId]_deepVars
  <1>1. DeepInv /\ [DeepNext]_deepVars =>
            [disk.decision # "none" =>
                 /\ disk'.decision = disk.decision
                 /\ disk'.proposal = disk.proposal
                 /\ disk'.tradeId = disk.tradeId]_deepVars
    <2> SUFFICES ASSUME DeepInv, DeepNext, disk.decision # "none"
                 PROVE  /\ disk'.decision = disk.decision
                        /\ disk'.proposal = disk.proposal
                        /\ disk'.tradeId = disk.tradeId
      OBVIOUS
    <2>1. disk.done >= 9 /\ disk \in CycleStates /\ draft \in CycleStates
      BY DEF DeepInv, Sound, DeepTyped, CycleStates
    <2>2. CASE Checkpoint
      <3>1. /\ running /\ slot >= 0 /\ ~draft.halted
            /\ disk' = [draft EXCEPT !.done = @ + 1]
        BY <2>2 DEF Checkpoint
      <3>2. mem = disk
        BY <3>1 DEF DeepInv, MemoryIsDisk
      <3>3. /\ draft.proposal = disk.proposal /\ draft.decision = disk.decision
            /\ draft.tradeId = disk.tradeId
        BY <2>1, <3>1, <3>2 DEF DeepInv, DraftFollows
      <3> QED
        BY <2>1, <3>1, <3>3 DEF CycleStates
    <2>3. CASE CheckpointFailure
      <3>1. running /\ slot >= 0 /\ draft.halted /\ disk' = draft
        BY <2>3 DEF CheckpointFailure
      <3>2. mem = disk
        BY <3>1 DEF DeepInv, MemoryIsDisk
      <3>3. draft = [disk EXCEPT !.halted = TRUE]
        BY <3>1, <3>2 DEF DeepInv, DraftFollows
      <3> QED
        BY <2>1, <3>1, <3>3 DEF CycleStates
    <2>4. CASE BeginNode \/ Emit \/ Raise \/ KillCycle \/ Resume
      BY <2>4 DEF BeginNode, Emit, Raise, KillCycle, Resume
    <2> QED
      BY <2>2, <2>3, <2>4 DEF DeepNext
  <1> QED
    BY <1>1, DeepLoopInvariant, PTL DEF DeepSpec

-----------------------------------------------------------------------------
(***************************************************************************)
(* The post-mortems, for any trades, families and seats, and any number of *)
(* calls and kills.                                                        *)
(*                                                                         *)
(* PostInv adds what the running job knows: the seat it was given          *)
(* (JobSound), and that its episode is the last event of the log by the    *)
(* time its lesson is due (LessonDue).                                     *)
(***************************************************************************)

\* What PMORT-01 may append.
Captured == [type : {"post_mortem", "lesson_candidate", "pmort_pending"}, trade : Trades,
             interim : BOOLEAN, family : Seats, lesson : Lessons]

Jobs == [stage : {"asking", "capturing", "lesson", "queueing"}, trade : Trades,
         interim : BOOLEAN, family : Seats, attempts : {0, 1}, lesson : Lessons]

PostTyped ==
    /\ log \in Seq(Captured)
    /\ job = Idle \/ job \in Jobs
    /\ drain \subseteq Trades

\* A running post-mortem was given a seat it may sit in, and a lesson it has got is
\* one its window allows.
JobSound ==
    job # Idle =>
        /\ Seated(job.family, DecidedFamily[job.trade])
        /\ job.stage \in {"capturing", "lesson"} => Valid(job.interim, job.lesson)

\* What the running job has appended last, by the time its lesson is due.
EpisodeOf(j) == [type |-> "post_mortem", trade |-> j.trade, interim |-> j.interim,
                 family |-> j.family, lesson |-> j.lesson]

LessonDue ==
    job.stage = "lesson" =>
        Len(log) > 0 /\ log[Len(log)] = EpisodeOf(job)

LessonsFollow ==
    \A i \in DOMAIN log : log[i].type = "lesson_candidate" =>
        /\ i > 1
        /\ log[i - 1] = [log[i] EXCEPT !.type = "post_mortem"]
        /\ Seated(log[i].family, DecidedFamily[log[i].trade])
        /\ Valid(log[i].interim, log[i].lesson)

PostInv ==
    /\ PostTyped
    /\ JobSound
    /\ LessonDue
    /\ LessonsFollow

-----------------------------------------------------------------------------
(* Facts about the rebuilt store and the queue. *)

\* Every event of the log names a trade, a seat and a lesson.
LEMMA EventsTyped ==
    ASSUME PostTyped
    PROVE  /\ Len(log) \in Nat /\ DOMAIN log = 1..Len(log)
           /\ \A i \in DOMAIN log : log[i] \in Captured /\ log[i].trade \in Trades
  <1>1. \A e \in Captured : e.trade \in Trades
    BY DEF Captured
  <1> QED
    BY <1>1 DEF PostTyped

\* Every captured episode has a place of its own in the rebuilt store, however many
\* a trade has.
LEMMA StoreHoldsAll ==
    ASSUME PostTyped, NEW e \in Episodes
    PROVE  log[e] \in ToSet(Store)
  <1> DEFINE Upto(i) == {j \in Episodes : log[j].trade < log[i].trade
                             \/ (log[j].trade = log[i].trade /\ j <= i)}
             n == Cardinality(Episodes)
  <1>1. Episodes \subseteq 1..Len(log) /\ Len(log) \in Nat
    BY EventsTyped DEF Episodes
  <1>2. \A i \in Episodes : i \in Nat /\ log[i].trade \in Nat
    <2>1. \A t \in Trades : t \in Nat
      BY TradesAreNaturals
    <2>2. \A i \in Episodes : i \in DOMAIN log /\ i \in 1..Len(log)
      BY <1>1 DEF Episodes
    <2> QED
      BY <1>1, <2>1, <2>2, EventsTyped
  <1>3. IsFiniteSet(Episodes) /\ n \in Nat
    <2>1. IsFiniteSet(1..Len(log))
      BY <1>1, FS_Interval
    <2>2. IsFiniteSet(Episodes)
      BY <1>1, <2>1, FS_Subset
    <2> QED
      BY <2>2, FS_CardinalityType
  <1>4. \A i \in Episodes : Place(i) = Cardinality(Upto(i))
    BY DEF Place
  <1>5. \A i \in Episodes : Upto(i) \in SUBSET Episodes /\ i \in Upto(i)
    BY <1>2
  <1>6. \A i \in Episodes : IsFiniteSet(Upto(i)) /\ Cardinality(Upto(i)) \in Nat
    BY <1>3, <1>5, FS_Subset, FS_CardinalityType
  <1>7. \A i, k \in Episodes : Upto(i) \subseteq Upto(k) \/ Upto(k) \subseteq Upto(i)
    BY <1>2
  <1>8. \A i, k \in Episodes : k \in Upto(i) /\ i \in Upto(k) => i = k
    BY <1>2
  <1> HIDE DEF Upto
  <1>9. \A i, k \in Episodes : Place(i) = Place(k) => i = k
    <2> SUFFICES ASSUME NEW i \in Episodes, NEW k \in Episodes, Place(i) = Place(k)
                 PROVE  i = k
      OBVIOUS
    <2>1. Cardinality(Upto(i)) = Cardinality(Upto(k))
      BY <1>4
    <2>2. CASE Upto(i) \subseteq Upto(k)
      <3>1. Upto(i) = Upto(k)
        BY <1>6, <2>1, <2>2, FS_Subset
      <3> QED
        BY <1>5, <1>8, <3>1
    <2>3. CASE Upto(k) \subseteq Upto(i)
      <3>1. Upto(i) = Upto(k)
        BY <1>6, <2>1, <2>3, FS_Subset
      <3> QED
        BY <1>5, <1>8, <3>1
    <2> QED
      BY <1>7, <2>2, <2>3
  <1>10. Place(e) \in 1..n
    <2>1. Cardinality(Upto(e)) <= n
      BY <1>3, <1>5, FS_Subset
    <2>2. Cardinality(Upto(e)) # 0
      BY <1>5, <1>6, FS_EmptySet
    <2> QED
      BY <1>3, <1>4, <1>6, <2>1, <2>2
  <1>11. (CHOOSE i \in Episodes : Place(i) = Place(e)) = e
    BY <1>9
  <1>12. DOMAIN Store = 1..n /\ Store[Place(e)] = log[e]
    BY <1>10, <1>11 DEF Store
  <1> QED
    BY <1>10, <1>12 DEF ToSet

\* A trade is queued when a pending event names it and no episode does.
LEMMA QueueIs ==
    \A t : t \in Pending <=>
        /\ \E i \in DOMAIN log : log[i].type = "pmort_pending" /\ log[i].trade = t
        /\ ~\E i \in DOMAIN log : log[i].type = "post_mortem" /\ log[i].trade = t
  BY DEF Pending, CapturedTrades, Episodes

\* Queued trades are trades.
LEMMA QueueTyped == ASSUME PostTyped PROVE Pending \subseteq Trades
  BY QueueIs, EventsTyped

-----------------------------------------------------------------------------
(* Every step keeps the invariant. *)

\* An empty log.
LEMMA PostInitInv == PostInit => PostInv
  <1> SUFFICES ASSUME PostInit PROVE PostInv
    OBVIOUS
  <1>1. log \in Seq(Captured) /\ DOMAIN log = {}
    BY DEF PostInit
  <1>2. job = Idle /\ job.stage = "idle" /\ drain = {}
    BY DEF PostInit, Idle
  <1> QED
    BY <1>1, <1>2 DEF PostInv, PostTyped, JobSound, LessonDue, LessonsFollow

\* A job that runs is typed, and has a stage that Idle has not.
LEMMA JobTyped ==
    ASSUME PostTyped, job.stage # "idle"
    PROVE  job \in Jobs /\ job # Idle
  BY DEF PostTyped, Idle

\* A post-mortem begins with the seat it resolved, or not at all.
LEMMA RunStep ==
    ASSUME PostInv, NEW t \in Trades, NEW interim \in BOOLEAN, NEW rest \in SUBSET Trades,
           RunPmort(t, interim, rest)
    PROVE  PostInv'
  <1> DEFINE family == Resolve(DecidedFamily[t])
  <1>1. log' = log
    BY DEF RunPmort
  <1>2. CASE Seated(family, DecidedFamily[t])
    <2>1. /\ job' = [stage |-> "asking", trade |-> t, interim |-> interim,
                     family |-> family, attempts |-> 0, lesson |-> "none"]
          /\ drain' = rest
      BY <1>2 DEF RunPmort
    <2>2. family \in Seats
      BY <1>2 DEF Seated
    <2> HIDE DEF family
    <2>3. job' \in Jobs /\ job'.stage = "asking" /\ job'.family = family /\ job'.trade = t
      BY <2>1, <2>2 DEF Jobs, Lessons
    <2> QED
      BY <1>1, <1>2, <2>1, <2>3 DEF PostInv, PostTyped, JobSound, LessonDue, LessonsFollow
  <1>3. CASE ~Seated(family, DecidedFamily[t])
    <2>1. job' = Idle /\ drain' = {}
      BY <1>3 DEF RunPmort
    <2> QED
      BY <1>1, <2>1 DEF PostInv, PostTyped, JobSound, LessonDue, LessonsFollow, Idle
  <1> QED
    BY <1>2, <1>3

\* The steps that append nothing: requests, retries, answers and kills.
LEMMA SilentSteps ==
    ASSUME PostInv,
           \/ \E t \in Trades, interim \in BOOLEAN : Request(t, interim)
           \/ StartDrain
           \/ \E interim \in BOOLEAN : RetryQueued(interim)
           \/ InvalidReply
           \/ \E lesson \in Lessons : ValidReply(lesson)
           \/ Unreachable
           \/ KillPmort
    PROVE  PostInv'
  <1>1. CASE \E t \in Trades, interim \in BOOLEAN : Request(t, interim)
    BY <1>1, RunStep DEF Request
  <1>2. CASE StartDrain
    BY <1>2, QueueTyped DEF StartDrain, PostInv, PostTyped, JobSound, LessonDue, LessonsFollow
  <1>3. CASE \E interim \in BOOLEAN : RetryQueued(interim)
    <2>1. PICK interim \in BOOLEAN : RetryQueued(interim)
      BY <1>3
    <2>2. PICK t \in drain : RunPmort(t, interim, drain \ {t})
      BY <2>1 DEF RetryQueued
    <2>3. t \in Trades /\ drain \ {t} \in SUBSET Trades
      BY DEF PostInv, PostTyped
    <2> QED
      BY <2>2, <2>3, RunStep
  <1>4. CASE InvalidReply
    <2>1. job.stage = "asking" /\ log' = log
      BY <1>4 DEF InvalidReply
    <2>2. job \in Jobs /\ job # Idle
      BY <2>1, JobTyped DEF PostInv
    <2>3. \/ job' = Idle /\ drain' = {}
          \/ job' = [job EXCEPT !.attempts = 1] /\ drain' = drain
      BY <1>4 DEF InvalidReply
    <2>4. CASE job' = Idle /\ drain' = {}
      BY <2>1, <2>4 DEF PostInv, PostTyped, JobSound, LessonDue, LessonsFollow, Idle
    <2>5. CASE job' = [job EXCEPT !.attempts = 1] /\ drain' = drain
      <3>1. /\ job' \in Jobs /\ job'.stage = "asking" /\ job'.family = job.family
            /\ job'.trade = job.trade
        BY <2>1, <2>2, <2>5 DEF Jobs
      <3> QED
        BY <2>1, <2>2, <2>5, <3>1
           DEF PostInv, PostTyped, JobSound, LessonDue, LessonsFollow
    <2> QED
      BY <2>3, <2>4, <2>5
  <1>5. CASE \E lesson \in Lessons : ValidReply(lesson)
    <2>1. PICK lesson \in Lessons : ValidReply(lesson)
      BY <1>5
    <2>2. /\ job.stage = "asking" /\ log' = log /\ drain' = drain
          /\ Valid(job.interim, lesson)
          /\ job' = [job EXCEPT !.stage = "capturing", !.lesson = lesson]
      BY <2>1 DEF ValidReply
    <2>3. job \in Jobs /\ job # Idle
      BY <2>2, JobTyped DEF PostInv
    <2>4. /\ job' \in Jobs /\ job'.stage = "capturing" /\ job'.family = job.family
          /\ job'.trade = job.trade /\ job'.interim = job.interim /\ job'.lesson = lesson
      BY <2>2, <2>3 DEF Jobs
    <2> QED
      BY <2>2, <2>3, <2>4 DEF PostInv, PostTyped, JobSound, LessonDue, LessonsFollow
  <1>6. CASE Unreachable
    <2>1. /\ job.stage = "asking" /\ log' = log /\ drain' = drain
          /\ job' = [job EXCEPT !.stage = "queueing"]
      BY <1>6 DEF Unreachable
    <2>2. job \in Jobs /\ job # Idle
      BY <2>1, JobTyped DEF PostInv
    <2>3. /\ job' \in Jobs /\ job'.stage = "queueing" /\ job'.family = job.family
          /\ job'.trade = job.trade
      BY <2>1, <2>2 DEF Jobs
    <2> QED
      BY <2>1, <2>2, <2>3 DEF PostInv, PostTyped, JobSound, LessonDue, LessonsFollow
  <1>7. CASE KillPmort
    BY <1>7 DEF KillPmort, PostInv, PostTyped, JobSound, LessonDue, LessonsFollow, Idle
  <1> QED
    BY <1>1, <1>2, <1>3, <1>4, <1>5, <1>6, <1>7

\* What an append of the running job does to the log.
LEMMA AppendFacts ==
    ASSUME PostInv, job \in Jobs,
           NEW type \in {"post_mortem", "lesson_candidate", "pmort_pending"},
           NEW lesson \in Lessons, AppendCapture(type, lesson)
    PROVE  /\ log' \in Seq(Captured) /\ Len(log') = Len(log) + 1 /\ Len(log) \in Nat
           /\ DOMAIN log = 1..Len(log)
           /\ DOMAIN log' = DOMAIN log \cup {Len(log) + 1}
           /\ \A i \in DOMAIN log : log'[i] = log[i]
           /\ log'[Len(log) + 1] = [type |-> type, trade |-> job.trade, interim |-> job.interim,
                                    family |-> job.family, lesson |-> lesson]
  <1>1. [type |-> type, trade |-> job.trade, interim |-> job.interim,
         family |-> job.family, lesson |-> lesson] \in Captured
    BY DEF Jobs, Captured
  <1> QED
    BY <1>1, AppendRow DEF AppendCapture, PostInv, PostTyped

\* Lessons already in the log stay next to their episodes, and an event that is no
\* lesson needs none.
LEMMA LessonsStay ==
    ASSUME PostInv, job \in Jobs,
           NEW type \in {"post_mortem", "lesson_candidate", "pmort_pending"},
           NEW lesson \in Lessons, AppendCapture(type, lesson),
           type # "lesson_candidate"
    PROVE  LessonsFollow'
  <1> DEFINE n == Len(log) + 1
  <1>1. /\ DOMAIN log' = DOMAIN log \cup {n} /\ DOMAIN log = 1..Len(log) /\ Len(log) \in Nat
        /\ \A i \in DOMAIN log : log'[i] = log[i]
        /\ log'[n] = [type |-> type, trade |-> job.trade, interim |-> job.interim,
                      family |-> job.family, lesson |-> lesson]
    BY AppendFacts
  <1> HIDE DEF n
  <1>2. \A i \in DOMAIN log : i > 1 => i - 1 \in DOMAIN log
    BY <1>1
  <1> QED
    BY <1>1, <1>2 DEF PostInv, LessonsFollow

\* The episode, and after it the job is done or its lesson is due.
LEMMA CaptureStep == ASSUME PostInv, Capture PROVE PostInv'
  <1>1. job.stage = "capturing" /\ AppendCapture("post_mortem", job.lesson)
    BY DEF Capture
  <1>2. job \in Jobs /\ job # Idle /\ job.lesson \in Lessons
    BY <1>1, JobTyped DEF PostInv, Jobs
  <1>3. LessonsFollow'
    BY <1>1, <1>2, LessonsStay
  <1>4. /\ log' \in Seq(Captured) /\ Len(log') > 0
        /\ log'[Len(log')] = EpisodeOf(job)
    BY <1>1, <1>2, AppendFacts DEF EpisodeOf
  <1>5. drain' = drain
    BY DEF Capture, Finish
  <1>6. CASE job.lesson = "none"
    <2>1. job' = Idle /\ job'.stage = "idle"
      BY <1>6 DEF Capture, Finish, Idle
    <2> QED
      BY <1>3, <1>4, <1>5, <2>1 DEF PostInv, PostTyped, JobSound, LessonDue
  <1>7. CASE job.lesson # "none"
    <2>1. job' = [job EXCEPT !.stage = "lesson"]
      BY <1>7 DEF Capture
    <2>2. /\ job' \in Jobs /\ job'.stage = "lesson" /\ job'.family = job.family
          /\ job'.trade = job.trade /\ job'.interim = job.interim /\ job'.lesson = job.lesson
      BY <1>2, <2>1 DEF Jobs
    <2>3. EpisodeOf(job') = EpisodeOf(job)
      BY <2>2 DEF EpisodeOf
    <2>4. JobSound'
      BY <1>1, <1>2, <2>2 DEF PostInv, JobSound
    <2>5. LessonDue'
      BY <1>4, <2>3 DEF LessonDue
    <2> QED
      BY <1>3, <1>4, <1>5, <2>2, <2>4, <2>5 DEF PostInv, PostTyped
  <1> QED
    BY <1>6, <1>7

\* The lesson, next to the episode the same job has appended.
LEMMA CaptureLessonStep == ASSUME PostInv, CaptureLesson PROVE PostInv'
  <1> DEFINE n == Len(log) + 1
  <1>1. job.stage = "lesson" /\ AppendCapture("lesson_candidate", job.lesson)
    BY DEF CaptureLesson
  <1>2. job \in Jobs /\ job # Idle /\ job.lesson \in Lessons
    BY <1>1, JobTyped DEF PostInv, Jobs
  <1>3. job' = Idle /\ job'.stage = "idle" /\ drain' = drain
    BY DEF CaptureLesson, Finish, Idle
  <1>4. /\ log' \in Seq(Captured) /\ Len(log) \in Nat /\ DOMAIN log = 1..Len(log)
        /\ DOMAIN log' = DOMAIN log \cup {n}
        /\ \A i \in DOMAIN log : log'[i] = log[i]
        /\ log'[n] = [type |-> "lesson_candidate", trade |-> job.trade,
                      interim |-> job.interim, family |-> job.family, lesson |-> job.lesson]
    BY <1>1, <1>2, AppendFacts
  <1>5. Len(log) > 0 /\ log[Len(log)] = EpisodeOf(job)
    BY <1>1 DEF PostInv, LessonDue
  <1>6. n > 1 /\ n - 1 = Len(log) /\ log'[n - 1] = EpisodeOf(job)
    <2>1. Len(log) \in DOMAIN log
      BY <1>4, <1>5
    <2> QED
      BY <1>4, <1>5, <2>1
  <1> HIDE DEF n
  <1>7. log'[n - 1] = [log'[n] EXCEPT !.type = "post_mortem"]
    BY <1>4, <1>6 DEF EpisodeOf
  <1>8. Seated(log'[n].family, DecidedFamily[log'[n].trade])
        /\ Valid(log'[n].interim, log'[n].lesson)
    BY <1>1, <1>2, <1>4 DEF PostInv, JobSound
  <1>9. \A i \in DOMAIN log : i > 1 => i - 1 \in DOMAIN log
    BY <1>4
  <1>10. LessonsFollow'
    BY <1>4, <1>6, <1>7, <1>8, <1>9 DEF PostInv, LessonsFollow
  <1> QED
    BY <1>3, <1>4, <1>10 DEF PostInv, PostTyped, JobSound, LessonDue

\* The pending event of a post-mortem whose model could not be reached.
LEMMA CapturePendingStep == ASSUME PostInv, CapturePending PROVE PostInv'
  <1>1. job.stage = "queueing" /\ AppendCapture("pmort_pending", "none")
    BY DEF CapturePending
  <1>2. job \in Jobs
    BY <1>1, JobTyped DEF PostInv
  <1>3. "none" \in Lessons
    BY DEF Lessons
  <1>4. LessonsFollow' /\ log' \in Seq(Captured)
    BY <1>1, <1>2, <1>3, LessonsStay, AppendFacts
  <1>5. job' = Idle /\ job'.stage = "idle" /\ drain' = drain
    BY DEF CapturePending, Finish, Idle
  <1> QED
    BY <1>4, <1>5 DEF PostInv, PostTyped, JobSound, LessonDue

\* Every step of the post-mortems, a stutter included.
LEMMA PostStepInv == PostInv /\ [PostNext]_postVars => PostInv'
  <1>1. ASSUME PostInv, UNCHANGED postVars PROVE PostInv'
    BY <1>1 DEF postVars, PostInv, PostTyped, JobSound, LessonDue, LessonsFollow
  <1> QED
    BY <1>1, SilentSteps, CaptureStep, CaptureLessonStep, CapturePendingStep DEF PostNext

\* The inductive invariant holds in every reachable state.
THEOREM PostMortemInvariant == PostSpec => []PostInv
  <1>1. PostInit => PostInv
    BY PostInitInv
  <1>2. PostInv /\ [PostNext]_postVars => PostInv'
    BY PostStepInv
  <1> QED
    BY <1>1, <1>2, PTL DEF PostSpec

-----------------------------------------------------------------------------
(* The theorems. *)

\* Every lesson candidate follows the episode it came from, which the rebuilt store
\* holds, and was judged by another family wherever the manifest has one.
THEOREM LessonsAreGrounded == PostSpec => []LessonsHaveTheirEpisode
  <1>1. PostInv => LessonsHaveTheirEpisode
    <2> SUFFICES ASSUME PostInv, NEW i \in DOMAIN log, log[i].type = "lesson_candidate"
                 PROVE  /\ i > 1
                        /\ log[i - 1] = [log[i] EXCEPT !.type = "post_mortem"]
                        /\ log[i - 1] \in ToSet(Store)
                        /\ Len(Families) > 1 => log[i].family # DecidedFamily[log[i].trade]
                        /\ log[i].lesson = "general" => ~log[i].interim
      BY DEF LessonsHaveTheirEpisode
    <2>1. /\ i > 1
          /\ log[i - 1] = [log[i] EXCEPT !.type = "post_mortem"]
          /\ Seated(log[i].family, DecidedFamily[log[i].trade])
          /\ Valid(log[i].interim, log[i].lesson)
      BY DEF PostInv, LessonsFollow
    <2>2. log[i] \in Captured /\ i - 1 \in DOMAIN log
      BY <2>1 DEF PostInv, PostTyped
    <2>3. i - 1 \in Episodes
      BY <2>1, <2>2 DEF Episodes, Captured
    <2>4. log[i - 1] \in ToSet(Store)
      BY <2>3, StoreHoldsAll DEF PostInv
    <2>5. ASSUME Len(Families) > 1, log[i].family = DecidedFamily[log[i].trade] PROVE FALSE
      <3>1. ToSet(Families) \subseteq {DecidedFamily[log[i].trade]}
        BY <2>1, <2>5 DEF Seated
      <3>2. 1 \in DOMAIN Families /\ 2 \in DOMAIN Families
        BY <2>5, FamiliesAreListedOnce
      <3>3. Families[1] = Families[2]
        BY <3>1, <3>2 DEF ToSet
      <3> QED
        BY <3>2, <3>3, FamiliesAreListedOnce
    <2> QED
      BY <2>1, <2>4, <2>5 DEF Valid
  <1> QED
    BY <1>1, PostMortemInvariant, PTL

\* A queued trade leaves the queue by the capture of a post-mortem of it.
THEOREM QueueLosesNothing == PostSpec => QueueLeftByCapture
  <1>1. PostInv /\ [PostNext]_postVars =>
            [\A t \in Pending \ Pending' :
                \E i \in DOMAIN log' \ DOMAIN log :
                    log'[i].type = "post_mortem" /\ log'[i].trade = t]_postVars
    <2> SUFFICES ASSUME PostInv, PostNext, NEW t \in Pending \ Pending'
                 PROVE  \E i \in DOMAIN log' \ DOMAIN log :
                            log'[i].type = "post_mortem" /\ log'[i].trade = t
      OBVIOUS
    <2>1. PICK i \in DOMAIN log : log[i].type = "pmort_pending" /\ log[i].trade = t
      BY QueueIs
    <2>2. \A k \in DOMAIN log : k \in DOMAIN log' /\ log'[k] = log[k]
      <3>1. CASE log' = log
        BY <3>1
      <3>2. ASSUME NEW e, log' = Append(log, e)
            PROVE  \A k \in DOMAIN log : k \in DOMAIN log' /\ log'[k] = log[k]
        BY <3>2 DEF PostInv, PostTyped
      <3>3. log' = log \/ \E e : log' = Append(log, e)
        BY DEF PostNext, Request, RunPmort, StartDrain, RetryQueued, InvalidReply, ValidReply,
           Unreachable, Capture, CaptureLesson, CapturePending, KillPmort, AppendCapture
      <3> QED
        BY <3>1, <3>2, <3>3
    <2>3. i \in DOMAIN log' /\ log'[i].type = "pmort_pending" /\ log'[i].trade = t
      BY <2>1, <2>2
    <2>4. t \in Pending' <=>
              /\ \E k \in DOMAIN log' : log'[k].type = "pmort_pending" /\ log'[k].trade = t
              /\ ~\E k \in DOMAIN log' : log'[k].type = "post_mortem" /\ log'[k].trade = t
      BY DEF Pending, CapturedTrades, Episodes
    <2>5. PICK k \in DOMAIN log' : log'[k].type = "post_mortem" /\ log'[k].trade = t
      BY <2>3, <2>4
    <2> QED
      BY <2>2, <2>5, QueueIs
  <1> QED
    BY <1>1, PostMortemInvariant, PTL DEF PostSpec, QueueLeftByCapture

-----------------------------------------------------------------------------
(***************************************************************************)
(* The delivery of results, for any services and artifacts and any number  *)
(* of incidents.                                                           *)
(*                                                                         *)
(* DeliveryInv says what each reader may rely on when it acts: the         *)
(* tracking ref, however stale, is of the remote's past; a service on its  *)
(* way from its guard to its push carries no unreviewed commit but those   *)
(* made since; a sync about to move goes by what it saw; and a clean-up    *)
(* about to reset has parked what it saw.                                  *)
(***************************************************************************)

DeliveryTyped ==
    DOMAIN pc = Services /\ DOMAIN since = Services
    /\ DOMAIN view = Services /\ DOMAIN atLook = Services

\* The unreviewed commits a service carries to its push.
Carried(s) == \A c \in local : c.kind = "foreign" => c \in since[s] \cup remote

\* A sync goes by what it saw.
GoesByLook(s) == view[s] = "queued" <=> atLook[s] # {} /\ AllVm(atLook[s])

ParkedWhatWasSeen == cleaning => Results(atPark) \subseteq Results(parked)

DeliveryInv ==
    /\ DeliveryTyped
    /\ origin \subseteq remote
    /\ \A s \in Services : Delivering(s) => Carried(s)
    /\ \A s \in Services : pc[s] = "move" => GoesByLook(s)
    /\ ParkedWhatWasSeen

-----------------------------------------------------------------------------
\* The results of a history are those of its result commits.
LEMMA ResultsOf ==
    \A h, a : a \in Results(h) <=> \E c \in h : c.kind = "vm" /\ a \in c.what
  BY DEF Results

\* A longer history holds the results of a shorter one.
LEMMA ResultsGrow ==
    ASSUME NEW h, NEW k, h \subseteq k
    PROVE  Results(h) \subseteq Results(k)
  BY ResultsOf

\* The empty histories of a fresh clone.
LEMMA DeliveryInitInv == DeliveryInit => DeliveryInv
  BY DEF DeliveryInit, DeliveryInv, DeliveryTyped, Delivering, ParkedWhatWasSeen

\* What moves a service to its next command, and no other service.
LEMMA Moves ==
    ASSUME DOMAIN pc = Services, NEW s \in Services
    PROVE  /\ \A label : Goto(s, label) =>
                  /\ DOMAIN pc' = Services /\ pc'[s] = label
                  /\ \A t \in Services \ {s} : pc'[t] = pc[t]
           /\ Stop(s) =>
                  /\ DOMAIN pc' = Services /\ pc'[s] = "idle"
                  /\ \A t \in Services \ {s} : pc'[t] = pc[t]
           /\ \A n : Try(s, n) =>
                  /\ DOMAIN pc' = Services /\ pc'[s] = "again"
                  /\ \A t \in Services \ {s} : pc'[t] = pc[t]
           /\ Retry(s) =>
                  /\ DOMAIN pc' = Services /\ pc'[s] \in {"again", "idle"}
                  /\ \A t \in Services \ {s} : pc'[t] = pc[t]
  BY DEF Goto, Stop, Try, Retry

\* A step that leaves the service it moves short of its guard, looks at nothing and
\* takes nothing from the histories keeps the invariant.
LEMMA PlainStep ==
    ASSUME DeliveryInv, NEW s \in Services,
           DOMAIN pc' = Services, ~Delivering(s)', pc'[s] # "move",
           \A t \in Services \ {s} : pc'[t] = pc[t],
           remote' = remote, origin' \in {origin, remote},
           local' \subseteq local \cup remote \cup {c \in local' : c.kind = "vm"},
           DOMAIN view' = Services, DOMAIN atLook' = Services, DOMAIN since' = Services,
           \A t \in Services \ {s} :
               view'[t] = view[t] /\ atLook'[t] = atLook[t] /\ since'[t] = since[t],
           UNCHANGED <<parked, cleaning, atPark>>
    PROVE  DeliveryInv'
  <1>1. DeliveryTyped'
    BY DEF DeliveryTyped
  <1>2. ASSUME NEW t \in Services, Delivering(t)' PROVE Carried(t)'
    <2>1. t # s /\ Delivering(t) /\ since'[t] = since[t]
      BY <1>2 DEF Delivering
    <2> QED
      BY <2>1 DEF DeliveryInv, Carried
  <1>3. ASSUME NEW t \in Services, pc'[t] = "move" PROVE GoesByLook(t)'
    <2>1. t # s /\ pc[t] = "move" /\ view'[t] = view[t] /\ atLook'[t] = atLook[t]
      BY <1>3
    <2> QED
      BY <2>1 DEF DeliveryInv, GoesByLook, AllVm
  <1>4. origin' \subseteq remote'
    BY DEF DeliveryInv
  <1>5. ParkedWhatWasSeen'
    BY DEF DeliveryInv, ParkedWhatWasSeen, Results
  <1> QED
    BY <1>1, <1>2, <1>3, <1>4, <1>5 DEF DeliveryInv

\* The steps of a sync that do not look, those of the program, and those of the commit.
LEMMA EarlySteps ==
    ASSUME DeliveryInv, NEW s \in Services,
           \/ Start(s) \/ SyncFetch(s) \/ SyncMove(s) \/ Run(s)
           \/ Add(s) \/ CommitStaged(s) \/ CountQueue(s) \/ KillService(s)
    PROVE  DeliveryInv'
  <1>1. DeliveryTyped /\ origin \subseteq remote
    BY DEF DeliveryInv
  <1>2. DOMAIN pc' = Services /\ pc'[s] \notin {"pull", "push", "move"}
        /\ \A t \in Services \ {s} : pc'[t] = pc[t]
    BY <1>1, Moves DEF DeliveryTyped, Start, SyncFetch, SyncMove, Run, Add, CommitStaged,
       CountQueue, KillService
  <1>3. ~Delivering(s)'
    BY <1>2 DEF Delivering
  <1>4. remote' = remote /\ origin' \in {origin, remote} /\ UNCHANGED <<parked, cleaning, atPark>>
    BY DEF Start, SyncFetch, SyncMove, Run, Add, CommitStaged, CountQueue, KillService,
       cleaner, histories
  <1>5. local' \subseteq local \cup remote \cup {c \in local' : c.kind = "vm"}
    <2>1. CASE SyncMove(s)
      BY <1>1, <2>1 DEF SyncMove, Ahead, checkout
    <2>2. CASE CommitStaged(s)
      BY <2>2 DEF CommitStaged, Vm
    <2>3. CASE ~SyncMove(s) /\ ~CommitStaged(s)
      BY <2>3 DEF Start, SyncFetch, Run, Add, CountQueue, KillService, checkout
    <2> QED
      BY <2>1, <2>2, <2>3
  <1>6. DOMAIN view' = Services /\ DOMAIN atLook' = Services /\ since' = since
        /\ \A t \in Services \ {s} : view'[t] = view[t] /\ atLook'[t] = atLook[t]
    BY <1>1 DEF DeliveryTyped, Start, SyncFetch, SyncMove, Run, Add, CommitStaged, CountQueue,
       KillService, histories
  <1> QED
    BY <1>1, <1>2, <1>3, <1>4, <1>5, <1>6, PlainStep DEF DeliveryTyped

\* The look notes what it goes by.
LEMMA LookStep == ASSUME DeliveryInv, NEW s \in Services, SyncLook(s) PROVE DeliveryInv'
  <1>1. DeliveryTyped /\ DOMAIN pc = Services
    BY DEF DeliveryInv, DeliveryTyped
  <1>2. DOMAIN pc' = Services /\ pc'[s] = "move" /\ \A t \in Services \ {s} : pc'[t] = pc[t]
    BY <1>1, Moves DEF SyncLook
  <1>3. DeliveryTyped'
    BY <1>1, <1>2 DEF DeliveryTyped, SyncLook
  <1>4. UNCHANGED <<remote, origin, local, since, parked, cleaning, atPark>>
    BY DEF SyncLook, cleaner, checkout
  <1>5. ASSUME NEW t \in Services, Delivering(t)' PROVE Carried(t)'
    <2>1. t # s /\ Delivering(t)
      BY <1>2, <1>5 DEF Delivering
    <2> QED
      BY <1>4, <2>1 DEF DeliveryInv, Carried
  <1>6. ASSUME NEW t \in Services, pc'[t] = "move" PROVE GoesByLook(t)'
    <2>1. CASE t = s
      BY <1>1, <2>1 DEF SyncLook, GoesByLook, AllVm, DeliveryTyped
    <2>2. CASE t # s
      <3>1. pc[t] = "move" /\ view'[t] = view[t] /\ atLook'[t] = atLook[t]
        BY <1>1, <1>2, <1>6, <2>2 DEF SyncLook, DeliveryTyped
      <3> QED
        BY <3>1 DEF DeliveryInv, GoesByLook, AllVm
    <2> QED
      BY <2>1, <2>2
  <1>7. ParkedWhatWasSeen' /\ origin' \subseteq remote'
    BY <1>4 DEF DeliveryInv, ParkedWhatWasSeen, Results
  <1> QED
    BY <1>3, <1>5, <1>6, <1>7 DEF DeliveryInv

\* The guard lets a checkout pass that is ahead of the tracking ref by results only,
\* and the tracking ref is of the remote's past, however old it is.
LEMMA GuardStep == ASSUME DeliveryInv, NEW s \in Services, Guard(s) PROVE DeliveryInv'
  <1>1. DeliveryTyped /\ DOMAIN pc = Services /\ origin \subseteq remote
    BY DEF DeliveryInv, DeliveryTyped
  <1>2. origin' \in {origin, remote} /\ remote' = remote /\ local' = local
        /\ UNCHANGED <<view, atLook, parked, cleaning, atPark>>
    BY DEF Guard, checkout, cleaner
  <1>3. DOMAIN since' = Services /\ \A t \in Services \ {s} : since'[t] = since[t]
    BY <1>1 DEF Guard, DeliveryTyped
  <1>4. DOMAIN pc' = Services /\ pc'[s] # "move" /\ \A t \in Services \ {s} : pc'[t] = pc[t]
    BY <1>1, Moves DEF Guard
  <1>5. CASE AllVm(local \ origin')
    <2>1. \A c \in local' : c.kind = "foreign" => c \in remote'
      BY <1>1, <1>2, <1>5 DEF AllVm
    <2>2. ASSUME NEW t \in Services, Delivering(t)' PROVE Carried(t)'
      BY <2>1 DEF Carried
    <2>3. ASSUME NEW t \in Services, pc'[t] = "move" PROVE GoesByLook(t)'
      <3>1. pc[t] = "move"
        BY <1>4, <2>3
      <3> QED
        BY <1>2, <3>1 DEF DeliveryInv, GoesByLook, AllVm
    <2>4. DeliveryTyped' /\ origin' \subseteq remote' /\ ParkedWhatWasSeen'
      BY <1>1, <1>2, <1>3, <1>4 DEF DeliveryInv, DeliveryTyped, ParkedWhatWasSeen, Results
    <2> QED
      BY <2>2, <2>3, <2>4 DEF DeliveryInv
  <1>6. CASE ~AllVm(local \ origin')
    <2>1. ~Delivering(s)'
      BY <1>1, <1>6, Moves DEF Guard, Delivering
    <2> QED
      BY <1>1, <1>2, <1>3, <1>4, <2>1, PlainStep DEF DeliveryTyped
  <1> QED
    BY <1>5, <1>6

\* The rebase and the push of an attempt.
LEMMA AttemptSteps ==
    ASSUME DeliveryInv, NEW s \in Services,
           PullOk(s) \/ PullFails(s) \/ PushOk(s) \/ PushFails(s)
    PROVE  DeliveryInv'
  <1>1. DeliveryTyped /\ DOMAIN pc = Services /\ origin \subseteq remote
    BY DEF DeliveryInv, DeliveryTyped
  <1>2. /\ DOMAIN pc' = Services /\ pc'[s] # "move"
        /\ \A t \in Services \ {s} : pc'[t] = pc[t]
        /\ Delivering(s)' => Delivering(s)
    BY <1>1, Moves DEF PullOk, PullFails, PushOk, PushFails, Delivering
  <1>3. remote \subseteq remote' /\ origin' \subseteq remote'
    BY <1>1 DEF PullOk, PullFails, PushOk, PushFails
  <1>4. local' \subseteq local \cup remote
    BY DEF PullOk, PullFails, PushOk, PushFails, checkout
  <1>5. UNCHANGED <<view, atLook, since, parked, cleaning, atPark>>
    BY DEF PullOk, PullFails, PushOk, PushFails, histories, cleaner
  <1>6. ASSUME NEW t \in Services, Delivering(t)' PROVE Carried(t)'
    <2>1. Delivering(t)
      BY <1>2, <1>6 DEF Delivering
    <2> QED
      BY <1>3, <1>4, <1>5, <2>1 DEF DeliveryInv, Carried
  <1>7. ASSUME NEW t \in Services, pc'[t] = "move" PROVE GoesByLook(t)'
    <2>1. pc[t] = "move"
      BY <1>2, <1>7
    <2> QED
      BY <1>5, <2>1 DEF DeliveryInv, GoesByLook, AllVm
  <1>8. DeliveryTyped' /\ ParkedWhatWasSeen'
    BY <1>1, <1>2, <1>5 DEF DeliveryInv, DeliveryTyped, ParkedWhatWasSeen, Results
  <1> QED
    BY <1>3, <1>6, <1>7, <1>8 DEF DeliveryInv

\* Reviewed and unreviewed commits, and the clean-up.
LEMMA WorldSteps ==
    ASSUME DeliveryInv, Review \/ ForeignCommit \/ CleanPark \/ CleanReset
    PROVE  DeliveryInv'
  <1>1. DeliveryTyped /\ origin \subseteq remote
    BY DEF DeliveryInv
  <1>2. UNCHANGED <<pc, view, atLook>>
    BY DEF Review, ForeignCommit, CleanPark, CleanReset, histories
  <1>3. remote \subseteq remote' /\ origin' \subseteq remote'
    BY <1>1 DEF Review, ForeignCommit, CleanPark, CleanReset
  <1>4. ASSUME NEW t \in Services, Delivering(t)' PROVE Carried(t)'
    <2>1. Delivering(t) /\ Carried(t)
      BY <1>2, <1>4 DEF Delivering, DeliveryInv
    <2>2. CASE ForeignCommit
      <3>1. remote' = remote /\ local' = local \cup {Foreign(foreign + 1)}
            /\ since'[t] = since[t] \cup {Foreign(foreign + 1)}
        BY <2>1, <2>2 DEF ForeignCommit
      <3> QED
        BY <2>1, <3>1 DEF Carried
    <2>3. CASE ~ForeignCommit
      <3>1. since' = since /\ local' \subseteq local \cup remote
        BY <1>1, <2>3 DEF Review, CleanPark, CleanReset, checkout, histories
      <3> QED
        BY <1>3, <2>1, <3>1 DEF Carried
    <2> QED
      BY <2>2, <2>3
  <1>5. ASSUME NEW t \in Services, pc'[t] = "move" PROVE GoesByLook(t)'
    BY <1>2, <1>5 DEF DeliveryInv, GoesByLook, AllVm
  <1>6. DeliveryTyped'
    BY <1>1, <1>2 DEF DeliveryTyped, Review, ForeignCommit, CleanPark, CleanReset, histories
  <1>7. ParkedWhatWasSeen'
    <2>1. CASE CleanPark
      <3>1. atPark' \subseteq parked'
        BY <2>1 DEF CleanPark
      <3> QED
        BY <3>1, ResultsGrow DEF ParkedWhatWasSeen
    <2>2. CASE ~CleanPark
      BY <2>2 DEF DeliveryInv, ParkedWhatWasSeen, Results, Review, ForeignCommit, CleanReset,
         cleaner, histories
    <2> QED
      BY <2>1, <2>2
  <1> QED
    BY <1>3, <1>4, <1>5, <1>6, <1>7 DEF DeliveryInv

\* Every step of the machine, a stutter included.
LEMMA DeliveryStepInv == DeliveryInv /\ [DeliveryNext]_deliveryVars => DeliveryInv'
  <1>1. ASSUME DeliveryInv, UNCHANGED deliveryVars PROVE DeliveryInv'
    BY <1>1 DEF DeliveryInv, deliveryVars, checkout, cleaner, histories, DeliveryTyped,
       Delivering, Carried, GoesByLook, AllVm, ParkedWhatWasSeen, Results
  <1> QED
    BY <1>1, EarlySteps, LookStep, GuardStep, AttemptSteps, WorldSteps DEF DeliveryNext, Step

\* The inductive invariant holds in every reachable state.
THEOREM DeliveryInvariant == DeliverySpec => []DeliveryInv
  <1>1. DeliveryInit => DeliveryInv
    BY DeliveryInitInv
  <1>2. DeliveryInv /\ [DeliveryNext]_deliveryVars => DeliveryInv'
    BY DeliveryStepInv
  <1> QED
    BY <1>1, <1>2, PTL DEF DeliverySpec

-----------------------------------------------------------------------------
(* The theorems. *)

\* An unreviewed commit reaches the remote only if it was made after the last guard
\* of the service that pushed it.
THEOREM OnlyTheWindowIsOpen == DeliverySpec => GuardHolds
  <1>1. DeliveryInv /\ [DeliveryNext]_deliveryVars =>
            [ \A c \in remote' \ remote : c.kind = "foreign" =>
                  \E s \in Services : pc[s] = "push" /\ c \in since[s] ]_deliveryVars
    <2> SUFFICES ASSUME DeliveryInv, DeliveryNext, NEW c \in remote' \ remote, c.kind = "foreign"
                 PROVE  \E s \in Services : pc[s] = "push" /\ c \in since[s]
      OBVIOUS
    <2>1. CASE Review
      BY <2>1 DEF Review, Code
    <2>2. CASE \E s \in Services : PushOk(s) \/ PushFails(s)
      <3>1. PICK s \in Services : pc[s] = "push" /\ remote' \in {remote, local}
        BY <2>2 DEF PushOk, PushFails
      <3>2. Carried(s)
        BY <3>1 DEF DeliveryInv, Delivering
      <3> QED
        BY <3>1, <3>2 DEF Carried
    <2>3. CASE ~Review /\ ~\E s \in Services : PushOk(s) \/ PushFails(s)
      <3>1. remote' = remote
        BY <2>3 DEF DeliveryNext, Step, Start, SyncFetch, SyncLook, SyncMove, Run, Guard, Add,
           CommitStaged, CountQueue, PullOk, PullFails, KillService, ForeignCommit, CleanPark,
           CleanReset
      <3> QED
        BY <3>1
    <2> QED
      BY <2>1, <2>2, <2>3
  <1> QED
    BY <1>1, DeliveryInvariant, PTL DEF DeliverySpec, GuardHolds

\* A result leaves the queue by delivery or by being parked, unless it came after the
\* look that decided the reset, or was seen beside unreviewed code.
THEOREM ResultsAreKept == DeliverySpec => QueueKept
  <1> DEFINE Excused(a) ==
          \/ \E s \in Services :
                /\ pc[s] = "move" /\ pc'[s] # "move"
                /\ a \notin Results(atLook[s]) \/ ~AllVm(atLook[s])
          \/ cleaning /\ ~cleaning' /\ a \notin Results(atPark)
  <1>1. DeliveryInv /\ [DeliveryNext]_deliveryVars => [\A a \in Lost : Excused(a)]_deliveryVars
    <2> SUFFICES ASSUME DeliveryInv, DeliveryNext, NEW a \in Lost
                 PROVE  Excused(a)
      OBVIOUS
    <2>1. a \in Results(local) /\ a \notin Results(local' \cup remote' \cup parked')
      BY DEF Lost
    <2>2. ~(local \subseteq local')
      BY <2>1, ResultsOf
    <2>3. CASE CleanReset
      <3>1. a \notin Results(parked)
        BY <2>1, <2>3, ResultsOf DEF CleanReset
      <3> QED
        BY <2>3, <3>1 DEF CleanReset, DeliveryInv, ParkedWhatWasSeen
    <2>4. CASE \E s \in Services : SyncMove(s)
      <3>1. PICK s \in Services : SyncMove(s)
        BY <2>4
      <3>2. view[s] = "behind"
        BY <2>2, <3>1 DEF SyncMove, checkout, Ahead
      <3>3. pc[s] = "move" /\ pc'[s] = "run"
        BY <3>1, Moves DEF SyncMove, DeliveryInv, DeliveryTyped
      <3>4. atLook[s] = {} \/ ~AllVm(atLook[s])
        BY <3>2, <3>3 DEF DeliveryInv, GoesByLook
      <3>5. a \notin Results({})
        BY ResultsOf
      <3> QED
        BY <3>3, <3>4, <3>5
    <2>5. CASE ~CleanReset /\ ~\E s \in Services : SyncMove(s)
      <3>1. local \subseteq local'
        BY <2>5 DEF DeliveryNext, Step, Start, SyncFetch, SyncLook, Run, Guard, Add,
           CommitStaged, CountQueue, PullOk, PullFails, PushOk, PushFails, KillService,
           Review, ForeignCommit, CleanPark, checkout
      <3> QED
        BY <2>2, <3>1
    <2> QED
      BY <2>3, <2>4, <2>5
  <1> QED
    BY <1>1, DeliveryInvariant, PTL DEF DeliverySpec, QueueKept

=============================================================================
