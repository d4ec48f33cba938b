------------------------------ MODULE EventLog ------------------------------
(***************************************************************************)
(* The hash-chained event log (core/event_log.py) and the processes that   *)
(* append to it.                                                           *)
(*                                                                         *)
(* append reads the hash of the last row, computes its own, inserts and    *)
(* commits.  The read runs outside the transaction of the insert (Python's *)
(* sqlite3 opens one at the first INSERT), so a second process may commit  *)
(* in between: the nightly ingest and a broker round trip share a log, and *)
(* so do the timer's cycle and one started by hand.  SQLite's write lock   *)
(* orders the inserts; every wait for it ends in an error after the        *)
(* connection's timeout.  A process may be killed anywhere.                *)
(*                                                                         *)
(* What goes into a hash besides the previous one, the time included, is   *)
(* one member of Contents.  decision_ts is stored with the row and left    *)
(* out of the hash: it is a member of Stamps.  A hash is the sequence of   *)
(* the contents it was computed over, so two hashes are equal when all     *)
(* that went into them is.                                                 *)
(*                                                                         *)
(* No code deletes or changes a row.  What the nightly check is for is the *)
(* file, from which LoseRow takes a row; a row that changes is not modelled, *)
(* since the check computes no hash and passes it.                         *)
(***************************************************************************)
EXTENDS Integers, Sequences

CONSTANTS
    Writers,     \* the processes that have opened the log
    Contents,    \* what is hashed of one event, its timestamp included
    Stamps,      \* what its decision_ts may be, None included
    NoWriter,    \* nobody holds SQLite's write lock
    MaxRows      \* bound: rows ever committed

ASSUME EventLogAssumption == NoWriter \notin Writers /\ MaxRows \in Nat

VARIABLES
    rows,        \* the committed rows, by event_id
    lastId,      \* the event_id given last, which AUTOINCREMENT does not give again
    lock,        \* the writer whose transaction has inserted, or NoWriter
    phase,       \* writer -> how far its append is
    seen,        \* writer -> the previous hash its append has read
    content,     \* writer -> what its append says
    stamp,       \* writer -> the decision_ts its append was called with
    acked,       \* history: the rows of the appends that returned
    overlapped,  \* history: two appends were under way at the same time
    intact       \* history: no row has been lost from the file

logVars == <<rows, lastId, lock, phase, seen, content, stamp, acked, overlapped, intact>>

Genesis == <<>>

Hashes == Seq(Contents)

\* Mutant: the previous hash is left out.
HashAlone(prev, c) == <<c>>

HashOf(prev, c) == Append(prev, c)

\* Mutant: the two hash columns of the INSERT are swapped.
RowSwapped(prev, c, d) ==
    [content |-> c, decisionTs |-> d, prev |-> HashOf(prev, c), hash |-> prev]

Row(prev, c, d) == [content |-> c, decisionTs |-> d, prev |-> prev, hash |-> HashOf(prev, c)]

\* Mutant: the query sorts the other way.
FirstHash(rs) == IF rs = <<>> THEN Genesis ELSE rs[1].hash

LastHash(rs) == IF rs = <<>> THEN Genesis ELSE rs[Len(rs)].hash

\* Mutant: the first row is not compared with genesis.
LinksOnly(rs) == \A i \in DOMAIN rs : i + 1 \in DOMAIN rs => rs[i].hash = rs[i + 1].prev

\* verify_hash_chain: the first row starts from genesis, every other row from
\* the one before it.  No hash is computed again.
Verified(rs) ==
    /\ rs # <<>> => rs[1].prev = Genesis
    /\ \A i \in DOMAIN rs : i + 1 \in DOMAIN rs => rs[i].hash = rs[i + 1].prev

\* The row writer p is about to insert.
NewRow(p) == Row(seen[p], content[p], stamp[p])

-----------------------------------------------------------------------------

Init ==
    /\ rows = <<>>
    /\ lastId = 0
    /\ lock = NoWriter
    /\ phase = [p \in Writers |-> "idle"]
    /\ seen = [p \in Writers |-> Genesis]
    /\ content \in [Writers -> Contents]
    /\ stamp \in [Writers -> Stamps]
    /\ acked = {}
    /\ overlapped = FALSE
    /\ intact = TRUE

Underway(p) == phase[p] \in {"read", "inserted"}

\* append is called; it takes the time and reads the last hash.
Read(p) ==
    /\ phase[p] = "idle"
    /\ lastId < MaxRows
    /\ \E c \in Contents : content' = [content EXCEPT ![p] = c]
    /\ \E d \in Stamps : stamp' = [stamp EXCEPT ![p] = d]
    /\ seen' = [seen EXCEPT ![p] = LastHash(rows)]
    /\ phase' = [phase EXCEPT ![p] = "read"]
    /\ overlapped' = (overlapped \/ \E q \in Writers : Underway(q))
    /\ UNCHANGED <<rows, lastId, lock, acked, intact>>

HashTaken(p) == \E i \in DOMAIN rows : rows[i].hash = NewRow(p).hash

\* Mutant: the column is not UNIQUE.
InsertAnyway(p) ==
    /\ phase[p] = "read"
    /\ lock = NoWriter
    /\ lock' = p
    /\ phase' = [phase EXCEPT ![p] = "inserted"]
    /\ UNCHANGED <<rows, lastId, seen, content, stamp, acked, overlapped, intact>>

\* The INSERT opens the transaction and passes the UNIQUE constraint.
Insert(p) ==
    /\ phase[p] = "read"
    /\ lock = NoWriter
    /\ ~HashTaken(p)
    /\ lock' = p
    /\ phase' = [phase EXCEPT ![p] = "inserted"]
    /\ UNCHANGED <<rows, lastId, seen, content, stamp, acked, overlapped, intact>>

Commit(p) ==
    /\ phase[p] = "inserted"
    /\ lastId < MaxRows
    /\ rows' = Append(rows, NewRow(p))
    /\ lastId' = lastId + 1
    /\ lock' = NoWriter
    /\ phase' = [phase EXCEPT ![p] = "committed"]
    /\ UNCHANGED <<seen, content, stamp, acked, overlapped, intact>>

\* The last query returns and append with it.
Return(p) ==
    /\ phase[p] = "committed"
    /\ acked' = acked \cup {NewRow(p)}
    /\ phase' = [phase EXCEPT ![p] = "idle"]
    /\ UNCHANGED <<rows, lastId, lock, seen, content, stamp, overlapped, intact>>

\* Mutant: the open transaction is not rolled back.
GiveUpWithoutRollback(p) ==
    /\ phase[p] # "idle"
    /\ phase' = [phase EXCEPT ![p] = "idle"]
    /\ UNCHANGED <<rows, lastId, lock, seen, content, stamp, acked, overlapped, intact>>

\* The append is given up before or after its commit: the hash is taken, a wait
\* for a lock times out in the insert, the commit or the last query, or the
\* process is killed.  An open transaction is rolled back.
GiveUp(p) ==
    /\ phase[p] # "idle"
    /\ lock' = IF lock = p THEN NoWriter ELSE lock
    /\ phase' = [phase EXCEPT ![p] = "idle"]
    /\ UNCHANGED <<rows, lastId, seen, content, stamp, acked, overlapped, intact>>

\* An append goes on.
Appends == \E p \in Writers : Read(p) \/ Insert(p) \/ Commit(p) \/ Return(p) \/ GiveUp(p)

Without(rs, i) == SubSeq(rs, 1, i - 1) \o SubSeq(rs, i + 1, Len(rs))

\* A stored row is lost from the file: an older copy is put back, or a row is deleted
\* by hand.
LoseRow ==
    /\ \E i \in DOMAIN rows : rows' = Without(rows, i)
    /\ intact' = FALSE
    /\ UNCHANGED <<lastId, lock, phase, seen, content, stamp, acked, overlapped>>

Next == Appends \/ LoseRow

Spec == Init /\ [][Next]_logVars

-----------------------------------------------------------------------------
(* Properties.                                                             *)

Rows == [content : Contents, decisionTs : Stamps, prev : Hashes, hash : Hashes]

\* Every variable stays in its range, and the lock is held by the one writer
\* whose transaction has inserted.
TypeOK ==
    /\ rows \in Seq(Rows)
    /\ phase \in [Writers -> {"idle", "read", "inserted", "committed"}]
    /\ seen \in [Writers -> Hashes]
    /\ content \in [Writers -> Contents]
    /\ stamp \in [Writers -> Stamps]
    /\ acked \subseteq Rows
    /\ overlapped \in BOOLEAN /\ intact \in BOOLEAN
    /\ lastId \in Nat
    /\ lock \in Writers \cup {NoWriter}
    /\ \A p \in Writers : phase[p] = "inserted" <=> lock = p

\* An event whose append has returned is in the log as it was appended, once,
\* whatever other writers do and whoever is killed, as long as the file is whole.
AckedOnce ==
    intact =>
        /\ \A r \in acked : \E i \in DOMAIN rows : rows[i] = r
        /\ \A i, j \in DOMAIN rows : rows[i].hash = rows[j].hash => i = j

\* As long as no two appends overlap the chain is continuous, through kills,
\* timeouts and rollbacks.  Two that overlap may follow the same row: then "hash chain
\* must be continuous" (event_log.py:42) fails though nothing was damaged.
SerialChain == intact /\ ~overlapped => Verified(rows)

\* Writers that overlap turn the chain into a tree: a row still follows genesis
\* or a row that was committed before it.
RowsFormTree ==
    intact => \A i \in DOMAIN rows :
        \/ rows[i].prev = Genesis
        \/ \E j \in DOMAIN rows : j < i /\ rows[i].prev = rows[j].hash

\* Rows lost from the file under a row that is left, and forks, never pass
\* verify_hash_chain: what the hash of the i-th row of a verified log was
\* computed over is i events, the k-th of them that of the k-th row.
VerifiedIsWhole ==
    Verified(rows) =>
        \A i \in DOMAIN rows :
            /\ Len(rows[i].hash) = i
            /\ \A k \in 1..i : rows[k].hash = SubSeq(rows[i].hash, 1, k)

=============================================================================
