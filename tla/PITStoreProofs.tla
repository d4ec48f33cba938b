--------------------------- MODULE PITStoreProofs ---------------------------
(***************************************************************************)
(* For every set of rows the vendors serve and may publish, every window   *)
(* and any number of runs and failures: no read returns what was not       *)
(* served yet, the archive rebuilds the store, and the universe of a date  *)
(* follows the changes.                                                    *)
(*                                                                         *)
(* None of the three is inductive.  NoHindsight needs to know where a row  *)
(* comes from, ArchiveRebuilds that a run visits each job once, so that    *)
(* nothing writes under the keys of a job after it was ok, and             *)
(* UniverseFollowsChanges that a vendor never forgets a change, so that    *)
(* the latest payload covers every older row.                              *)
(***************************************************************************)
EXTENDS PITStore, SumTheorems

\* Row v is of the given job and was first served at one of the instants up to t.
IsServed(v, job, t) ==
    /\ v.job = job
    /\ \E n \in Past \cup News, since \in 0..t : v = Served(n, since)

ClockAndRuns ==
    /\ clock \in Nat /\ run \in Nat
    /\ at = Idle \/ at \in [job : DOMAIN Jobs, step : {"fetch", "store", "summary"}]

\* What the vendors serve now.
VendorServes == \A v \in vendor : IsServed(v, v.job, clock) /\ v.job \in JobNames

VendorUnique == \A v, w \in vendor : SameFact(v, w) => v = w

\* A payload: rows of one job, one per fact, served when it was stamped.
IsPayload(raw, job, stamp) ==
    /\ stamp \in 0..clock
    /\ \A v \in raw : IsServed(v, job, stamp)
    /\ \A v, w \in raw : SameFact(v, w) => v = w

PayloadsServed ==
    /\ at.step = "store" => IsPayload(batch.raw, Job, batch.stamp)
    /\ \A a \in archive : a.job \in JobNames /\ IsPayload(a.raw, a.job, a.stamp)

RowsArchived == \A r \in store : \E a \in archive : r \in Rows(a.raw, a.stamp)

\* The job is one the run under way has behind it.
Visited(job) == \E i \in DOMAIN Jobs : Jobs[i] = job /\ (i < at.job \/ at.step = "summary")

\* The entries of the archive and of the audit are of runs up to the latest, and
\* those of the run under way of jobs it has behind it.
RunsInOrder ==
    \A a \in archive \cup audit :
        /\ a.run \in Nat /\ a.run <= run
        /\ a.run = run => at = Idle \/ Visited(a.job)

\* a is of the latest archived run, and its job ended ok.
LatestOk(a) ==
    /\ \A b \in archive : b.run <= a.run
    /\ [run |-> a.run, job |-> a.job, status |-> "ok"] \in audit

\* Under the keys of such a payload the store has its rows and no other.
OkStored ==
    \A a \in archive : LatestOk(a) =>
        /\ Rows(a.raw, a.stamp) \subseteq store
        /\ \A r \in store, q \in Rows(a.raw, a.stamp) :
              Key(q) = Key(r) => r \in Rows(a.raw, a.stamp)

\* A fact that was archived is served still, perhaps with another value; and the
\* payload of the index job, which asks for everything, has it.
Covers(raws, raw) == \A c \in raw : \E v \in raws : SameFact(v, c)

FactsRemembered ==
    \A a \in archive :
        /\ Covers(vendor, a.raw)
        /\ at.step = "store" /\ Job = "sp500_universe" /\ a.job = Job => Covers(batch.raw, a.raw)

BatchRemembered == at.step = "store" => Covers(vendor, batch.raw)

\* a is the latest archived payload of the index, and its job ended ok.
LatestIndex(a) ==
    /\ a.job = "sp500_universe"
    /\ \A b \in archive : b.job = a.job => b.run <= a.run
    /\ [run |-> a.run, job |-> a.job, status |-> "ok"] \in audit

\* Such a payload is what the store knows of the index.
IndexStored ==
    \A a \in archive : LatestIndex(a) =>
        {r \in store : r.table = "universe_membership"} = Rows(a.raw, a.stamp)

FixtureHonest ==
    fixture # NoFixture =>
        /\ fixture.ts \in Nat /\ Loadable(fixture.ts)
        /\ \A r \in fixture.rows :
              /\ r.avail <= fixture.ts
              /\ r.table \in Stamped => r.avail \in Int /\ r.since \in Int /\ r.since <= r.avail

IInv ==
    /\ ClockAndRuns
    /\ VendorServes
    /\ VendorUnique
    /\ PayloadsServed
    /\ RowsArchived
    /\ RunsInOrder
    /\ OkStored
    /\ FactsRemembered
    /\ BatchRemembered
    /\ IndexStored
    /\ FixtureHonest

-----------------------------------------------------------------------------

\* The five jobs, each at one place of the run, and the tables they fill.
LEMMA JobsAre ==
    /\ DOMAIN Jobs = 1..5 /\ Len(Jobs) = 5
    /\ \A i, j \in DOMAIN Jobs : Jobs[i] = Jobs[j] => i = j
    /\ \A i \in DOMAIN Jobs : Jobs[i] \in JobNames
    /\ "sp500_universe" \in JobNames
    /\ \A job \in JobNames :
          TableOf[job] = "universe_membership" <=> job = "sp500_universe"
  <1>1. /\ DOMAIN Jobs = 1..5 /\ Len(Jobs) = 5
        /\ \A i, j \in DOMAIN Jobs : Jobs[i] = Jobs[j] => i = j
        /\ Jobs[3] = "sp500_universe"
    BY DEF Jobs
  <1>2. JobNames = {"sep_daily_bars", "sf1_fundamentals", "sp500_universe",
                    "corporate_actions", "iex_daily_bars"}
    BY DEF Jobs, JobNames
  <1>3. \A job \in JobNames : TableOf[job] = "universe_membership" <=> job = "sp500_universe"
    BY <1>2 DEF TableOf
  <1> QED
    BY <1>1, <1>2, <1>3 DEF JobNames

\* What a row keeps of the raw row it was made of.
LEMMA RowFields ==
    ASSUME NEW raw, NEW job, NEW stamp, IsPayload(raw, job, stamp)
    PROVE  \A r \in Rows(raw, stamp) : r.src = job /\ r.table = TableOf[job]
  BY DEF Rows, ToRow, IsPayload, IsServed

\* Rows with one key are of one job; rows of one fact have one key, filings apart.
LEMMA KeyFields ==
    /\ \A q, r : Key(q) = Key(r) => q.src = r.src
    /\ \A v, w, s, t : SameFact(v, w) /\ v.job = "sp500_universe" =>
          Key(ToRow(v, s)) = Key(ToRow(w, t))
  <1>1. TableOf["sp500_universe"] # "fundamentals"
    BY JobsAre
  <1>2. ASSUME NEW v, NEW w, NEW s, NEW t, SameFact(v, w), v.job = "sp500_universe"
        PROVE  Key(ToRow(v, s)) = Key(ToRow(w, t))
    BY <1>1, <1>2 DEF Key, ToRow, SameFact
  <1> QED
    BY <1>2 DEF Key

\* What was served at an instant had been served at any later one.
LEMMA ServedLater ==
    ASSUME NEW v, NEW job, NEW t \in Nat, NEW u \in Nat, t <= u, IsServed(v, job, t)
    PROVE  IsServed(v, job, u)
  BY DEF IsServed

\* A row of the store was made of an archived raw row of its job.
LEMMA RowOrigin ==
    ASSUME PayloadsServed, RowsArchived, NEW r \in store
    PROVE  \E a \in archive : /\ r \in Rows(a.raw, a.stamp) /\ a.job \in JobNames
                              /\ IsPayload(a.raw, a.job, a.stamp)
                              /\ r.src = a.job /\ r.table = TableOf[a.job]
  <1>1. PICK a \in archive : r \in Rows(a.raw, a.stamp)
    BY DEF RowsArchived
  <1>2. a.job \in JobNames /\ IsPayload(a.raw, a.job, a.stamp)
    BY DEF PayloadsServed
  <1>3. r.src = a.job /\ r.table = TableOf[a.job]
    BY <1>1, <1>2, RowFields
  <1> QED
    BY <1>1, <1>2, <1>3

\* A row of a stamped table carries the stamp of its payload, which what it tells
\* had been served by.
LEMMA StampedRow ==
    ASSUME PayloadsServed, RowsArchived, NEW r \in store, r.table \in Stamped
    PROVE  r.avail \in Int /\ r.since \in Int /\ r.since <= r.avail
  <1>1. PICK a \in archive : r \in Rows(a.raw, a.stamp) /\ IsPayload(a.raw, a.job, a.stamp)
    BY RowOrigin
  <1>2. PICK v \in a.raw : r = ToRow(v, a.stamp)
    BY <1>1 DEF Rows
  <1>3. r.avail = a.stamp
    BY <1>2 DEF ToRow
  <1>4. PICK n \in Past \cup News, since \in 0..a.stamp : v = Served(n, since)
    BY <1>1, <1>2 DEF IsPayload, IsServed
  <1>5. r.since = since
    BY <1>2, <1>4 DEF ToRow, Served
  <1> QED
    BY <1>1, <1>3, <1>4, <1>5 DEF IsPayload

-----------------------------------------------------------------------------

\* An empty store, and vendors that serve what they always did.
LEMMA InitIInv == Init => IInv
  <1> SUFFICES ASSUME Init
               PROVE  IInv
    OBVIOUS
  <1>1. ClockAndRuns
    BY DEF Init, ClockAndRuns
  <1>2. VendorServes /\ VendorUnique
    BY VendorsServeFacts DEF Init, VendorServes, VendorUnique, IsServed, Served, SameFact
  <1>3. /\ PayloadsServed /\ RowsArchived /\ RunsInOrder /\ OkStored /\ FactsRemembered
        /\ BatchRemembered /\ IndexStored /\ FixtureHonest
    BY DEF Init, Idle, PayloadsServed, RowsArchived, RunsInOrder, OkStored, FactsRemembered,
           BatchRemembered, IndexStored, FixtureHonest
  <1> QED
    BY <1>1, <1>2, <1>3 DEF IInv

\* Time goes on.
LEMMA AdvanceStep ==
    ASSUME IInv, Advance
    PROVE  IInv'
  <1>1. /\ clock \in Nat /\ clock' \in Nat /\ clock <= clock'
        /\ UNCHANGED <<vendor, store, archive, audit, log, run, at, batch, faults, fixture>>
    BY DEF Advance, IInv, ClockAndRuns
  <1>2. ClockAndRuns'
    BY <1>1 DEF IInv, ClockAndRuns
  <1>3. VendorServes'
    BY <1>1, ServedLater DEF IInv, VendorServes
  <1>4. PayloadsServed'
    <2>1. ASSUME NEW raw, NEW job, NEW stamp, IsPayload(raw, job, stamp)
          PROVE  IsPayload(raw, job, stamp)'
      BY <1>1, <2>1 DEF IsPayload
    <2> QED
      BY <1>1, <2>1 DEF IInv, PayloadsServed, Job
  <1>5. VendorUnique' /\ RowsArchived' /\ RunsInOrder' /\ BatchRemembered' /\ FixtureHonest'
    BY <1>1 DEF IInv, VendorUnique, RowsArchived, RunsInOrder, Visited, BatchRemembered,
                FixtureHonest
  <1>6. OkStored' /\ FactsRemembered' /\ IndexStored'
    BY <1>1 DEF IInv, OkStored, LatestOk, FactsRemembered, Job, IndexStored, LatestIndex
  <1> QED
    BY <1>2, <1>3, <1>4, <1>5, <1>6 DEF IInv

\* A vendor serves a new row: the one it had of that fact goes, none is forgotten.
LEMMA PublishStep ==
    ASSUME IInv, NEW n \in News, Publish(n)
    PROVE  IInv'
  <1>1. /\ vendor' = {v \in vendor : ~SameFact(v, n)} \cup {Served(n, clock)}
        /\ UNCHANGED <<clock, store, archive, audit, log, run, at, batch, faults, fixture>>
    BY DEF Publish
  <1>2. VendorServes'
    BY <1>1, VendorsServeFacts DEF IInv, ClockAndRuns, VendorServes, IsServed, Served
  <1>3. VendorUnique'
    BY <1>1 DEF IInv, VendorUnique, SameFact, Served
  <1>4. ASSUME NEW raw, Covers(vendor, raw)
        PROVE  Covers(vendor', raw)
    <2> SUFFICES ASSUME NEW c \in raw
                 PROVE  \E v \in vendor' : SameFact(v, c)
      BY DEF Covers
    <2>1. PICK v \in vendor : SameFact(v, c)
      BY <1>4 DEF Covers
    <2>2. CASE SameFact(v, n)
      <3>1. SameFact(Served(n, clock), c)
        BY <2>1, <2>2 DEF SameFact, Served
      <3> QED
        BY <1>1, <3>1
    <2>3. CASE ~SameFact(v, n)
      BY <1>1, <2>1, <2>3
    <2> QED
      BY <2>2, <2>3
  <1>5. FactsRemembered' /\ BatchRemembered'
    BY <1>1, <1>4 DEF IInv, FactsRemembered, BatchRemembered, Job
  <1>6. ClockAndRuns' /\ PayloadsServed' /\ RowsArchived' /\ RunsInOrder' /\ FixtureHonest'
    BY <1>1 DEF IInv, ClockAndRuns, PayloadsServed, IsPayload, Job, RowsArchived, RunsInOrder,
                Visited, FixtureHonest
  <1>7. OkStored' /\ IndexStored'
    BY <1>1 DEF IInv, OkStored, LatestOk, IndexStored, LatestIndex
  <1> QED
    BY <1>2, <1>3, <1>5, <1>6, <1>7 DEF IInv

\* The steps that leave the payloads and what the store holds of them alone.
LEMMA QuietStep ==
    ASSUME IInv, ClockAndRuns', FixtureHonest', RunsInOrder',
           at'.step # "store", UNCHANGED <<clock, vendor, store, archive>>,
           \A a \in audit' : a \in audit \/ a.status = "error"
    PROVE  IInv'
  <1>1. PayloadsServed' /\ FactsRemembered' /\ BatchRemembered'
    BY DEF IInv, PayloadsServed, IsPayload, FactsRemembered, BatchRemembered
  <1>2. VendorServes' /\ VendorUnique' /\ RowsArchived'
    BY DEF IInv, VendorServes, VendorUnique, RowsArchived
  <1>3. \A r, j : [run |-> r, job |-> j, status |-> "ok"] \in audit' =>
                  [run |-> r, job |-> j, status |-> "ok"] \in audit
    OBVIOUS
  <1>4. OkStored'
    BY <1>3 DEF IInv, OkStored, LatestOk
  <1>5. IndexStored'
    BY <1>3 DEF IInv, IndexStored, LatestIndex
  <1> QED
    BY <1>1, <1>2, <1>4, <1>5 DEF IInv

\* A run starts: no entry is of it yet.
LEMMA StartStep ==
    ASSUME IInv, StartRun
    PROVE  IInv'
  <1>1. /\ run' = run + 1 /\ at' = [job |-> 1, step |-> "fetch"]
        /\ UNCHANGED <<clock, vendor, store, archive, audit, fixture>>
    BY DEF StartRun
  <1>2. ClockAndRuns'
    BY <1>1, JobsAre DEF IInv, ClockAndRuns
  <1>3. RunsInOrder'
    BY <1>1 DEF IInv, ClockAndRuns, RunsInOrder
  <1>4. FixtureHonest'
    BY <1>1 DEF IInv, FixtureHonest
  <1> QED
    BY <1>1, <1>2, <1>3, <1>4, QuietStep

\* The run's event is appended.
LEMMA SummariseStep ==
    ASSUME IInv, Summarise
    PROVE  IInv'
  <1>1. at' = Idle /\ UNCHANGED <<clock, vendor, store, archive, audit, run, fixture>>
    BY DEF Summarise
  <1>2. ClockAndRuns' /\ RunsInOrder' /\ FixtureHonest'
    BY <1>1 DEF IInv, ClockAndRuns, RunsInOrder, FixtureHonest
  <1> QED
    BY <1>1, <1>2, QuietStep DEF Idle

\* A fixture freezes reads whose stamps the rows' first service precedes.
LEMMA RecordStep ==
    ASSUME IInv, NEW ts \in 0..clock, RecordAndLoad(ts)
    PROVE  IInv'
  <1>1. /\ at = Idle /\ Loadable(ts)
        /\ fixture' = [ts |-> ts, rows |-> Read("price_bars", ts) \cup Read("fundamentals", ts)]
        /\ UNCHANGED <<clock, vendor, store, archive, audit, run, at>>
    BY DEF RecordAndLoad
  <1>2. FixtureHonest'
    <2>1. ts \in Nat
      BY DEF IInv, ClockAndRuns
    <2>2. ASSUME NEW r \in store, r.table \in Stamped
          PROVE  r.avail \in Int /\ r.since \in Int /\ r.since <= r.avail
      BY <2>2, StampedRow DEF IInv
    <2> QED
      BY <1>1, <2>1, <2>2 DEF FixtureHonest, Read, Loadable, BindingCutoff
  <1>3. ClockAndRuns' /\ RunsInOrder'
    BY <1>1 DEF IInv, ClockAndRuns, RunsInOrder, Visited
  <1> QED
    BY <1>1, <1>2, <1>3, QuietStep DEF Idle

\* A payload arrives and is stamped.  The index job asked for everything.
LEMMA FetchStep ==
    ASSUME IInv, Fetch
    PROVE  IInv'
  <1>1. PICK tickers :
            batch' = [raw |-> {v \in vendor : Serves(v, tickers)}, stamp |-> clock]
    BY DEF Fetch
  <1>2. /\ at \in [job : DOMAIN Jobs, step : {"fetch", "store", "summary"}]
        /\ at.step = "fetch" /\ at' = [at EXCEPT !.step = "store"]
        /\ UNCHANGED <<clock, vendor, store, archive, audit, run, fixture>>
    BY DEF Fetch, Idle, IInv, ClockAndRuns
  <1>3. /\ at' \in [job : DOMAIN Jobs, step : {"fetch", "store", "summary"}]
        /\ at'.job = at.job /\ at'.step = "store" /\ at # Idle /\ Job' = Job
    BY <1>2 DEF Idle, Job
  <1>4. ClockAndRuns' /\ VendorServes' /\ VendorUnique' /\ RowsArchived' /\ FixtureHonest'
    BY <1>2, <1>3 DEF IInv, ClockAndRuns, VendorServes, VendorUnique, RowsArchived, FixtureHonest
  <1>5. RunsInOrder'
    BY <1>2, <1>3 DEF IInv, RunsInOrder, Visited
  <1>6. OkStored' /\ IndexStored'
    BY <1>2 DEF IInv, OkStored, LatestOk, IndexStored, LatestIndex
  <1>7. PayloadsServed'
    <2>1. IsPayload(batch.raw, Job, batch.stamp)'
      BY <1>1, <1>2, <1>3
         DEF IInv, ClockAndRuns, VendorServes, VendorUnique, IsPayload, IsServed, Serves
    <2>2. \A a \in archive : a.job \in JobNames /\ IsPayload(a.raw, a.job, a.stamp)'
      BY <1>2 DEF IInv, PayloadsServed, IsPayload
    <2> QED
      BY <1>2, <2>1, <2>2 DEF PayloadsServed
  <1>8. BatchRemembered'
    BY <1>1, <1>2 DEF BatchRemembered, Covers, SameFact
  <1>9. FactsRemembered'
    <2>1. ASSUME NEW a \in archive, Job = "sp500_universe", a.job = Job
          PROVE  Covers(batch'.raw, a.raw)
      <3>1. ASSUME NEW c \in a.raw
            PROVE  \E v \in batch'.raw : SameFact(v, c)
        <4>1. PICK v \in vendor : SameFact(v, c)
          BY DEF IInv, FactsRemembered, Covers
        <4>2. v.job = Job
          BY <2>1, <4>1 DEF IInv, PayloadsServed, IsPayload, IsServed, SameFact
        <4>3. Serves(v, tickers)
          BY <2>1, <4>2 DEF Serves
        <4> QED
          BY <1>1, <4>1, <4>3
      <3> QED
        BY <3>1 DEF Covers
    <2> QED
      BY <1>2, <1>3, <2>1 DEF IInv, FactsRemembered
  <1> QED
    BY <1>4, <1>5, <1>6, <1>7, <1>8, <1>9 DEF IInv

\* The place the run comes to when it leaves a job, or is killed.
LEMMA LeaveJob ==
    ASSUME ClockAndRuns, at # Idle, UNCHANGED <<clock, run>>,
           at' = Idle \/ (at.step # "summary" /\ NextJob)
    PROVE  /\ ClockAndRuns' /\ at'.step # "store" /\ Job \in JobNames
           /\ at' = Idle \/ \A job : Visited(job) \/ job = Job => Visited(job)'
           /\ at.step # "summary" => ~Visited(Job)
  <1>1. at \in [job : 1..5, step : {"fetch", "store", "summary"}]
    BY JobsAre DEF ClockAndRuns
  <1>2. ClockAndRuns' /\ at'.step # "store" /\ Job \in JobNames
    BY <1>1, JobsAre DEF ClockAndRuns, NextJob, Idle, Job
  <1>3. ASSUME at' # Idle, NEW job, Visited(job) \/ job = Job
        PROVE  Visited(job)'
    <2>1. at.step # "summary" /\ NextJob
      BY <1>3
    <2>2. PICK i \in 1..5 : Jobs[i] = job /\ i <= at.job
      BY <1>1, <1>3, <2>1, JobsAre DEF Visited, Job
    <2>3. i < at'.job \/ at'.step = "summary"
      BY <1>1, <2>1, <2>2, JobsAre DEF NextJob
    <2> QED
      BY <2>2, <2>3, JobsAre DEF Visited
  <1>4. at.step # "summary" => ~Visited(Job)
    BY <1>1, JobsAre DEF Visited, Job
  <1> QED
    BY <1>2, <1>3, <1>4

\* A job fails, or the run is killed, with nothing written.
LEMMA FruitlessStep ==
    ASSUME IInv, at # Idle, at' = Idle \/ (at.step # "summary" /\ NextJob),
           audit' = audit \/ AuditRow("error"),
           UNCHANGED <<clock, vendor, store, archive, run, fixture>>
    PROVE  IInv'
  <1>1. /\ ClockAndRuns' /\ at'.step # "store"
        /\ at' = Idle \/ \A job : Visited(job) \/ job = Job => Visited(job)'
    BY LeaveJob DEF IInv
  <1>2. RunsInOrder'
    BY <1>1 DEF IInv, ClockAndRuns, RunsInOrder, AuditRow
  <1>3. FixtureHonest'
    BY DEF IInv, FixtureHonest
  <1> QED
    BY <1>1, <1>2, <1>3, QuietStep DEF AuditRow

\* Upserting rows of one job touches no row of another.
LEMMA UpsertEffect ==
    ASSUME NEW job, NEW part, \A r \in part : r.src = job, store' = Upsert(part)
    PROVE  /\ \A r \in store' : r \in store \/ r \in part
           /\ \A r : r.src # job => (r \in store <=> r \in store')
           /\ part \subseteq store'
           /\ \A r \in store', q \in part : Key(q) = Key(r) => r \in part
  BY KeyFields DEF Upsert

\* A payload is archived and a part of its rows stored, all of them if its job
\* ends ok.  No entry of this run is of the job yet.
LEMMA WriteStep ==
    ASSUME IInv, at.step = "store", at' = Idle \/ NextJob,
           NEW part \in SUBSET Rows(batch.raw, batch.stamp),
           NEW status, status = "error" \/ part = Rows(batch.raw, batch.stamp),
           archive' = Archived, store' = Upsert(part),
           audit' = audit \/ AuditRow(status),
           UNCHANGED <<clock, vendor, run, fixture>>
    PROVE  IInv'
  <1> DEFINE e == [run |-> run, job |-> Job, raw |-> batch.raw, stamp |-> batch.stamp]
             rows == Rows(batch.raw, batch.stamp)
             Ok(a) == [run |-> a.run, job |-> a.job, status |-> "ok"]
  <1>1. /\ ClockAndRuns' /\ at'.step # "store" /\ Job \in JobNames
        /\ at' = Idle \/ \A job : Visited(job) \/ job = Job => Visited(job)'
        /\ ~Visited(Job) /\ at # Idle
    <2>1. at # Idle
      BY DEF Idle
    <2> QED
      BY <2>1, LeaveJob DEF IInv
  <1>2. /\ archive' = archive \cup {e} /\ e.run = run /\ e.job = Job
        /\ e.raw = batch.raw /\ e.stamp = batch.stamp
    BY DEF Archived
  <1>3. IsPayload(batch.raw, Job, batch.stamp)
    BY DEF IInv, PayloadsServed
  <1>4. \A r \in rows : r.src = Job /\ r.table = TableOf[Job]
    BY <1>3, RowFields
  <1>5. /\ \A r \in store' : r \in store \/ r \in part
        /\ \A r : r.src # Job => (r \in store <=> r \in store')
        /\ part \subseteq store'
        /\ \A r \in store', q \in part : Key(q) = Key(r) => r \in part
    BY <1>4, UpsertEffect
  <1>6. run \in Nat /\ \A a \in archive \cup audit : a.run \in Nat /\ a.run <= run /\ (a.run = run => a.job # Job)
    BY <1>1 DEF IInv, ClockAndRuns, RunsInOrder
  <1>7. /\ Ok(e) \in audit' => part = rows
        /\ \A a \in archive : a.job # Job \/ a.run # run => (Ok(a) \in audit' => Ok(a) \in audit)
    <2>1. Ok(e) \notin audit
      BY <1>6
    <2>2. \A x \in audit' : x \in audit \/ x = [run |-> run, job |-> Job, status |-> status]
      BY DEF AuditRow
    <2> QED
      BY <1>2, <2>1, <2>2
  <1>8. PayloadsServed'
    BY <1>1, <1>2, <1>3 DEF IInv, PayloadsServed, IsPayload
  <1>9. RowsArchived'
    BY <1>2, <1>5 DEF IInv, RowsArchived
  <1>10. RunsInOrder'
    <2>1. \A x \in archive' \cup audit' : x \in archive \cup audit \/ (x.run = run /\ x.job = Job)
      BY <1>2 DEF AuditRow
    <2>2. run \in Nat
      BY DEF IInv, ClockAndRuns
    <2> QED
      BY <1>1, <2>1, <2>2 DEF IInv, RunsInOrder
  <1>11. OkStored'
    <2> SUFFICES ASSUME NEW a \in archive', LatestOk(a)'
                 PROVE  /\ Rows(a.raw, a.stamp) \subseteq store'
                        /\ \A r \in store', q \in Rows(a.raw, a.stamp) :
                              Key(q) = Key(r) => r \in Rows(a.raw, a.stamp)
      BY DEF OkStored
    <2>1. CASE a = e
      <3>1. part = rows
        BY <1>7, <2>1 DEF LatestOk
      <3> QED
        BY <1>2, <1>5, <2>1, <3>1
    <2>2. CASE a # e
      <3>1. a \in archive /\ a.run = run /\ a.job # Job
        <4>1. a \in archive /\ run <= a.run
          BY <1>2, <2>2 DEF LatestOk
        <4> HIDE DEF e
        <4> QED
          BY <1>6, <4>1
      <3>2. LatestOk(a)
        BY <1>2, <1>7, <3>1 DEF LatestOk
      <3>3. \A r \in Rows(a.raw, a.stamp) : r.src = a.job
        BY <3>1, RowFields DEF IInv, PayloadsServed
      <3>4. /\ Rows(a.raw, a.stamp) \subseteq store
            /\ \A r \in store, q \in Rows(a.raw, a.stamp) :
                  Key(q) = Key(r) => r \in Rows(a.raw, a.stamp)
        BY <3>1, <3>2 DEF IInv, OkStored
      <3> QED
        BY <1>5, <3>1, <3>3, <3>4, KeyFields
    <2> QED
      BY <2>1, <2>2
  <1>12. FactsRemembered' /\ BatchRemembered'
    BY <1>1, <1>2 DEF IInv, FactsRemembered, BatchRemembered
  <1>13. IndexStored'
    <2> SUFFICES ASSUME NEW a \in archive', LatestIndex(a)'
                 PROVE  {r \in store' : r.table = "universe_membership"} = Rows(a.raw, a.stamp)
      BY DEF IndexStored
    <2>1. \A r \in store : r.table = "universe_membership" <=> r.src = "sp500_universe"
      BY RowOrigin, JobsAre DEF IInv
    <2>2. CASE Job = "sp500_universe"
      <3>1. a = e
        <4>1. a.job = Job /\ run <= a.run
          BY <1>2, <2>2 DEF LatestIndex
        <4>2. a \notin archive
          BY <1>6, <4>1
        <4> QED
          BY <1>2, <4>2
      <3>2. part = rows
        BY <1>7, <3>1 DEF LatestIndex
      <3>3. ASSUME NEW r \in store', r \in store, r.table = "universe_membership"
            PROVE  r \in part
        <4>1. PICK b \in archive : r \in Rows(b.raw, b.stamp) /\ r.src = b.job
                                   /\ IsPayload(b.raw, b.job, b.stamp)
          BY <3>3, RowOrigin DEF IInv
        <4>2. b.job = Job
          BY <2>1, <2>2, <3>3, <4>1
        <4>3. PICK c \in b.raw : r = ToRow(c, b.stamp)
          BY <4>1 DEF Rows
        <4>4. PICK v \in batch.raw : SameFact(v, c)
          BY <2>2, <4>2 DEF IInv, FactsRemembered, Covers
        <4>5. v.job = "sp500_universe"
          BY <1>3, <2>2 DEF IsPayload, IsServed
        <4>6. Key(ToRow(v, batch.stamp)) = Key(r) /\ ToRow(v, batch.stamp) \in part
          BY <3>2, <4>3, <4>4, <4>5, KeyFields DEF Rows
        <4> QED
          BY <1>5, <4>6
      <3>4. \A r \in part : r \in store' /\ r.table = "universe_membership"
        BY <1>4, <1>5, <2>2, JobsAre
      <3> QED
        BY <1>2, <1>5, <3>1, <3>2, <3>3, <3>4
    <2>3. CASE Job # "sp500_universe"
      <3>1. a \in archive /\ LatestIndex(a)
        BY <1>2, <1>7, <2>3 DEF LatestIndex
      <3>2. \A r \in part : r.table # "universe_membership"
        BY <1>1, <1>4, <2>3, JobsAre
      <3>3. \A r : r \in store /\ r.table = "universe_membership" => r \in store'
        BY <1>5, <2>1, <2>3
      <3>4. {r \in store : r.table = "universe_membership"} = Rows(a.raw, a.stamp)
        BY <3>1 DEF IInv, IndexStored
      <3> QED
        BY <1>5, <3>2, <3>3, <3>4
    <2> QED
      BY <2>2, <2>3
  <1>14. VendorServes' /\ VendorUnique' /\ FixtureHonest'
    BY DEF IInv, VendorServes, VendorUnique, FixtureHonest
  <1> QED
    BY <1>1, <1>8, <1>9, <1>10, <1>11, <1>12, <1>13, <1>14 DEF IInv

\* The steps that may write a part of a batch, and the one that writes it all.
LEMMA StoreStep ==
    ASSUME IInv, Store \/ JobFails \/ Kill
    PROVE  IInv'
  <1> DEFINE rows == Rows(batch.raw, batch.stamp)
  <1>1. UNCHANGED <<clock, vendor, run, fixture>>
    BY DEF Store, JobFails, Kill
  <1>2. Upsert({}) = store
    BY DEF Upsert
  <1>3. CASE Store
    <2>1. at.step = "store" /\ archive' = Archived /\ NextJob
      BY <1>3 DEF Store
    <2>2. CASE Refused(rows)
      <3>1. AuditRow("error") /\ store' = Upsert({})
        BY <1>2, <1>3, <2>2 DEF Store
      <3> QED
        BY <1>1, <2>1, <3>1, WriteStep
    <2>3. CASE ~Refused(rows)
      <3>1. AuditRow("ok") /\ store' = Upsert(rows)
        BY <1>3, <2>3 DEF Store
      <3> QED
        BY <1>1, <2>1, <3>1, WriteStep
    <2> QED
      BY <2>2, <2>3
  <1>4. CASE JobFails \/ Kill
    <2>1. /\ at # Idle
          /\ at' = Idle \/ (at.step # "summary" /\ NextJob)
          /\ audit' = audit \/ AuditRow("error")
      BY <1>4 DEF JobFails, Kill, Idle
    <2>2. CASE UNCHANGED <<archive, store>>
      BY <1>1, <2>1, <2>2, FruitlessStep
    <2>3. CASE ~UNCHANGED <<archive, store>>
      <3>1. at.step = "store" /\ StoredInPart
        BY <1>4, <2>3 DEF JobFails, Kill
      <3>2. archive' = Archived /\ \E part \in SUBSET rows : store' = Upsert(part)
        <4>1. {} \in SUBSET rows
          OBVIOUS
        <4> QED
          BY <1>2, <2>3, <3>1, <4>1 DEF StoredInPart
      <3> QED
        BY <1>1, <2>1, <3>1, <3>2, WriteStep
    <2> QED
      BY <2>2, <2>3
  <1> QED
    BY <1>3, <1>4

\* Every step of the store and of what feeds it, a stutter included.
LEMMA StepIInv == IInv /\ [Next]_vars => IInv'
  <1> SUFFICES ASSUME IInv, [Next]_vars
               PROVE  IInv'
    OBVIOUS
  <1>1. CASE UNCHANGED vars
    <2>1. /\ ClockAndRuns' /\ VendorServes' /\ VendorUnique' /\ PayloadsServed'
          /\ RowsArchived' /\ RunsInOrder' /\ BatchRemembered' /\ FixtureHonest'
      BY <1>1 DEF vars, IInv, ClockAndRuns, VendorServes, VendorUnique, PayloadsServed,
                  IsPayload, Job, RowsArchived, RunsInOrder, Visited, BatchRemembered,
                  FixtureHonest
    <2>2. OkStored' /\ FactsRemembered' /\ IndexStored'
      BY <1>1 DEF vars, IInv, OkStored, LatestOk, FactsRemembered, Job, IndexStored, LatestIndex
    <2> QED
      BY <2>1, <2>2 DEF IInv
  <1>2. CASE Next
    BY <1>2, AdvanceStep, PublishStep, StartStep, FetchStep, StoreStep, SummariseStep, RecordStep
       DEF Next
  <1> QED
    BY <1>1, <1>2

\* The inductive invariant holds in every reachable state.
THEOREM PITStoreInvariant == Spec => []IInv
  <1>1. Init => IInv
    BY InitIInv
  <1>2. IInv /\ [Next]_vars => IInv'
    BY StepIInv
  <1> QED
    BY <1>1, <1>2, PTL DEF Spec

-----------------------------------------------------------------------------

\* The cutoff that binds is at least every seat's.
LEMMA BindingIsLatest == \A c \in Cutoffs : c \in Int /\ BindingCutoff \in Int /\ c <= BindingCutoff
  BY CutoffsAreDates, MaxIsMax DEF BindingCutoff

\* No read, as known at t, of a table stamped at ingestion, and no fixture that is loaded,
\* returns what was not served yet.  Fundamentals and the universe go by other dates.
THEOREM ReadsHaveNoHindsight == Spec => []NoHindsight
  <1>1. ASSUME IInv
        PROVE  NoHindsight
    <2>1. ASSUME NEW t \in 0..clock, NEW table \in Stamped, NEW r \in Read(table, t)
          PROVE  r.since <= t
      <3>1. r \in store /\ r.table \in Stamped /\ r.avail <= t
        BY <2>1 DEF Read
      <3>2. r.avail \in Int /\ r.since \in Int /\ r.since <= r.avail
        BY <1>1, <3>1, StampedRow DEF IInv
      <3> QED
        BY <3>1, <3>2, <1>1 DEF IInv, ClockAndRuns
    <2>2. CASE fixture = NoFixture
      BY <2>1, <2>2 DEF NoHindsight, NoFixture
    <2>3. CASE fixture # NoFixture
      <3>1. \A r \in fixture.rows : /\ r.avail <= fixture.ts
                                    /\ r.table \in Stamped => r.since <= fixture.ts
        BY <1>1, <2>3 DEF IInv, FixtureHonest
      <3>2. \A c \in Cutoffs : c < fixture.ts
        BY <1>1, <2>3, BindingIsLatest DEF IInv, FixtureHonest, Loadable
      <3> QED
        BY <2>1, <3>1, <3>2 DEF NoHindsight
    <2> QED
      BY <2>2, <2>3
  <1> QED
    BY <1>1, PITStoreInvariant, PTL

\* Every row is rebuilt from the archive, and the drill on the jobs of the latest
\* archived run that were ok finds their rows and no other.
THEOREM ArchiveIsComplete == Spec => []ArchiveRebuilds
  <1>1. ASSUME IInv
        PROVE  ArchiveRebuilds
    <2> DEFINE A == {a \in archive : LatestOk(a)}
               replica == UNION {Rows(a.raw, a.stamp) : a \in A}
    <2>1. replica \subseteq store
      BY <1>1 DEF IInv, OkStored
    <2>2. \A r \in store, q \in replica : Key(q) = Key(r) => r \in replica
      BY <1>1 DEF IInv, OkStored
    <2>3. {r \in store : \E q \in replica : Key(q) = Key(r)} = replica
      <3> HIDE DEF replica
      <3> QED
        BY <2>1, <2>2
    <2>4. Replays(A)
      BY <2>3 DEF Replays
    <2> QED
      BY <1>1, <2>4 DEF ArchiveRebuilds, IInv, RowsArchived, LatestOk
  <1> QED
    BY <1>1, PITStoreInvariant, PTL

\* The universe of a date is the one the latest changes up to it give.
THEOREM UniverseFollows == Spec => []UniverseFollowsChanges
  <1>1. ASSUME IInv, NEW a \in archive, LatestIndex(a), NEW t \in 0..clock
        PROVE  Universes(t) =
                   {{n \in Names : \E c \in a.raw :
                        /\ c.name = n /\ c.val = 1 /\ c.date <= t
                        /\ \A d \in a.raw : d.name = n /\ d.date <= t => d.date <= c.date}}
    <2> DEFINE T == {n \in Names : \E c \in a.raw :
                        /\ c.name = n /\ c.val = 1 /\ c.date <= t
                        /\ \A d \in a.raw : d.name = n /\ d.date <= t => d.date <= c.date}
               Fits(S) == \A n \in Names :
                        IF n \in S THEN \E r \in Latest(n, t) : r.val = 1
                        ELSE Latest(n, t) = {} \/ \E r \in Latest(n, t) : r.val = 0
               Row(c) == ToRow(c, a.stamp)
    <2>1. IsPayload(a.raw, "sp500_universe", a.stamp)
      BY <1>1 DEF IInv, PayloadsServed, LatestIndex
    <2>2. \A c \in a.raw : /\ c.date \in Int /\ c.event = c.date /\ c.val \in {0, 1}
                           /\ Row(c).name = c.name /\ Row(c).avail = c.date /\ Row(c).val = c.val
      <3>1. TableOf["sp500_universe"] \notin Stamped
        BY JobsAre DEF Stamped
      <3>2. \A c \in a.raw : c.job = "sp500_universe" /\ \E n \in Past \cup News : \E s : c = Served(n, s)
        BY <2>1 DEF IsPayload, IsServed
      <3> QED
        BY <3>1, <3>2, VendorsServeFacts DEF Served, ToRow
    <2>3. \A c, d \in a.raw : c.name = d.name /\ c.date = d.date => c = d
      BY <2>1, <2>2 DEF IsPayload, IsServed, SameFact
    <2>4. {r \in store : r.table = "universe_membership"} = {Row(c) : c \in a.raw}
      BY <1>1 DEF IInv, IndexStored, Rows
    <2> HIDE DEF Row
    <2>5. \A n : Latest(n, t) = {Row(c) : c \in {x \in a.raw :
              /\ x.name = n /\ x.date <= t
              /\ \A d \in a.raw : d.name = n /\ d.date <= t => d.date <= x.date}}
      BY <2>2, <2>4 DEF Latest, Read
    <2>6. ASSUME NEW n \in Names
          PROVE  /\ n \in T <=> \E r \in Latest(n, t) : r.val = 1
                 /\ n \in T <=> ~(Latest(n, t) = {} \/ \E r \in Latest(n, t) : r.val = 0)
      BY <2>2, <2>3, <2>5
    <2>7. T \in SUBSET Names
      OBVIOUS
    <2>8. \A S \in SUBSET Names : Fits(S) <=> S = T
      <3> HIDE DEF T
      <3>1. Fits(T)
        BY <2>6
      <3>2. ASSUME NEW S \in SUBSET Names, Fits(S), NEW n \in Names
            PROVE  n \in S <=> n \in T
        BY <2>6, <3>2
      <3> HIDE DEF Fits
      <3> QED
        BY <2>7, <3>1, <3>2
    <2>9. Universes(t) = {S \in SUBSET Names : Fits(S)}
      BY DEF Universes
    <2> HIDE DEF T, Fits
    <2>10. Universes(t) = {T}
      BY <2>7, <2>8, <2>9
    <2> QED
      BY <2>10 DEF T
  <1>2. IInv => UniverseFollowsChanges
    BY <1>1 DEF UniverseFollowsChanges, LatestIndex
  <1> QED
    BY <1>2, PITStoreInvariant, PTL

=============================================================================
