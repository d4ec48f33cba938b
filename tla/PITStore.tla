------------------------------ MODULE PITStore ------------------------------
(***************************************************************************)
(* The point-in-time store and what fills and reads it: the nightly run of *)
(* five ingestion jobs (data/ingestion.py), the upserts, the write guard   *)
(* and the as-known-at reads (data/pit_store.py), and the fixtures frozen  *)
(* from those reads (data/fixtures/harness.py).                            *)
(*                                                                         *)
(* The vendors publish and revise while a run is under way, and a run may  *)
(* be killed between any two of its steps, or with a batch half written.   *)
(* Time is a count of instants; a date is the instant of its midnight.     *)
(* `since', the instant a vendor first served a value, travels with every  *)
(* row so that properties can speak of it; the code does not have it.      *)
(***************************************************************************)
EXTENDS Integers, Sequences, FiniteSets, FiniteSetsExt

CONSTANTS
    Past,        \* raw rows the vendors serve already: [job, name, event, date, val]
    News,        \* raw rows they may publish
    Watchlist,   \* names whose bars are fetched while the universe is empty
    Window,      \* how far back a job asks for
    Cutoffs,     \* the training cutoffs of the seats that read a fixture
    MaxClock, MaxNews, MaxRuns, MaxFaults    \* bounds

ASSUME BoundsAreNaturals == {MaxClock, MaxNews, MaxRuns, MaxFaults, Window} \subseteq Nat
ASSUME CutoffsAreDates == IsFiniteSet(Cutoffs) /\ Cutoffs # {} /\ Cutoffs \subseteq Int

Jobs == <<"sep_daily_bars", "sf1_fundamentals", "sp500_universe",
          "corporate_actions", "iex_daily_bars">>
JobNames == {Jobs[i] : i \in DOMAIN Jobs}
Names == {n.name : n \in Past \cup News}

SameFact(v, n) == <<v.job, v.name, v.event, v.date>> = <<n.job, n.name, n.event, n.date>>

\* The vendors serve one row per fact; what they serve of the index is the change of
\* a name on the change's date, which is its event too.
ASSUME VendorsServeFacts ==
    /\ \A m, n \in Past : SameFact(m, n) => m = n
    /\ \A n \in Past \cup News :
          /\ n.job \in JobNames /\ n.date \in Int
          /\ n.job = "sp500_universe" => n.event = n.date /\ n.val \in {0, 1}

Served(n, since) == [job |-> n.job, name |-> n.name, event |-> n.event, date |-> n.date,
                     val |-> n.val, since |-> since]

TableOf == [job \in JobNames |->
    CASE job \in {"sep_daily_bars", "iex_daily_bars"} -> "price_bars"
      [] job = "sf1_fundamentals"                     -> "fundamentals"
      [] job = "sp500_universe"                       -> "universe_membership"
      [] job = "corporate_actions"                    -> "corporate_actions"]

\* Tables whose rows carry the stamp of the ingestion, not a date of the vendor's.
Stamped == {"price_bars", "corporate_actions"}

VARIABLES
    clock,
    vendor,     \* what the vendors serve now: News with the instant of publication
    store,      \* rows of the four tables
    archive,    \* raw archive: [run, job, raw, stamp]
    audit,      \* ingestion_audit: [run, job, status]
    log,        \* ingestion_run events: [run, ok]
    run,        \* number of runs started
    at,         \* the run's position: a job and a step of it, or idle
    batch,      \* what the running job holds: raw rows and their stamp
    faults,     \* failed jobs and kills so far
    fixture     \* the fixture recorded and loaded, or none yet

vars == <<clock, vendor, store, archive, audit, log, run, at, batch, faults, fixture>>

Idle == [job |-> 0, step |-> "idle"]
NoBatch == [raw |-> {}, stamp |-> 0]
NoFixture == [ts |-> -1, rows |-> {}]

-----------------------------------------------------------------------------
\* Transforms and upserts

\* Mutant: membership rows stamped at ingestion, as before 2026-06-15.
ToRowStampedUniverse(raw, stamp) ==
    [table |-> TableOf[raw.job], src |-> raw.job, name |-> raw.name,
     asOf  |-> raw.event,
     avail |-> IF raw.job = "sf1_fundamentals" THEN raw.date ELSE stamp,
     val   |-> raw.val, since |-> raw.since]

\* Bars and actions are known from the ingestion stamp; a filing from its datekey;
\* an index change from its date.
ToRow(raw, stamp) ==
    [table |-> TableOf[raw.job], src |-> raw.job, name |-> raw.name,
     asOf  |-> raw.event,
     avail |-> IF TableOf[raw.job] \in Stamped THEN stamp ELSE raw.date,
     val   |-> raw.val, since |-> raw.since]

Rows(raws, stamp) == {ToRow(r, stamp) : r \in raws}

\* A filing keeps one row per date it became known; the other tables one per event.
Key(r) == <<r.table, r.src, r.name, r.asOf,
            IF r.table = "fundamentals" THEN r.avail ELSE 0>>

\* Mutant: the value is replaced and the first stamp kept.
UpsertKeepsStamp(rows) ==
    LET old(r) == {s \in store : Key(s) = Key(r)}
    IN  {s \in store : \A r \in rows : Key(s) # Key(r)}
        \cup {IF old(r) = {} THEN r ELSE [r EXCEPT !.avail = Min({s.avail : s \in old(r)})]
                : r \in rows}

Upsert(rows) == {s \in store : \A r \in rows : Key(s) # Key(r)} \cup rows

\* The write guard and the physics check refuse a whole batch.
Refused(rows) ==
    \E r \in rows : \/ r.avail > clock
                    \/ r.table \in {"price_bars", "fundamentals"} /\ r.avail < r.asOf

-----------------------------------------------------------------------------
\* Reads

Read(table, knownAt) == {r \in store : r.table = table /\ r.avail <= knownAt}

\* The rows that may stand for a name: the latest by available_at, ties in any order.
Latest(name, knownAt) ==
    LET rows == {r \in Read("universe_membership", knownAt) : r.name = name}
    IN  {r \in rows : \A s \in rows : s.avail <= r.avail}

\* What get_universe may answer.
Universes(knownAt) ==
    {S \in SUBSET Names : \A n \in Names :
        LET latest == Latest(n, knownAt)
        IN  IF n \in S THEN \E r \in latest : r.val = 1
            ELSE latest = {} \/ \E r \in latest : r.val = 0}

\* audit_future_data: rows stored with a stamp that has yet to come.
FutureRows == {r \in store : r.avail > clock}

\* The replay drill: payloads of the archive, transformed again with their stamps,
\* against the rows of the store that have the same keys.
Replays(payloads) ==
    LET replica == UNION {Rows(a.raw, a.stamp) : a \in payloads}
    IN  {r \in store : \E q \in replica : Key(q) = Key(r)} = replica

\* The latest training cutoff of the seats that read a fixture.
BindingCutoff == Max(Cutoffs)

\* load_fixture refuses a fixture dated at or before it.
Loadable(ts) == ts > BindingCutoff

-----------------------------------------------------------------------------
Init ==
    /\ clock = 0
    /\ vendor = {Served(n, 0) : n \in Past}
    /\ store = {} /\ archive = {} /\ audit = {} /\ log = {}
    /\ run = 0 /\ at = Idle /\ batch = NoBatch /\ faults = 0
    /\ fixture = NoFixture

Advance ==
    /\ clock < MaxClock
    /\ clock' = clock + 1
    /\ UNCHANGED <<vendor, store, archive, audit, log, run, at, batch, faults, fixture>>

\* A vendor serves a row it did not serve, or a new value of one it did.  A bar is
\* out after its date, a filing on it; changes and actions are announced ahead.
Publish(n) ==
    /\ Cardinality(vendor \ {Served(m, 0) : m \in Past}) < MaxNews
    /\ n.job \in {"sep_daily_bars", "iex_daily_bars"} => clock > n.date
    /\ n.job = "sf1_fundamentals" => clock >= n.date
    /\ \A v \in vendor : SameFact(v, n) => v.val < n.val
    /\ vendor' = {v \in vendor : ~SameFact(v, n)}
                 \cup {Served(n, clock)}
    /\ UNCHANGED <<clock, store, archive, audit, log, run, at, batch, faults, fixture>>

StartRun ==
    /\ at = Idle
    /\ run < MaxRuns
    /\ run' = run + 1
    /\ at' = [job |-> 1, step |-> "fetch"]
    /\ UNCHANGED <<clock, vendor, store, archive, audit, log, batch, faults, fixture>>

Job == Jobs[at.job]

\* What a vendor returns: the full history of the index, the filings updated and
\* the bars and actions dated in the trailing window, bars of the names asked for.
Serves(v, tickers) ==
    /\ v.job = Job
    /\ CASE Job = "sp500_universe"   -> TRUE
         [] Job = "sf1_fundamentals" -> v.since >= clock - Window
         [] Job = "iex_daily_bars"   -> v.date >= clock - Window /\ v.name \in tickers
         [] OTHER                    -> v.date >= clock - Window

NextJob == at' = IF at.job < Len(Jobs) THEN [job |-> at.job + 1, step |-> "fetch"]
                 ELSE [job |-> at.job, step |-> "summary"]

AuditRow(status) == audit' = audit \cup {[run |-> run, job |-> Job, status |-> status]}

\* The payload is stamped after it has arrived.
Fetch ==
    /\ at.step = "fetch"
    /\ \E universe \in Universes(clock) :
           LET tickers == IF universe = {} THEN Watchlist ELSE universe
           IN  batch' = [raw |-> {v \in vendor : Serves(v, tickers)}, stamp |-> clock]
    /\ at' = [at EXCEPT !.step = "store"]
    /\ UNCHANGED <<clock, vendor, store, archive, audit, log, run, faults, fixture>>

Archived == archive \cup {[run |-> run, job |-> Job, raw |-> batch.raw, stamp |-> batch.stamp]}

\* The payload goes to the archive with its stamp; then the rows go in and an ok
\* audit row with them, or the batch is refused whole and an error row written.
Store ==
    /\ at.step = "store"
    /\ archive' = Archived
    /\ LET rows == Rows(batch.raw, batch.stamp)
       IN  IF Refused(rows) THEN AuditRow("error") /\ UNCHANGED store
           ELSE AuditRow("ok") /\ store' = Upsert(rows)
    /\ batch' = NoBatch
    /\ NextJob
    /\ UNCHANGED <<clock, vendor, log, run, faults, fixture>>

\* Mutant: the rows are inserted before the payload is archived.
StoredInPartArchiveLast ==
    /\ \E part \in SUBSET Rows(batch.raw, batch.stamp) : store' = Upsert(part)
    /\ UNCHANGED archive

\* What is left of a batch whose storing is cut short: nothing, or the payload
\* alone, or the payload and any part of the rows, each a statement.
StoredInPart ==
    \/ UNCHANGED <<archive, store>>
    \/ /\ archive' = Archived
       /\ IF Refused(Rows(batch.raw, batch.stamp)) THEN UNCHANGED store
          ELSE \E part \in SUBSET Rows(batch.raw, batch.stamp) : store' = Upsert(part)

\* A missing key, a vendor error, a full disk: the job ends in an error row, with
\* whatever it had stored, and the run goes on.
JobFails ==
    /\ at.step \in {"fetch", "store"}
    /\ faults < MaxFaults
    /\ faults' = faults + 1
    /\ IF at.step = "store" THEN StoredInPart ELSE UNCHANGED <<archive, store>>
    /\ AuditRow("error")
    /\ NextJob
    /\ batch' = NoBatch
    /\ UNCHANGED <<clock, vendor, log, run, fixture>>

\* The store is scanned for rows of the future, and the run's event appended.
Summarise ==
    /\ at.step = "summary"
    /\ LET allOk == /\ \A j \in JobNames : [run |-> run, job |-> j, status |-> "ok"] \in audit
                    /\ FutureRows = {}
       IN  log' = log \cup {[run |-> run, ok |-> allOk]}
    /\ at' = Idle
    /\ UNCHANGED <<clock, vendor, store, archive, audit, run, batch, faults, fixture>>

Kill ==
    /\ at # Idle
    /\ faults < MaxFaults
    /\ faults' = faults + 1
    /\ IF at.step = "store" THEN StoredInPart ELSE UNCHANGED <<archive, store>>
    /\ at' = Idle
    /\ batch' = NoBatch
    /\ UNCHANGED <<clock, vendor, audit, log, run, fixture>>

\* A fixture freezes the reads as known at ts, and is read back if it may be.
RecordAndLoad(ts) ==
    /\ fixture = NoFixture
    /\ at = Idle
    /\ Loadable(ts)
    /\ fixture' = [ts |-> ts, rows |-> Read("price_bars", ts) \cup Read("fundamentals", ts)]
    /\ UNCHANGED <<clock, vendor, store, archive, audit, log, run, at, batch, faults>>

Next ==
    \/ Advance
    \/ \E n \in News : Publish(n)
    \/ StartRun \/ Fetch \/ Store \/ JobFails \/ Summarise \/ Kill
    \/ \E ts \in 0..clock : RecordAndLoad(ts)

Spec == Init /\ [][Next]_vars

-----------------------------------------------------------------------------
\* Properties

(***************************************************************************)
(* No hindsight: of the tables stamped at ingestion, what a read as known  *)
(* at t returns had been served by the vendor at t - however late the read *)
(* is made, whatever was revised since, and whenever in the run the vendor *)
(* revised it.  So too for a loaded fixture, whose date every seat's       *)
(* training cutoff precedes.  (pit_store.py read filter and upserts,       *)
(* ingestion.py stamp, harness.py load_fixture.)                           *)
(***************************************************************************)
NoHindsight ==
    /\ \A t \in 0..clock : \A table \in Stamped : \A r \in Read(table, t) : r.since <= t
    /\ \A r \in fixture.rows : r.avail <= fixture.ts
                               /\ (r.table \in Stamped => r.since <= fixture.ts)
    /\ fixture # NoFixture => \A c \in Cutoffs : c < fixture.ts

(***************************************************************************)
(* The archive rebuilds the store (R4 and the G0.4 drill): every row came  *)
(* from an archived payload with the archived stamp, whatever was killed   *)
(* when; and the drill on the jobs of the latest archived run that         *)
(* reported ok finds their rows in the store, all of them and no other     *)
(* value under their keys.  (ingestion.py _run_job, replay_check.py.)      *)
(***************************************************************************)
ArchiveRebuilds ==
    /\ \A r \in store : \E a \in archive : r \in Rows(a.raw, a.stamp)
    /\ Replays({a \in archive :
          /\ \A b \in archive : b.run <= a.run
          /\ [run |-> a.run, job |-> a.job, status |-> "ok"] \in audit})

(***************************************************************************)
(* Once the latest run's index job is ok, the universe of every date up to *)
(* now is the one the change history gives, with no tie for the query to   *)
(* break: a name is in when its last change up to that date let it in.     *)
(* (transform_sp500, whose stamping emptied the universe on 2026-06-15,    *)
(* and get_universe.)                                                      *)
(***************************************************************************)
UniverseFollowsChanges ==
    \A a \in archive :
        /\ a.job = "sp500_universe"
        /\ \A b \in archive : b.job = a.job => b.run <= a.run
        /\ [run |-> a.run, job |-> a.job, status |-> "ok"] \in audit
        => \A t \in 0..clock :
              Universes(t) = {{n \in Names : \E c \in a.raw :
                                  /\ c.name = n /\ c.val = 1 /\ c.date <= t
                                  /\ \A d \in a.raw : d.name = n /\ d.date <= t => d.date <= c.date}}

=============================================================================
