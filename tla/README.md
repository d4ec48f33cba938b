# axrzceFund: a TLA+ verification project

The repository is a Python research "fund" run by language-model agents in dry-run mode. Once per
trading day a cycle settles yesterday's modeled orders, marks the book, ticks the drawdown
breakers, screens two names, runs each through a chain of paid model calls, gates the result in
code and appends a modeled order to an event log. Nothing is submitted to a broker. The event log is
the source of truth; the book, the breakers and the post-mortem queue are rebuilt from it. The same
process may be killed by systemd at any point and started again, by the timer or by hand.

All paths below are relative to the repository.

## Inventory

| Component | State | Operations | What is hard | What makes it correct |
|---|---|---|---|---|
| Ledger (`graphs/ledger.py`, `graphs/orders.py`) | none of its own: everything from the event log | `replay_book`, `settle_pending`, `record_marks`, `log_order` | killed between appends, sessions run again or late, missing bars, several pending orders on a name | an order settles at most once, as placed, after it; nothing left out; shares conserved |
| Breakers (`graphs/monitor.py`, snapshots in `ledger.py`) | state, high-water mark, clean sessions, fired levels | `tick`, `human_recover`, `snapshot`, `from_snapshot`, watchdog | kill between tick and snapshot, human recovery during a cycle, thresholds met exactly | halt is left by a human alone, the mark never falls, normal is earned by clean sessions and reached by them |
| Daily cycle (`graphs/daily_cycle.py`, `ops/run_daily_cycle_vm.py`) | the artifact per session; in memory the candidates, decisions | one run per session | a stage raises, a stage is refused, a kill leaves no artifact, runs repeat | every candidate accounted for; the cycle ends; spend counted |
| Spend governor (`core/budget.py`) | day, shadow and prior week's spend, stopped | `charge`, `guard`, `allow_shadows`, `allow_second_candidate` | charged after the fact, caps at the boundary | the overshoot of a stop is bounded; envelopes keep the cap |
| Event log (`core/event_log.py`) | one SQLite table | `append`, `get_events`, `verify_hash_chain` | several processes, read outside the transaction, timeouts, kills | acknowledged events stay, once; the chain is continuous where appends do not overlap and a tree otherwise; lost rows are reported |
| Risk gate (`graphs/risk_gate.py`) | none | `evaluate` | order of rules, clamping boundary, a book that is out of date | caps are passed by a bounded amount over the orders that wait, beside what prices move; errors reject |
| Screen (`graphs/screen.py`) | none | `scan_universe`, `screen_candidates` | filters, ties | at most two names, none held |
| Decision pipeline (`graphs/agents/`, `verif01.py`, `debate.py`, `ballot.py`, `judge.py`, `pm.py`) | turns, sealed votes, stamps | `run_fund_tech`, `run_tech_01`, `run_debate`, `cast_votes`, `tally`, `run_judge_debate`, `run_pm` | retries and partial failure of turns, margin boundary, order of haircuts and caps, override rules | an order comes out of a whole chain only; each doubt makes it smaller; defiance is on record |
| Shadows (`graphs/shadow.py`) | events | `run_shadow_votes` | runs after the decision, may fail | never changes a decision |
| Deep loop (`graphs/deep_loop.py`, `state.py`, `stubs/`) | checkpoint per node, events | ten nodes in order | events appended before the checkpoint; kill and resume | repeats are a kill's; fail-closed; the last decision on record is the one taken |
| Post-mortems, memory (`graphs/pmort.py`, `core/episodic.py`) | queue derived from the log | `run_pmort`, `drain_pending`, recall | retry, an aborted drain, kill between two events | a queued trade leaves by its capture only; a lesson has its episode |
| Point-in-time store (`data/pit_store.py`) | DuckDB tables | inserts, `get_*` at a decision time, look-ahead audit | revisions, late data, announcements ahead | nothing a vendor served later is read |
| Ingestion (`data/ingestion.py`, `ops/nightly_ingest.py`) | archive, store, log | nightly jobs | one job fails, a kill inside a batch, a rerun | the archive rebuilds the store |
| Fixtures, replay (`data/fixtures/harness.py`, `core/replay.py`) | recorded fixture, lock | record, lock, load | re-recording after a decision | a decision can be replayed from its fixture |
| Result delivery (`ops/vm_*.sh`, `ops/precommit_guard.py`, `deploy/systemd/`) | local branch, remote branch, work tree | sync, commit, guard, rebase, push | remote advances, push fails, foreign commits, a kill anywhere | queued results survive what saw them and arrive; what the guard has looked at carries no code |
| Week audit, dashboard (`ops/audit_week.py`, `ops/build_dashboard.py`) | none | checks of artifacts | missing or overwritten artifacts | a week passes only when every session does |
| Trial registry (`harness/trial_registry.py`) | SQLite table | register, start, complete, fail | check, then write in a second statement | a trial is completed once, from running |
| Statistics (`harness/statistics.py`, `cpcv.py`, `fraud_catch.py`, `synthetic.py`) | none | estimators, splits | purging and embargo at the borders | train and test are disjoint |
| Clients, manifest, config (`core/llm.py`, `manifest.py`, `heterogeneity.py`, `config.py`, ...) | none | one call, lookups | attempts | fail closed |
| Vendor interfaces (`data/interfaces/`), smoke scripts (`ops/run_*`) | none | I/O | external | out of scope |

How they interact: the cycle calls everything else in one process, by plain calls; between runs the
only links are the event log (ledger, breakers, post-mortems), the artifacts (`results/wp6`, read
for the week's spend) and the point-in-time store. Processes meet in the event log (the nightly
ingest and the broker round trip share `var/event_log.db`; the timer's cycle and one started by hand
share `var/wp6_event_log.db`), and in the git checkout (the services of
`deploy/systemd`). A human meets a running cycle in `human_recover`.

## Modules

| Module | Models | Code |
|---|---|---|
| `OrderLife` | abstract: an order is placed once, filled at most once, never taken back | the promise of `graphs/ledger.py` |
| `Ledger` | the log as the book's only state, the steps of a cycle that touch it, kills, runs of old sessions | `ledger.py`, `orders.py`, the bookkeeping of `daily_cycle.py` |
| `Breakers` | the breaker machine, its snapshot, cycles, kills, watchdog, human | `monitor.py`, `ledger.py` 125-136 |
| `DailyCycle` | the control of one run, the governor, the artifacts | `daily_cycle.py`, `budget.py`, `run_daily_cycle_vm.py` |
| `EventLog` | the steps of `append` in several processes, SQLite's lock, `verify_hash_chain` | `event_log.py` |
| `RiskGate` | the gate and the shares of an order, as operators | `risk_gate.py`, `build_order` of `orders.py` |
| `Book` | cycles over the fund's exposure: settlement, marks and NAV, screen, gate, pending orders; extends `RiskGate` | `daily_cycle.py`, `screen.py`, `ledger.py` |
| `Decision` | one candidate from memos to order; extends `RiskGate` | `agents/`, `verif01.py`, `debate.py`, `judge.py`, `ballot.py`, `pm.py`, `costs.py`, `manifest.py`, `heterogeneity.py`, `orders.py`, `llm.py`, the loop body of `daily_cycle.py` |
| `PITStore` | nightly ingestion, store, archive, reads, fixtures | `pit_store.py`, `ingestion.py`, `nightly_ingest.py`, `harness.py` of `data/fixtures`, `replay_check.py` |
| `Delivery` | services in one checkout, tracking ref, remote, clean-up | `vm_git_sync.sh`, `vm_commit_results.sh`, `precommit_guard.py`, `vm_sync_to_cleaned_history.sh` |
| `DeepLoop` | nodes, events, checkpoints, kill and resume | `deep_loop.py` |
| `PostMortem` | verdicts, captures, the pending queue and its drain | `pmort.py`, `episodic.py`, `heterogeneity.py` |
| `MC...` of each of these but `OrderLife` and `RiskGate` | the instances for TLC | |
| `SumTheorems` | lemmas on sums over finite sets and on the extremes of one, used by the proofs | |
| `LedgerProofs`, `BreakersProofs`, `RecoveryProofs`, `DailyCycleProofs`, `PITStoreProofs`, `DecisionProofs`, `BookProofs` | theorems | |

### Ledger

`log` is the event log restricted to the four types the book is made of. `replay_book` is not a step
but a set of views (`Pending`, `Holding`, `Mark`, `Unrealized`), since the code computes it afresh
from the log; `Replay` is the body of its loop for one name, folded over the log by `Holding`. `StartCycle` takes the snapshot of pending orders
`settle_pending` iterates over;
`Settle` and `Gap` are one pass of its loop each, in log order; `RecordMarks`, `LogOrder`, `Finish`
follow. Every append is a step of its own and `Kill` may come between any two. A session is any one
up to the present, since the entry point takes a date. Prices are integers; a fill is kept in parts
of a price so that the half spread is exact, and an average entry price as a fraction. The log is
appended to by one process at a time here; `EventLog` looks at what happens otherwise.

### Breakers

`saved` is the latest `breaker_snapshot`, `live` the machine of the running cycle. `Tick` is the
method statement by statement (`Raise`, the two fund levels, `Fire`, `Decay`). A drawdown is compared
by cross-multiplication, so the thresholds are met exactly. `WatchdogHalt` and `HumanRecover` are
operations of the module that the daily cycle does not call itself: the operator and the monitor's
loop do. `quiet` is a history variable that counts persisted ticks below the derisk threshold.

### DailyCycle

`pc` is the place in `run_daily_cycle`; the six paid stages of a candidate are `Stages`. `MayRun` is
the guard that precedes a stage; TECH-01 has none in the code and none here. `RunStage` returns and
charges, `FailCandidate` raises, with or without paid calls, `StopOnBudget` is `BudgetStop`. So a fund memo
that stops the day is followed by TECH-01's: `NothingPaidOnceStopped` is violated, and
`OvershootBounded` says what holds instead. `Charge` and the two `Allow` operators are the governor.
`artifacts` maps a session to the spend its artifact
records and is overwritten by a second run, as the file is. `before` and `paid` are history
variables.

### EventLog

A writer goes through read, inserted, committed. Python's `sqlite3` opens a transaction at the INSERT
only, so the read of the last hash is outside it. `GiveUp` stands for every way an append ends early:
the UNIQUE column, a lock timeout in any of its statements, a kill; an open transaction is rolled
back, a committed row stays. A hash is the sequence of the contents it covers, which makes it
injective as SHA-256 is taken to be. `decision_ts` is stored and not hashed, so it is no part of a
content but a stamp of the row (`Stamps`). `lastId` is SQLite's AUTOINCREMENT.

No code deletes or changes a row; what the nightly check is for is the file. `LoseRow` takes a stored
row from it, and `intact` says that this has not happened yet: what append promises is promised of an
intact file, and `VerifiedIsWhole` is what the check is worth of any other. It reports what is missing
before any row that is left, while rows lost at the end of the log leave no trace. A row whose content
changes is not modelled, since no hash is computed again and the check passes it.

### RiskGate and Book

`Evaluate` is `evaluate` with its order of effects: hard rejects, halving in derisk, the tightest
allowance, and rejection when less than 80 % of the size is left. Sizes are in units of 0.0001 % of
the NAV, fine enough that every size the code computes from tenths of conviction is whole. `Book`
runs it over cycles: `BeginCycle` settles what has an open, marks the book anew, ticks and screens
(`Candidates`), `Enter`, `Pass` and `Abandon` are the ways a candidate ends. `Context` is what the
code passes to the gate, which is less than what is true: the book replayed at the start of the cycle,
no pending orders, no sector of a position.

A holding and an order are whole shares. `market` is what a session's marks and the NAV they make
come to: the closes, what a share of each name is worth as a share of the NAV, and what is long and
short in the names outside the screen. It may become any of `Markets` when a cycle begins, a name
without a bar keeping its close; its worth may change all the same, as the NAV does. `Enter` buys or
sells the shares the gate's size pays for at the worth of the decision, and settlement moves them
into the book at that of a later session. The caps are looked at by the gate only, so what prices do
to them is unbounded: `moved` counts by how much marks have changed what is held and ordered (`Move`),
and `ExposureBounded` excepts it. `gaps`, `peak` and `entries` (orders of a name filled since it was
last not held) are histories too.

An order is told from the others by its cycle and its place there, where the code draws a trade id.
The screen's sort is put as the place each name has in it (`Before`, `Place`): `Candidates` lists the
names at the first places.

### Decision

`pc` walks through the body of the candidate loop. `RunFundTech` and `RunTech01` ask once;
`TakeTurn`, `Moderate`, `Judge`, `Vote` and the PM's actions may `Retry` once; `CallFails` is the
client giving up after its attempts, `Fail` any other exception, `Leave` a budget stop or a kill. A
reply is a record of what the checks look at: whether a turn argues its own position, repeats a
point, cites inside the memos, attacks; whether a closing is there and for which side; and the agent
id that turn and closing bear, which the model writes: the debater's own, the opponent's, or one the
check does not know. `MarksOf` collects what `check_grounding` and `check_capitulation` will find,
which judge a side by the id it bears (`Betrays`): a wrong side under an id they do not know escapes.
Families are numbers in their sorted order,
since the judge is the first of those left. Convictions are tenths and may exceed the schema's range,
where the clamp or the ballot's validator takes over. A manifest names the families and the roles in
scope: `Preflight` asks for the seats of the debate and for two families, `ResolveRuntime` for a role
at the moment it is called. The technical block is made of daily bars only, so a name of which the
store has the live feed alone has none (`TechnicalBlock`). `EdgeCovers` compares the edge with three
times the round trip's cost; the cost has a square root, so both sides are squared. `Score`,
`TotalCast`, `Winner` and `Contested` are the tally of the ballots they are given, and `WithBallot`
adds one.

### PITStore

Time is a count of instants and a date the instant of its midnight. A run goes through its five jobs
in order, each a `Fetch` (with its stamp) and a `Store` (archive, guard, upsert, audit row);
`JobFails` and `Kill` may leave any part of a batch, since each row is a statement of its own.
`since` travels with a row as a history of when the vendor first served its value. The universe a
read may return is a set, because ties are broken by no rule; `UniverseFollowsChanges` shows there
are none. `RecordAndLoad` freezes a read and passes it through the gate of `load_fixture`. `Replays`
is the drill of `replay_check.py`.

### Delivery

A history is the set of its commits, each code or results. One git command is a step, and the
services interleave in one checkout: one index (`staged`), one branch (`local`), one tracking ref
(`origin`). The sync's look and its move are two steps, as in the script. A push or its answer may be
lost; a pull may fail before or after its fetch. `CleanPark` and `CleanReset` are the two halves of
the clean-up script. `ForeignCommit`, a commit of code by somebody in the
checkout, may come at any time, also between a service's guard and its push. Four histories say what
a check had before it: `since` holds the unreviewed commits made after a service's last guard,
`atLook` what was ahead when its sync looked, `atPark` what was ahead when the clean-up parked, and
`overtaken` the results that a reset took although they were committed only after that. `parked`
branches stay in the checkout for a human.

### DeepLoop

`draft` is what the running node has computed, `mem` the state of the process, `disk` the
checkpoint. `BeginNode` computes, `Emit` appends one event, `Checkpoint` saves; `Raise` appends
`cycle_failed` and `CheckpointFailure` saves the halted state. `KillCycle` loses `mem` and
`draft`; `Resume` reads `disk`. Every event bears the `life` of the process that appended it.
A checkpoint is on disk before the next node begins. LangGraph, invoked with its default durability
(`deep_loop.py:234`), may write it in the background while the next node runs; a kill may then lose
two nodes, which no property of this module speaks of.

### PostMortem

`job` is the running `run_pmort`, `drain` the trades a pass of `drain_pending` has left; it takes the
smallest id first. The queue and the episodic store are views of the log (`Pending`, `Store`). An
invalid second reply and a missing seat
raise: nothing is captured or queued, and a drain pass ends. `Capture`, `CaptureLesson` and
`CapturePending` are the appends, with `KillPmort` between them. The store's sort is put as the place
each episode has in it (`Place`).

## Runs

| Run | Question | Bounds |
|---|---|---|
| `ledger` | do orders settle once, as placed, completely, with shares conserved; is the averaged entry price worth the sum of its fills; is the life of an order implemented | 2 names, 2 orders, 2 sessions, 4 runs, 2 opens, quantities 1 and 2 |
| `ledger_reduce` | *violated*: does the entry price stay within the fills | 2 names, 2 orders, 2 sessions, 3 runs |
| `breakers` | all properties of the snapshot and of the machine about to be persisted | NAVs on both sides of and exactly at each configured threshold, above the mark, and zero |
| `daily_cycle` | caps, envelopes, accounting of candidates, termination | 2 runs, 2 sessions, 2 candidates, a cheap and a dear stage |
| `daily_cycle_stop` | *violated*: is nothing paid for once the governor has stopped | as `daily_cycle` |
| `event_log` | durability, chain, tree; does a log that passes the check hold all its rows were chained to, whatever the file has lost | 3 writers, 2 contents, 2 stamps, 3 rows |
| `decision` | is an order earned by a whole chain, bounded by every doubt, and defiance on record | 1 candidate, 2 rounds, 1 document, 7 manifests, 5 books, 4 convictions, 3 closes, 3 edges, 3 ADVs |
| `book` | by how much can orders the gate does not see pass the caps, beside what prices move; is a name entered once | 2 names, 2 cycles, 2 candidates a cycle, 4 markets near a limit, 2 sizes, 2 breaker states |
| `pit_store` | hindsight, rebuild from the archive, universe | 2 runs, 3 instants, 5 rows served and 2 of 3 to come, 1 failure or kill |
| `delivery` | is what a push carries guarded up to the push, is the queue kept, is it delivered | 2 services, 2 artifacts (1 the hook blocks), 1 review, 1 incident |
| `deep_loop` | repeats, failure, last decision | 2 kills, 3 proposals or none, 2 turns |
| `post_mortem` | lessons, queue | 3 trades, 4 calls, 1 kill |

Why the bounds are enough. Two orders on one name or on two are the least that settle in one loop,
with a gap for one of them, and two runs of one session plus one of the next cover kill, rerun and
late run. The average needs a fourth run: two orders placed before either settles (a gap), a run
killed between their settlements and one that settles the second at another open. Its configuration
follows the last two runs only as far as they settle, and into the fourth only for that case
(`LastRunsSettle`), since no run is left to settle what they decide. The NAVs of
`breakers` realise every outcome of every comparison in `tick`; the clean count is bounded by the
code. In `daily_cycle` one dear stage crosses the day's cap from below the second candidate's
headroom and two runs cross the week's. In `event_log` three writers allow a fork whose branches are
both extended, and two contents the hash collision of two writers that say the same at once; three rows
allow one to be lost at the start, in the middle or at the end.

In `decision` the manifests have a disjoint family with a seat (first or not first in order), one
without a seat, and none; one has debaters of one family, one no moderator in scope and one no
TECH-01. The edges lie on both sides of what the smallest and the largest order cost in the names of
the ADVs given, one of which is below the gate's floor and one of which is nothing. Of the three rounds
configured two are kept, one without closings and the last, which is all the code tells apart; the convictions reach both sides of the
contested margin, none at all, and beyond the scale; the books leave the full size, less than 80 % of
some sizes and nothing. `book` needs a missing open to let orders accumulate and a second cycle to
add to them; its markets are a fund just within the gross limit and the upper end of the net band, the
same fund after a session in which a name gains and the NAV falls, one just within the lower end, and
the same outside it. The smaller size, halved in derisk, does not pay for one share of the dearer
name, and the cheaper one is at the floor of the price or below it. One document is enough in
`decision`: what the checks tell apart is a citation inside the memos from one outside, and a memo may
leave the document out. `pit_store` has a row of every job, a revision of the one, a restatement of
another and an exit announced ahead; its configuration stops exploring (`NotYetRecorded`) once a
fixture is recorded, since no other step reads it. In `delivery` an incident is a kill, a commit of
code or a clean-up (`MaxIncidents`); two services are the least that race for the checkout, and the
one that flushes covers a second flush. `deep_loop` needs two kills to repeat a node twice.
`post_mortem` has a trade whose seat is missing, so a drain pass is cut short with others behind it.

The proofs below cover the properties they name for every value of the constants.

`CHECK_DEADLOCK FALSE` stands where the model ends at a bound: no runs, rows, cycles, candidates,
calls or trade ids are left, or the one cycle is over.
`Breakers` and `Delivery` have no such bound and are checked for deadlock.

### Fairness

`DailyCycle` states weak fairness of `Work`, the steps of the one running process. It is sequential,
its model calls have client timeouts and its loops are over finite lists, so it always gets to its
next step; if it does not, systemd kills it after 45 minutes (`Kill`, for which nothing is assumed),
which ends the cycle as well. `Start` is not fair: nobody promises a run.

`Delivery` states, for each service, weak fairness of `Step` (a started script goes on), and strong
fairness of `Start` (timers fire every day, also after a downtime) and of `PullOk` and `PushOk` (a
network that is asked again and again works now and then, and not only when the checkout is in the
way). `KillService`, `Review`, `ForeignCommit` and the clean-up are not fair. `QueueDelivered` has as its
premise that the index is free of files the hook blocks again and again: the code has no step that
takes one out.

## Divergences

What the code does where a document or a comment of the repository says otherwise, or where a reader
would expect otherwise. The two that name a run are checked by it: it expects a violation of what is
promised, under the actions of the module's passing run. The others were met in modelling, are part
of the models' actions, and are what the properties had to be stated around; where a property says
what is left of the promise, it is named.

| Where | What the code does |
|---|---|
| `ledger.py:85` | (`ledger_reduce`) a fill that reduces a holding is averaged into its entry price |
| `daily_cycle.py:228` | (`daily_cycle_stop`) no guard precedes TECH-01's memo (`OvershootBounded` counts it in): when FUND-TECH's has stopped the day it is run and paid for all the same; `budget.py:3` and `budget.py:48` say no further calls that day, `wp6-done-criteria.md` R8 says hard |
| `event_log.py:116` | the last hash is read outside the transaction, so appends that overlap fork the chain and the nightly check fails on an undamaged log (`SerialChain`, `RowsFormTree` are what is left); `event_log.py:42` says it must be continuous |
| `event_log.py:221` | the chain check compares links and computes no hash, and `decision_ts` is in none, so changed content passes; rows missing at the end of the log leave no trace (`VerifiedIsWhole`); `event_log.py:4` says tampering is detectable |
| `debate.py:126`, `156` | a turn or a closing for the other side passes under an agent id that is not the debater's, which the model writes (`OrderIsEarned` asks only that no position contradicts its id); `debate.py:115` says it voids the debate |
| `daily_cycle.py:233` | a candidate is dropped only when both memos are invalid, so TECH-01's alone may lead to an order (`OrderIsEarned` asks for one of the two); `tech_01.py:17` says its stance alone never carries one to debate |
| `vm_commit_results.sh:83` | nothing is checked between the guard and the push, so code committed in between is pushed (`GuardHolds` confines it to that); lines 12 to 14 say a results push can never carry code |
| `vm_git_sync.sh:49` | a reset takes what another service committed after the look that decided it (`QueueKept` excepts that and no more); lines 13 and 14 say queued results are never reset away |
| `ledger.py:97` | a session run again fills an order at the open before its decision; `ledger.py:10` says the next session's open |
| `monitor.py:100` | a drawdown turns cooldown into derisk, where the gate admits entries, without a clean session; `monitor.py:13` says three |
| `daily_cycle.py:242`, `llm.py:123` | what a stage or an attempt cost before it raised is not recorded; `budget.py:4` says every charge is |
| `daily_cycle.py:260`, `pm.py:155` | the monthly cap on overrides never binds: the cycle passes no count of them |
| `daily_cycle.py:253`, `debate.py:421` | FUND-TECH votes although its memo was invalid and TECH-01's was not |
| `daily_cycle.py:226`, `verif01.py:76` | uncited claims are reported but never stripped; a memo's document ids are never compared with the fixture's |
| `judge.py:80`, `pmort.py:59` | if the first disjoint family in order has no seat the judge fails, though a later one has |
| `daily_cycle.py:280`, `risk_gate.py:131` | the gate sees neither pending orders nor what prices do between cycles: the caps bind late (`ExposureBounded` says by how much), and nothing acts on a book that has drifted past them |
| `ledger.py:69`, `daily_cycle.py:281` | a replayed position has no sector, so the sector cap never binds; no order ever closes a position |
| `daily_cycle.py:295` | `log_quote` may raise after `log_order`: the artifact says failed, the order is settled |
| `daily_cycle.py:263`, `316` | `debate_failed` is always false; shadows see the ballot of the last decided candidate only |
| `deep_loop.py:111` | a kill between `cycle_failed` and the halted checkpoint: the resumed node may succeed |
| `pmort.py:185` | an invalid second reply leaves nothing captured or queued and ends the drain pass |
| `episodic.py:170` | the queue is said to be pending events without a *later* post-mortem; an earlier one takes the trade off too |
| `episodic.py:152` | a kill between the two appends leaves a lesson in the episode only, without its candidate event |
| `screen.py:86`, `daily_cycle.py:51` | the scan and the session's bars read the store without the as-known-at filter |
| `vm_git_sync.sh:49` | a reset also deletes results that were staged and not committed |
| `precommit_guard.py:53` | one staged file in vendor shape keeps every later result from being committed |
| `vm_sync_to_cleaned_history.sh` | pauses two timers, not those of the cycle and the flush |

## Proofs

TLAPS proves, for all constants satisfying the named assumptions of the modules:

- `LedgerProofs`: all invariants of the run `ledger`, and that `Ledger`
  implements `OrderLife` (initial states map to initial states, every step to a step or a stutter).
  The inductive invariant adds that trade ids are unique among orders (`RefsUnique`) and that what is
  left in `todo` is still pending (`TodoPending`): without the latter a settlement could repeat, since
  `settle_pending` does not look at the log again inside its loop. Three results need more than it.
  `SettlementComplete`: what the loop has passed over it has explained by a gap of this run
  (`GapsRecorded`). `OrdersConserved`: a holding is a whole quantity with a proper fraction for its
  price (`HoldingsTyped`); a fill then moves as many shares out of the pending ones as into the
  holding. `UnrealizedIsSumOfFills`: as long as the fills are on one side the holding is on that side
  (`Averaged`), so each further fill is averaged and never flips it. The assumption used is that
  prices and quantities are positive and the half spread less than a price.
- `BreakersProofs`: all six properties of the run. The inductive invariant relates the machine of the
  running cycle to the snapshot (`LiveNotLooser`: no lower mark, halted if the snapshot is) and the
  machine's own count of clean sessions to the true one (`CountKept`), which is what a kill, a
  recovery during a cycle or a relapse could break. Assumed: thresholds and starting NAV are positive;
  their order does not matter.
- `RecoveryProofs` holds the components whose order of appends, checkpoints and pushes is what a kill or
  a second writer could break; it extends all four, which is why three of them name their `Init`,
  `Next` and `Spec` after themselves.

  Event log: all five invariants of the run. `LogInv` says what an append under way knows: its previous
  hash is committed, its own is new while it holds the lock and stored after the commit, and without
  overlap it alone is under way and has read the present last hash. The loss of a row breaks that, so
  the invariant (`KeptInv`) asks it of an intact file only; what it asks of any is that the hash stored
  with a row was computed over the previous one stored with it (`Chained`), from which `LossIsReported`
  follows, as the check itself counts the rows along the hashes. Assumed: `NoWriter` is not a writer;
  hashes are injective by construction of the model.

  Deep loop: both invariants of the run. `DeepInv` says that a running process holds what is on disk
  (`MemoryIsDisk`), that the draft differs from it only in what the running node sets
  (`DraftFollows`), that no event is of a node beyond the one that is due (`EventsBehind`), that in
  this life the due node has appended only slots below the present one and a failure has halted the
  cycle (`ThisLife`), and that what a checkpoint says of proposal and order is the last such record of
  the log (`Recorded`). A resumed process begins a life of its own, of which the log has no event yet;
  that is why the invariant survives a kill. Also that a decision, once on disk, stays
  (`DecisionStands`), which no run checks. Assumed: a proposal fits the gate or does not; turns and
  lives are bounded by naturals.

  Post-mortems: the invariant and the action property of the run. `PostInv` says that the running
  `run_pmort` was given a seat that may sit and a lesson its window allows (`JobSound`), that its
  episode is the last event while the lesson candidate is due (`LessonDue`), and that every lesson
  candidate of the log follows its episode (`LessonsFollow`). That the episode is then in the store,
  which is a sorted view of the log, is `StoreHoldsAll`: every episode has a place of its own.
  Assumed: trades are finitely many naturals, the families are listed once and the seats are among
  them.

  Delivery: `GuardHolds` and `QueueKept` (`OnlyTheWindowIsOpen`, `ResultsAreKept`). `DeliveryInv` says
  that while a service is between its guard and its push the unreviewed commits of the checkout are
  those made since that guard (`Carried`), whoever made them and whatever other services sync, rebase
  or push meanwhile; that the tracking ref is never ahead of the remote; that a sync about to move
  goes by what was ahead when it looked (`GoesByLook`); and that a clean-up about to reset has parked
  every result it saw (`ParkedWhatWasSeen`). Without the last two a reset could take what its look had
  seen queued. Assumed: `Vendor` is a set of artifacts.
- `DailyCycleProofs`: all five invariants of the run. None of the bounds on the spend is inductive,
  since nothing but the stop flag keeps a stage from being charged after a cap is passed. The invariant
  says how far the spend may be in each state of the flag (`RunningIsBelowCaps`; `OneChargeBeforeTech`
  for the memo that no guard precedes), and keeps what the checks of the second candidate and of the
  shadow votes have seen (`RoomForSecond`, `RoomForShadows`). Assumed: costs are positive and finitely
  many, the caps positive; nothing relates caps, envelopes and costs.
- `PITStoreProofs`: all three invariants of the run. The invariant traces every row of the store to an
  archived payload and every payload to what the vendor served when it was stamped (`PayloadsServed`,
  `RowsArchived`); it says that a run has only entries of jobs it has behind it (`RunsInOrder`), so
  that nothing writes under the keys of a job after it was ok (`OkStored`), and that no payload of the
  index lacks a change an earlier one had (`FactsRemembered`), without which an old row would outlive
  the payload that replaces it (`IndexStored`). Assumed (`VendorsServeFacts`): a vendor serves one row
  per fact, and an index row is an entry or exit of a name on its date; seats have cutoffs.
- `DecisionProofs`: all four invariants of the run. They speak of the moment an order stands, so the
  invariant carries from each step on what the step has checked: `Preflight` (`Running`), the debate
  (`DebateWhole`), the judge (`JudgeNamed`), the ballots in the voters' order (`BallotsInOrder`), the
  proposal with its size and edge (`ProposalKept`), the entries of the log (`OnRecord`, `OneOrder`,
  `OrderKept`). Lemmas on the operators say that a named judge is of neither debater's family
  (`JudgeIsDisjoint`), that `Evaluate` never adds and admits only what is admissible
  (`EvaluateShrinks`), what `SizePosition` is bounded by under each doubt (`SizeLimits`), that a slim
  margin is a contested ballot (`SlimMargin`) and that an edge that pays for a size pays for a smaller
  one (`SmallerIsCheaper`). Assumed (`DecisionAssumption`): sets of naturals, a manifest's families are
  finitely many and include the debaters', and the books are of the gate's type.

- `BookProofs`: both invariants of the run. What the gate bounds is one order beside the settled book,
  at the marks of its day; what is bounded here is the book with all orders that wait, at the marks of
  any later one. The argument of a cycle's beginning goes in two steps: new marks change the exposure
  of what is held and ordered by `Move` at most (`MarksKeepBound`, from the triangle inequality taken
  name by name and order by order), and settlement then moves exposure and makes none
  (`FillsKeepBound`: the sum over a set of orders is taken name by name). A new order is of as many
  whole shares as its size pays for, so no worth more than that (`WholeShares`), and meets at most
  `peak - 1` orders the gate has not seen (`OrderKeepsBound`, `PeakCounts`), each no larger than the
  largest proposal when it was placed (`GateBounds`). That a name is entered once rests on the
  candidates: no name twice (`OfferedOnce`), none that is held, and none with an order that has not
  missed an open for each position it may hold (`OfferedFresh`, `FlatIsFresh`). That the screen's list
  is of this kind (`OffersFresh`) needs its order to be a strict one that fills every place
  (`PlacesFilled`). Orders are a set, so a new one must be new (`PlacesTaken`). Assumed
  (`BookAssumption`): finitely many names and sizes, sizes within the cap on a new position, a share
  that is worth something. The fund is within its limits when the model begins (`WithinLimits`); the
  markets it meets later are any.

`SumTheorems` holds what these need of the community modules' sums and extremes: that a sum over a
finite set exists, is a number, grows by what is inserted, can be taken part by part, and
keeps multiples and bounds of its terms; that a finite
set of integers has a greatest and a least element. A fold is defined by recursion over the subsets of
its set, and the library's induction theorems are out of the provers' reach; the lemmas choose a least
counterexample instead, since strict inclusion is well founded on the subsets of a finite set.
`LedgerProofs` does the same for the fold over the log (`ReplaysAgree`, `ReplaysExists`).

Only model-checked: liveness (`CycleEnds`, `QueueDelivered`), which TLAPS does not do with fairness.
`EntryWithinFills` and `NothingPaidOnceStopped`, the properties of the violated runs, are false of the
code and so have no proof. All other properties of the runs are proved. No module declares a RECURSIVE operator.

## Not modelled

See the components with status `not_modelled` in PROJECT.json: numerical estimators and splits on
real-valued series (out of TLC's reach), rendering, vendor I/O, scripts run once by hand, the week
audit (a pure check that recomputes hashes), and the trial registry, whose only caller opens it in
memory in a single process.

In the modelled components: wording of prompts and what a model answers (input), the judge's scores,
float rounding of prices and NAV, market-open and limit orders that the cycle never asks for,
`Escalation`, stops and stale marks (the cycle passes no stop prices and marks dated now, and nothing
carries the actions out), `get_events` filters, `staleness_check`, the reconciliation of two vendors'
bars, locks and content hashes, the ADV average, two restatements of a filing under one datekey, a
kill inside a rebase, a checkpoint written beside the next node, what makes prices and the NAV move
(`Markets` is an input). The latest archived run is the last one started (run ids sort
by their date).

Some hazards are covered in part: no property asks for the lesson candidate a kill lost
(`episodic.py:152`), and `QueueLeftByCapture` is strict about what leaves the post-mortem queue, which
is derived from the log, and says little about the loop that drains it. Hazards listed without a
property are those no property of the code can cover, because the code keeps
too little to tell (which session a clean tick or a mark belongs to, what an overwritten artifact
recorded, what a raised stage cost) or promises nothing of what it keeps.

## Plan

The models of the first plan are built, except for the trial registry, given up for the reason above,
and every safety property of the runs is proved. What stays open is what the sections above say cannot
be had here: proofs of the two liveness properties, and properties for the hazards whose evidence the
code does not keep. When the code changes, the definition PROJECT.json maps to the changed lines
is the one to revisit, then the run of its module, then the lemma of its action.
