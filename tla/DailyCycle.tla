----------------------------- MODULE DailyCycle -----------------------------
(***************************************************************************)
(* The control of one daily cycle (run_daily_cycle of                      *)
(* graphs/daily_cycle.py) and the governor of its spending                 *)
(* (BudgetGovernor of graphs/budget.py).                                   *)
(*                                                                         *)
(* A cycle takes up to two candidates of the screen through six paid       *)
(* stages, each of them a number of model calls, then casts the shadow     *)
(* votes, then writes the artifact of its session.  A stage that raises    *)
(* ends its candidate, not the cycle; a kill or an exception outside the   *)
(* candidate loop ends the cycle without an artifact.  The entry point     *)
(* sums the artifacts to know what the week has cost so far.               *)
(*                                                                         *)
(* Money is counted in whole units; the caps of the code are in cents.     *)
(***************************************************************************)
EXTENDS Integers, SequencesExt

CONSTANTS
    Costs,              \* what the calls of one stage may cost together
    DayCap,             \* DAILY_CAP_USD
    WeekCap,            \* WEEK_CAP_USD
    ShadowBudget,       \* SHADOW_DAY_BUDGET_USD
    CandidateEnvelope,  \* CANDIDATE_COST_ENVELOPE_USD
    ShadowEnvelope,     \* SHADOW_COST_ENVELOPE_USD
    Candidates,         \* how many names the screen offers at most: 2
    Days,               \* the sessions
    MaxRuns             \* bound: how many times the entry point is run

ASSUME DailyCycleAssumption ==
    /\ Costs \subseteq Nat \ {0} /\ IsFiniteSet(Costs) /\ Costs # {}
    /\ DayCap \in Nat \ {0} /\ WeekCap \in Nat \ {0}
    /\ ShadowBudget \in Nat /\ CandidateEnvelope \in Nat /\ ShadowEnvelope \in Nat
    /\ Days \subseteq Nat \ {0} /\ Candidates \in Nat /\ MaxRuns \in Nat

VARIABLES
    artifacts,   \* session -> the day's spend its artifact records
    runs,        \* how many runs have been started
    pc,          \* "idle", "next" candidate, "stage", "shadows" or "write"
    session,     \* the session of the run
    offered,     \* how many candidates the screen offers this run
    begun,       \* how many of them have been begun
    stage,       \* the stage the candidate comes to next
    gov,         \* the governor: prior, day, shadow, stopped
    decisions,   \* one "ok" or "error" per candidate that came to an end
    events,      \* the kinds of budget events this run has appended
    before,      \* history: the day's spend when the candidate was begun
    paid         \* history: what the calls of this run have really cost

vars == <<artifacts, runs, pc, session, offered, begun, stage, gov, decisions,
          events, before, paid>>
progress == <<runs, session, offered>>

\* The paid stages of a candidate; past the last one its decision is recorded.
Stages == <<"fund", "tech", "debate", "judge", "votes", "pm">>

Decided == Len(Stages) + 1

NewGovernor(prior) == [prior |-> prior, day |-> 0, shadow |-> 0, stopped |-> FALSE]

-----------------------------------------------------------------------------
(* The governor.                                                           *)

\* Mutant: a shadow's cost is added once more for the shadow budget.
ChargeShadowTwice(g, cost, isShadow) ==
    [g EXCEPT !.day = IF isShadow THEN @ + 2 * cost ELSE @ + cost,
              !.shadow = IF isShadow THEN @ + cost ELSE @,
              !.stopped = @ \/ g.day + cost >= DayCap \/ g.prior + g.day + cost >= WeekCap]

\* Mutant: the week is not looked at.
ChargeDayOnly(g, cost, isShadow) ==
    [g EXCEPT !.day = @ + cost,
              !.shadow = IF isShadow THEN @ + cost ELSE @,
              !.stopped = @ \/ g.day + cost >= DayCap]

Charge(g, cost, isShadow) ==
    [g EXCEPT !.day = @ + cost,
              !.shadow = IF isShadow THEN @ + cost ELSE @,
              !.stopped = @ \/ g.day + cost >= DayCap \/ g.prior + g.day + cost >= WeekCap]

\* guard: every stage but TECH-01's memo is refused once the day is stopped.
MayRun(k) == k < Decided /\ (gov.stopped => Stages[k] = "tech")

\* Mutant: only the stop drops the shadows.
AllowShadowsUnlessStopped == ~gov.stopped

AllowShadows ==
    /\ ~gov.stopped
    /\ gov.shadow < ShadowBudget
    /\ gov.day + ShadowEnvelope <= DayCap

\* Mutant: the second candidate needs no headroom.
AllowSecondUnlessStopped == ~gov.stopped

AllowSecondCandidate ==
    /\ ~gov.stopped
    /\ gov.day + CandidateEnvelope <= DayCap

\* _prior_week_spend: the sum over the artifacts, that of an earlier run of this
\* session included.
PriorWeekSpend == MapThenSumSet(LAMBDA s : artifacts[s], DOMAIN artifacts)

\* The artifact of a session overwrites the one an earlier run has left.
WithArtifact(s, spend) ==
    [d \in DOMAIN artifacts \cup {s} |-> IF d = s THEN spend ELSE artifacts[d]]

-----------------------------------------------------------------------------

Init ==
    /\ artifacts = <<>>
    /\ runs = 0
    /\ pc = "idle"
    /\ session = 0 /\ offered = 0 /\ begun = 0 /\ stage = 1
    /\ gov = NewGovernor(0)
    /\ decisions = <<>>
    /\ events = {}
    /\ before = 0 /\ paid = 0

\* The process is gone, and with it all it held in memory.
Exit ==
    /\ pc' = "idle"
    /\ session' = 0 /\ offered' = 0 /\ begun' = 0 /\ stage' = 1
    /\ gov' = NewGovernor(0)
    /\ decisions' = <<>>
    /\ events' = {}
    /\ before' = 0 /\ paid' = 0

\* The entry point is run: calendar, wall, bars, book and screen are behind it.
Start ==
    /\ pc = "idle"
    /\ runs < MaxRuns
    /\ session' \in Days
    /\ offered' \in 0..Candidates
    /\ runs' = runs + 1
    /\ pc' = "next"
    /\ gov' = NewGovernor(PriorWeekSpend)
    /\ UNCHANGED <<artifacts, begun, stage, decisions, events, before, paid>>

\* A closed market or a session without bars: an artifact that records no spend.
EndEarly ==
    /\ pc = "idle"
    /\ runs < MaxRuns
    /\ \E s \in Days :
          /\ s \in DOMAIN artifacts => artifacts[s] = 0
          /\ artifacts' = WithArtifact(s, 0)
    /\ runs' = runs + 1
    /\ UNCHANGED <<pc, session, offered, begun, stage, gov, decisions, events, before, paid>>

BeginCandidate ==
    /\ pc = "next"
    /\ begun < offered
    /\ begun = 1 => AllowSecondCandidate
    /\ begun' = begun + 1
    /\ stage' = 1
    /\ before' = gov.day
    /\ pc' = "stage"
    /\ UNCHANGED <<artifacts, progress, gov, decisions, events, paid>>

DropSecondCandidate ==
    /\ pc = "next"
    /\ begun < offered
    /\ begun = 1
    /\ ~AllowSecondCandidate
    /\ events' = events \cup {"candidate_dropped_budget"}
    /\ pc' = "shadows"
    /\ UNCHANGED <<artifacts, progress, begun, stage, gov, decisions, before, paid>>

NoMoreCandidates ==
    /\ pc = "next"
    /\ begun = offered
    /\ pc' = "shadows"
    /\ UNCHANGED <<artifacts, progress, begun, stage, gov, decisions, events, before, paid>>

\* The stage returns and its cost is charged.
RunStage(cost) ==
    /\ pc = "stage"
    /\ MayRun(stage)
    /\ gov' = Charge(gov, cost, FALSE)
    /\ paid' = paid + cost
    /\ stage' = stage + 1
    /\ UNCHANGED <<artifacts, progress, pc, begun, decisions, events, before>>

\* Mutant: the refusal is recorded, but the candidate is not left.
StopKeepsCandidate ==
    /\ pc = "stage"
    /\ stage < Decided
    /\ ~MayRun(stage)
    /\ events' = events \cup {"cycle_budget_stop"}
    /\ UNCHANGED <<artifacts, progress, pc, begun, stage, gov, decisions, before, paid>>

\* The guard of the stage raises BudgetStop, which leaves the candidate loop.
StopOnBudget ==
    /\ pc = "stage"
    /\ stage < Decided
    /\ ~MayRun(stage)
    /\ events' = events \cup {"cycle_budget_stop"}
    /\ pc' = "shadows"
    /\ UNCHANGED <<artifacts, progress, begun, stage, gov, decisions, before, paid>>

\* Something may raise here without a call being paid for: the stage itself, the
\* check for valid memos that precedes the debate's guard, the steps after pm.
MayFailFree ==
    \/ stage \in {Decided, CHOOSE k \in DOMAIN Stages : Stages[k] = "debate"}
    \/ MayRun(stage)

\* Mutant: an exception ends the candidate loop.
FailEndsCycle(cost) ==
    /\ pc = "stage"
    /\ cost = 0 => MayFailFree
    /\ cost > 0 => MayRun(stage)
    /\ decisions' = Append(decisions, "error")
    /\ paid' = paid + cost
    /\ pc' = "shadows"
    /\ UNCHANGED <<artifacts, progress, begun, stage, gov, events, before>>

\* The candidate fails closed.  Calls that were made and paid for before the
\* stage raised are not charged: its cost comes with its return value.
FailCandidate(cost) ==
    /\ pc = "stage"
    /\ cost = 0 => MayFailFree
    /\ cost > 0 => MayRun(stage)
    /\ decisions' = Append(decisions, "error")
    /\ paid' = paid + cost
    /\ pc' = "next"
    /\ UNCHANGED <<artifacts, progress, begun, stage, gov, events, before>>

RecordDecision ==
    /\ pc = "stage"
    /\ stage = Decided
    /\ decisions' = Append(decisions, "ok")
    /\ pc' = "next"
    /\ UNCHANGED <<artifacts, progress, begun, stage, gov, events, before, paid>>

Judged == \E k \in DOMAIN decisions : decisions[k] = "ok"

CastShadows(cost) ==
    /\ pc = "shadows"
    /\ Judged /\ AllowShadows
    /\ gov' = Charge(gov, cost, TRUE)
    /\ paid' = paid + cost
    /\ pc' = "write"
    /\ UNCHANGED <<artifacts, progress, begun, stage, decisions, events, before>>

\* A shadow call raises; or every candidate failed and there is nothing to vote on.
NoShadows(cost) ==
    /\ pc = "shadows"
    /\ decisions # <<>> /\ AllowShadows
    /\ cost > 0 => Judged
    /\ paid' = paid + cost
    /\ pc' = "write"
    /\ UNCHANGED <<artifacts, progress, begun, stage, gov, decisions, events, before>>

SkipShadows ==
    /\ pc = "shadows"
    /\ decisions = <<>> \/ ~AllowShadows
    /\ events' = events \cup {"shadow_skipped_budget"}
    /\ pc' = "write"
    /\ UNCHANGED <<artifacts, progress, begun, stage, gov, decisions, before, paid>>

WriteArtifact ==
    /\ pc = "write"
    /\ artifacts' = WithArtifact(session, gov.day)
    /\ Exit
    /\ UNCHANGED runs

Kill ==
    /\ pc # "idle"
    /\ Exit
    /\ UNCHANGED <<artifacts, runs>>

\* The steps the process takes of its own accord once it runs.
Work ==
    \/ BeginCandidate \/ DropSecondCandidate \/ NoMoreCandidates
    \/ \E cost \in Costs : RunStage(cost) \/ CastShadows(cost)
    \/ \E cost \in Costs \cup {0} : FailCandidate(cost) \/ NoShadows(cost)
    \/ StopOnBudget \/ RecordDecision \/ SkipShadows \/ WriteArtifact

Next == Start \/ EndEarly \/ Work \/ Kill

\* One sequential process whose every call has a timeout: it goes on until it ends.
Spec == Init /\ [][Next]_vars /\ WF_vars(Work)

-----------------------------------------------------------------------------
(* Properties.                                                             *)

MaxCost == Max(Costs)

\* Every variable stays in its range, and the governor never charges more than
\* was paid.
TypeOK ==
    /\ DOMAIN artifacts \subseteq Days
    /\ \A s \in DOMAIN artifacts : artifacts[s] \in Nat
    /\ runs \in 0..MaxRuns
    /\ pc \in {"idle", "next", "stage", "shadows", "write"}
    /\ session \in Days \cup {0}
    /\ offered \in 0..Candidates
    /\ begun \in 0..offered
    /\ stage \in 1..Decided
    /\ gov \in [prior : Nat, day : Nat, shadow : Nat, stopped : BOOLEAN]
    /\ decisions \in Seq({"ok", "error"})
    /\ events \subseteq {"candidate_dropped_budget", "cycle_budget_stop",
                         "shadow_skipped_budget"}
    /\ before \in Nat
    /\ paid \in Nat /\ gov.day <= paid

\* How late the stop comes: a cap is crossed by what is charged in one stage,
\* and then by TECH-01's memo, which no guard precedes.  It is this much that
\* holds in place of NothingPaidOnceStopped: what the governor knows to be spent
\* stays below a cap plus two stages.
OvershootBounded ==
    /\ gov.day < DayCap + 2 * MaxCost
    /\ gov.prior < WeekCap => gov.prior + gov.day < WeekCap + 2 * MaxCost
    /\ gov.prior >= WeekCap => gov.day <= 2 * MaxCost

\* What the governor promises of the stop, "no further LLM calls that day"
\* (budget.py:3-4) and "once stopped, nothing else runs today" (budget.py:48).
\* A fund memo that crosses a cap is followed by TECH-01's.
NothingPaidOnceStopped == [][gov.stopped => paid' <= paid]_vars

\* The second candidate is begun only with room for a whole chain: as long as it
\* has cost no more than its envelope, the day is within its cap.
EnvelopeKeepsCap ==
    begun = 2 /\ gov.shadow = 0 /\ gov.day - before <= CandidateEnvelope => gov.day <= DayCap

\* Shadow votes that cost no more than their envelope leave the day within its cap.
ShadowsKeepCap == gov.shadow \in 1..ShadowEnvelope => gov.day <= DayCap

\* When the loop over the candidates has ended, every name of the screen has a
\* decision or a recorded failure, unless a budget event says that the rest was
\* dropped: one candidate's failure takes nothing from the other.
CandidatesAccounted ==
    pc \in {"shadows", "write"} =>
        \/ Len(decisions) = offered
        \/ events \cap {"candidate_dropped_budget", "cycle_budget_stop"} # {}

\* A cycle that was started comes to an end.
CycleEnds == pc # "idle" ~> pc = "idle"

=============================================================================
