------------------------------ MODULE Decision ------------------------------
(***************************************************************************)
(* One candidate's way from the memos to a modelled order, or to nothing   *)
(* (the body of the candidate loop of graphs/daily_cycle.py): two memos    *)
(* and their validator, the debate of BULL-01 and BEAR-01, the moderator,  *)
(* the judge, the sealed ballot, the PM and its sizing, the gate, the      *)
(* order.                                                                  *)
(*                                                                         *)
(* Every model call may fail, answer garbage, or answer anything the       *)
(* schema admits.  A reply is abstracted to what the checks tell apart; a  *)
(* debate to the marks its turns have left.  Convictions are in tenths.    *)
(***************************************************************************)
EXTENDS RiskGate, SequencesExt

CONSTANTS
    DocIds,          \* documents a memo or an argument may cite
    Rounds,          \* max_debate_rounds
    Rosters,         \* manifests: the families of the bull, of the bear and of all its
                     \* roles, and the roles that are scoped to the runtime
    JudgeSeats,      \* the families that have a judge's seat
    Convictions,     \* convictions a voter or the PM may state, in tenths
    Edges,           \* edges the PM may expect, in basis points
    Advs,            \* the candidate's ADV in millions of dollars
    Books,           \* what the gate may be told of a name and the book
    Prices,          \* closes of the candidate; 0 when it has none
    Nav,             \* the NAV in dollars
    MaxOverrides,    \* max_overrides_per_month
    Candidates       \* bound: how many candidates are decided

ASSUME DecisionAssumption ==
    /\ Rounds \in Nat \ {0} /\ Nav \in Nat \ {0} /\ Candidates \in Nat
    /\ JudgeSeats \subseteq Nat
    /\ \A r \in Rosters : /\ {r.bull, r.bear} \subseteq r.available
                          /\ r.available \subseteq Nat \ {0} /\ IsFiniteSet(r.available)
    /\ Convictions \subseteq Nat /\ Prices \subseteq Nat /\ Edges \subseteq Nat /\ Advs \subseteq Nat
    /\ Books \subseteq [breaker : BreakerStates, exitOnly : BOOLEAN, adv : Nat, price : Nat,
                       same : Int, sector : Int, gross : Int, net : Int, participation : Int]
    /\ MaxOverrides \in Nat

VARIABLES
    pc,          \* the step the candidate has come to
    tries,       \* how often the current model call has been made in vain
    roster,      \* the manifest: families are numbers in their sorted order
    memos,       \* the roles whose memo is valid
    allowed,     \* the documents the valid memos cite
    turns,       \* how many turns have been taken
    closings,    \* how many closing statements have been made
    marks,       \* what the turns taken so far have left to the checks
    crux,        \* the moderator has left a crux unresolved
    judge,       \* the family that judged the debate, 0 before
    ballots,     \* voter -> stance and conviction
    proposal,    \* the PM's proposal, or no record
    log,         \* the events of PM-01 and ORDER-MGR, in order
    decided      \* how many candidates have come to an end

vars == <<pc, tries, roster, memos, allowed, turns, closings, marks, crux, judge,
          ballots, proposal, log, decided>>
debate == <<turns, closings, marks>>
record == <<memos, allowed, debate, crux, judge, ballots, proposal>>

Researchers == <<"FUND-TECH", "TECH-01">>
Voters == <<"FUND-TECH", "BULL-01", "BEAR-01">>

-----------------------------------------------------------------------------
(* The manifest.                                                           *)

\* resolve_runtime: a role that is missing, or kept for validation, raises.
ResolveRuntime(role) == role \in roster.live

\* assert_distinct_debaters: a debate is between two families.
DistinctDebaters(bull, bear) == bull # bear

\* preflight: the debate has its seats, and they are not of one family.
Preflight ==
    /\ \A role \in {"BULL-01", "BEAR-01", "MOD-01"} : ResolveRuntime(role)
    /\ DistinctDebaters(roster.bull, roster.bear)

(* The memos and their validator.                                          *)

Memos == [schema : BOOLEAN, claims : {2, 3, 7, 8}, long : BOOLEAN, cites : SUBSET DocIds]

\* verify_memo: the schema holds, 3 to 7 claims, a thesis of at most 150 words.
ValidMemo(m) == m.schema /\ m.claims \in 3..7 /\ ~m.long

\* The series the store may hold of a candidate: daily bars and bars of the live feed.
Series == {"sep", "iex"}

\* _price_doc_block: the program computes the technical block from the daily bars,
\* and there is none without them, whatever the live feed has.
TechnicalBlock(series) == "sep" \in series

(* The turns of the debate.                                                *)

\* The agent id a turn or a closing bears is the model's to write; where it writes
\* none it is the debater's own.
Ids == {"self", "opponent", "stranger"}

\* own: of the debater's own position; points: no argument, one that nearly repeats a
\* point of the other position, or a new one; a closing has its own id, its side, or
\* nothing to say.
Turns(final) ==
    {t \in [own : BOOLEAN, id : Ids, points : {"none", "echo", "new"}, attacks : BOOLEAN,
            cites : SUBSET DocIds,
            closing : IF final THEN {"none", "own", "other", "blank"} ELSE {"none"},
            closingId : IF final THEN Ids ELSE {"self"}] :
        /\ t.closing \in {"none", "blank"} => t.closingId = "self"
        /\ t.points = "none" => t.cites = {} /\ ~t.attacks}

Bear(n) == n % 2 = 0

\* assigned.get(agent_id): the position is not the one of the debater whose id it
\* bears; under any other id every position will do.
Betrays(own, id) == (id = "self" /\ ~own) \/ (id = "opponent" /\ own)

\* What the n-th turn leaves for check_grounding and check_capitulation to find.  A
\* position that is not the debater's escapes them under an id they do not know.
MarksOf(t, n) ==
    {m \in {"stray", "flip", "empty", "echo", "closing", "attack"} :
        LET asBear == Bear(n) <=> t.own
            closed == t.closing \in {"own", "other"}
        IN  CASE m = "stray"   -> t.points # "none" /\ ~(t.cites \subseteq allowed)
              [] m = "flip"    -> Betrays(t.own, t.id)
              [] m = "empty"   -> t.points = "none"
              [] m = "echo"    -> t.points = "echo"
              [] m = "closing" -> t.closing = "blank" \/ (closed /\ Betrays(t.closing = "own", t.closingId))
              [] m = "attack"  -> t.points # "none" /\ t.attacks /\ asBear}

\* Mutant: what counts is that somebody cited something.
DebateStandsLoosely == marks \cap {"stray", "empty", "echo", "closing"} = {}

\* check_round_cap, check_grounding, check_capitulation: the debate is not void.
DebateStands ==
    /\ turns <= 2 * Rounds
    /\ marks \cap {"stray", "flip", "empty", "echo", "closing"} = {}
    /\ "attack" \in marks

(* The judge.                                                              *)

\* assert_judge_disjoint: a family may judge its own only where there is no other.
MayJudge(family, judged, available) == family # judged \/ available \subseteq {judged}

\* judge_family_for: the first family that neither debater is of, or else the first
\* of theirs, if it may judge both; 0 when it may not, or has no judge's seat.
JudgeFamilyFor(bull, bear, available) ==
    LET disjoint == available \ {bull, bear}
        family == Min(IF disjoint = {} THEN {bull, bear} ELSE disjoint)
    IN  IF family \in JudgeSeats /\ \A f \in {bull, bear} : MayJudge(family, f, available)
        THEN family ELSE 0

(* The ballot: what tally makes of the ballots b.                           *)

Score(b, dir) ==
    MapThenSumSet(LAMBDA v : IF b[v].stance = dir THEN b[v].conviction ELSE 0, DOMAIN b)

TotalCast(b) == MapThenSumSet(LAMBDA v : b[v].conviction, DOMAIN b)

Winner(b) == IF Score(b, "short") > Score(b, "long") THEN "short" ELSE "long"

\* The margin is below a fifth of everything cast, abstentions included; nothing
\* cast at all has margin 0.
Contested(b) ==
    LET gap == Score(b, "long") - Score(b, "short")
    IN  TotalCast(b) = 0 \/ 5 * Max({gap, -gap}) < TotalCast(b)

(* The PM's sizing, in units of the gate.                                  *)

BaseSize     == Percent
ContestedCap == Percent \div 2

\* Half to one and a half times the base size, by conviction.
ConvictionSize(conviction) == (BaseSize * (5 + Min({10, conviction}))) \div 10

\* Mutant: the cap binds before the haircut.
SizeCappedFirst(conviction, contested, unresolved) ==
    LET full == ConvictionSize(conviction)
        capped == IF contested THEN Min({full, 2 * ContestedCap}) ELSE full
    IN  IF unresolved THEN (capped * 7) \div 10 ELSE capped

\* size_position: the size of the conviction; x0.5 when contested and x0.7 with an
\* unresolved crux; then the caps.
SizePosition(conviction, contested, unresolved) ==
    LET full == ConvictionSize(conviction)
        halved == IF contested THEN full \div 2 ELSE full
        cut == IF unresolved THEN (halved * 7) \div 10 ELSE halved
    IN  Min({cut, MaxNewPosition} \cup (IF contested THEN {ContestedCap} ELSE {}))

(* The cost of an order, in basis points; eta is IMPACT_ETA_BPS.            *)

HalfSpreadBps == 2
Eta           == 50
FloorBps      == 4
EdgeMultiple  == 3

\* Dollars of an order of a size.
Notional(size) == (Nav * size) \div (100 * Percent)

\* round_trip_cost_bps beyond the two half spreads is eta times the root of the order's
\* share of the ADV: its square, times the ADV.
ImpactSquared(size) == Eta * Eta * Notional(size)

\* check_edge: the edge is three times the cost of this order in this name.
EdgeCovers(edge, size, adv) ==
    LET rest == edge - EdgeMultiple * 2 * HalfSpreadBps
    IN  /\ adv > 0
        /\ edge >= EdgeMultiple * FloorBps
        /\ rest >= 0
        /\ rest * rest * adv * 1000000 >= EdgeMultiple * EdgeMultiple * ImpactSquared(size)

-----------------------------------------------------------------------------

Nobody == <<>>

Init ==
    /\ pc = "idle" /\ tries = 0
    /\ roster \in Rosters
    /\ memos = {} /\ allowed = {}
    /\ turns = 0 /\ closings = 0 /\ marks = {}
    /\ crux = FALSE /\ judge = 0
    /\ ballots = Nobody /\ proposal = Nobody
    /\ log = <<>> /\ decided = 0

\* preflight lets the cycle begin, and is asked again before the debate.
Begin ==
    /\ pc = "idle" /\ decided < Candidates
    /\ Preflight
    /\ pc' = Researchers[1]
    /\ UNCHANGED <<tries, roster, record, log, decided>>

Goto(step) == pc' = step /\ tries' = 0

\* The candidate is over, with or without an order; only what is logged stays.
End ==
    /\ Goto("idle")
    /\ decided' = decided + 1
    /\ memos' = {} /\ allowed' = {}
    /\ turns' = 0 /\ closings' = 0 /\ marks' = {}
    /\ crux' = FALSE /\ judge' = 0
    /\ ballots' = Nobody /\ proposal' = Nobody
    /\ UNCHANGED roster

\* What a memo leaves when the validator has passed it, or has not.
KeepMemo(m) ==
    /\ memos' = IF ValidMemo(m) THEN memos \cup {pc} ELSE memos
    /\ allowed' = IF ValidMemo(m) THEN allowed \cup m.cites ELSE allowed
    /\ UNCHANGED <<roster, debate, crux, judge, ballots, proposal, log, decided>>

\* A memo is asked for once, the fundamental one first.
RunFundTech ==
    /\ pc = "FUND-TECH" /\ ResolveRuntime(pc)
    /\ \E m \in Memos : KeepMemo(m)
    /\ Goto("TECH-01")

\* The technical block is the program's own, whatever the model wrote; a fixture
\* without daily bars of the name leaves it empty, and the memo breaks the schema.
RunTech01(series) ==
    /\ pc = "TECH-01" /\ ResolveRuntime(pc)
    /\ \E m \in Memos : KeepMemo([m EXCEPT !.schema = m.schema /\ TechnicalBlock(series)])
    /\ Goto("debate")

\* Mutant: the turn is kept before its closing is looked at.
TakeTurnFirst ==
    LET final == turns >= 2 * (Rounds - 1)
    IN  /\ pc = "debate" /\ turns < 2 * Rounds /\ memos # {}
        /\ \E t \in Turns(final) :
              /\ closings' = IF t.closing # "none" THEN closings + 1 ELSE closings
              /\ marks' = marks \cup MarksOf(t, turns + 1)
        /\ turns' = turns + 1
        /\ tries' = 0
        /\ UNCHANGED <<pc, roster, memos, allowed, crux, judge, ballots, proposal, log, decided>>

\* A turn, the bull's and the bear's in alternation; in the last round a reply
\* without a closing statement is no turn.
TakeTurn ==
    LET final == turns >= 2 * (Rounds - 1)
    IN  /\ pc = "debate" /\ turns < 2 * Rounds /\ memos # {}
        /\ \E t \in Turns(final) :
              /\ final => t.closing # "none"
              /\ marks' = marks \cup MarksOf(t, turns + 1)
        /\ closings' = IF final THEN closings + 1 ELSE closings
        /\ turns' = turns + 1
        /\ tries' = 0
        /\ UNCHANGED <<pc, roster, memos, allowed, crux, judge, ballots, proposal, log, decided>>

\* The moderator's summary: no stance, and an indicator for every scenario.
Moderate(unresolved) ==
    /\ pc = "debate" /\ turns = 2 * Rounds /\ DebateStands
    /\ crux' = unresolved
    /\ Goto("judge")
    /\ UNCHANGED <<roster, memos, allowed, debate, judge, ballots, proposal, log, decided>>

Judge ==
    /\ pc = "judge"
    /\ JudgeFamilyFor(roster.bull, roster.bear, roster.available) # 0
    /\ judge' = JudgeFamilyFor(roster.bull, roster.bear, roster.available)
    /\ Goto("votes")
    /\ UNCHANGED <<roster, memos, allowed, debate, crux, ballots, proposal, log, decided>>

\* The debaters' stances are fixed to their roles, whatever they answer.
FixedStance(voter, stance) ==
    CASE voter = "BULL-01" -> "long" [] voter = "BEAR-01" -> "short" [] OTHER -> stance

WithBallot(voter, ballot) ==
    [v \in DOMAIN ballots \cup {voter} |-> IF v = voter THEN ballot ELSE ballots[v]]

Vote(stance, conviction) ==
    LET voter == Voters[Cardinality(DOMAIN ballots) + 1]
    IN  /\ pc = "votes" /\ ResolveRuntime(voter)
        /\ conviction <= 10
        /\ ballots' = WithBallot(voter, [stance |-> FixedStance(voter, stance),
                                        conviction |-> conviction])
        /\ Goto(IF voter = Voters[Len(Voters)] THEN "pm" ELSE "votes")
        /\ UNCHANGED <<roster, memos, allowed, debate, crux, judge, proposal, log, decided>>

\* The step is one that calls a model.
Calls ==
    \/ pc \in Range(Researchers) /\ ResolveRuntime(pc)
    \/ pc = "votes" \/ (pc = "pm" /\ ResolveRuntime("PM-01"))
    \/ pc = "debate" /\ memos # {} /\ (turns = 2 * Rounds => DebateStands)
    \/ pc = "judge" /\ JudgeFamilyFor(roster.bull, roster.bear, roster.available) # 0

\* A reply that cannot be used is asked for again, once.  A memo is not.
Retry ==
    /\ tries = 0
    /\ Calls /\ pc \notin Range(Researchers)
    /\ tries' = 1
    /\ UNCHANGED <<pc, roster, record, log, decided>>

FailClosed == End /\ log' = Append(log, [kind |-> "cycle_failed", of |-> decided])

\* OpenRouterClient.call: every attempt has errored or brought nothing that could be
\* metered, and LLMError leaves every retry above it.
CallFails == Calls /\ FailClosed

\* The second reply is no better, a check raises, an append: every exception ends
\* the candidate, not the cycle.
Fail == pc # "idle" /\ FailClosed

\* The budget stops the candidate, or the process is killed.
Leave ==
    /\ pc # "idle"
    /\ End
    /\ UNCHANGED log

NoTrade ==
    /\ pc = "pm" /\ ResolveRuntime("PM-01")
    /\ log' = Append(log, [kind |-> "no_trade", of |-> decided])
    /\ End

\* Mutant: the rebuttal is not asked for.
ProposalPassesAny(dir, rebuttal, prior) == dir = Winner(ballots) \/ prior < MaxOverrides

\* check_override: against the ballot only with a rebuttal and below the cap.
ProposalPasses(dir, rebuttal, prior) == dir = Winner(ballots) \/ (rebuttal /\ prior < MaxOverrides)

\* run_pm with a trade.  The daily cycle passes no count of the month's overrides: it
\* is always 0.
Propose(dir, conviction, rebuttal, edge, adv) ==
    LET size == SizePosition(conviction, Contested(ballots), crux)
    IN  /\ pc = "pm" /\ ResolveRuntime("PM-01")
        /\ ProposalPasses(dir, rebuttal, 0)
        /\ EdgeCovers(edge, size, adv)
        /\ proposal' = [dir |-> dir, override |-> dir # Winner(ballots), rebuttal |-> rebuttal,
                        conviction |-> conviction, size |-> size, edge |-> edge, adv |-> adv]
        /\ log' = Append(log, [kind |-> "proposal_written", of |-> decided])
        /\ Goto(IF dir # Winner(ballots) THEN "override" ELSE "gate")
        /\ UNCHANGED <<roster, memos, allowed, debate, crux, judge, ballots, decided>>

LogOverride ==
    /\ pc = "override"
    /\ log' = Append(log, [kind |-> "pm_override", of |-> decided])
    /\ Goto("gate")
    /\ UNCHANGED <<roster, record, decided>>

\* The ADV is the one the edge was measured by.
Verdict(book, price) ==
    Evaluate(proposal.dir, proposal.size, [book EXCEPT !.price = price, !.adv = proposal.adv])

GateRejects ==
    /\ pc = "gate"
    /\ \E book \in Books, price \in Prices : ~Verdict(book, price).approved
    /\ End
    /\ UNCHANGED log

\* The gate approves and the order is built and logged: two steps of one process
\* with nothing in between that could be seen.
PlaceOrder(book, price) ==
    /\ pc = "gate"
    /\ Verdict(book, price).approved
    /\ Shares(Verdict(book, price).size, Nav, price) >= 1
    /\ log' = Append(log, [kind |-> "modeled_order", of |-> decided, dir |-> proposal.dir,
                           size |-> Verdict(book, price).size,
                           qty |-> Shares(Verdict(book, price).size, Nav, price)])
    /\ Goto("quote")
    /\ UNCHANGED <<roster, record, decided>>

\* log_quote has appended, and the decision is recorded.
RecordQuote == pc = "quote" /\ End /\ UNCHANGED log

Next ==
    \/ Begin
    \/ RunFundTech \/ \E series \in SUBSET Series : RunTech01(series)
    \/ TakeTurn
    \/ \E unresolved \in BOOLEAN : Moderate(unresolved)
    \/ Judge
    \/ \E stance \in {"long", "short", "no_position"}, c \in Convictions : Vote(stance, c)
    \/ Retry \/ CallFails \/ Fail \/ Leave \/ NoTrade
    \/ \E dir \in {"long", "short"}, c \in Convictions, rebuttal \in BOOLEAN :
          \E edge \in Edges, adv \in Advs : Propose(dir, c, rebuttal, edge, adv)
    \/ LogOverride \/ GateRejects
    \/ \E book \in Books, price \in Prices : PlaceOrder(book, price)
    \/ RecordQuote

Spec == Init /\ [][Next]_vars

-----------------------------------------------------------------------------
(* Properties.                                                             *)

\* Every variable stays in its range; a closing statement is made in each turn of
\* the last round and in no other; a cycle never holds more ballots than voters.
TypeOK ==
    /\ pc \in {"idle", "debate", "judge", "votes", "pm", "override", "gate", "quote"}
             \cup Range(Researchers)
    /\ tries \in 0..1
    /\ roster \in Rosters
    /\ memos \subseteq Range(Researchers)
    /\ allowed \subseteq DocIds
    /\ turns \in 0..2 * Rounds
    /\ closings = Max({0, turns - 2 * (Rounds - 1)})
    /\ marks \subseteq {"stray", "flip", "empty", "echo", "closing", "attack"}
    /\ crux \in BOOLEAN
    /\ judge \in JudgeSeats \cup {0}
    /\ DOMAIN ballots \subseteq Range(Voters)
    /\ decided \in 0..Candidates
    /\ \A k \in DOMAIN log : log[k].of \in 0..decided

Placed == pc = "quote"
Order == Last(log)

\* An order is only ever built on a whole chain: a valid memo of either kind, a
\* debate of all its rounds in which no turn and no closing contradicts the agent id
\* it bears, nothing was cited from outside the memos and the bear's position was
\* argued with an attack, debaters of two families, a judge of neither, and the
\* ballot of every voter; and it is the first one of its candidate.  Less than two
\* comments promise: a debater that takes the other side under another id voids nothing
\* (debate.py:115-120), and TECH-01's memo may be the only one (tech_01.py:17-18).
OrderIsEarned ==
    Placed =>
        /\ memos # {}
        /\ turns = 2 * Rounds /\ closings = 2
        /\ marks = {"attack"}
        /\ roster.bull # roster.bear
        /\ judge \notin {0, roster.bull, roster.bear}
        /\ DOMAIN ballots = Range(Voters)
        /\ Order.dir = proposal.dir
        /\ \A k \in DOMAIN log : log[k].kind = "modeled_order" /\ log[k].of = decided
                => k = Len(log)

\* Every doubt takes its share off the size of the PM's conviction, both together
\* too, and the gate never adds: a margin short of a fifth of what was cast halves
\* it and leaves at most half a percent of the NAV, an unresolved crux takes 30 %
\* off what is left; and the edge the PM named pays three times the cost of what is
\* ordered.
SizeWithinPolicy ==
    Placed =>
        LET gap == Score(ballots, "long") - Score(ballots, "short")
            total == TotalCast(ballots)
            slim == 5 * gap \in 1 - total..total - 1 \/ gap = 0
            full == ConvictionSize(proposal.conviction)
        IN  /\ Order.size \in 1..proposal.size
            /\ proposal.size <= full
            /\ slim => proposal.size <= ContestedCap /\ 2 * proposal.size <= full
            /\ crux => 10 * proposal.size <= 7 * full
            /\ slim /\ crux => 20 * proposal.size <= 7 * full
            /\ Order.qty >= 1
            /\ EdgeCovers(proposal.edge, Order.size, proposal.adv)

\* An order against the ballot has its proposal and its override on the log before
\* it, and was argued for in writing.
OverrideCounted ==
    Placed /\ Order.dir # Winner(ballots) =>
        /\ proposal.rebuttal
        /\ \E i, j \in DOMAIN log :
              /\ i < j /\ j < Len(log)
              /\ log[i] = [kind |-> "proposal_written", of |-> decided]
              /\ log[j] = [kind |-> "pm_override", of |-> decided]

=============================================================================
