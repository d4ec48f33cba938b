-------------------------------- MODULE Book --------------------------------
(***************************************************************************)
(* What a run of daily cycles does to the fund's exposure: settlement, the *)
(* screen (graphs/screen.py), the gate (graphs/risk_gate.py) and the orders *)
(* left pending (graphs/daily_cycle.py), with a candidate's decision       *)
(* reduced to what PM-01 may propose.                                      *)
(*                                                                         *)
(* The gate is shown the book as it was replayed after settlement: neither *)
(* the first candidate's order nor an order still waiting for an open is   *)
(* in it.  The code has no order that closes a position.  Holdings and     *)
(* orders are whole shares; what a share is worth is a share of the NAV,   *)
(* in the gate's units, and each cycle marks the book anew.                *)
(***************************************************************************)
EXTENDS RiskGate, SequencesExt

CONSTANTS
    Tickers,      \* the names of the screen, as numbers in their sorted order
    Rows,         \* what the scan may find of a name
    Markets,      \* what a session's marks may make of closes, shares and other names
    Sizes,        \* the sizes PM-01 may propose
    Ticks,        \* the breaker states a tick may leave
    TopN,         \* WEEK_NEW_CANDIDATE_CAP
    MaxCycles     \* bound: how many cycles are run

ASSUME BookAssumption ==
    /\ Tickers \subseteq Nat /\ IsFiniteSet(Tickers)
    /\ \A r \in Rows : r.adv \in Nat /\ r.indicators \in Nat
    /\ \A m \in Markets : /\ m.close \in [Tickers -> Nat]
                          /\ m.worth \in [Tickers -> Nat \ {0}]
                          /\ m.long \in Nat /\ m.short \in Nat
    /\ Sizes \subseteq 1..MaxNewPosition /\ IsFiniteSet(Sizes) /\ Sizes # {}
    /\ Ticks \subseteq BreakerStates /\ "normal" \in Ticks
    /\ TopN \in Nat /\ MaxCycles \in Nat

VARIABLES
    held,        \* name -> shares of what is settled, short ones negative
    market,      \* the last marks: closes, a share's worth, what is long and short in other names
    pending,     \* the orders without a fill, each with its cycle and its place there
    breaker,     \* the breaker's state after this cycle's tick
    queue,       \* the candidates of this cycle still to be decided
    priced,      \* those of them that have a close in this session
    cycles,      \* how many cycles have been begun
    entries,     \* history: name -> orders filled since it was last not held
    gaps,        \* history: name -> sessions in which its order had no open
    peak,        \* history: how many orders have been pending at once, at most
    moved        \* history: by how much marks have moved what is held and ordered

vars == <<held, market, pending, breaker, queue, priced, cycles, entries, gaps, peak, moved>>

\* Orders of one side are a sign and a number of shares.
Sign(dir) == IF dir = "long" THEN 1 ELSE -1
Abs(x) == Max({x, -x})

Total(f) == MapThenSumSet(LAMBDA x : f[x], DOMAIN f)
Waiting(name) == {o \in pending : o.ticker = name}

-----------------------------------------------------------------------------
(* The screen.                                                             *)

MinIndicators == 6

Eligible(r, close) ==
    /\ r.member
    /\ r.indicators >= MinIndicators
    /\ r.adv >= MinAdv
    /\ close >= MinPrice

\* Which of two names is offered first: the one of more ADV, the name deciding ties.
Before(found, a, b) ==
    found[a].adv > found[b].adv \/ (found[a].adv = found[b].adv /\ a < b)

Place(found, offered, t) == 1 + Cardinality({u \in offered : Before(found, u, t)})

\* Mutant: what is held is offered again.
CandidatesHeldToo(close, found, holding) ==
    LET offered == {t \in Tickers : Eligible(found[t], close[t])}
    IN  [n \in 1..Min({TopN, Cardinality(offered)}) |->
            CHOOSE t \in offered : Place(found, offered, t) = n]

\* screen_candidates: the first names in that order which are not held.  An order
\* that is pending does not make its name held.
Candidates(close, found, holding) ==
    LET offered == {t \in Tickers \ holding : Eligible(found[t], close[t])}
    IN  [n \in 1..Min({TopN, Cardinality(offered)}) |->
            CHOOSE t \in offered : Place(found, offered, t) = n]

-----------------------------------------------------------------------------

\* A fund's exposure in other names is within the limits when the model begins.
WithinLimits(m) ==
    /\ m.long + m.short <= MaxGross
    /\ m.long - m.short \in -NetBand..NetBand

Init ==
    /\ held = [t \in Tickers |-> 0]
    /\ market \in Markets /\ WithinLimits(market)
    /\ pending = {}
    /\ breaker = "normal"
    /\ queue = <<>> /\ priced = {}
    /\ cycles = 0
    /\ entries = [t \in Tickers |-> 0] /\ gaps = [t \in Tickers |-> 0]
    /\ peak = 0 /\ moved = 0

Filled(name) == Total([o \in Waiting(name) |-> Sign(o.dir) * o.qty])

\* By how much new marks, and the NAV they make, change the exposure there is: that
\* of each position, of each order, and of the two sides of the other names.
Move(m) ==
    LET by == [t \in Tickers |-> Abs(m.worth[t] - market.worth[t])]
    IN  Total([t \in Tickers |-> Abs(held[t]) * by[t]])
        + Total([o \in pending |-> o.qty * by[o.ticker]])
        + Abs(m.long - market.long) + Abs(m.short - market.short)

\* Every pending order whose name has an open is filled; the session's closes are
\* recorded, a name without a bar keeping its last, and the book is marked to them;
\* the tick leaves the breaker in some state; the universe is scanned and screened.
\* A name may have no bar, or one without an open.
BeginCycle(bars, m, found) ==
    /\ queue = <<>> /\ cycles < MaxCycles
    /\ \A t \in Tickers : bars[t] = "none" => m.close[t] = market.close[t]
    /\ held' = [t \in Tickers |-> IF bars[t] = "full" THEN held[t] + Filled(t) ELSE held[t]]
    /\ market' = m
    /\ pending' = {o \in pending : bars[o.ticker] # "full"}
    /\ breaker' \in Ticks
    /\ queue' = Candidates(m.close, found, {t \in Tickers : held'[t] # 0})
    /\ priced' = {t \in Range(queue') : bars[t] # "none"}
    /\ cycles' = cycles + 1
    /\ entries' = [t \in Tickers |->
                     IF bars[t] # "full" THEN entries[t]
                     ELSE IF held'[t] = 0 THEN 0 ELSE entries[t] + Cardinality(Waiting(t))]
    /\ gaps' = [t \in Tickers |-> IF bars[t] # "full" /\ Waiting(t) # {} THEN gaps[t] + 1
                                 ELSE gaps[t]]
    /\ moved' = moved + Move(m)
    /\ UNCHANGED peak

Exposure(name) == held[name] * market.worth[name]
Gross == market.long + market.short + Total([t \in Tickers |-> Abs(Exposure(t))])
Net == market.long - market.short + Total([t \in Tickers |-> Exposure(t)])

\* What the gate is told.  A candidate has passed the floors of the screen, but may
\* have no close.  A replayed position has no sector, so no candidate is ever in the
\* sector of one; 2 % of the least ADV is 40 % of the NAV the fund starts with.
Context(name) ==
    [breaker |-> breaker, exitOnly |-> FALSE, adv |-> MinAdv,
     price |-> IF name \in priced THEN market.close[name] ELSE 0,
     same |-> Abs(Exposure(name)), sector |-> 0, gross |-> Gross, net |-> Net,
     participation |-> 40 * Percent]

\* The first candidate is decided, approved, and leaves a pending order of the whole
\* shares its size pays for.  A size below one share fails instead.
Enter(dir, size) ==
    LET name == Head(queue)
        verdict == Evaluate(dir, size, Context(name))
        qty == verdict.size \div market.worth[name]
    IN  /\ queue # <<>>
        /\ verdict.approved /\ qty >= 1
        /\ pending' = pending \cup {[cycle |-> cycles, place |-> Len(queue), ticker |-> name,
                                     dir |-> dir, qty |-> qty]}
        /\ queue' = Tail(queue)
        /\ peak' = Max({peak, Cardinality(pending')})
        /\ priced' = priced \ {name}
        /\ UNCHANGED <<held, market, breaker, cycles, entries, gaps, moved>>

\* It fails, is no trade, or is rejected.
Pass ==
    /\ queue # <<>>
    /\ queue' = Tail(queue)
    /\ priced' = priced \ {Head(queue)}
    /\ UNCHANGED <<held, market, pending, breaker, cycles, entries, gaps, peak, moved>>

\* The budget stops the cycle, or the process is killed.
Abandon ==
    /\ queue # <<>>
    /\ queue' = <<>> /\ priced' = {}
    /\ UNCHANGED <<held, market, pending, breaker, cycles, entries, gaps, peak, moved>>

Next ==
    \/ \E bars \in [Tickers -> {"full", "no_open", "none"}], m \in Markets,
         found \in [Tickers -> Rows] :
          BeginCycle(bars, m, found)
    \/ \E dir \in {"long", "short"}, size \in Sizes : Enter(dir, size)
    \/ Pass \/ Abandon

Spec == Init /\ [][Next]_vars

-----------------------------------------------------------------------------
(* Properties.                                                             *)

MaxSize == Max(Sizes)

Ordered(dir) ==
    Total([o \in {p \in pending : p.dir = dir} |-> o.qty * market.worth[o.ticker]])

\* The gate looks at the settled book only, yet the exposure stays bounded whatever
\* opens are missing and whatever is still pending: were every order on one side
\* filled, net and gross would pass their limit by no more than the largest size
\* for each order but one that was ever pending at once, beside what the marks and
\* the NAV have moved, which nothing in the code answers to.
ExposureBounded ==
    LET slack == MaxSize * Max({0, peak - 1}) + moved
    IN  /\ Net + Ordered("long") <= NetBand + slack
        /\ Net - Ordered("short") >= -(NetBand + slack)
        /\ Gross + Ordered("long") + Ordered("short") <= MaxGross + slack

\* A name is entered once: between two times at which it is not held at most one of
\* its orders is filled or waits, and one more for each session in which one found
\* no open.
NameEnteredOnce ==
    \A t \in Tickers : entries[t] + Cardinality(Waiting(t)) <= 1 + gaps[t]

=============================================================================
