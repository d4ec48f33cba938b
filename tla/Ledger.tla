------------------------------- MODULE Ledger -------------------------------
(***************************************************************************)
(* The book of the daily dry-run cycle (graphs/ledger.py, graphs/orders.py *)
(* and the bookkeeping steps of graphs/daily_cycle.py).                    *)
(*                                                                         *)
(* The event log is the only persistent state.  A cycle for one session    *)
(* settles the pending orders it finds in the log at that session's opens, *)
(* marks the book, and then places up to two new orders on names it does   *)
(* not hold.  Every append is durable by itself, so the process may be     *)
(* killed between any two of them; an operator may run the entry point     *)
(* again for any session up to the present one.                            *)
(*                                                                         *)
(* Prices are integers.  A fill price is kept in units of 1/Scale of a     *)
(* price, so that the half spread is exact; an average entry price is kept *)
(* as a fraction.                                                          *)
(***************************************************************************)
EXTENDS Integers, SequencesExt

CONSTANTS
    Tickers,       \* the names of the universe
    Refs,          \* trade ids (bounds the number of orders)
    Opens,         \* the open prices a bar may carry
    Closes,        \* the close prices a bar may carry
    Qtys,          \* the whole-share quantities of an order
    Scale,         \* parts of a price: 10000 in the code, which counts in bps
    HalfSpread,    \* HALF_SPREAD_BPS, out of Scale
    PerCycle,      \* orders a cycle may place: the two candidates of the screen
    MaxDay,        \* bound: the last session of the model
    MaxRuns        \* bound: how many times the entry point is run

ASSUME LedgerAssumption ==
    /\ Opens \subseteq Nat \ {0} /\ Closes \subseteq Nat \ {0} /\ Qtys \subseteq Nat \ {0}
    /\ Scale \in Nat \ {0} /\ HalfSpread \in Nat /\ HalfSpread < Scale
    /\ PerCycle \in Nat /\ MaxDay \in Nat \ {0} /\ MaxRuns \in Nat

VARIABLES
    log,       \* the event log, oldest event first
    today,     \* the present session
    runs,      \* how many runs have been started
    pc,        \* what the running cycle does next; "idle" when none runs
    session,   \* the session of the running cycle, or of the last one
    todo,      \* log positions of the orders settle_pending still has to visit
    bars,      \* the opens of the session's bars, for the names that have one
    tried      \* the names this cycle has placed an order on

cycleVars == <<pc, session, todo, bars, tried>>
vars == <<log, today, runs, pc, session, todo, bars, tried>>

Sides == {"buy", "sell"}
Sessions == 1..MaxDay
OpenBars == UNION {[S -> Opens] : S \in SUBSET Tickers}
CloseBars == UNION {[S -> Closes] : S \in SUBSET Tickers}

\* The events the book is replayed from, and the gaps that are only recorded.
OrderEvents == [type : {"modeled_order"}, ref : Refs, ticker : Tickers,
                side : Sides, qty : Qtys, session : Sessions]
FillEvents  == [type : {"order_settled"}, ref : Refs, ticker : Tickers,
                side : Sides, qty : Qtys, fill : Nat, session : Sessions]
GapEvents   == [type : {"settlement_gap"}, ref : Refs, run : 1..MaxRuns]
MarkEvents  == [type : {"mark_to_market"}, marks : CloseBars]
Events == OrderEvents \cup FillEvents \cup GapEvents \cup MarkEvents

-----------------------------------------------------------------------------
(* The views replay_book rebuilds from a log.                              *)

At(l, type) == {i \in DOMAIN l : l[i].type = type}

SettledRefs(l) == {l[i].ref : i \in At(l, "order_settled")}

\* Mutant: the settled ids are not looked at.
PendingThoughSettled(l) == At(l, "modeled_order")

\* Positions of the orders that no settlement refers to.
Pending(l) == {i \in At(l, "modeled_order") : l[i].ref \notin SettledRefs(l)}

Signed(e) == IF e.side = "buy" THEN e.qty ELSE -e.qty

Abs(n) == IF n < 0 THEN -n ELSE n

\* A holding is a signed quantity and its entry price num / den.
Flat == [qty |-> 0, num |-> 0, den |-> 1]

\* Mutants: a fill replaces the holding; an average that is not weighted.
ApplyFillOverwriting(h, e) == [qty |-> Signed(e), num |-> e.fill, den |-> 1]

ApplyFillUnweighted(h, e) ==
    IF h.qty = 0 THEN [qty |-> Signed(e), num |-> e.fill, den |-> 1]
    ELSE [qty |-> h.qty + Signed(e), num |-> h.num + e.fill * h.den, den |-> 2 * h.den]

\* _apply_fill: average the entry when the sign stays, set it when the name
\* was flat, and otherwise leave it alone.
ApplyFill(h, e) ==
    LET q   == Signed(e)
        new == h.qty + q
    IN  IF new # 0 /\ h.qty # 0 /\ (h.qty > 0) = (new > 0)
        THEN [qty |-> new,
              num |-> Abs(h.qty) * h.num + Abs(q) * e.fill * h.den,
              den |-> Abs(new) * h.den]
        ELSE IF h.qty = 0
        THEN [qty |-> new, num |-> e.fill, den |-> 1]
        ELSE [h EXCEPT !.qty = new]

\* One event of the replay: only a settlement of the name moves its holding.
Replay(h, e, t) ==
    IF e.type = "order_settled" /\ e.ticker = t THEN ApplyFill(h, e) ELSE h

Holding(l, t) == FoldLeft(LAMBDA h, e : Replay(h, e, t), Flat, l)

Held(l) == {t \in Tickers : Holding(l, t).qty # 0}

\* The latest mark of a held name, its entry price where it was never marked;
\* both as a fraction.
Mark(l, t) ==
    LET marked == {i \in At(l, "mark_to_market") : t \in DOMAIN l[i].marks}
        h      == Holding(l, t)
    IN  IF marked = {} THEN [num |-> h.num, den |-> h.den]
        ELSE [num |-> l[Max(marked)].marks[t] * Scale, den |-> 1]

\* What one name adds to the NAV, in units of 1/Scale (rounded down).
Unrealized(l, t) ==
    LET h == Holding(l, t)
        m == Mark(l, t)
    IN  (h.qty * (m.num * h.den - h.num * m.den)) \div (m.den * h.den)

-----------------------------------------------------------------------------

Init ==
    /\ log = <<>>
    /\ today = 1
    /\ runs = 0
    /\ pc = "idle"
    /\ session = 0
    /\ todo = {}
    /\ bars = <<>>
    /\ tried = {}

NextSession ==
    /\ pc = "idle"
    /\ today < MaxDay
    /\ today' = today + 1
    /\ UNCHANGED <<log, runs, cycleVars>>

\* The entry point is run for session s.  The timer names the present session;
\* an operator may name any session up to it, one that was run before included.
\* A session without any bar ends the cycle before the book is touched, and is
\* left out; a bar may still lack its open or its close.
StartCycle ==
    /\ pc = "idle"
    /\ runs < MaxRuns
    /\ \E s \in 1..today, b \in OpenBars :
          /\ session' = s
          /\ bars' = b
    /\ runs' = runs + 1
    /\ todo' = Pending(log)
    /\ tried' = {}
    /\ pc' = "settle"
    /\ UNCHANGED <<log, today>>

\* settle_pending takes the orders of its snapshot in log order.
Due(i) == pc = "settle" /\ i \in todo /\ \A j \in todo : i <= j

\* Mutant: the half spread is taken in prices, not in parts of one.
FillPriceUnscaled(side, open) ==
    (IF side = "buy" THEN open + HalfSpread ELSE open - HalfSpread) * Scale

FillPrice(side, open) ==
    IF side = "buy" THEN open * (Scale + HalfSpread) ELSE open * (Scale - HalfSpread)

\* Mutant: every pending order is settled as a purchase.
SettlementAsBuy(o) ==
    [type |-> "order_settled", ref |-> o.ref, ticker |-> o.ticker, side |-> "buy",
     qty |-> o.qty, fill |-> FillPrice("buy", bars[o.ticker]), session |-> session]

Settlement(o) ==
    [type |-> "order_settled", ref |-> o.ref, ticker |-> o.ticker, side |-> o.side,
     qty |-> o.qty, fill |-> FillPrice(o.side, bars[o.ticker]), session |-> session]

Settle(i) ==
    /\ Due(i)
    /\ log[i].ticker \in DOMAIN bars
    /\ log' = Append(log, Settlement(log[i]))
    /\ todo' = todo \ {i}
    /\ UNCHANGED <<today, runs, pc, session, bars, tried>>

\* Mutant: the first gap ends the loop.
GapEndsLoop(i) ==
    /\ Due(i)
    /\ log[i].ticker \notin DOMAIN bars
    /\ log' = Append(log, [type |-> "settlement_gap", ref |-> log[i].ref, run |-> runs])
    /\ todo' = {}
    /\ UNCHANGED <<today, runs, pc, session, bars, tried>>

\* No open bar: the order stays pending and the gap is recorded.
Gap(i) ==
    /\ Due(i)
    /\ log[i].ticker \notin DOMAIN bars
    /\ log' = Append(log, [type |-> "settlement_gap", ref |-> log[i].ref, run |-> runs])
    /\ todo' = todo \ {i}
    /\ UNCHANGED <<today, runs, pc, session, bars, tried>>

RecordMarks ==
    /\ pc = "settle"
    /\ todo = {}
    /\ \E closes \in CloseBars :
          log' = Append(log, [type |-> "mark_to_market", marks |-> closes])
    /\ pc' = "decide"
    /\ UNCHANGED <<today, runs, session, todo, bars, tried>>

\* The log position of the latest marks, those of this cycle once it decides.
LatestMarks(i) ==
    /\ i \in At(log, "mark_to_market")
    /\ \A j \in At(log, "mark_to_market") : j <= i

\* The name has a close in this session.
HasClose(t) == \E i \in DOMAIN log : LatestMarks(i) /\ t \in DOMAIN log[i].marks

\* A candidate's chain ends in an approved order.  The screen offers the names
\* that are not held, each once; the gate refuses one without a close today;
\* the market is closed, so the order is pending.
LogOrder ==
    /\ pc = "decide"
    /\ Cardinality(tried) < PerCycle
    /\ \E t \in (Tickers \ Held(log)) \ tried, r \in Refs, side \in Sides, q \in Qtys :
          /\ HasClose(t)
          /\ \A i \in At(log, "modeled_order") : log[i].ref # r
          /\ log' = Append(log, [type |-> "modeled_order", ref |-> r, ticker |-> t,
                                 side |-> side, qty |-> q, session |-> session])
          /\ tried' = tried \cup {t}
    /\ UNCHANGED <<today, runs, pc, session, todo, bars>>

Reset ==
    /\ pc' = "idle"
    /\ todo' = {}
    /\ bars' = <<>>
    /\ tried' = {}
    /\ UNCHANGED <<log, today, runs, session>>

Finish == pc = "decide" /\ Reset

\* TimeoutStartSec, a reboot or an exception outside the candidate loop: what
\* the process held in memory is gone, what it appended stays.
Kill == pc # "idle" /\ Reset

Next ==
    \/ NextSession \/ StartCycle
    \/ \E i \in todo : Settle(i) \/ Gap(i)
    \/ RecordMarks \/ LogOrder \/ Finish \/ Kill

Spec == Init /\ [][Next]_vars

-----------------------------------------------------------------------------
(* Properties.                                                             *)

\* Every variable stays in its range: the log is a sequence of the events the
\* ledger writes, and what is left to settle are positions of orders in it.
TypeOK ==
    /\ log \in Seq(Events)
    /\ today \in Sessions
    /\ runs \in 0..MaxRuns
    /\ pc \in {"idle", "settle", "decide"}
    /\ session \in 0..MaxDay
    /\ pc # "idle" => session \in Sessions /\ runs \in 1..MaxRuns
    /\ pc = "decide" => At(log, "mark_to_market") # {}
    /\ todo \subseteq At(log, "modeled_order")
    /\ bars \in OpenBars
    /\ tried \subseteq Tickers

\* An order is settled at most once, however often settle_pending is killed
\* between two appends and run again: the second run must see what the first
\* one managed to write.
SettledOnce ==
    \A i, j \in At(log, "order_settled") : log[i].ref = log[j].ref => i = j

\* A settlement fills an order of the log, as it was placed: same name, side
\* and quantity, and never before the order itself.
FillMatchesOrder ==
    \A i \in At(log, "order_settled") : \E k \in At(log, "modeled_order") :
        /\ k < i
        /\ log[k].ref = log[i].ref
        /\ log[k].ticker = log[i].ticker
        /\ log[k].side = log[i].side
        /\ log[k].qty = log[i].qty

\* When the cycle goes on to decide, settle_pending has dealt with every older
\* order: one that is still pending has no open in this session, and this run
\* has recorded the gap.
SettlementComplete ==
    pc = "decide" =>
        \A i \in Pending(log), m \in DOMAIN log : LatestMarks(m) /\ i < m =>
            /\ log[i].ticker \notin DOMAIN bars
            /\ \E g \in At(log, "settlement_gap") :
                  log[g].ref = log[i].ref /\ log[g].run = runs

\* Log positions of the orders and of the fills on a name, and the signed shares
\* at such positions.
Orders(l, t) == {i \in At(l, "modeled_order") : l[i].ticker = t}
Fills(l, t) == {i \in At(l, "order_settled") : l[i].ticker = t}
Shares(l, P) == MapThenSumSet(LAMBDA i : Signed(l[i]), P)

\* The shares that were ordered are the shares held plus the shares pending:
\* across kills and runs of old sessions nothing is lost or counted twice.
OrdersConserved ==
    \A t \in Tickers :
        Shares(log, Orders(log, t)) =
            Holding(log, t).qty + Shares(log, Orders(log, t) \cap Pending(log))

\* What the fills on a name have gained at price m, in units of 1/Scale.
Gain(l, t, m) == MapThenSumSet(LAMBDA i : Signed(l[i]) * (m - l[i].fill), Fills(l, t))

OneSided(l, t) == \E side \in Sides : \A i \in Fills(l, t) : l[i].side = side

\* The NAV counts, for a name whose fills are all on one side, exactly the sum
\* over its fills of quantity times (mark - fill price), whatever the mark: the
\* averaged entry price loses nothing.
UnrealizedIsSumOfFills ==
    \A t \in Tickers : OneSided(log, t) =>
        LET h == Holding(log, t)
        IN  \A m \in Opens \cup Closes :
                h.qty * (m * Scale * h.den - h.num) = h.den * Gain(log, t, m * Scale)

\* The entry price of a held name lies between the lowest and the highest price
\* it was filled at, as an average of fills does.
EntryWithinFills ==
    \A t \in Held(log) :
        LET h == Holding(log, t)
        IN  /\ \E i \in Fills(log, t) : log[i].fill * h.den <= h.num
            /\ \E i \in Fills(log, t) : h.num <= log[i].fill * h.den

\* The ledger implements the life of an order: reading the log's orders as the
\* placed ids and its settlements as the fills, every step places an order,
\* fills one that had no fill, or changes neither.
Life == INSTANCE OrderLife WITH
    placed <- {log[i].ref : i \in At(log, "modeled_order")},
    fills  <- {[at |-> i, ref |-> log[i].ref, price |-> log[i].fill] :
                  i \in At(log, "order_settled")}

LifeSpec == Life!Spec

=============================================================================
