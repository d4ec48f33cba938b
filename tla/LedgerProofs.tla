---------------------------- MODULE LedgerProofs ----------------------------
(***************************************************************************)
(* For every universe, every set of trade ids and every number of runs:    *)
(* the ledger is type correct, settles an order at most once, as it was    *)
(* placed and with nothing left out, conserves shares, values a one-sided  *)
(* holding at the sum of its fills, and implements the life of an order    *)
(* (OrderLife.tla).                                                        *)
(*                                                                         *)
(* SettledOnce is not inductive: a second settlement is prevented because  *)
(* what the loop still has to visit is pending now, not only when the loop *)
(* began, and because no two orders share a trade id.  Both facts join it  *)
(* in the inductive invariant IInv.  Three more results have invariants of *)
(* their own on top of it: what the loop has passed over it has explained  *)
(* (SInv); a holding is a quantity with a proper fraction for its price    *)
(* (CInv); fills on one side leave the holding on that side (AInv).        *)
(*                                                                         *)
(* A holding is a fold over the log, and shares and gain are sums over it: *)
(* each is first shown to follow one appended event.                       *)
(***************************************************************************)
EXTENDS Ledger, SumTheorems

\* No two orders of the log carry the same trade id.
RefsUnique ==
    \A i, j \in At(log, "modeled_order") : log[i].ref = log[j].ref => i = j

\* What settle_pending still has to visit is unsettled in the log of the moment.
TodoPending == todo \subseteq Pending(log)

IInv ==
    /\ TypeOK
    /\ SettledOnce
    /\ FillMatchesOrder
    /\ RefsUnique
    /\ TodoPending

-----------------------------------------------------------------------------

\* Appending an event leaves the earlier ones where they were.
LEMMA AppendKeeps ==
    ASSUME NEW S, NEW l \in Seq(S), NEW e \in S
    PROVE  /\ Append(l, e) \in Seq(S)
           /\ DOMAIN Append(l, e) = DOMAIN l \cup {Len(l) + 1}
           /\ Len(l) + 1 \notin DOMAIN l
           /\ \A i \in DOMAIN l : /\ i \in Nat
                                  /\ i < Len(l) + 1
                                  /\ Append(l, e)[i] = l[i]
           /\ Append(l, e)[Len(l) + 1] = e
  OBVIOUS

\* The positions of a type grow by the new one when the event has that type.
LEMMA AtAppend ==
    ASSUME NEW l \in Seq(Events), NEW e \in Events, NEW type
    PROVE  At(Append(l, e), type) =
               At(l, type) \cup (IF e.type = type THEN {Len(l) + 1} ELSE {})
  BY AppendKeeps DEF At

\* A fill price is a natural number: the half spread is less than the price.
LEMMA FillPriceType ==
    ASSUME NEW side, NEW open \in Opens
    PROVE  FillPrice(side, open) \in Nat
  <1>1. open \in Nat /\ Scale + HalfSpread \in Nat /\ Scale - HalfSpread \in Nat
    BY LedgerAssumption
  <1>2. \A m, n \in Nat : m * n \in Nat
    OBVIOUS
  <1> QED
    BY <1>1, <1>2 DEF FillPrice

\* The fields an event has by its type.
LEMMA EventFields ==
    ASSUME NEW l \in Seq(Events)
    PROVE  /\ \A i \in At(l, "modeled_order") : l[i] \in OrderEvents
           /\ \A i \in At(l, "order_settled") : l[i] \in FillEvents
           /\ \A i \in At(l, "mark_to_market") : l[i] \in MarkEvents
           /\ \A type : At(l, type) \subseteq DOMAIN l
  BY DEF At, Events, OrderEvents, FillEvents, GapEvents, MarkEvents

-----------------------------------------------------------------------------

\* The empty log.
LEMMA InitIInv == Init => IInv
  BY LedgerAssumption
     DEF Init, IInv, TypeOK, SettledOnce, FillMatchesOrder, RefsUnique, TodoPending,
         At, Sessions, OpenBars

\* What appending an event of the given kind does to the views of the log.
LEMMA AppendViews ==
    ASSUME IInv, NEW e \in Events, log' = Append(log, e)
    PROVE  /\ log' \in Seq(Events)
           /\ \A type : e.type = type => At(log', type) = At(log, type) \cup {Len(log) + 1}
           /\ \A type : e.type # type => At(log', type) = At(log, type)
           /\ Len(log) + 1 \notin DOMAIN log
           /\ \A type : At(log, type) \subseteq DOMAIN log
           /\ \A k \in DOMAIN log : k < Len(log) + 1 /\ log'[k] = log[k]
           /\ log'[Len(log) + 1] = e
  <1>1. log \in Seq(Events)
    BY DEF IInv, TypeOK
  <1>2. \A type : At(Append(log, e), type) =
            At(log, type) \cup (IF e.type = type THEN {Len(log) + 1} ELSE {})
    BY <1>1, AtAppend
  <1>3. \A type : At(log, type) \subseteq DOMAIN log
    BY DEF At
  <1>4. /\ \A type : e.type = type => At(log', type) = At(log, type) \cup {Len(log) + 1}
        /\ \A type : e.type # type => At(log', type) = At(log, type)
    BY <1>2, Zenon
  <1>5. /\ log' \in Seq(Events) /\ Len(log) + 1 \notin DOMAIN log
        /\ \A k \in DOMAIN log : k < Len(log) + 1 /\ log'[k] = log[k]
        /\ log'[Len(log) + 1] = e
    BY <1>1, AppendKeeps
  <1> QED
    BY <1>3, <1>4, <1>5

\* settle_pending fills the order at position i.
LEMMA SettleStep ==
    ASSUME IInv, NEW i \in todo, Settle(i)
    PROVE  IInv'
  <1> DEFINE e == Settlement(log[i])
             n == Len(log) + 1
  <1>1. /\ i \in At(log, "modeled_order") /\ log[i] \in OrderEvents
        /\ log[i].ref \notin SettledRefs(log)
    BY EventFields DEF IInv, TypeOK, TodoPending, Pending
  <1>2. bars[log[i].ticker] \in Opens /\ session \in Sessions
    BY DEF Settle, Due, IInv, TypeOK, OpenBars
  <1>3. e \in Events /\ e.type = "order_settled"
    BY <1>1, <1>2, FillPriceType DEF Settlement, OrderEvents, FillEvents, Events
  <1>4. log' = Append(log, e)
    BY DEF Settle
  <1>5. /\ log' \in Seq(Events)
        /\ At(log', "modeled_order") = At(log, "modeled_order")
        /\ At(log', "order_settled") = At(log, "order_settled") \cup {n}
        /\ At(log', "mark_to_market") = At(log, "mark_to_market")
        /\ n \notin DOMAIN log
        /\ \A type : At(log, type) \subseteq DOMAIN log
        /\ \A k \in DOMAIN log : k < n /\ log'[k] = log[k]
        /\ log'[n] = e
    BY <1>3, <1>4, AppendViews
  <1>6. /\ e.ref = log[i].ref /\ e.ticker = log[i].ticker
        /\ e.side = log[i].side /\ e.qty = log[i].qty
    BY DEF Settlement
  <1>7. TypeOK'
    BY <1>5 DEF Settle, IInv, TypeOK
  <1>8. SettledOnce'
    BY <1>1, <1>5, <1>6 DEF IInv, SettledOnce, SettledRefs
  <1>9. FillMatchesOrder'
    BY <1>1, <1>5, <1>6 DEF IInv, FillMatchesOrder
  <1>10. RefsUnique'
    BY <1>5 DEF IInv, RefsUnique
  <1>11. TodoPending'
    <2>1. ASSUME NEW j \in todo'
          PROVE  j \in At(log, "modeled_order") /\ j # i /\ log[j].ref \notin SettledRefs(log)
      BY DEF Settle, IInv, TodoPending, Pending
    <2>2. ASSUME NEW j \in todo'
          PROVE  log'[j].ref \notin SettledRefs(log')
      BY <1>1, <1>5, <1>6, <2>1 DEF SettledRefs, IInv, RefsUnique
    <2> QED
      BY <1>5, <2>1, <2>2 DEF TodoPending, Pending
  <1> QED
    BY <1>7, <1>8, <1>9, <1>10, <1>11 DEF IInv

\* Appending an event that is neither an order nor a settlement, while nothing
\* is added to what is left to settle, disturbs only the type invariant.
LEMMA QuietStep ==
    ASSUME IInv, NEW e \in GapEvents \cup MarkEvents, log' = Append(log, e),
           todo' \subseteq todo, TypeOK'
    PROVE  IInv'
  <1>1. e \in Events /\ e.type \notin {"modeled_order", "order_settled"}
    BY DEF Events, GapEvents, MarkEvents
  <1>2. /\ At(log', "modeled_order") = At(log, "modeled_order")
        /\ At(log', "order_settled") = At(log, "order_settled")
        /\ \A type : At(log, type) \subseteq DOMAIN log
        /\ \A k \in DOMAIN log : log'[k] = log[k]
    BY <1>1, AppendViews
  <1>3. SettledRefs(log') = SettledRefs(log) /\ Pending(log') = Pending(log)
    BY <1>2 DEF SettledRefs, Pending
  <1> QED
    BY <1>2, <1>3 DEF IInv, SettledOnce, FillMatchesOrder, RefsUnique, TodoPending

\* settle_pending records a gap.
LEMMA GapStep ==
    ASSUME IInv, NEW i \in todo, Gap(i)
    PROVE  IInv'
  <1> DEFINE e == [type |-> "settlement_gap", ref |-> log[i].ref, run |-> runs]
  <1>1. log[i] \in OrderEvents /\ runs \in 1..MaxRuns
    BY EventFields DEF IInv, TypeOK, Gap, Due
  <1>2. e \in GapEvents /\ e \in Events
    BY <1>1 DEF OrderEvents, GapEvents, Events
  <1>3. log' = Append(log, e) /\ todo' \subseteq todo
    BY DEF Gap
  <1>4. TypeOK'
    <2>1. /\ log' \in Seq(Events)
          /\ At(log', "modeled_order") = At(log, "modeled_order")
          /\ At(log', "mark_to_market") = At(log, "mark_to_market")
      BY <1>2, <1>3, AppendViews
    <2> QED
      BY <2>1 DEF Gap, IInv, TypeOK
  <1> QED
    BY <1>2, <1>3, <1>4, QuietStep

\* record_marks appends the closes and the cycle goes on to decide.
LEMMA MarkStep ==
    ASSUME IInv, RecordMarks
    PROVE  IInv'
  <1>1. PICK closes \in CloseBars :
            log' = Append(log, [type |-> "mark_to_market", marks |-> closes])
    BY DEF RecordMarks
  <1> DEFINE e == [type |-> "mark_to_market", marks |-> closes]
  <1>2. e \in MarkEvents /\ e \in Events
    BY DEF MarkEvents, Events
  <1>3. TypeOK'
    <2>1. /\ log' \in Seq(Events)
          /\ At(log', "modeled_order") = At(log, "modeled_order")
          /\ At(log', "mark_to_market") # {}
      BY <1>1, <1>2, AppendViews
    <2> QED
      BY <2>1 DEF RecordMarks, IInv, TypeOK
  <1> QED
    BY <1>1, <1>2, <1>3, QuietStep DEF RecordMarks

\* A new order has a trade id of its own, so it joins RefsUnique, and it lands
\* after every settlement.
LEMMA OrderStep ==
    ASSUME IInv, LogOrder
    PROVE  IInv'
  <1>1. PICK t \in (Tickers \ Held(log)) \ tried,
             r \in Refs, side \in Sides, q \in Qtys :
            /\ \A i \in At(log, "modeled_order") : log[i].ref # r
            /\ log' = Append(log, [type |-> "modeled_order", ref |-> r, ticker |-> t,
                                   side |-> side, qty |-> q, session |-> session])
            /\ tried' = tried \cup {t}
    BY DEF LogOrder
  <1> DEFINE e == [type |-> "modeled_order", ref |-> r, ticker |-> t,
                   side |-> side, qty |-> q, session |-> session]
             n == Len(log) + 1
  <1>3. e \in Events
    BY <1>1 DEF OrderEvents, Events, LogOrder, IInv, TypeOK
  <1>4. /\ log' \in Seq(Events)
        /\ At(log', "modeled_order") = At(log, "modeled_order") \cup {n}
        /\ At(log', "order_settled") = At(log, "order_settled")
        /\ At(log', "mark_to_market") = At(log, "mark_to_market")
        /\ n \notin DOMAIN log
        /\ \A type : At(log, type) \subseteq DOMAIN log
        /\ \A k \in DOMAIN log : k < n /\ log'[k] = log[k]
        /\ log'[n] = e
    BY <1>1, <1>3, AppendViews
  <1>5. TypeOK'
    BY <1>1, <1>4 DEF LogOrder, IInv, TypeOK
  <1>6. SettledOnce' /\ FillMatchesOrder'
    BY <1>4 DEF IInv, SettledOnce, FillMatchesOrder
  <1>7. RefsUnique'
    BY <1>1, <1>4 DEF IInv, RefsUnique
  <1>8. TodoPending'
    <2>1. SettledRefs(log') = SettledRefs(log)
      BY <1>4 DEF SettledRefs
    <2> QED
      BY <1>4, <2>1 DEF LogOrder, IInv, TodoPending, Pending
  <1> QED
    BY <1>5, <1>6, <1>7, <1>8 DEF IInv

\* The steps that leave the log alone.
LEMMA OtherSteps ==
    ASSUME IInv, NextSession \/ StartCycle \/ Finish \/ Kill \/ UNCHANGED vars
    PROVE  IInv'
  <1>1. UNCHANGED log
    BY DEF NextSession, StartCycle, Finish, Kill, Reset, vars
  <1>2. SettledOnce' /\ FillMatchesOrder' /\ RefsUnique'
    BY <1>1 DEF IInv, SettledOnce, FillMatchesOrder, RefsUnique, At
  <1>3. TodoPending'
    BY <1>1 DEF NextSession, StartCycle, Finish, Kill, Reset, vars, cycleVars,
                IInv, TodoPending, Pending, SettledRefs, At
  <1>4. TypeOK'
    <2>1. \A type : At(log', type) = At(log, type)
      BY <1>1
    <2>2. CASE NextSession
      <3>1. today' \in Sessions
        BY <2>2, LedgerAssumption DEF NextSession, IInv, TypeOK, Sessions
      <3> QED
        BY <2>1, <2>2, <3>1 DEF NextSession, cycleVars, IInv, TypeOK
    <2>3. CASE StartCycle
      <3>1. session' \in Sessions /\ session' \in 0..MaxDay /\ runs' \in 1..MaxRuns
        BY <2>3, LedgerAssumption DEF StartCycle, IInv, TypeOK, Sessions
      <3>2. todo' \subseteq At(log', "modeled_order")
        BY <2>1, <2>3 DEF StartCycle, Pending
      <3> QED
        BY <2>1, <2>3, <3>1, <3>2 DEF StartCycle, IInv, TypeOK
    <2>4. CASE Finish \/ Kill
      <3>1. Reset
        BY <2>4 DEF Finish, Kill
      <3>2. <<>> \in OpenBars
        BY DEF OpenBars
      <3> QED
        BY <2>1, <3>1, <3>2 DEF Reset, IInv, TypeOK
    <2>5. CASE UNCHANGED vars
      BY <2>1, <2>5 DEF vars, IInv, TypeOK
    <2> QED
      BY <2>2, <2>3, <2>4, <2>5
  <1> QED
    BY <1>2, <1>3, <1>4 DEF IInv

\* Every step of the ledger, a stutter included.
LEMMA StepIInv == IInv /\ [Next]_vars => IInv'
  BY SettleStep, GapStep, MarkStep, OrderStep, OtherSteps DEF Next

\* The inductive invariant holds in every reachable state.
THEOREM LedgerInvariant == Spec => []IInv
  <1>1. Init => IInv
    BY InitIInv
  <1>2. IInv /\ [Next]_vars => IInv'
    BY StepIInv
  <1> QED
    BY <1>1, <1>2, PTL DEF Spec

\* Every variable of the ledger keeps its type.
THEOREM TypeCorrect == Spec => []TypeOK
  BY LedgerInvariant, PTL DEF IInv

\* However often the cycle is killed and run again, an order settles at most once.
THEOREM SettlesOnce == Spec => []SettledOnce
  BY LedgerInvariant, PTL DEF IInv

\* Every settlement fills an earlier order of the log, as it was placed.
THEOREM FillsMatch == Spec => []FillMatchesOrder
  BY LedgerInvariant, PTL DEF IInv

-----------------------------------------------------------------------------
(* Settlement is complete.  While settle_pending runs, a pending order it  *)
(* no longer has to visit is one whose gap this run has recorded; when it  *)
(* is done that holds of every pending order.                              *)

\* The order at position i has no open in this session, and this run said so.
Explained(i) ==
    /\ log[i].ticker \notin DOMAIN bars
    /\ \E g \in At(log, "settlement_gap") : log[g].ref = log[i].ref /\ log[g].run = runs

GapsRecorded == pc = "settle" => \A i \in Pending(log) \ todo : Explained(i)

SInv == GapsRecorded /\ SettlementComplete

\* Appending an event does not take the explanation away.
LEMMA ExplainedKept ==
    ASSUME IInv, NEW e \in Events, log' = Append(log, e), UNCHANGED <<bars, runs>>,
           NEW i \in DOMAIN log, Explained(i)
    PROVE  Explained(i)'
  <1>1. /\ At(log, "settlement_gap") \subseteq At(log', "settlement_gap")
        /\ At(log, "settlement_gap") \subseteq DOMAIN log
        /\ \A k \in DOMAIN log : log'[k] = log[k]
    BY AppendViews
  <1> QED
    BY <1>1 DEF Explained

\* The loop: a settled order is pending no more, a skipped one is explained.
LEMMA LoopExplains ==
    ASSUME IInv, SInv, NEW i \in todo, Settle(i) \/ Gap(i)
    PROVE  SInv'
  <1>1. pc = "settle" /\ pc' = "settle" /\ todo' = todo \ {i} /\ UNCHANGED <<bars, runs>>
    BY DEF Settle, Gap, Due
  <1>2. SettlementComplete'
    BY <1>1 DEF SettlementComplete
  <1>3. /\ i \in At(log, "modeled_order") /\ log[i] \in OrderEvents
        /\ \A type : At(log, type) \subseteq DOMAIN log
    BY EventFields DEF IInv, TypeOK
  <1>4. CASE Settle(i)
    <2> DEFINE e == Settlement(log[i])
               n == Len(log) + 1
    <2>1. bars[log[i].ticker] \in Opens /\ session \in Sessions
      BY <1>3, <1>4 DEF Settle, Due, IInv, TypeOK, OpenBars
    <2>2. /\ e \in Events /\ e.type = "order_settled" /\ e.ref = log[i].ref
          /\ log' = Append(log, e)
      BY <1>3, <1>4, <2>1, FillPriceType
         DEF Settle, Settlement, OrderEvents, FillEvents, Events
    <2> HIDE DEF e
    <2>3. /\ At(log', "modeled_order") = At(log, "modeled_order")
          /\ At(log', "order_settled") = At(log, "order_settled") \cup {n}
          /\ \A k \in DOMAIN log : log'[k] = log[k]
          /\ log'[n] = e
      BY <2>2, AppendViews
    <2>4. Pending(log') \ todo' \subseteq Pending(log) \ todo
      BY <1>1, <1>3, <2>2, <2>3 DEF Pending, SettledRefs
    <2>5. ASSUME NEW j \in Pending(log') \ todo'
          PROVE  Explained(j)'
      <3>1. j \in DOMAIN log /\ Explained(j)
        BY <1>1, <1>3, <2>4 DEF SInv, GapsRecorded, Pending
      <3> QED
        BY <1>1, <2>2, <3>1, ExplainedKept
    <2> QED
      BY <1>2, <2>5 DEF SInv, GapsRecorded
  <1>5. CASE Gap(i)
    <2> DEFINE e == [type |-> "settlement_gap", ref |-> log[i].ref, run |-> runs]
               n == Len(log) + 1
    <2>1. runs \in 1..MaxRuns
      BY <1>1 DEF IInv, TypeOK
    <2>2. /\ e \in Events /\ e.type = "settlement_gap" /\ log' = Append(log, e)
          /\ e.ref = log[i].ref /\ e.run = runs
      BY <1>3, <1>5, <2>1 DEF Gap, OrderEvents, GapEvents, Events
    <2> HIDE DEF e
    <2>3. /\ At(log', "modeled_order") = At(log, "modeled_order")
          /\ At(log', "order_settled") = At(log, "order_settled")
          /\ At(log', "settlement_gap") = At(log, "settlement_gap") \cup {n}
          /\ \A k \in DOMAIN log : log'[k] = log[k]
          /\ log'[n] = e
      BY <2>2, AppendViews
    <2>4. Pending(log') = Pending(log)
      BY <1>3, <2>3 DEF Pending, SettledRefs
    <2>5. Explained(i)'
      BY <1>1, <1>3, <1>5, <2>2, <2>3 DEF Explained, Gap
    <2>6. ASSUME NEW j \in Pending(log') \ todo', j # i
          PROVE  Explained(j)'
      <3>1. j \in DOMAIN log /\ Explained(j)
        BY <1>1, <1>3, <2>4, <2>6 DEF SInv, GapsRecorded, Pending
      <3> QED
        BY <1>1, <2>2, <3>1, ExplainedKept
    <2> QED
      BY <1>2, <2>5, <2>6 DEF SInv, GapsRecorded
  <1> QED
    BY <1>4, <1>5

\* The loop is over when the marks are written: what is pending is explained.
LEMMA MarkExplains ==
    ASSUME IInv, SInv, RecordMarks
    PROVE  SInv'
  <1>1. PICK closes \in CloseBars :
            log' = Append(log, [type |-> "mark_to_market", marks |-> closes])
    BY DEF RecordMarks
  <1> DEFINE e == [type |-> "mark_to_market", marks |-> closes]
  <1>2. e \in Events /\ e.type = "mark_to_market" /\ log' = Append(log, e)
    BY <1>1 DEF MarkEvents, Events
  <1> HIDE DEF e
  <1>3. /\ At(log', "modeled_order") = At(log, "modeled_order")
        /\ At(log', "order_settled") = At(log, "order_settled")
        /\ \A type : At(log, type) \subseteq DOMAIN log
        /\ \A k \in DOMAIN log : log'[k] = log[k]
    BY <1>2, AppendViews
  <1>4. Pending(log') = Pending(log)
    BY <1>3 DEF Pending, SettledRefs
  <1>5. /\ pc = "settle" /\ todo = {} /\ pc' = "decide" /\ UNCHANGED <<bars, runs>>
    BY DEF RecordMarks
  <1>6. ASSUME NEW j \in Pending(log')
        PROVE  Explained(j)'
    <2>1. j \in DOMAIN log /\ Explained(j)
      BY <1>3, <1>4, <1>5 DEF SInv, GapsRecorded, Pending
    <2> QED
      BY <1>2, <1>5, <2>1, ExplainedKept
  <1> QED
    BY <1>5, <1>6 DEF SInv, GapsRecorded, SettlementComplete, Explained

\* An order placed now lies after the latest marks.
LEMMA OrderExplains ==
    ASSUME IInv, SInv, LogOrder
    PROVE  SInv'
  <1>1. PICK t \in (Tickers \ Held(log)) \ tried,
             r \in Refs, side \in Sides, q \in Qtys :
            log' = Append(log, [type |-> "modeled_order", ref |-> r, ticker |-> t,
                                side |-> side, qty |-> q, session |-> session])
    BY DEF LogOrder
  <1> DEFINE e == [type |-> "modeled_order", ref |-> r, ticker |-> t,
                   side |-> side, qty |-> q, session |-> session]
             n == Len(log) + 1
  <1>2. e \in Events /\ e.type = "modeled_order" /\ log' = Append(log, e)
    BY <1>1 DEF OrderEvents, Events, LogOrder, IInv, TypeOK
  <1> HIDE DEF e
  <1>3. /\ At(log', "modeled_order") = At(log, "modeled_order") \cup {n}
        /\ At(log', "order_settled") = At(log, "order_settled")
        /\ At(log', "mark_to_market") = At(log, "mark_to_market")
        /\ \A type : At(log, type) \subseteq DOMAIN log
        /\ \A k \in DOMAIN log : k < n /\ log'[k] = log[k]
        /\ log'[n] = e
    BY <1>2, AppendViews
  <1>4. Pending(log') \subseteq Pending(log) \cup {n}
    BY <1>3 DEF Pending, SettledRefs
  <1>5. /\ pc = "decide" /\ pc' = "decide" /\ UNCHANGED <<bars, runs>>
    BY DEF LogOrder
  <1>6. ASSUME NEW j \in Pending(log'), NEW m \in DOMAIN log', LatestMarks(m)', j < m
        PROVE  Explained(j)'
    <2>1. m \in DOMAIN log /\ LatestMarks(m)
      BY <1>3, <1>6 DEF LatestMarks
    <2>2. j # n
      <3>1. m < n /\ m \in Nat /\ n \in Nat
        BY <1>3, <2>1 DEF IInv, TypeOK
      <3> HIDE DEF n
      <3> QED
        BY <1>6, <3>1
    <2>3. j \in Pending(log) /\ j \in DOMAIN log
      BY <1>3, <1>4, <2>2 DEF Pending
    <2>4. Explained(j)
      BY <1>5, <1>6, <2>1, <2>3 DEF SInv, SettlementComplete, Explained
    <2> QED
      BY <1>2, <1>5, <2>3, <2>4, ExplainedKept
  <1> QED
    BY <1>5, <1>6 DEF SInv, GapsRecorded, SettlementComplete, Explained

\* Every step of the ledger, a stutter included.
LEMMA StepSInv == IInv /\ SInv /\ [Next]_vars => SInv'
  <1> SUFFICES ASSUME IInv, SInv, [Next]_vars
               PROVE  SInv'
    OBVIOUS
  <1>1. CASE StartCycle
    BY <1>1 DEF StartCycle, SInv, GapsRecorded, SettlementComplete
  <1>2. CASE NextSession \/ Finish \/ Kill
    <2>1. pc' = "idle"
      BY <1>2 DEF NextSession, cycleVars, Finish, Kill, Reset
    <2> QED
      BY <2>1 DEF SInv, GapsRecorded, SettlementComplete
  <1>3. CASE UNCHANGED vars
    BY <1>3 DEF vars, SInv, GapsRecorded, SettlementComplete, Explained, LatestMarks,
                Pending, SettledRefs, At
  <1> QED
    BY <1>1, <1>2, <1>3, LoopExplains, MarkExplains, OrderExplains DEF Next

\* When a cycle decides, every older order that is still pending has no open in
\* its session, and its gap is on record.
THEOREM SettlesAll == Spec => []SettlementComplete
  <1>1. Init => SInv
    BY DEF Init, SInv, GapsRecorded, SettlementComplete
  <1>2. IInv /\ SInv /\ [Next]_vars => SInv'
    BY StepSInv
  <1>3. SInv => SettlementComplete
    BY DEF SInv
  <1> QED
    BY <1>1, <1>2, <1>3, LedgerInvariant, PTL DEF Spec

-----------------------------------------------------------------------------
(* The replay.  Holding is a fold over the positions of the log, the       *)
(* latest one outermost, so the facts about it are inductions over the     *)
(* sets of positions, put as the choice of a least counterexample.         *)

\* g replays l for name t over every subset of the positions S.
Replays(g, l, S, t) ==
    g = [s \in SUBSET S |-> IF s = {} THEN Flat
                            ELSE Replay(g[s \ {Max(s)}], l[Max(s)], t)]

\* The library's fold is the function that replays, at all positions.
LEMMA HoldingIsFold ==
    ASSUME NEW l, NEW t
    PROVE  Holding(l, t) = (CHOOSE g : Replays(g, l, DOMAIN l, t))[DOMAIN l]
  BY DEF Holding, FoldLeft, MapThenFoldSet, Replays

\* The last of some positions is one of them.
LEMMA LastPosition ==
    ASSUME NEW S, IsFiniteSet(S), \A x \in S : x \in Int, NEW s \in SUBSET S, s # {}
    PROVE  /\ Max(s) \in s
           /\ \A x \in s : x <= Max(s)
           /\ s \ {Max(s)} \in SUBSET S
           /\ s \ {Max(s)} # s
           /\ s \ {Max(s)} # S
  <1>1. IsFiniteSet(s) /\ s \subseteq Int
    BY FS_Subset
  <1> QED
    BY <1>1, MaxIsMax

\* Two functions that replay agree on positions where the logs do.
LEMMA ReplaysAgree ==
    ASSUME NEW l, NEW k, NEW t, NEW S, IsFiniteSet(S), \A x \in S : x \in Int, NEW T,
           NEW g, Replays(g, l, S, t), NEW h, Replays(h, k, T, t),
           NEW u \in SUBSET S, u \in SUBSET T, \A i \in u : l[i] = k[i]
    PROVE  g[u] = h[u]
  <1> DEFINE B == {v \in SUBSET S : v \subseteq u /\ g[v] # h[v]}
  <1> SUFFICES ASSUME B # {}
               PROVE  FALSE
    OBVIOUS
  <1>0. B \subseteq SUBSET S
    OBVIOUS
  <1>1. PICK v \in B : \A w \in B : w \subseteq v => w = v
    <2> HIDE DEF B
    <2> QED
      BY <1>0, LeastSet
  <1>2. v \in SUBSET S /\ v \in SUBSET T /\ v # {}
    BY DEF Replays
  <1>3. Max(v) \in v
    BY <1>2, LastPosition
  <1> DEFINE w == v \ {Max(v)}
  <1>4. g[w] = h[w] /\ l[Max(v)] = k[Max(v)]
    BY <1>1, <1>3
  <1> HIDE DEF w
  <1>5. /\ g[v] = Replay(g[w], l[Max(v)], t)
        /\ h[v] = Replay(h[w], k[Max(v)], t)
    BY <1>2 DEF Replays, w
  <1> QED
    BY <1>4, <1>5

\* There is a function that replays.
LEMMA ReplaysExists ==
    ASSUME NEW l, NEW t, NEW S, IsFiniteSet(S), \A x \in S : x \in Int
    PROVE  \E g : Replays(g, l, S, t)
  <1> DEFINE B == {T \in SUBSET S : ~ \E g : Replays(g, l, T, t)}
  <1> SUFFICES ASSUME B # {}
               PROVE  FALSE
    OBVIOUS
  <1>0. B \subseteq SUBSET S
    OBVIOUS
  <1>1. PICK T \in B : \A U \in B : U \subseteq T => U = T
    <2> HIDE DEF B
    <2> QED
      BY <1>0, LeastSet
  <1>2. T \in SUBSET S /\ ~ \E g : Replays(g, l, T, t)
    OBVIOUS
  <1>3. \A U \in SUBSET T : U # T => \E g : Replays(g, l, U, t)
    BY <1>1, <1>2
  <1>4. IsFiniteSet(T) /\ T \subseteq Int
    BY <1>2, FS_Subset
  <1> DEFINE Sub(U) == CHOOSE g : Replays(g, l, U, t)
             Rest(U) == U \ {Max(U)}
             Val(U) == IF U = {} THEN Flat
                       ELSE Replay(Sub(Rest(U))[Rest(U)], l[Max(U)], t)
             h == [U \in SUBSET T |-> Val(U)]
  <1>5. \A U \in SUBSET T : U # T => Replays(Sub(U), l, U, t)
    BY <1>3
  <1>6. ASSUME NEW U \in SUBSET T, U # {}
        PROVE  Rest(U) \in SUBSET T /\ Rest(U) # T /\ Rest(U) \in SUBSET U
    BY <1>4, <1>6, LastPosition
  <1>7. ASSUME NEW U \in SUBSET T, U # T
        PROVE  Val(U) = Sub(U)[U]
    <2> HIDE DEF Sub
    <2>1. Replays(Sub(U), l, U, t)
      BY <1>5, <1>7
    <2>2. CASE U = {}
      BY <2>1, <2>2 DEF Replays
    <2>3. CASE U # {}
      <3> DEFINE V == Rest(U)
      <3>1. V \in SUBSET T /\ V # T /\ V \in SUBSET U /\ V \in SUBSET V
        BY <1>6, <2>3
      <3>2. Replays(Sub(V), l, V, t) /\ IsFiniteSet(U) /\ \A x \in U : x \in Int
        BY <1>4, <1>5, <3>1, FS_Subset
      <3>3. Sub(U)[V] = Sub(V)[V]
        <4> HIDE DEF V
        <4> QED
          BY <2>1, <3>1, <3>2, ReplaysAgree
      <3>4. Sub(U)[U] = Replay(Sub(U)[V], l[Max(U)], t)
        BY <2>1, <2>3 DEF Replays
      <3> HIDE DEF V
      <3>5. Val(U) = Replay(Sub(V)[V], l[Max(U)], t)
        BY <2>3 DEF V
      <3> QED
        BY <3>3, <3>4, <3>5
    <2> QED
      BY <2>2, <2>3
  <1>8. ASSUME NEW U \in SUBSET T
        PROVE  h[U] = IF U = {} THEN Flat ELSE Replay(h[Rest(U)], l[Max(U)], t)
    <2>1. CASE U = {}
      BY <2>1
    <2>2. CASE U # {}
      <3> DEFINE V == Rest(U)
      <3>1. V \in SUBSET T /\ V # T
        BY <1>6, <2>2
      <3>2. Val(V) = Sub(V)[V]
        <4> HIDE DEF V, Val
        <4> QED
          BY <1>7, <3>1
      <3>3. h[V] = Val(V)
        <4> HIDE DEF V, Val
        <4> QED
          BY <3>1
      <3>4. h[U] = Val(U)
        <4> HIDE DEF Val
        <4> QED
          OBVIOUS
      <3>5. Val(U) = Replay(Sub(V)[V], l[Max(U)], t)
        BY <2>2
      <3> HIDE DEF V, Val, Sub, h
      <3> QED
        BY <2>2, <3>2, <3>3, <3>4, <3>5 DEF V
    <2> QED
      BY <2>1, <2>2
  <1>9. Replays(h, l, T, t)
    <2>1. h = [U \in SUBSET T |-> h[U]]
      OBVIOUS
    <2> HIDE DEF h
    <2> QED
      BY <1>8, <2>1 DEF Replays
  <1> QED
    BY <1>2, <1>9

\* So the holding is a replay of the log.
LEMMA HoldingReplays ==
    ASSUME NEW l, NEW t, IsFiniteSet(DOMAIN l), DOMAIN l \subseteq Int
    PROVE  \E g : Replays(g, l, DOMAIN l, t) /\ Holding(l, t) = g[DOMAIN l]
  <1> DEFINE g == CHOOSE g : Replays(g, l, DOMAIN l, t)
  <1>1. Replays(g, l, DOMAIN l, t)
    BY ReplaysExists
  <1>2. Holding(l, t) = g[DOMAIN l]
    BY HoldingIsFold
  <1> HIDE DEF g
  <1> QED
    BY <1>1, <1>2

\* The positions of a log are finitely many integers.
LEMMA Positions ==
    ASSUME NEW l \in Seq(Events)
    PROVE  /\ IsFiniteSet(DOMAIN l) /\ DOMAIN l \subseteq Int /\ DOMAIN l = 1..Len(l)
           /\ Len(l) \in Nat
  <1>1. DOMAIN l = 1..Len(l) /\ Len(l) \in Nat
    OBVIOUS
  <1> QED
    BY <1>1, FS_Interval

\* Nothing is held in an empty log.
LEMMA HoldingEmpty == \A t : Holding(<<>>, t) = Flat
  <1> SUFFICES ASSUME NEW t
               PROVE  Holding(<<>>, t) = Flat
    OBVIOUS
  <1>1. DOMAIN <<>> = {}
    OBVIOUS
  <1>2. IsFiniteSet(DOMAIN <<>>) /\ DOMAIN <<>> \subseteq Int
    BY <1>1, FS_EmptySet
  <1>3. PICK g : Replays(g, <<>>, DOMAIN <<>>, t) /\ Holding(<<>>, t) = g[DOMAIN <<>>]
    BY <1>2, HoldingReplays
  <1> QED
    BY <1>1, <1>3 DEF Replays

\* One more event is one more step of the replay.
LEMMA HoldingAppend ==
    ASSUME NEW l \in Seq(Events), NEW e \in Events, NEW t
    PROVE  Holding(Append(l, e), t) = Replay(Holding(l, t), e, t)
  <1> DEFINE k == Append(l, e)
             n == Len(l) + 1
             D == DOMAIN l
             E == DOMAIN k
  <1>1. /\ k \in Seq(Events) /\ E = D \cup {n} /\ n \notin D
        /\ \A i \in D : i < n /\ k[i] = l[i]
        /\ k[n] = e /\ n \in Int
    BY AppendKeeps
  <1>2. /\ IsFiniteSet(E) /\ \A x \in E : x \in Int
        /\ IsFiniteSet(D) /\ \A x \in D : x \in Int
    BY <1>1, Positions
  <1> HIDE DEF k, n, D, E
  <1>3. PICK g : Replays(g, k, E, t) /\ Holding(k, t) = g[E]
    BY <1>2, HoldingReplays DEF E
  <1>4. PICK h : Replays(h, l, D, t) /\ Holding(l, t) = h[D]
    BY <1>2, HoldingReplays DEF D
  <1>5. Max(E) \in E /\ \A x \in E : x <= Max(E)
    <2>1. E \in SUBSET E /\ E # {}
      BY <1>1
    <2> QED
      BY <1>2, <2>1, LastPosition
  <1>6. Max(E) = n
    <2>1. Max(E) \in Int /\ n <= Max(E)
      BY <1>1, <1>2, <1>5
    <2>2. Max(E) \in D => Max(E) < n
      BY <1>1
    <2>3. Max(E) \in D \/ Max(E) = n
      BY <1>1, <1>5
    <2> QED
      BY <1>1, <2>1, <2>2, <2>3
  <1>7. E \ {n} = D
    BY <1>1
  <1>8. g[D] = h[D]
    <2>1. D \in SUBSET E /\ D \in SUBSET D /\ \A i \in D : k[i] = l[i]
      BY <1>1
    <2> QED
      BY <1>2, <1>3, <1>4, <2>1, ReplaysAgree
  <1>9. g[E] = Replay(g[D], k[n], t)
    BY <1>1, <1>3, <1>6, <1>7 DEF Replays
  <1> QED
    BY <1>1, <1>3, <1>4, <1>8, <1>9 DEF k

-----------------------------------------------------------------------------
(* Shares.  The ordered, held and pending shares of a name balance, and    *)
(* every holding is a signed quantity with a proper fraction for a price.  *)

Holdings == [qty : Int, num : Nat, den : Nat \ {0}]

HoldingsTyped == \A t \in Tickers : Holding(log, t) \in Holdings

CInv == HoldingsTyped /\ OrdersConserved

\* An order or a fill moves a whole number of shares.
LEMMA SignedInt ==
    ASSUME NEW e \in OrderEvents \cup FillEvents
    PROVE  /\ Signed(e) \in Int /\ Signed(e) # 0 /\ e.qty \in Nat \ {0}
           /\ e.side \in Sides
           /\ e.side = "buy" => Signed(e) > 0
           /\ e.side = "sell" => Signed(e) < 0
  <1>1. e.qty \in Nat \ {0} /\ e.side \in Sides
    BY LedgerAssumption DEF OrderEvents, FillEvents
  <1> QED
    BY <1>1 DEF Signed, Sides

\* A fill moves the quantity by its own, and leaves a proper fraction.
LEMMA ApplyFillType ==
    ASSUME NEW h \in Holdings, NEW e \in FillEvents
    PROVE  /\ ApplyFill(h, e) \in Holdings
           /\ ApplyFill(h, e).qty = h.qty + Signed(e)
  <1> DEFINE q == Signed(e)
             new == h.qty + q
  <1>1. q \in Int /\ e.fill \in Nat /\ h.qty \in Int /\ h.num \in Nat /\ h.den \in Nat \ {0}
    BY SignedInt DEF FillEvents, Holdings
  <1>2. new \in Int
    BY <1>1
  <1>3. ApplyFill(h, e) =
            IF new # 0 /\ h.qty # 0 /\ (h.qty > 0) = (new > 0)
            THEN [qty |-> new, num |-> Abs(h.qty) * h.num + Abs(q) * e.fill * h.den,
                  den |-> Abs(new) * h.den]
            ELSE IF h.qty = 0 THEN [qty |-> new, num |-> e.fill, den |-> 1]
            ELSE [h EXCEPT !.qty = new]
    BY DEF ApplyFill
  <1>4. \A n \in Int : Abs(n) \in Nat /\ (n # 0 => Abs(n) \in Nat \ {0})
    BY DEF Abs
  <1>5. \A m, n \in Nat : m * n \in Nat /\ m + n \in Nat
    OBVIOUS
  <1>6. \A m, n \in Nat \ {0} : m * n \in Nat \ {0}
    OBVIOUS
  <1>7. [h EXCEPT !.qty = new] \in Holdings /\ [h EXCEPT !.qty = new].qty = new
    <2> HIDE DEF new
    <2> QED
      BY <1>2 DEF Holdings
  <1>8. [qty |-> new, num |-> e.fill, den |-> 1] \in Holdings
    BY <1>1, <1>2 DEF Holdings
  <1>9. new # 0 => [qty |-> new, num |-> Abs(h.qty) * h.num + Abs(q) * e.fill * h.den,
                    den |-> Abs(new) * h.den] \in Holdings
    <2>1. Abs(h.qty) * h.num + Abs(q) * e.fill * h.den \in Nat
      BY <1>1, <1>4, <1>5
    <2>2. new # 0 => Abs(new) * h.den \in Nat \ {0}
      BY <1>1, <1>2, <1>4, <1>6
    <2> HIDE DEF new, q
    <2> QED
      BY <1>2, <2>1, <2>2 DEF Holdings
  <1> HIDE DEF new
  <1>10. ApplyFill(h, e) \in Holdings
    BY <1>3, <1>7, <1>8, <1>9
  <1>11. ApplyFill(h, e).qty = new
    BY <1>3, <1>7
  <1> QED
    BY <1>10, <1>11 DEF new

\* Shares is the sum of a function on the positions of the log.
LEMMA SharesIsSum ==
    ASSUME NEW l, NEW P, IsFiniteSet(P), P \subseteq DOMAIN l
    PROVE  Shares(l, P) = SumOver([i \in DOMAIN l |-> Signed(l[i])], P)
  <1> DEFINE f == [i \in DOMAIN l |-> Signed(l[i])]
             LogAdds(g) == g = [s \in SUBSET P |-> IF s = {} THEN 0
                                   ELSE Signed(l[Pick(s)]) + g[s \ {Pick(s)}]]
             g == CHOOSE g : LogAdds(g)
  <1>1. Shares(l, P) = g[P]
    BY DEF Shares, MapThenSumSet, MapThenFoldSet, Pick
  <1>2. \A s \in SUBSET P : s # {} => f[Pick(s)] = Signed(l[Pick(s)])
    <2>1. \A s \in SUBSET P : s # {} => Pick(s) \in DOMAIN l
      BY DEF Pick
    <2> QED
      BY <2>1
  <1> HIDE DEF f
  <1>3. \A a : LogAdds(a) <=> Adds(a, f, P)
    BY <1>2 DEF Adds
  <1>4. PICK a : Adds(a, f, P) /\ SumOver(f, P) = a[P]
    BY SumAdds
  <1>5. LogAdds(g)
    BY <1>3, <1>4
  <1>6. Adds(g, f, P)
    BY <1>3, <1>5
  <1> HIDE DEF g
  <1>7. g[P] = a[P]
    BY <1>4, <1>6, AddsAgree
  <1> QED
    BY <1>1, <1>4, <1>7 DEF f

\* Appending an event leaves the shares at earlier positions alone, and its own
\* shares add to them.
LEMMA SharesAppend ==
    ASSUME NEW l \in Seq(Events), NEW e \in Events, NEW P, P \subseteq DOMAIN l,
           \A i \in P : Signed(l[i]) \in Int
    PROVE  /\ Shares(l, P) \in Int
           /\ Shares(Append(l, e), P) = Shares(l, P)
           /\ Signed(e) \in Int =>
                 Shares(Append(l, e), P \cup {Len(l) + 1}) = Signed(e) + Shares(l, P)
  <1> DEFINE k == Append(l, e)
             n == Len(l) + 1
             f == [i \in DOMAIN l |-> Signed(l[i])]
             g == [i \in DOMAIN k |-> Signed(k[i])]
  <1>1. /\ k \in Seq(Events) /\ DOMAIN k = DOMAIN l \cup {n} /\ n \notin DOMAIN l
        /\ \A i \in DOMAIN l : k[i] = l[i]
        /\ k[n] = e
    BY AppendKeeps
  <1>2. IsFiniteSet(P) /\ IsFiniteSet(P \cup {n})
    BY Positions, FS_Subset, FS_AddElement
  <1> HIDE DEF k, n
  <1>3. /\ \A i \in P : f[i] \in Int /\ f[i] = g[i]
        /\ g[n] = Signed(e)
    BY <1>1
  <1>4. /\ Shares(l, P) = SumOver(f, P)
        /\ Shares(k, P) = SumOver(g, P)
        /\ Shares(k, P \cup {n}) = SumOver(g, P \cup {n})
    BY <1>1, <1>2, SharesIsSum
  <1> HIDE DEF f, g
  <1>5. SumOver(f, P) \in Int /\ SumOver(f, P) = SumOver(g, P)
    BY <1>2, <1>3, SumInt, SumSame
  <1>6. ASSUME Signed(e) \in Int
        PROVE  SumOver(g, P \cup {n}) = g[n] + SumOver(g, P)
    <2>1. n \notin P /\ \A i \in P \cup {n} : g[i] \in Int
      BY <1>1, <1>3, <1>6
    <2> QED
      BY <1>2, <2>1, SumInsert
  <1> QED
    BY <1>3, <1>4, <1>5, <1>6 DEF k, n

\* The shares at some positions are those at one of them and at the others.
LEMMA SharesRemove ==
    ASSUME NEW l \in Seq(Events), NEW P, P \subseteq DOMAIN l,
           \A i \in P : Signed(l[i]) \in Int, NEW i \in P
    PROVE  Shares(l, P) = Signed(l[i]) + Shares(l, P \ {i})
  <1> DEFINE f == [j \in DOMAIN l |-> Signed(l[j])]
             Q == P \ {i}
  <1>1. IsFiniteSet(P) /\ IsFiniteSet(Q) /\ Q \subseteq DOMAIN l
    BY Positions, FS_Subset
  <1>2. \A j \in P : f[j] = Signed(l[j]) /\ f[j] \in Int
    OBVIOUS
  <1> HIDE DEF Q
  <1>3. Shares(l, P) = SumOver(f, P) /\ Shares(l, Q) = SumOver(f, Q)
    BY <1>1, SharesIsSum
  <1> HIDE DEF f
  <1>4. SumOver(f, P) = f[i] + SumOver(f, P \ {i})
    BY <1>1, <1>2, SumRemove
  <1> QED
    BY <1>2, <1>3, <1>4 DEF Q

\* At the positions of orders there are whole shares.
LEMMA OrdersSigned ==
    ASSUME IInv, NEW P, P \subseteq At(log, "modeled_order")
    PROVE  /\ P \subseteq DOMAIN log
           /\ \A i \in P : Signed(log[i]) \in Int
  BY EventFields, SignedInt DEF IInv, TypeOK

\* An event that is not a fill leaves the holdings alone.
LEMMA HoldingsKept ==
    ASSUME IInv, NEW e \in Events, log' = Append(log, e), e.type # "order_settled"
    PROVE  \A t \in Tickers : Holding(log', t) = Holding(log, t)
  <1>1. log \in Seq(Events)
    BY DEF IInv, TypeOK
  <1> QED
    BY <1>1, HoldingAppend DEF Replay

\* A fill takes its order off the pending ones and adds its shares to the holding.
LEMMA SettleConserves ==
    ASSUME IInv, CInv, NEW i \in todo, Settle(i)
    PROVE  CInv'
  <1> DEFINE e == Settlement(log[i])
             n == Len(log) + 1
  <1>1. /\ i \in At(log, "modeled_order") /\ log[i] \in OrderEvents
        /\ log[i].ref \notin SettledRefs(log) /\ i \in Pending(log)
        /\ log \in Seq(Events)
    BY EventFields DEF IInv, TypeOK, TodoPending, Pending
  <1>2. bars[log[i].ticker] \in Opens /\ session \in Sessions
    BY <1>1 DEF Settle, Due, IInv, TypeOK, OpenBars
  <1>3. /\ e \in Events /\ e \in FillEvents /\ e.type = "order_settled"
        /\ e.ref = log[i].ref /\ e.ticker = log[i].ticker
        /\ Signed(e) = Signed(log[i])
        /\ log' = Append(log, e)
    BY <1>1, <1>2, FillPriceType
       DEF Settle, Settlement, OrderEvents, FillEvents, Events, Signed
  <1> HIDE DEF e
  <1>4. /\ At(log', "modeled_order") = At(log, "modeled_order")
        /\ At(log', "order_settled") = At(log, "order_settled") \cup {n}
        /\ \A type : At(log, type) \subseteq DOMAIN log
        /\ \A k \in DOMAIN log : log'[k] = log[k]
        /\ log'[n] = e /\ n \notin DOMAIN log
    BY <1>3, AppendViews
  <1>5. Pending(log') = Pending(log) \ {i}
    BY <1>1, <1>3, <1>4 DEF Pending, SettledRefs, IInv, RefsUnique
  <1>6. \A t : Orders(log', t) = Orders(log, t)
    BY <1>4 DEF Orders
  <1>7. \A t \in Tickers : Holding(log', t) = Replay(Holding(log, t), e, t)
    BY <1>1, <1>3, HoldingAppend
  <1>8. ASSUME NEW t \in Tickers
        PROVE  /\ Holding(log', t) \in Holdings
               /\ Holding(log', t).qty = Holding(log, t).qty
                                        + (IF log[i].ticker = t THEN Signed(log[i]) ELSE 0)
    <2>1. Holding(log, t) \in Holdings /\ Holding(log, t).qty \in Int
      BY DEF CInv, HoldingsTyped, Holdings
    <2>2. CASE log[i].ticker = t
      BY <1>3, <1>7, <2>1, <2>2, ApplyFillType DEF Replay
    <2>3. CASE log[i].ticker # t
      BY <1>3, <1>7, <2>1, <2>3 DEF Replay
    <2> QED
      BY <2>2, <2>3
  <1>9. ASSUME NEW t \in Tickers
        PROVE  Shares(log', Orders(log', t)) =
                   Holding(log', t).qty + Shares(log', Orders(log', t) \cap Pending(log'))
    <2> DEFINE O == Orders(log, t)
               Q == O \cap Pending(log)
               R == Q \ {i}
    <2>1. /\ O \subseteq At(log, "modeled_order")
          /\ Q \subseteq At(log, "modeled_order")
          /\ R \subseteq At(log, "modeled_order")
      BY DEF Orders
    <2>2. Orders(log', t) \cap Pending(log') = R /\ Orders(log', t) = O
      BY <1>5, <1>6
    <2>3. log[i].ticker = t => i \in Q
      BY <1>1 DEF Orders
    <2>4. log[i].ticker # t => R = Q
      BY DEF Orders
    <2>5. Shares(log, O) = Holding(log, t).qty + Shares(log, Q)
      BY DEF CInv, OrdersConserved
    <2> HIDE DEF O, Q
    <2>6. /\ Shares(log', O) = Shares(log, O)
          /\ Shares(log, Q) \in Int
          /\ Q \subseteq DOMAIN log /\ \A j \in Q : Signed(log[j]) \in Int
      BY <1>1, <1>3, <2>1, OrdersSigned, SharesAppend
    <2>7. i \in Q => Shares(log, Q) = Signed(log[i]) + Shares(log, R)
      BY <1>1, <2>6, SharesRemove
    <2> HIDE DEF R
    <2>8. Shares(log', R) = Shares(log, R) /\ Shares(log, R) \in Int
      BY <1>1, <1>3, <2>1, OrdersSigned, SharesAppend
    <2>9. Holding(log, t).qty \in Int /\ Signed(log[i]) \in Int
      BY <1>1, SignedInt DEF CInv, HoldingsTyped, Holdings
    <2>10. CASE log[i].ticker = t
      <3>1. Holding(log', t).qty = Holding(log, t).qty + Signed(log[i])
        BY <1>8, <2>10
      <3>2. Shares(log, Q) = Signed(log[i]) + Shares(log, R)
        BY <2>3, <2>7, <2>10
      <3>3. Holding(log, t).qty + (Signed(log[i]) + Shares(log, R)) =
                (Holding(log, t).qty + Signed(log[i])) + Shares(log, R)
        BY <2>8, <2>9
      <3> QED
        BY <2>2, <2>5, <2>6, <2>8, <3>1, <3>2, <3>3
    <2>11. CASE log[i].ticker # t
      <3>1. Holding(log', t).qty = Holding(log, t).qty
        BY <1>8, <2>9, <2>11
      <3> QED
        BY <2>2, <2>4, <2>5, <2>6, <2>8, <2>11, <3>1
    <2> QED
      BY <2>10, <2>11
  <1> QED
    BY <1>8, <1>9 DEF CInv, HoldingsTyped, OrdersConserved

\* A gap or a mark moves no shares.
LEMMA QuietConserves ==
    ASSUME IInv, CInv, NEW e \in GapEvents \cup MarkEvents, log' = Append(log, e)
    PROVE  CInv'
  <1>1. e \in Events /\ e.type \notin {"modeled_order", "order_settled"}
    BY DEF Events, GapEvents, MarkEvents
  <1>2. /\ At(log', "modeled_order") = At(log, "modeled_order")
        /\ At(log', "order_settled") = At(log, "order_settled")
        /\ \A type : At(log, type) \subseteq DOMAIN log
        /\ \A k \in DOMAIN log : log'[k] = log[k]
    BY <1>1, AppendViews
  <1>3. Pending(log') = Pending(log) /\ \A t : Orders(log', t) = Orders(log, t)
    BY <1>2 DEF Pending, SettledRefs, Orders
  <1>4. \A t \in Tickers : Holding(log', t) = Holding(log, t)
    BY <1>1, HoldingsKept
  <1>5. \A P : P \subseteq At(log, "modeled_order") => Shares(log', P) = Shares(log, P)
    <2>1. log \in Seq(Events)
      BY DEF IInv, TypeOK
    <2> QED
      BY <1>1, <2>1, OrdersSigned, SharesAppend
  <1>6. \A t : /\ Orders(log, t) \subseteq At(log, "modeled_order")
               /\ Orders(log, t) \cap Pending(log) \subseteq At(log, "modeled_order")
    BY DEF Orders
  <1> QED
    BY <1>3, <1>4, <1>5, <1>6 DEF CInv, HoldingsTyped, OrdersConserved

\* A new order is ordered and pending: no settlement refers to it yet.
LEMMA OrderConserves ==
    ASSUME IInv, CInv, LogOrder
    PROVE  CInv'
  <1>1. PICK t \in (Tickers \ Held(log)) \ tried,
             r \in Refs, side \in Sides, q \in Qtys :
            /\ \A i \in At(log, "modeled_order") : log[i].ref # r
            /\ log' = Append(log, [type |-> "modeled_order", ref |-> r, ticker |-> t,
                                   side |-> side, qty |-> q, session |-> session])
    BY DEF LogOrder
  <1> DEFINE e == [type |-> "modeled_order", ref |-> r, ticker |-> t,
                   side |-> side, qty |-> q, session |-> session]
             n == Len(log) + 1
  <1>2. /\ e \in Events /\ e \in OrderEvents /\ e.type = "modeled_order"
        /\ e.ref = r /\ log' = Append(log, e)
    BY <1>1 DEF OrderEvents, Events, LogOrder, IInv, TypeOK
  <1> HIDE DEF e
  <1>3. /\ At(log', "modeled_order") = At(log, "modeled_order") \cup {n}
        /\ At(log', "order_settled") = At(log, "order_settled")
        /\ \A type : At(log, type) \subseteq DOMAIN log
        /\ \A k \in DOMAIN log : log'[k] = log[k]
        /\ log'[n] = e /\ n \notin DOMAIN log
    BY <1>2, AppendViews
  <1>4. r \notin SettledRefs(log) /\ SettledRefs(log') = SettledRefs(log)
    BY <1>1, <1>3 DEF SettledRefs, IInv, FillMatchesOrder
  <1>5. Pending(log') = Pending(log) \cup {n}
    BY <1>2, <1>3, <1>4 DEF Pending
  <1>6. \A u \in Tickers : Holding(log', u) = Holding(log, u)
    BY <1>2, HoldingsKept
  <1>7. ASSUME NEW u \in Tickers
        PROVE  Shares(log', Orders(log', u)) =
                   Holding(log', u).qty + Shares(log', Orders(log', u) \cap Pending(log'))
    <2> DEFINE O == Orders(log, u)
               Q == O \cap Pending(log)
    <2>1. /\ O \subseteq At(log, "modeled_order")
          /\ Q \subseteq At(log, "modeled_order")
          /\ log \in Seq(Events) /\ Signed(e) \in Int
      BY <1>2, SignedInt DEF Orders, IInv, TypeOK
    <2>2. Shares(log, O) = Holding(log, u).qty + Shares(log, Q)
      BY DEF CInv, OrdersConserved
    <2>3. e.ticker = u => /\ Orders(log', u) = O \cup {n}
                          /\ Orders(log', u) \cap Pending(log') = Q \cup {n}
      BY <1>3, <1>5 DEF Orders
    <2>4. e.ticker # u => /\ Orders(log', u) = O
                          /\ Orders(log', u) \cap Pending(log') = Q
      BY <1>3, <1>5 DEF Orders
    <2> HIDE DEF O, Q
    <2>5. /\ Shares(log', O) = Shares(log, O) /\ Shares(log, O) \in Int
          /\ Shares(log', O \cup {n}) = Signed(e) + Shares(log, O)
      BY <1>2, <2>1, OrdersSigned, SharesAppend
    <2>6. /\ Shares(log', Q) = Shares(log, Q) /\ Shares(log, Q) \in Int
          /\ Shares(log', Q \cup {n}) = Signed(e) + Shares(log, Q)
      BY <1>2, <2>1, OrdersSigned, SharesAppend
    <2>7. Holding(log, u).qty \in Int /\ Holding(log', u) = Holding(log, u)
      BY <1>6 DEF CInv, HoldingsTyped, Holdings
    <2>8. CASE e.ticker = u
      <3>1. Signed(e) + (Holding(log, u).qty + Shares(log, Q)) =
                Holding(log, u).qty + (Signed(e) + Shares(log, Q))
        BY <2>1, <2>6, <2>7
      <3> QED
        BY <2>2, <2>3, <2>5, <2>6, <2>7, <2>8, <3>1
    <2>9. CASE e.ticker # u
      BY <2>2, <2>4, <2>5, <2>6, <2>7, <2>9
    <2> QED
      BY <2>8, <2>9
  <1> QED
    BY <1>6, <1>7 DEF CInv, HoldingsTyped, OrdersConserved

\* The steps that append a gap or a mark, or nothing.
LEMMA AppendsOrKeeps ==
    ASSUME IInv, [Next]_vars
    PROVE  \/ \E i \in todo : Settle(i)
           \/ LogOrder
           \/ \E e \in GapEvents \cup MarkEvents : log' = Append(log, e)
           \/ UNCHANGED log
  <1>1. CASE \E i \in todo : Gap(i)
    <2>1. PICK i \in todo : Gap(i)
      BY <1>1
    <2>2. log[i] \in OrderEvents /\ runs \in 1..MaxRuns
      BY <2>1, EventFields DEF IInv, TypeOK, Gap, Due
    <2>3. [type |-> "settlement_gap", ref |-> log[i].ref, run |-> runs] \in GapEvents
      BY <2>2 DEF OrderEvents, GapEvents
    <2> QED
      BY <2>1, <2>3 DEF Gap
  <1>2. CASE RecordMarks
    <2>1. PICK closes \in CloseBars :
              log' = Append(log, [type |-> "mark_to_market", marks |-> closes])
      BY <1>2 DEF RecordMarks
    <2>2. [type |-> "mark_to_market", marks |-> closes] \in MarkEvents
      BY DEF MarkEvents
    <2> QED
      BY <2>1, <2>2
  <1>3. CASE NextSession \/ StartCycle \/ Finish \/ Kill \/ UNCHANGED vars
    BY <1>3 DEF NextSession, StartCycle, Finish, Kill, Reset, vars
  <1> QED
    BY <1>1, <1>2, <1>3 DEF Next

\* The empty log balances.
LEMMA InitCInv == Init => CInv
  <1> SUFFICES ASSUME Init
               PROVE  CInv
    OBVIOUS
  <1>1. log = <<>> /\ log \in Seq(Events) /\ DOMAIN log = {}
    BY DEF Init
  <1>2. \A t : Holding(log, t) = Flat
    BY <1>1, HoldingEmpty
  <1>3. \A t : Orders(log, t) = {}
    BY <1>1 DEF Orders, At
  <1>4. Shares(log, {}) = 0
    <2>1. Shares(log, {}) = SumOver([i \in DOMAIN log |-> Signed(log[i])], {})
      BY SharesIsSum, FS_EmptySet
    <2> QED
      BY <2>1, SumEmpty
  <1>5. Flat \in Holdings /\ Flat.qty = 0
    BY DEF Flat, Holdings
  <1> QED
    BY <1>2, <1>3, <1>4, <1>5 DEF CInv, HoldingsTyped, OrdersConserved

\* Every step of the ledger, a stutter included.
LEMMA StepCInv == IInv /\ CInv /\ [Next]_vars => CInv'
  <1> SUFFICES ASSUME IInv, CInv, [Next]_vars
               PROVE  CInv'
    OBVIOUS
  <1>1. CASE UNCHANGED log
    BY <1>1 DEF CInv, HoldingsTyped, OrdersConserved
  <1> QED
    BY <1>1, AppendsOrKeeps, SettleConserves, QuietConserves, OrderConserves

\* The shares ordered on a name are the shares held plus the shares pending,
\* however often a cycle is killed or an old session is run again.
THEOREM ConservesShares == Spec => []OrdersConserved
  <1>1. IInv /\ CInv /\ [Next]_vars => CInv'
    BY StepCInv
  <1>2. Init => CInv
    BY InitCInv
  <1>3. CInv => OrdersConserved
    BY DEF CInv
  <1> QED
    BY <1>1, <1>2, <1>3, LedgerInvariant, PTL DEF Spec

-----------------------------------------------------------------------------
(* The averaged entry price.  As long as the fills on a name are all on    *)
(* one side its holding lies on that side too, so that every further fill  *)
(* takes the averaging branch; the average then loses nothing.             *)

\* At price m the holding h has gained G.
Gained(h, m, G) == h.qty * (m * h.den - h.num) = h.den * G

Averaged(l, t) ==
    LET h == Holding(l, t)
        fills == Fills(l, t)
    IN  /\ h \in Holdings
        /\ fills = {} => h = Flat
        /\ fills # {} /\ (\A i \in fills : l[i].side = "buy") => h.qty > 0
        /\ fills # {} /\ (\A i \in fills : l[i].side = "sell") => h.qty < 0
        /\ OneSided(l, t) =>
              \A m \in Int : Gained(h, m, Gain(l, t, m))

AInv == \A t \in Tickers : Averaged(log, t)

\* Gain is the sum of a function on the positions of the log.
LEMMA GainIsSum ==
    ASSUME NEW l \in Seq(Events), NEW t, NEW m
    PROVE  Gain(l, t, m) =
               SumOver([i \in DOMAIN l |-> Signed(l[i]) * (m - l[i].fill)], Fills(l, t))
  <1> DEFINE P == Fills(l, t)
             f == [i \in DOMAIN l |-> Signed(l[i]) * (m - l[i].fill)]
             LogAdds(g) == g = [s \in SUBSET P |-> IF s = {} THEN 0
                                   ELSE Signed(l[Pick(s)]) * (m - l[Pick(s)].fill)
                                        + g[s \ {Pick(s)}]]
             g == CHOOSE g : LogAdds(g)
  <1>1. Gain(l, t, m) = g[P]
    BY DEF Gain, MapThenSumSet, MapThenFoldSet, Pick
  <1>2. P \subseteq DOMAIN l /\ IsFiniteSet(P)
    <2>1. P \subseteq DOMAIN l
      BY DEF Fills, At
    <2> HIDE DEF P
    <2> QED
      BY <2>1, Positions, FS_Subset
  <1> HIDE DEF P
  <1>3. \A s \in SUBSET P : s # {} =>
            f[Pick(s)] = Signed(l[Pick(s)]) * (m - l[Pick(s)].fill)
    <2>1. \A s \in SUBSET P : s # {} => Pick(s) \in DOMAIN l
      BY <1>2 DEF Pick
    <2> QED
      BY <2>1
  <1> HIDE DEF f
  <1>4. \A a : LogAdds(a) <=> Adds(a, f, P)
    BY <1>3 DEF Adds
  <1>5. PICK a : Adds(a, f, P) /\ SumOver(f, P) = a[P]
    BY <1>2, SumAdds
  <1>6. LogAdds(g)
    BY <1>4, <1>5
  <1>7. Adds(g, f, P)
    BY <1>4, <1>6
  <1> HIDE DEF g
  <1>8. g[P] = a[P]
    BY <1>2, <1>5, <1>7, AddsAgree
  <1> QED
    BY <1>1, <1>5, <1>8 DEF f, P

\* The fills on a name grow by the new event when it is one.
LEMMA FillsAppend ==
    ASSUME NEW l \in Seq(Events), NEW e \in Events, NEW t
    PROVE  /\ Fills(l, t) \subseteq DOMAIN l
           /\ \A i \in Fills(l, t) : l[i] \in FillEvents
           /\ e.type = "order_settled" /\ e.ticker = t =>
                  e \in FillEvents /\ Fills(Append(l, e), t) = Fills(l, t) \cup {Len(l) + 1}
           /\ ~ (e.type = "order_settled" /\ e.ticker = t) =>
                  Fills(Append(l, e), t) = Fills(l, t)
  <1> DEFINE k == Append(l, e)
             n == Len(l) + 1
  <1>1. /\ n \notin DOMAIN l /\ k[n] = e
        /\ \A i \in DOMAIN l : k[i] = l[i]
    BY AppendKeeps
  <1>2. At(k, "order_settled") =
            At(l, "order_settled") \cup (IF e.type = "order_settled" THEN {n} ELSE {})
    BY AtAppend
  <1>3. /\ At(l, "order_settled") \subseteq DOMAIN l
        /\ \A i \in At(l, "order_settled") : l[i] \in FillEvents
    BY EventFields
  <1>4. e.type = "order_settled" => e \in FillEvents
    BY DEF Events, OrderEvents, GapEvents, MarkEvents
  <1> HIDE DEF k, n
  <1> QED
    BY <1>1, <1>2, <1>3, <1>4 DEF Fills, k, n

\* What a new event adds to the gain on a name.
LEMMA GainAppend ==
    ASSUME NEW l \in Seq(Events), NEW e \in Events, NEW t, NEW m \in Int
    PROVE  /\ Gain(l, t, m) \in Int
           /\ e.type = "order_settled" /\ e.ticker = t =>
                  Gain(Append(l, e), t, m) = Signed(e) * (m - e.fill) + Gain(l, t, m)
           /\ ~ (e.type = "order_settled" /\ e.ticker = t) =>
                  Gain(Append(l, e), t, m) = Gain(l, t, m)
  <1> DEFINE k == Append(l, e)
             n == Len(l) + 1
             P == Fills(l, t)
             f == [i \in DOMAIN l |-> Signed(l[i]) * (m - l[i].fill)]
             g == [i \in DOMAIN k |-> Signed(k[i]) * (m - k[i].fill)]
  <1>1. /\ k \in Seq(Events) /\ DOMAIN k = DOMAIN l \cup {n} /\ n \notin DOMAIN l
        /\ \A i \in DOMAIN l : k[i] = l[i]
        /\ k[n] = e
    BY AppendKeeps
  <1>2. /\ P \subseteq DOMAIN l
        /\ \A i \in P : l[i] \in FillEvents
        /\ e.type = "order_settled" /\ e.ticker = t =>
               e \in FillEvents /\ Fills(k, t) = P \cup {n}
        /\ ~ (e.type = "order_settled" /\ e.ticker = t) => Fills(k, t) = P
    BY FillsAppend
  <1> HIDE DEF k, n, P
  <1>3. IsFiniteSet(P) /\ IsFiniteSet(P \cup {n})
    BY <1>2, Positions, FS_Subset, FS_AddElement
  <1>4. \A x \in FillEvents : Signed(x) * (m - x.fill) \in Int
    <2>1. \A x \in FillEvents : Signed(x) \in Int /\ x.fill \in Int
      BY SignedInt DEF FillEvents
    <2> QED
      BY <2>1
  <1>5. /\ \A i \in P : f[i] \in Int /\ f[i] = g[i] /\ g[i] \in Int
        /\ g[n] = Signed(e) * (m - e.fill)
    BY <1>1, <1>2, <1>4
  <1>6. /\ Gain(l, t, m) = SumOver(f, P)
        /\ Gain(k, t, m) = SumOver(g, Fills(k, t))
    BY <1>1, GainIsSum DEF P
  <1> HIDE DEF f, g
  <1>7. SumOver(f, P) \in Int /\ SumOver(f, P) = SumOver(g, P)
    BY <1>3, <1>5, SumInt, SumSame
  <1>8. ASSUME e.type = "order_settled", e.ticker = t
        PROVE  SumOver(g, P \cup {n}) = g[n] + SumOver(g, P)
    <2>1. n \notin P /\ \A i \in P \cup {n} : g[i] \in Int
      BY <1>1, <1>2, <1>4, <1>5, <1>8
    <2> QED
      BY <1>3, <2>1, SumInsert
  <1> QED
    BY <1>2, <1>5, <1>6, <1>7, <1>8 DEF k

\* A fill on the side of the holding is averaged, and the average is exact.
LEMMA SameSideFill ==
    ASSUME NEW h \in Holdings, NEW e \in FillEvents, NEW m \in Int, NEW G \in Int,
           Gained(h, m, G),
           \/ h.qty > 0 /\ Signed(e) > 0
           \/ h.qty < 0 /\ Signed(e) < 0
    PROVE  Gained(ApplyFill(h, e), m, Signed(e) * (m - e.fill) + G)
  <1> DEFINE k == ApplyFill(h, e)
             a == h.qty
             b == h.num
             d == h.den
             q == Signed(e)
             p == e.fill
  <1>1. a \in Int /\ b \in Int /\ d \in Int /\ q \in Int /\ p \in Int
    BY SignedInt DEF Holdings, FillEvents
  <1>2. k = IF a + q # 0 /\ a # 0 /\ (a > 0) = (a + q > 0)
            THEN [qty |-> a + q, num |-> Abs(a) * b + Abs(q) * p * d, den |-> Abs(a + q) * d]
            ELSE IF a = 0 THEN [qty |-> a + q, num |-> p, den |-> 1]
            ELSE [h EXCEPT !.qty = a + q]
    BY DEF ApplyFill
  <1>3. a * (m * d - b) = d * G
    BY DEF Gained
  <1>4. (a > 0 /\ q > 0) \/ (a < 0 /\ q < 0)
    OBVIOUS
  <1> HIDE DEF k, a, b, d, q, p
  <1>5. a + q # 0 /\ a # 0 /\ (a > 0) = (a + q > 0)
    BY <1>1, <1>4
  <1>6. k = [qty |-> a + q, num |-> Abs(a) * b + Abs(q) * p * d, den |-> Abs(a + q) * d]
    BY <1>2, <1>5
  <1>7. k.qty = a + q /\ k.num = Abs(a) * b + Abs(q) * p * d /\ k.den = Abs(a + q) * d
    BY <1>6
  <1> DEFINE X == q * (m - p) + G
  <1>8. /\ m * ((a + q) * d) - (a * b + q * p * d) = d * X
         /\ m * ((-(a + q)) * d) - ((-a) * b + (-q) * p * d) = -(d * X)
    BY <1>1, <1>3
  <1>9. X \in Int /\ a + q \in Int
    BY <1>1
  <1>10. /\ (a + q) * (d * X) = ((a + q) * d) * X
         /\ (a + q) * (-(d * X)) = ((-(a + q)) * d) * X
    <2> HIDE DEF X
    <2> QED
      BY <1>1, <1>9
  <1>11. CASE a > 0 /\ q > 0
    <2>1. Abs(a) = a /\ Abs(q) = q /\ Abs(a + q) = a + q
      BY <1>1, <1>11 DEF Abs
    <2>2. k.qty * (m * k.den - k.num) = k.den * X
      BY <1>7, <1>8, <1>10, <2>1, Zenon
    <2> QED
      BY <2>2 DEF Gained, k, q, p, X
  <1>12. CASE a < 0 /\ q < 0
    <2>1. Abs(a) = -a /\ Abs(q) = -q /\ Abs(a + q) = -(a + q)
      BY <1>1, <1>12 DEF Abs
    <2>2. k.qty * (m * k.den - k.num) = k.den * X
      BY <1>7, <1>8, <1>10, <2>1, Zenon
    <2> QED
      BY <2>2 DEF Gained, k, q, p, X
  <1> QED
    BY <1>4, <1>11, <1>12

\* One event more: the averaging facts are kept for every name.
LEMMA AveragedAppend ==
    ASSUME NEW l \in Seq(Events), NEW e \in Events, NEW t, Averaged(l, t)
    PROVE  Averaged(Append(l, e), t)
  <1> DEFINE k == Append(l, e)
             n == Len(l) + 1
             F == Fills(l, t)
             h == Holding(l, t)
             g == Holding(k, t)
             Filled1 == e.type = "order_settled" /\ e.ticker = t
  <1>1. /\ n \notin DOMAIN l /\ k[n] = e
        /\ \A i \in DOMAIN l : k[i] = l[i]
    BY AppendKeeps
  <1>2. /\ F \subseteq DOMAIN l
        /\ Filled1 => e \in FillEvents /\ Fills(k, t) = F \cup {n}
        /\ ~Filled1 => Fills(k, t) = F
    BY FillsAppend
  <1>3. g = Replay(h, e, t)
    BY HoldingAppend
  <1>4. \A m \in Int :
            /\ Gain(l, t, m) \in Int
            /\ Filled1 => Gain(k, t, m) = Signed(e) * (m - e.fill) + Gain(l, t, m)
            /\ ~Filled1 => Gain(k, t, m) = Gain(l, t, m)
    BY GainAppend
  <1>5. /\ h \in Holdings
        /\ F = {} => h = Flat
        /\ F # {} /\ (\A i \in F : l[i].side = "buy") => h.qty > 0
        /\ F # {} /\ (\A i \in F : l[i].side = "sell") => h.qty < 0
        /\ OneSided(l, t) =>
              \A m \in Int : Gained(h, m, Gain(l, t, m))
    BY DEF Averaged
  <1>6. OneSided(l, t) <=> \E side \in Sides : \A i \in F : l[i].side = side
    BY DEF OneSided
  <1>7. OneSided(k, t) <=> \E side \in Sides : \A i \in Fills(k, t) : k[i].side = side
    BY DEF OneSided
  <1>8. SUFFICES
            /\ g \in Holdings
            /\ Fills(k, t) = {} => g = Flat
            /\ Fills(k, t) # {} /\ (\A i \in Fills(k, t) : k[i].side = "buy") => g.qty > 0
            /\ Fills(k, t) # {} /\ (\A i \in Fills(k, t) : k[i].side = "sell") => g.qty < 0
            /\ OneSided(k, t) =>
                  \A m \in Int : Gained(g, m, Gain(k, t, m))
    BY DEF Averaged
  <1> HIDE DEF k, n, F, h, g
  <1>9. CASE ~Filled1
    <2>1. g = h
      BY <1>3, <1>9 DEF Replay
    <2>2. Fills(k, t) = F /\ \A i \in F : k[i] = l[i]
      BY <1>1, <1>2, <1>9
    <2>3. OneSided(k, t) <=> OneSided(l, t)
      BY <1>6, <1>7, <2>2
    <2> QED
      BY <1>4, <1>5, <1>9, <2>1, <2>2, <2>3
  <1>10. CASE Filled1
    <2>1. g = ApplyFill(h, e)
      BY <1>3, <1>10 DEF Replay
    <2>2. e \in FillEvents /\ Fills(k, t) = F \cup {n} /\ k[n] = e
      BY <1>1, <1>2, <1>10
    <2>3. \A i \in F : i \in Fills(k, t) /\ k[i] = l[i]
      BY <1>1, <1>2, <2>2
    <2>4. /\ Signed(e) \in Int /\ Signed(e) # 0 /\ e.side \in Sides
          /\ e.side = "buy" => Signed(e) > 0
          /\ e.side = "sell" => Signed(e) < 0
          /\ e.fill \in Nat
      BY <2>2, SignedInt DEF FillEvents
    <2>5. g \in Holdings /\ g.qty = h.qty + Signed(e)
      BY <1>5, <2>1, <2>2, ApplyFillType
    <2>6. n \in Fills(k, t)
      BY <2>2
    <2>7. h.qty \in Int /\ (F = {} => h.qty = 0)
      BY <1>5 DEF Holdings, Flat
    <2>8. ASSUME \A i \in Fills(k, t) : k[i].side = "buy"
          PROVE  g.qty > 0 /\ Signed(e) > 0 /\ (F # {} => h.qty > 0)
      <3>1. Signed(e) > 0
        BY <2>2, <2>4, <2>6, <2>8
      <3>2. F # {} => h.qty > 0
        BY <1>5, <2>3, <2>8
      <3> QED
        BY <2>4, <2>5, <2>7, <3>1, <3>2
    <2>9. ASSUME \A i \in Fills(k, t) : k[i].side = "sell"
          PROVE  g.qty < 0 /\ Signed(e) < 0 /\ (F # {} => h.qty < 0)
      <3>1. Signed(e) < 0
        BY <2>2, <2>4, <2>6, <2>9
      <3>2. F # {} => h.qty < 0
        BY <1>5, <2>3, <2>9
      <3> QED
        BY <2>4, <2>5, <2>7, <3>1, <3>2
    <2>10. ASSUME OneSided(k, t), NEW m \in Int
           PROVE  Gained(g, m, Gain(k, t, m))
      <3>1. \/ \A i \in Fills(k, t) : k[i].side = "buy"
            \/ \A i \in Fills(k, t) : k[i].side = "sell"
        BY <1>7, <2>10 DEF Sides
      <3>2. OneSided(l, t)
        BY <1>6, <1>7, <2>3, <2>10
      <3>3. Gained(h, m, Gain(l, t, m))
        BY <1>5, <3>2
      <3>4. /\ Gain(l, t, m) \in Int
            /\ Gain(k, t, m) = Signed(e) * (m - e.fill) + Gain(l, t, m)
        BY <1>4, <1>10
      <3>5. CASE F # {}
        <4>1. (h.qty > 0 /\ Signed(e) > 0) \/ (h.qty < 0 /\ Signed(e) < 0)
          BY <2>8, <2>9, <3>1, <3>5
        <4> QED
          BY <1>5, <2>1, <2>2, <3>3, <3>4, <4>1, SameSideFill
      <3>6. CASE F = {}
        <4>1. h = [qty |-> 0, num |-> 0, den |-> 1]
          BY <1>5, <3>6 DEF Flat
        <4>2. g.qty = Signed(e) /\ g.num = e.fill /\ g.den = 1
          BY <2>1, <2>4, <4>1 DEF ApplyFill
        <4>3. Gain(l, t, m) = 0
          BY <3>3, <3>4, <4>1 DEF Gained
        <4> QED
          BY <2>4, <3>4, <4>2, <4>3 DEF Gained
      <3> QED
        BY <3>5, <3>6
    <2> QED
      BY <2>5, <2>6, <2>8, <2>9, <2>10
  <1> QED
    BY <1>9, <1>10

\* No fills at all.
LEMMA AveragedEmpty == \A t : Averaged(<<>>, t)
  <1> SUFFICES ASSUME NEW t
               PROVE  Averaged(<<>>, t)
    OBVIOUS
  <1>1. Holding(<<>>, t) = Flat /\ Flat \in Holdings
    BY HoldingEmpty DEF Flat, Holdings
  <1>2. Fills(<<>>, t) = {} /\ <<>> \in Seq(Events)
    BY DEF Fills, At
  <1>3. \A m : Gain(<<>>, t, m) = 0
    BY <1>2, GainIsSum, SumEmpty
  <1> QED
    BY <1>1, <1>2, <1>3 DEF Averaged, Gained, Flat

\* Every step of the ledger, a stutter included: the log grows by one event or
\* by none.
LEMMA StepAInv == IInv /\ AInv /\ [Next]_vars => AInv'
  <1> SUFFICES ASSUME IInv, AInv, [Next]_vars
               PROVE  AInv'
    OBVIOUS
  <1>1. log \in Seq(Events)
    BY DEF IInv, TypeOK
  <1>2. (\E e \in Events : log' = Append(log, e)) \/ UNCHANGED log
    <2>1. CASE \E i \in todo : Settle(i)
      <3>1. PICK i \in todo : Settle(i)
        BY <2>1
      <3>2. log[i] \in OrderEvents /\ bars[log[i].ticker] \in Opens /\ session \in Sessions
        BY <3>1, EventFields DEF IInv, TypeOK, Settle, Due, OpenBars
      <3>3. Settlement(log[i]) \in Events
        BY <3>2, FillPriceType DEF Settlement, OrderEvents, FillEvents, Events
      <3> QED
        BY <3>1, <3>3 DEF Settle
    <2>2. CASE LogOrder
      <3>1. PICK t \in (Tickers \ Held(log)) \ tried,
                 r \in Refs, side \in Sides, q \in Qtys :
                log' = Append(log, [type |-> "modeled_order", ref |-> r, ticker |-> t,
                                    side |-> side, qty |-> q, session |-> session])
        BY <2>2 DEF LogOrder
      <3>2. [type |-> "modeled_order", ref |-> r, ticker |-> t,
             side |-> side, qty |-> q, session |-> session] \in Events
        BY <2>2, <3>1 DEF OrderEvents, Events, LogOrder, IInv, TypeOK
      <3> QED
        BY <3>1, <3>2
    <2>3. CASE \E e \in GapEvents \cup MarkEvents : log' = Append(log, e)
      BY <2>3 DEF Events
    <2> QED
      BY <2>1, <2>2, <2>3, AppendsOrKeeps
  <1>3. CASE \E e \in Events : log' = Append(log, e)
    BY <1>1, <1>3, AveragedAppend DEF AInv
  <1>4. CASE UNCHANGED log
    BY <1>4 DEF AInv
  <1> QED
    BY <1>2, <1>3, <1>4

\* On a name whose fills are all on one side the book's unrealized gain is, at
\* any mark, the sum of the gains of its fills.
THEOREM AverageIsExact == Spec => []UnrealizedIsSumOfFills
  <1>1. Init => AInv
    BY AveragedEmpty DEF Init, AInv
  <1>2. IInv /\ AInv /\ [Next]_vars => AInv'
    BY StepAInv
  <1>3. AInv => UnrealizedIsSumOfFills
    <2> SUFFICES ASSUME AInv, NEW t \in Tickers, OneSided(log, t),
                        NEW m \in Opens \cup Closes
                 PROVE  LET h == Holding(log, t)
                        IN  h.qty * (m * Scale * h.den - h.num) = h.den * Gain(log, t, m * Scale)
      BY DEF UnrealizedIsSumOfFills
    <2>1. m * Scale \in Int
      BY LedgerAssumption
    <2>2. Averaged(log, t)
      BY DEF AInv
    <2> QED
      BY <2>1, <2>2 DEF Averaged, Gained
  <1> QED
    BY <1>1, <1>2, <1>3, LedgerInvariant, PTL DEF Spec

-----------------------------------------------------------------------------
(* The refinement.  Placed and Filled are what the log shows of an order's *)
(* life.                                                                   *)

Placed(l) == {l[i].ref : i \in At(l, "modeled_order")}

Filled(l) == {[at |-> i, ref |-> l[i].ref, price |-> l[i].fill] :
                 i \in At(l, "order_settled")}

\* A settlement is the one fill of a placed order.
LEMMA SettleFills ==
    ASSUME IInv, NEW i \in todo, Settle(i)
    PROVE  Life!Fill
  <1> DEFINE e == Settlement(log[i])
             n == Len(log) + 1
             f == [at |-> n, ref |-> e.ref, price |-> e.fill]
  <1>1. /\ i \in At(log, "modeled_order") /\ log[i] \in OrderEvents
        /\ log[i].ref \notin SettledRefs(log)
    BY EventFields DEF IInv, TypeOK, TodoPending, Pending
  <1>2. bars[log[i].ticker] \in Opens /\ session \in Sessions
    BY DEF Settle, Due, IInv, TypeOK, OpenBars
  <1>3. e \in Events /\ e.type = "order_settled" /\ e.ref = log[i].ref
    BY <1>1, <1>2, FillPriceType DEF Settlement, OrderEvents, FillEvents, Events
  <1>4. log' = Append(log, e)
    BY DEF Settle
  <1>5. /\ At(log', "modeled_order") = At(log, "modeled_order")
        /\ At(log', "order_settled") = At(log, "order_settled") \cup {n}
        /\ n \notin DOMAIN log
        /\ \A type : At(log, type) \subseteq DOMAIN log
        /\ \A k \in DOMAIN log : log'[k] = log[k]
        /\ log'[n] = e
    BY <1>3, <1>4, AppendViews
  <1>6. Placed(log') = Placed(log)
    BY <1>5 DEF Placed
  <1>7. Filled(log') = Filled(log) \cup {f}
    BY <1>5 DEF Filled
  <1>8. f \notin Filled(log)
    BY <1>5 DEF Filled
  <1>9. f.ref \in Placed(log)
    BY <1>1, <1>3 DEF Placed
  <1>10. \A g \in Filled(log) : g.ref # f.ref
    BY <1>1, <1>3 DEF Filled, SettledRefs
  <1> HIDE DEF f
  <1> QED
    BY <1>6, <1>7, <1>8, <1>9, <1>10 DEF Life!Fill, Placed, Filled

\* An approved order is a trade id that was not placed before.
LEMMA OrderPlaces ==
    ASSUME IInv, LogOrder
    PROVE  Life!Place
  <1>1. PICK t \in (Tickers \ Held(log)) \ tried,
             r \in Refs, side \in Sides, q \in Qtys :
            /\ \A i \in At(log, "modeled_order") : log[i].ref # r
            /\ log' = Append(log, [type |-> "modeled_order", ref |-> r, ticker |-> t,
                                   side |-> side, qty |-> q, session |-> session])
    BY DEF LogOrder
  <1> DEFINE e == [type |-> "modeled_order", ref |-> r, ticker |-> t,
                   side |-> side, qty |-> q, session |-> session]
             n == Len(log) + 1
  <1>2. e \in Events
    BY <1>1 DEF OrderEvents, Events, LogOrder, IInv, TypeOK
  <1>3. /\ At(log', "modeled_order") = At(log, "modeled_order") \cup {n}
        /\ At(log', "order_settled") = At(log, "order_settled")
        /\ \A type : At(log, type) \subseteq DOMAIN log
        /\ \A k \in DOMAIN log : log'[k] = log[k]
        /\ log'[n] = e
    BY <1>1, <1>2, AppendViews
  <1>4. Placed(log') = Placed(log) \cup {r}
    BY <1>3 DEF Placed
  <1>5. r \notin Placed(log)
    BY <1>1 DEF Placed
  <1>6. Filled(log') = Filled(log)
    BY <1>3 DEF Filled
  <1> QED
    BY <1>4, <1>5, <1>6 DEF Life!Place, Placed, Filled

\* Gaps, marks and the steps that leave the log alone change no order's life.
LEMMA QuietStutters ==
    ASSUME IInv, NEW e \in GapEvents \cup MarkEvents,
           log' = Append(log, e) \/ UNCHANGED log
    PROVE  UNCHANGED <<Placed(log), Filled(log)>>
  <1>1. e \in Events /\ e.type \notin {"modeled_order", "order_settled"}
    BY DEF Events, GapEvents, MarkEvents
  <1>2. /\ At(log', "modeled_order") = At(log, "modeled_order")
        /\ At(log', "order_settled") = At(log, "order_settled")
        /\ \A type : At(log, type) \subseteq DOMAIN log
        /\ \A k \in DOMAIN log : log'[k] = log[k]
    <2>1. CASE log' = Append(log, e)
      BY <1>1, <2>1, AppendViews
    <2>2. CASE UNCHANGED log
      BY <2>2 DEF At
    <2> QED
      BY <2>1, <2>2
  <1> QED
    BY <1>2 DEF Placed, Filled

\* Every step of the ledger is a step of an order's life or a stutter.
LEMMA StepRefines == IInv /\ [Next]_vars => [Life!Next]_(Life!life)
  <1> SUFFICES ASSUME IInv, [Next]_vars
               PROVE  Life!Next \/ UNCHANGED <<Placed(log), Filled(log)>>
    BY DEF Life!life, Placed, Filled
  <1>1. CASE \E i \in todo : Settle(i)
    BY <1>1, SettleFills DEF Life!Next
  <1>2. CASE \E i \in todo : Gap(i)
    <2>1. PICK i \in todo : Gap(i)
      BY <1>2
    <2>2. log[i] \in OrderEvents /\ runs \in 1..MaxRuns
      BY <2>1, EventFields DEF IInv, TypeOK, Gap, Due
    <2>3. [type |-> "settlement_gap", ref |-> log[i].ref, run |-> runs] \in GapEvents
      BY <2>2 DEF OrderEvents, GapEvents
    <2> QED
      BY <2>1, <2>3, QuietStutters DEF Gap
  <1>3. CASE RecordMarks
    <2>1. PICK closes \in CloseBars :
              log' = Append(log, [type |-> "mark_to_market", marks |-> closes])
      BY <1>3 DEF RecordMarks
    <2>2. [type |-> "mark_to_market", marks |-> closes] \in MarkEvents
      BY DEF MarkEvents
    <2> QED
      BY <2>1, <2>2, QuietStutters
  <1>4. CASE LogOrder
    BY <1>4, OrderPlaces DEF Life!Next
  <1>5. CASE NextSession \/ StartCycle \/ Finish \/ Kill \/ UNCHANGED vars
    <2>1. UNCHANGED log
      BY <1>5 DEF NextSession, StartCycle, Finish, Kill, Reset, vars
    <2> QED
      BY <2>1 DEF Placed, Filled, At
  <1> QED
    BY <1>1, <1>2, <1>3, <1>4, <1>5 DEF Next

\* The ledger implements the life of an order.
THEOREM LedgerImplementsLife == Spec => LifeSpec
  <1>1. Init => Life!Init
    BY DEF Init, Life!Init, At
  <1>2. IInv /\ [Next]_vars => [Life!Next]_(Life!life)
    BY StepRefines
  <1> QED
    BY <1>1, <1>2, LedgerInvariant, PTL DEF Spec, LifeSpec, Life!Spec

=============================================================================
