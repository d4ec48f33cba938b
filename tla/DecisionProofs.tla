--------------------------- MODULE DecisionProofs ---------------------------
(***************************************************************************)
(* For every manifest, every reply a model may give and every book: the    *)
(* candidate's decision is type correct, an order stands at the end of a   *)
(* whole chain, is no larger than each doubt allows, and goes against the  *)
(* ballot only on record.                                                  *)
(*                                                                         *)
(* None of these says anything of the steps before the order, so the       *)
(* inductive invariant carries, from each step on, what that step has      *)
(* checked: the manifest, the memos, the debate, the judge, the ballots,   *)
(* the proposal and the entries of the log.                                *)
(***************************************************************************)
EXTENDS Decision, SumTheorems

\* The steps from which on the debate, the judge, the ballot, the proposal stand.
Debated   == {"judge", "votes", "pm", "override", "gate", "quote"}
Ruled     == {"votes", "pm", "override", "gate", "quote"}
Balloted  == {"pm", "override", "gate", "quote"}
Proposed  == {"override", "gate", "quote"}
Unvoted   == {"idle", "FUND-TECH", "TECH-01", "debate", "judge"}

Directions == {"long", "short"}

Plain == [kind : {"cycle_failed", "no_trade", "proposal_written", "pm_override"}, of : Nat]
Orders == [kind : {"modeled_order"}, of : Nat, dir : Directions, size : Nat, qty : Nat]

LogTyped == log \in Seq(Plain \cup Orders)

\* A candidate is under way only after preflight, and one at a time.
Running == pc # "idle" => Preflight /\ decided < Candidates

\* There is no turn without a memo, and none is missing once the debate is over.
DebateWhole ==
    /\ turns > 0 => memos # {}
    /\ pc \in Debated => turns = 2 * Rounds /\ DebateStands

JudgeNamed ==
    pc \in Ruled =>
        judge # 0 /\ judge = JudgeFamilyFor(roster.bull, roster.bear, roster.available)

Ballot == [stance : {"long", "short", "no_position"}, conviction : Nat]

\* The ballots are cast in the order of the voters.
BallotsInOrder ==
    /\ pc \in Unvoted => DOMAIN ballots = {}
    /\ pc = "votes" => DOMAIN ballots \in {{}, {"FUND-TECH"}, {"FUND-TECH", "BULL-01"}}
    /\ pc \in Balloted => DOMAIN ballots = Range(Voters)
    /\ \A v \in DOMAIN ballots : ballots[v] \in Ballot

\* What run_pm has checked of the proposal still holds of it.
ProposalKept ==
    pc \in Proposed =>
        /\ proposal.dir \in Directions
        /\ proposal.dir # Winner(ballots) => proposal.rebuttal
        /\ proposal.conviction \in Convictions
        /\ proposal.size = SizePosition(proposal.conviction, Contested(ballots), crux)
        /\ proposal.edge \in Edges /\ proposal.adv \in Advs
        /\ EdgeCovers(proposal.edge, proposal.size, proposal.adv)

Written    == [kind |-> "proposal_written", of |-> decided]
Overridden == [kind |-> "pm_override", of |-> decided]

\* The proposal, its override and the order follow each other on the log.
OnRecord ==
    /\ pc = "override" => Len(log) >= 1 /\ log[Len(log)] = Written
    /\ pc = "gate" /\ proposal.dir # Winner(ballots) =>
          Len(log) >= 2 /\ log[Len(log) - 1] = Written /\ log[Len(log)] = Overridden
    /\ pc = "quote" /\ proposal.dir # Winner(ballots) =>
          Len(log) >= 3 /\ log[Len(log) - 2] = Written /\ log[Len(log) - 1] = Overridden

\* A candidate's order is its last entry, and is there only before the quote.
OneOrder ==
    \A k \in DOMAIN log : log[k].kind = "modeled_order" /\ log[k].of = decided
        => pc = "quote" /\ k = Len(log)

OrderKept ==
    pc = "quote" =>
        /\ Len(log) >= 1
        /\ log[Len(log)].dir = proposal.dir
        /\ log[Len(log)].size \in Nat /\ log[Len(log)].size >= 1
        /\ log[Len(log)].size <= proposal.size
        /\ log[Len(log)].qty >= 1

IInv ==
    /\ TypeOK
    /\ LogTyped
    /\ Running
    /\ DebateWhole
    /\ JudgeNamed
    /\ BallotsInOrder
    /\ ProposalKept
    /\ OnRecord
    /\ OneOrder
    /\ OrderKept

-----------------------------------------------------------------------------
(* The operators of the model.                                             *)

\* The researchers and the voters, by name.
LEMMA Names ==
    /\ Range(Researchers) = {"FUND-TECH", "TECH-01"} /\ Researchers[1] = "FUND-TECH"
    /\ Range(Voters) = {"FUND-TECH", "BULL-01", "BEAR-01"} /\ Len(Voters) = 3
    /\ Voters[1] = "FUND-TECH" /\ Voters[2] = "BULL-01" /\ Voters[3] = "BEAR-01"
  <1>1. /\ DOMAIN Researchers = {1, 2} /\ Researchers[1] = "FUND-TECH"
        /\ Researchers[2] = "TECH-01"
    BY DEF Researchers
  <1>2. /\ DOMAIN Voters = {1, 2, 3} /\ Len(Voters) = 3
        /\ Voters[1] = "FUND-TECH" /\ Voters[2] = "BULL-01" /\ Voters[3] = "BEAR-01"
    BY DEF Voters
  <1> HIDE DEF Researchers, Voters
  <1> QED
    BY <1>1, <1>2 DEF Range

\* The closing statements a number of turns goes with.
LEMMA ClosingsAt ==
    ASSUME NEW n \in Nat
    PROVE  Max({0, n - 2 * (Rounds - 1)}) =
               IF n > 2 * (Rounds - 1) THEN n - 2 * (Rounds - 1) ELSE 0
  <1>1. n - 2 * (Rounds - 1) \in Int
    BY DecisionAssumption
  <1>2. Max({0, n - 2 * (Rounds - 1)}) =
            IF 0 >= n - 2 * (Rounds - 1) THEN 0 ELSE n - 2 * (Rounds - 1)
    BY <1>1, MaxOfTwo
  <1> QED
    BY <1>1, <1>2, DecisionAssumption

\* A judge that is named is of neither debater's family: with two families to
\* debate there is always one of the two that may not judge.
LEMMA JudgeIsDisjoint ==
    ASSUME NEW r \in Rosters, r.bull # r.bear,
           JudgeFamilyFor(r.bull, r.bear, r.available) # 0
    PROVE  /\ JudgeFamilyFor(r.bull, r.bear, r.available) \in JudgeSeats
           /\ JudgeFamilyFor(r.bull, r.bear, r.available) \notin {r.bull, r.bear}
  <1> DEFINE disjoint == r.available \ {r.bull, r.bear}
             pool == IF disjoint = {} THEN {r.bull, r.bear} ELSE disjoint
             family == Min(pool)
  <1>1. /\ r.bull \in r.available /\ r.bear \in r.available
        /\ r.available \subseteq Int /\ IsFiniteSet(r.available)
    BY DecisionAssumption
  <1>2. pool \subseteq r.available /\ pool # {} /\ IsFiniteSet(pool) /\ pool \subseteq Int
    <2>1. pool \subseteq r.available /\ pool # {}
      BY <1>1
    <2> HIDE DEF pool
    <2> QED
      BY <1>1, <2>1, FS_Subset
  <1>3. family \in pool
    <2> HIDE DEF pool
    <2> QED
      BY <1>2, MinIsMin
  <1>4. JudgeFamilyFor(r.bull, r.bear, r.available) =
            IF family \in JudgeSeats /\ \A f \in {r.bull, r.bear} : MayJudge(family, f, r.available)
            THEN family ELSE 0
    BY DEF JudgeFamilyFor
  <1>5. /\ JudgeFamilyFor(r.bull, r.bear, r.available) = family /\ family \in JudgeSeats
        /\ \A f \in {r.bull, r.bear} : MayJudge(family, f, r.available)
    <2> HIDE DEF family
    <2> QED
      BY <1>4
  <1>6. family \notin {r.bull, r.bear}
    <2>1. CASE disjoint = {}
      <3>1. family \in {r.bull, r.bear}
        BY <1>3, <2>1
      <3> HIDE DEF family
      <3>2. MayJudge(family, family, r.available)
        BY <1>5, <3>1
      <3>3. r.available \subseteq {family}
        BY <3>2 DEF MayJudge
      <3> QED
        BY <1>1, <3>3
    <2>2. CASE disjoint # {}
      <3>1. pool = disjoint
        BY <2>2
      <3> QED
        BY <1>3, <3>1
    <2> QED
      BY <2>1, <2>2
  <1> QED
    BY <1>5, <1>6

-----------------------------------------------------------------------------
(* Sizes.                                                                  *)

\* Half of a natural number, and seven tenths of one.
LEMMA Cuts ==
    ASSUME NEW n \in Nat
    PROVE  /\ n \div 2 \in Nat /\ 2 * (n \div 2) <= n /\ n \div 2 <= n
           /\ (n * 7) \div 10 \in Nat /\ 10 * ((n * 7) \div 10) <= n * 7 /\ (n * 7) \div 10 <= n
  OBVIOUS

\* What the gate may be told of a name and the book.
Contexts == [breaker : BreakerStates, exitOnly : BOOLEAN, adv : Nat, price : Nat,
             same : Int, sector : Int, gross : Int, net : Int, participation : Int]

\* The gate never adds to a proposal, and approves only what is admissible.
LEMMA EvaluateShrinks ==
    ASSUME NEW dir, NEW size \in Nat, NEW c \in Contexts, Evaluate(dir, size, c).approved
    PROVE  /\ Evaluate(dir, size, c).size \in Nat
           /\ Evaluate(dir, size, c).size <= size
           /\ Admissible(size, c)
  <1> DEFINE working == IF c.breaker = "derisk" THEN size \div 2 ELSE size
             S == Allowances(dir, c) \cup {working}
             final == Max({0, Min(S)})
  <1>1. Evaluate(dir, size, c) =
            IF ~Admissible(size, c) \/ 10 * final < 8 * working THEN Reject
            ELSE [approved |-> TRUE, clamped |-> final < size, size |-> final]
    BY DEF Evaluate
  <1>2. working \in Nat /\ working <= size
    BY Cuts
  <1> HIDE DEF working
  <1>3. S \subseteq Int /\ IsFiniteSet(S) /\ S # {}
    <2>1. /\ MaxPosition \in Int /\ MaxNewPosition \in Int /\ MaxSector \in Int
          /\ MaxGross \in Int /\ NetBand \in Int
      BY DEF MaxPosition, MaxNewPosition, MaxSector, MaxGross, NetBand, Percent
    <2>2. /\ c.same \in Int /\ c.sector \in Int /\ c.gross \in Int /\ c.net \in Int
          /\ c.participation \in Int
      BY DEF Contexts
    <2>3. PICK a, b \in Int :
              Allowances(dir, c) = {MaxPosition - c.same, a, MaxSector - c.sector,
                                    MaxGross - c.gross, b, c.participation}
      <3>1. /\ (IF c.same = 0 THEN MaxNewPosition ELSE MaxPosition - c.same) \in Int
            /\ (IF dir = "long" THEN NetBand - c.net ELSE NetBand + c.net) \in Int
        BY <2>1, <2>2
      <3> QED
        BY <3>1 DEF Allowances
    <2>4. Allowances(dir, c) \subseteq Int
      BY <2>1, <2>2, <2>3
    <2>5. IsFiniteSet(Allowances(dir, c))
      <3>1. IsFiniteSet({MaxPosition - c.same} \cup {a} \cup {MaxSector - c.sector}
                        \cup {MaxGross - c.gross} \cup {b} \cup {c.participation})
        BY FS_Singleton, FS_Union
      <3>2. Allowances(dir, c) =
                {MaxPosition - c.same} \cup {a} \cup {MaxSector - c.sector}
                \cup {MaxGross - c.gross} \cup {b} \cup {c.participation}
        BY <2>3
      <3> QED
        BY <3>1, <3>2
    <2> QED
      BY <1>2, <2>4, <2>5, FS_AddElement
  <1>4. Min(S) \in Int /\ Min(S) <= working
    <2>1. working \in S
      OBVIOUS
    <2> HIDE DEF S
    <2> QED
      BY <1>3, <2>1, MinIsMin
  <1>5. final \in Nat /\ final <= working
    <2> HIDE DEF S
    <2>1. final = IF 0 >= Min(S) THEN 0 ELSE Min(S)
      BY <1>4, MaxOfTwo
    <2> HIDE DEF final
    <2> QED
      BY <1>2, <1>4, <2>1
  <1> HIDE DEF final
  <1>6. Admissible(size, c) /\ Evaluate(dir, size, c).size = final
    BY <1>1 DEF Reject
  <1> QED
    BY <1>2, <1>5, <1>6

\* size_position: at most the size of the conviction; at most half of it and half a
\* percent when contested; with an unresolved crux at most 0.7 of what it would be.
LEMMA SizeLimits ==
    ASSUME NEW c \in Nat, NEW contested \in BOOLEAN, NEW unresolved \in BOOLEAN
    PROVE  LET size == SizePosition(c, contested, unresolved)
           IN  /\ size \in Nat
               /\ ConvictionSize(c) \in Nat
               /\ size <= ConvictionSize(c)
               /\ contested => size <= 5000 /\ 2 * size <= ConvictionSize(c)
               /\ unresolved => 10 * size <= 7 * ConvictionSize(c)
               /\ contested /\ unresolved => 20 * size <= 7 * ConvictionSize(c)
  <1> DEFINE full == ConvictionSize(c)
             halved == IF contested THEN full \div 2 ELSE full
             cut == IF unresolved THEN (halved * 7) \div 10 ELSE halved
             caps == {cut, MaxNewPosition} \cup (IF contested THEN {ContestedCap} ELSE {})
             size == SizePosition(c, contested, unresolved)
  <1>1. full \in Nat
    <2>1. Min({10, c}) \in Nat /\ Min({10, c}) <= 10
      <3>1. Min({10, c}) = IF 10 <= c THEN 10 ELSE c
        BY MaxOfTwo
      <3> QED
        BY <3>1
    <2> HIDE DEF full
    <2>2. full = (10000 * (5 + Min({10, c}))) \div 10
      BY DEF full, ConvictionSize, BaseSize, Percent
    <2>3. \A n \in Nat : (10000 * (5 + n)) \div 10 \in Nat
      OBVIOUS
    <2> QED
      BY <2>1, <2>2, <2>3
  <1> HIDE DEF full
  <1>2. /\ halved \in Nat /\ halved <= full
        /\ contested => 2 * halved <= full
    BY <1>1, Cuts
  <1> HIDE DEF halved
  <1>3. /\ cut \in Nat /\ cut <= halved
        /\ unresolved => 10 * cut <= 7 * halved
    BY <1>2, Cuts
  <1> HIDE DEF cut
  <1>4. MaxNewPosition = 25000 /\ ContestedCap = 5000
    BY DEF MaxNewPosition, ContestedCap, Percent
  <1>5. caps \subseteq Nat /\ cut \in caps /\ IsFiniteSet(caps)
    <2>1. caps \subseteq Nat /\ cut \in caps
      BY <1>3, <1>4
    <2>2. caps = IF contested THEN {cut} \cup {MaxNewPosition} \cup {ContestedCap}
                 ELSE {cut} \cup {MaxNewPosition}
      OBVIOUS
    <2> HIDE DEF caps
    <2>3. \A x, y, z : IsFiniteSet({x} \cup {y}) /\ IsFiniteSet({x} \cup {y} \cup {z})
      BY FS_Singleton, FS_Union
    <2> QED
      BY <2>1, <2>2, <2>3
  <1>6. contested => ContestedCap \in caps
    OBVIOUS
  <1>7. size = Min(caps)
    BY DEF SizePosition, full, halved, cut
  <1> HIDE DEF size, caps
  <1>8. caps \subseteq Int /\ caps # {}
    BY <1>5
  <1>9. size \in caps /\ \A x \in caps : size <= x
    BY <1>5, <1>7, <1>8, MinIsMin
  <1>10. size \in Nat /\ size <= cut /\ (contested => size <= 5000)
    BY <1>4, <1>5, <1>6, <1>9
  <1>11. size <= full /\ (contested => 2 * size <= full)
    BY <1>1, <1>2, <1>3, <1>10
  <1>12. unresolved => 10 * size <= 7 * full
    BY <1>1, <1>2, <1>3, <1>10
  <1>13. contested /\ unresolved => 20 * size <= 7 * full
    BY <1>1, <1>2, <1>3, <1>10
  <1> QED
    BY <1>1, <1>10, <1>11, <1>12, <1>13 DEF size, full

-----------------------------------------------------------------------------
(* The steps.                                                              *)

\* An entry for the present candidate is appended: the earlier ones stay.
LEMMA LogGrows ==
    ASSUME IInv, NEW e \in Plain \cup Orders, e.of = decided, log' = Append(log, e)
    PROVE  /\ LogTyped'
           /\ Len(log) \in Nat /\ Len(log') = Len(log) + 1 /\ log'[Len(log) + 1] = e
           /\ \A k \in DOMAIN log : k \in 1..Len(log) /\ log'[k] = log[k]
           /\ \A k \in 1..Len(log) : k \in DOMAIN log
           /\ \A k \in DOMAIN log' : k \in DOMAIN log \/ k = Len(log) + 1
           /\ \A k \in DOMAIN log' : log'[k].of \in 0..decided
  <1>1. log \in Seq(Plain \cup Orders) /\ \A k \in DOMAIN log : log[k].of \in 0..decided
    BY DEF IInv, TypeOK, LogTyped
  <1>2. decided \in 0..decided
    BY DEF IInv, TypeOK
  <1>3. /\ Append(log, e) \in Seq(Plain \cup Orders)
        /\ Len(log) \in Nat /\ Len(Append(log, e)) = Len(log) + 1
        /\ Append(log, e)[Len(log) + 1] = e
        /\ \A k \in DOMAIN log : k \in 1..Len(log) /\ Append(log, e)[k] = log[k]
        /\ \A k \in 1..Len(log) : k \in DOMAIN log
        /\ \A k \in DOMAIN Append(log, e) : k \in DOMAIN log \/ k = Len(log) + 1
    BY <1>1
  <1>4. \A k \in DOMAIN log' : log'[k].of \in 0..decided
    BY <1>1, <1>2, <1>3
  <1> QED
    BY <1>3, <1>4 DEF LogTyped

\* Nothing has happened yet.
LEMMA InitIInv == Init => IInv
  <1> SUFFICES ASSUME Init
               PROVE  IInv
    OBVIOUS
  <1>1. DOMAIN Nobody = {}
    BY DEF Nobody
  <1>2. closings = Max({0, turns - 2 * (Rounds - 1)})
    <2>1. Max({0, turns - 2 * (Rounds - 1)}) = IF turns > 2 * (Rounds - 1) THEN turns - 2 * (Rounds - 1) ELSE 0
      BY ClosingsAt DEF Init
    <2> QED
      BY <2>1, DecisionAssumption DEF Init
  <1>3. TypeOK
    <2>1. turns \in 0..2 * Rounds /\ decided \in 0..Candidates
      BY DecisionAssumption DEF Init
    <2>2. /\ pc = "idle" /\ roster \in Rosters
          /\ memos = {} /\ allowed = {} /\ marks = {} /\ judge = 0
      BY DEF Init
    <2>3. tries \in 0..1 /\ crux \in BOOLEAN
      <3>1. crux \in BOOLEAN
        BY Zenon DEF Init
      <3>2. tries = 0
        BY DEF Init
      <3> QED
        BY <3>1, <3>2
    <2>4. DOMAIN ballots = {}
      BY <1>1 DEF Init
    <2>5. \A k \in DOMAIN log : log[k].of \in 0..decided
      BY DEF Init
    <2> QED
      BY <1>2, <2>1, <2>2, <2>3, <2>4, <2>5 DEF TypeOK
  <1>4. LogTyped /\ OneOrder
    BY DEF Init, LogTyped, OneOrder
  <1>5. Running /\ DebateWhole /\ JudgeNamed /\ ProposalKept /\ OnRecord /\ OrderKept
    BY DEF Init, Running, DebateWhole, JudgeNamed, ProposalKept, OnRecord, OrderKept,
           Debated, Ruled, Proposed
  <1>6. BallotsInOrder
    BY <1>1 DEF Init, BallotsInOrder, Unvoted, Balloted
  <1> QED
    BY <1>3, <1>4, <1>5, <1>6 DEF IInv

\* The candidate's end, whatever it was, leaves nothing behind but the log.
LEMMA EndStep ==
    ASSUME IInv, pc # "idle", End,
           \/ UNCHANGED log
           \/ \E kind \in {"cycle_failed", "no_trade"} :
                 log' = Append(log, [kind |-> kind, of |-> decided])
    PROVE  IInv'
  <1>1. /\ pc' = "idle" /\ tries' = 0 /\ decided' = decided + 1 /\ roster' = roster
        /\ memos' = {} /\ allowed' = {} /\ turns' = 0 /\ closings' = 0 /\ marks' = {}
        /\ crux' = FALSE /\ judge' = 0 /\ DOMAIN ballots' = {}
    BY DEF End, Goto, Nobody
  <1>2. decided \in Nat /\ decided < Candidates
    BY DEF IInv, TypeOK, Running
  <1>3. LogTyped' /\ \A k \in DOMAIN log' : log'[k].of \in 0..decided
    <2>1. CASE UNCHANGED log
      BY <2>1 DEF IInv, TypeOK, LogTyped
    <2>2. CASE \E kind \in {"cycle_failed", "no_trade"} :
                   log' = Append(log, [kind |-> kind, of |-> decided])
      <3>1. PICK kind \in {"cycle_failed", "no_trade"} :
                log' = Append(log, [kind |-> kind, of |-> decided])
        BY <2>2
      <3> DEFINE e == [kind |-> kind, of |-> decided]
      <3>2. e \in Plain \cup Orders /\ e.of = decided /\ log' = Append(log, e)
        BY <1>2, <3>1 DEF Plain
      <3> HIDE DEF e
      <3> QED
        BY <3>2, LogGrows
    <2> QED
      BY <2>1, <2>2
  <1>4. TypeOK'
    <2>1. closings' = Max({0, turns' - 2 * (Rounds - 1)})
      <3>1. Max({0, 0 - 2 * (Rounds - 1)}) =
                IF 0 > 2 * (Rounds - 1) THEN 0 - 2 * (Rounds - 1) ELSE 0
        BY ClosingsAt
      <3> QED
        BY <1>1, <3>1, DecisionAssumption
    <2>2. decided' \in 0..Candidates
      BY <1>1, <1>2, DecisionAssumption
    <2>3. \A k \in DOMAIN log' : log'[k].of \in 0..decided'
      BY <1>1, <1>2, <1>3
    <2>4. turns' \in 0..2 * Rounds
      BY <1>1, DecisionAssumption
    <2>5. tries' \in 0..1 /\ crux' \in BOOLEAN /\ judge' \in JudgeSeats \cup {0}
      <3>1. crux' \in BOOLEAN
        BY <1>1, Zenon
      <3>2. tries' = 0 /\ judge' = 0
        BY <1>1
      <3> QED
        BY <3>1, <3>2
    <2>6. /\ memos' \subseteq Range(Researchers) /\ allowed' \subseteq DocIds
          /\ DOMAIN ballots' \subseteq Range(Voters)
          /\ marks' \subseteq {"stray", "flip", "empty", "echo", "closing", "attack"}
      BY <1>1
    <2>7. roster' \in Rosters
      BY <1>1 DEF IInv, TypeOK
    <2> QED
      BY <1>1, <2>1, <2>2, <2>3, <2>4, <2>5, <2>6, <2>7 DEF TypeOK
  <1>5. OneOrder'
    <2>1. \A k \in DOMAIN log' : log'[k].of # decided'
      BY <1>1, <1>2, <1>3
    <2> QED
      BY <2>1 DEF OneOrder
  <1>6. Running' /\ DebateWhole' /\ JudgeNamed' /\ ProposalKept' /\ OnRecord' /\ OrderKept'
    BY <1>1 DEF Running, DebateWhole, JudgeNamed, ProposalKept, OnRecord, OrderKept,
                Debated, Ruled, Proposed
  <1>7. BallotsInOrder'
    BY <1>1 DEF BallotsInOrder, Unvoted, Balloted
  <1> QED
    BY <1>3, <1>4, <1>5, <1>6, <1>7 DEF IInv

\* The ways a candidate ends.
LEMMA Endings ==
    ASSUME IInv, CallFails \/ Fail \/ Leave \/ NoTrade \/ GateRejects \/ RecordQuote
    PROVE  IInv'
  <1>1. CASE CallFails
    <2>1. pc # "idle"
      BY <1>1, Names DEF CallFails, Calls
    <2> QED
      BY <1>1, <2>1, EndStep DEF CallFails, FailClosed
  <1>2. CASE Fail
    BY <1>2, EndStep DEF Fail, FailClosed
  <1>3. CASE NoTrade
    BY <1>3, EndStep DEF NoTrade
  <1>4. CASE Leave
    BY <1>4, EndStep DEF Leave
  <1>5. CASE GateRejects
    BY <1>5, EndStep DEF GateRejects
  <1>6. CASE RecordQuote
    BY <1>6, EndStep DEF RecordQuote
  <1> QED
    BY <1>1, <1>2, <1>3, <1>4, <1>5, <1>6

\* A step before the ballot that leaves the log, the ballots and the judge alone.
LEMMA EarlyStep ==
    ASSUME IInv, pc \in Unvoted, pc' \in Unvoted \cup {"votes"},
           UNCHANGED <<roster, ballots, log, decided>>,
           TypeOK', Running', DebateWhole', JudgeNamed'
    PROVE  IInv'
  <1>1. LogTyped' /\ OneOrder'
    BY DEF IInv, LogTyped, OneOrder, Unvoted
  <1>2. ProposalKept' /\ OnRecord' /\ OrderKept'
    BY DEF ProposalKept, OnRecord, OrderKept, Proposed, Unvoted
  <1>3. BallotsInOrder'
    BY DEF IInv, BallotsInOrder, Unvoted, Balloted
  <1> QED
    BY <1>1, <1>2, <1>3 DEF IInv

\* preflight has passed.
LEMMA BeginStep ==
    ASSUME IInv, Begin
    PROVE  IInv'
  <1>1. /\ pc = "idle" /\ pc' = "FUND-TECH" /\ Preflight /\ decided < Candidates
        /\ UNCHANGED <<tries, roster, memos, allowed, turns, closings, marks, crux, judge,
                       ballots, proposal, log, decided>>
    BY Names DEF Begin, record, debate
  <1>2. TypeOK'
    BY <1>1, Names DEF IInv, TypeOK
  <1>3. Running'
    BY <1>1 DEF Running, Preflight, ResolveRuntime
  <1>4. DebateWhole' /\ JudgeNamed'
    BY <1>1 DEF IInv, DebateWhole, JudgeNamed, Debated, Ruled
  <1> QED
    BY <1>1, <1>2, <1>3, <1>4, EarlyStep DEF Unvoted

\* A memo, valid or not.
LEMMA MemoStep ==
    ASSUME IInv, RunFundTech \/ \E series \in SUBSET Series : RunTech01(series)
    PROVE  IInv'
  <1>1. PICK m : KeepMemo(m) /\ m.cites \subseteq DocIds
    <2>1. \A m \in Memos : m.cites \subseteq DocIds
      BY DEF Memos
    <2>2. \A m \in Memos, b \in BOOLEAN : [m EXCEPT !.schema = b].cites = m.cites
      BY DEF Memos
    <2>3. CASE RunFundTech
      BY <2>1, <2>3 DEF RunFundTech
    <2>4. CASE \E series \in SUBSET Series : RunTech01(series)
      <3>1. PICK series \in SUBSET Series, m \in Memos :
                KeepMemo([m EXCEPT !.schema = m.schema /\ TechnicalBlock(series)])
        BY <2>4 DEF RunTech01
      <3>2. (m.schema /\ TechnicalBlock(series)) \in BOOLEAN
        OBVIOUS
      <3> QED
        BY <2>1, <2>2, <3>1, <3>2
    <2> QED
      BY <2>3, <2>4
  <1>2. /\ pc \in {"FUND-TECH", "TECH-01"} /\ pc' \in {"TECH-01", "debate"} /\ tries' = 0
        /\ memos' = (IF ValidMemo(m) THEN memos \cup {pc} ELSE memos)
        /\ allowed' = (IF ValidMemo(m) THEN allowed \cup m.cites ELSE allowed)
        /\ UNCHANGED <<roster, turns, closings, marks, crux, judge, ballots, proposal, log, decided>>
    BY <1>1 DEF RunFundTech, RunTech01, Goto, KeepMemo, debate
  <1>3. memos' \subseteq Range(Researchers) /\ allowed' \subseteq DocIds /\ memos \subseteq memos'
    BY <1>1, <1>2, Names DEF IInv, TypeOK
  <1>4. TypeOK'
    BY <1>2, <1>3, Names DEF IInv, TypeOK
  <1>5. Running'
    BY <1>2 DEF IInv, Running, Preflight, ResolveRuntime
  <1>6. DebateWhole' /\ JudgeNamed'
    BY <1>2, <1>3 DEF IInv, DebateWhole, JudgeNamed, Debated, Ruled
  <1> QED
    BY <1>2, <1>4, <1>5, <1>6, EarlyStep DEF Unvoted

\* A turn: in the last round, and only there, with its closing statement.
LEMMA TurnStep ==
    ASSUME IInv, TakeTurn
    PROVE  IInv'
  <1> DEFINE final == turns >= 2 * (Rounds - 1)
  <1>1. PICK t \in Turns(final) : marks' = marks \cup MarksOf(t, turns + 1)
    BY DEF TakeTurn
  <1>2. /\ pc = "debate" /\ pc' = "debate" /\ tries' = 0 /\ turns < 2 * Rounds /\ memos # {}
        /\ closings' = (IF final THEN closings + 1 ELSE closings)
        /\ turns' = turns + 1
        /\ UNCHANGED <<roster, memos, allowed, crux, judge, ballots, proposal, log, decided>>
    BY DEF TakeTurn
  <1>3. marks' \subseteq {"stray", "flip", "empty", "echo", "closing", "attack"}
    <2>1. MarksOf(t, turns + 1) \subseteq {"stray", "flip", "empty", "echo", "closing", "attack"}
      BY DEF MarksOf
    <2> QED
      BY <1>1, <2>1 DEF IInv, TypeOK
  <1>4. turns \in Nat /\ turns' \in 0..2 * Rounds
    BY <1>2, DecisionAssumption DEF IInv, TypeOK
  <1>5. closings' = Max({0, turns' - 2 * (Rounds - 1)})
    <2>1. closings = IF turns > 2 * (Rounds - 1) THEN turns - 2 * (Rounds - 1) ELSE 0
      BY <1>4, ClosingsAt DEF IInv, TypeOK
    <2>2. turns' \in Nat
      BY <1>2, <1>4
    <2>3. Max({0, turns' - 2 * (Rounds - 1)}) =
              IF turns' > 2 * (Rounds - 1) THEN turns' - 2 * (Rounds - 1) ELSE 0
      BY <2>2, ClosingsAt
    <2> QED
      BY <1>2, <1>4, <2>1, <2>3, DecisionAssumption
  <1>6. TypeOK'
    BY <1>2, <1>3, <1>4, <1>5 DEF IInv, TypeOK
  <1>7. Running'
    BY <1>2 DEF IInv, Running, Preflight, ResolveRuntime
  <1>8. DebateWhole' /\ JudgeNamed'
    BY <1>2 DEF DebateWhole, JudgeNamed, Debated, Ruled
  <1> QED
    BY <1>2, <1>6, <1>7, <1>8, EarlyStep DEF Unvoted

\* The moderator speaks only after a debate that stands.
LEMMA ModerateStep ==
    ASSUME IInv, NEW unresolved \in BOOLEAN, Moderate(unresolved)
    PROVE  IInv'
  <1>1. /\ pc = "debate" /\ pc' = "judge" /\ tries' = 0 /\ crux' = unresolved
        /\ turns = 2 * Rounds /\ DebateStands
        /\ UNCHANGED <<roster, memos, allowed, turns, closings, marks, judge, ballots, proposal,
                       log, decided>>
    BY DEF Moderate, Goto, debate
  <1>2. TypeOK'
    BY <1>1 DEF IInv, TypeOK
  <1>3. Running'
    BY <1>1 DEF IInv, Running, Preflight, ResolveRuntime
  <1>4. DebateWhole' /\ JudgeNamed'
    BY <1>1 DEF IInv, DebateWhole, DebateStands, JudgeNamed, Debated, Ruled
  <1> QED
    BY <1>1, <1>2, <1>3, <1>4, EarlyStep DEF Unvoted

\* The judge that is named is the one the manifest gives.
LEMMA JudgeStep ==
    ASSUME IInv, Judge
    PROVE  IInv'
  <1>1. /\ pc = "judge" /\ pc' = "votes" /\ tries' = 0
        /\ JudgeFamilyFor(roster.bull, roster.bear, roster.available) # 0
        /\ judge' = JudgeFamilyFor(roster.bull, roster.bear, roster.available)
        /\ UNCHANGED <<roster, memos, allowed, turns, closings, marks, crux, ballots, proposal,
                       log, decided>>
    BY DEF Judge, Goto, debate
  <1>2. judge' \in JudgeSeats
    BY <1>1, JudgeIsDisjoint DEF IInv, TypeOK, Running, Preflight, DistinctDebaters
  <1>3. TypeOK'
    BY <1>1, <1>2 DEF IInv, TypeOK
  <1>4. Running'
    BY <1>1 DEF IInv, Running, Preflight, ResolveRuntime
  <1>5. DebateWhole' /\ JudgeNamed'
    BY <1>1 DEF IInv, DebateWhole, DebateStands, JudgeNamed, Debated, Ruled
  <1> QED
    BY <1>1, <1>3, <1>4, <1>5, EarlyStep DEF Unvoted

\* From the judge on, the chain behind the candidate is as it was.
LEMMA LateStep ==
    ASSUME IInv, pc \in Ruled, pc' \in Ruled,
           UNCHANGED <<roster, memos, allowed, turns, closings, marks, crux, judge, decided>>,
           tries' \in 0..1, DOMAIN ballots' \subseteq Range(Voters),
           \A k \in DOMAIN log' : log'[k].of \in 0..decided
    PROVE  TypeOK' /\ Running' /\ DebateWhole' /\ JudgeNamed'
  <1>1. TypeOK'
    <2>1. pc' \in {"idle", "debate", "judge", "votes", "pm", "override", "gate", "quote"}
      BY DEF Ruled
    <2>2. \A k \in DOMAIN log' : log'[k].of \in 0..decided'
      OBVIOUS
    <2>3. crux' \in BOOLEAN
      BY Zenon DEF IInv, TypeOK
    <2> QED
      BY <2>1, <2>2, <2>3 DEF IInv, TypeOK
  <1>2. Running'
    BY DEF IInv, Running, Preflight, ResolveRuntime, Ruled
  <1>3. DebateWhole' /\ JudgeNamed'
    BY DEF IInv, DebateWhole, DebateStands, JudgeNamed, Debated, Ruled
  <1> QED
    BY <1>1, <1>2, <1>3

\* How many ballots have been cast, in the order of the voters.
LEMMA BallotsCast ==
    /\ Cardinality({}) = 0
    /\ Cardinality({"FUND-TECH"}) = 1
    /\ Cardinality({"FUND-TECH", "BULL-01"}) = 2
  <1>1. /\ IsFiniteSet({"FUND-TECH"}) /\ Cardinality({"FUND-TECH"}) = 1
    BY FS_Singleton
  <1>2. Cardinality({"FUND-TECH"} \cup {"BULL-01"}) = Cardinality({"FUND-TECH"}) + 1
    BY <1>1, FS_AddElement
  <1>3. {"FUND-TECH"} \cup {"BULL-01"} = {"FUND-TECH", "BULL-01"}
    OBVIOUS
  <1> QED
    BY <1>1, <1>2, <1>3, FS_EmptySet

\* A ballot is cast by the next voter, and the PM is asked after the last.
LEMMA VoteStep ==
    ASSUME IInv, NEW stance \in {"long", "short", "no_position"}, NEW c \in Convictions,
           Vote(stance, c)
    PROVE  IInv'
  <1> DEFINE voter == Voters[Cardinality(DOMAIN ballots) + 1]
             ballot == [stance |-> FixedStance(voter, stance), conviction |-> c]
  <1>1. /\ pc = "votes" /\ tries' = 0
        /\ ballots' = WithBallot(voter, ballot)
        /\ pc' = (IF voter = Voters[Len(Voters)] THEN "pm" ELSE "votes")
        /\ UNCHANGED <<roster, memos, allowed, turns, closings, marks, crux, judge, proposal,
                       log, decided>>
    BY DEF Vote, Goto, debate
  <1>2. /\ DOMAIN ballots = {} => voter = "FUND-TECH"
        /\ DOMAIN ballots = {"FUND-TECH"} => voter = "BULL-01"
        /\ DOMAIN ballots = {"FUND-TECH", "BULL-01"} => voter = "BEAR-01"
    BY BallotsCast, Names
  <1>3. ballot \in Ballot
    <2>1. c \in Nat
      BY DecisionAssumption
    <2>2. FixedStance(voter, stance) \in {"long", "short", "no_position"}
      BY DEF FixedStance
    <2> QED
      BY <2>1, <2>2 DEF Ballot
  <1> HIDE DEF voter, ballot
  <1>4. /\ DOMAIN ballots' = DOMAIN ballots \cup {voter}
        /\ \A v \in DOMAIN ballots' : ballots'[v] = IF v = voter THEN ballot ELSE ballots[v]
    BY <1>1 DEF WithBallot
  <1>5. /\ pc' \in {"votes", "pm"}
        /\ pc' = "votes" => DOMAIN ballots' \in {{}, {"FUND-TECH"}, {"FUND-TECH", "BULL-01"}}
        /\ pc' = "pm" => DOMAIN ballots' = Range(Voters)
        /\ DOMAIN ballots' \subseteq Range(Voters)
    <2>1. DOMAIN ballots \in {{}, {"FUND-TECH"}, {"FUND-TECH", "BULL-01"}}
      BY <1>1 DEF IInv, BallotsInOrder
    <2>2. Range(Voters) = {"FUND-TECH", "BULL-01", "BEAR-01"} /\ Voters[Len(Voters)] = "BEAR-01"
      BY Names
    <2>3. CASE DOMAIN ballots = {}
      BY <1>1, <1>2, <1>4, <2>2, <2>3
    <2>4. CASE DOMAIN ballots = {"FUND-TECH"}
      BY <1>1, <1>2, <1>4, <2>2, <2>4
    <2>5. CASE DOMAIN ballots = {"FUND-TECH", "BULL-01"}
      <3>1. voter = "BEAR-01" /\ pc' = "pm"
        BY <1>1, <1>2, <2>2, <2>5
      <3>2. DOMAIN ballots' = {"FUND-TECH", "BULL-01", "BEAR-01"}
        BY <1>4, <2>5, <3>1
      <3> QED
        BY <2>2, <3>1, <3>2
    <2> QED
      BY <2>1, <2>3, <2>4, <2>5
  <1>6. \A v \in DOMAIN ballots' : ballots'[v] \in Ballot
    BY <1>3, <1>4 DEF IInv, BallotsInOrder
  <1>7. BallotsInOrder'
    BY <1>5, <1>6 DEF BallotsInOrder, Unvoted, Balloted
  <1>8. TypeOK' /\ Running' /\ DebateWhole' /\ JudgeNamed'
    <2>1. pc \in Ruled /\ pc' \in Ruled /\ tries' \in 0..1
      BY <1>1, <1>5 DEF Ruled
    <2>2. \A k \in DOMAIN log' : log'[k].of \in 0..decided
      BY <1>1 DEF IInv, TypeOK
    <2> QED
      BY <1>1, <1>5, <2>1, <2>2, LateStep
  <1>9. LogTyped' /\ ProposalKept' /\ OnRecord' /\ OneOrder' /\ OrderKept'
    BY <1>1, <1>5 DEF IInv, LogTyped, ProposalKept, OnRecord, OneOrder, OrderKept, Proposed
  <1> QED
    BY <1>7, <1>8, <1>9 DEF IInv

\* Asking again changes nothing but the number of tries.
LEMMA RetryStep ==
    ASSUME IInv, Retry
    PROVE  IInv'
  <1>1. /\ tries' = 1
        /\ UNCHANGED <<pc, roster, memos, allowed, turns, closings, marks, crux, judge, ballots,
                       proposal, log, decided>>
    BY DEF Retry, record, debate
  <1>2. TypeOK'
    BY <1>1 DEF IInv, TypeOK
  <1>3. /\ LogTyped' /\ Running' /\ DebateWhole' /\ JudgeNamed'
        /\ BallotsInOrder' /\ OneOrder' /\ OrderKept'
    BY <1>1 DEF IInv, LogTyped, Running, Preflight, ResolveRuntime, DebateWhole, DebateStands,
                JudgeNamed, BallotsInOrder, OneOrder, OrderKept
  <1>4. ProposalKept' /\ OnRecord'
    BY <1>1 DEF IInv, ProposalKept, OnRecord, Written, Overridden
  <1> QED
    BY <1>2, <1>3, <1>4 DEF IInv

\* A step on which nothing changes.
LEMMA StutterStep ==
    ASSUME IInv, UNCHANGED vars
    PROVE  IInv'
  BY DEF vars, IInv, TypeOK, LogTyped, Running, Preflight, ResolveRuntime, DebateWhole,
         DebateStands, JudgeNamed, BallotsInOrder, ProposalKept, OnRecord, Written, Overridden,
         OneOrder, OrderKept

\* The PM's trade is written down, with what it was checked for.
LEMMA ProposeStep ==
    ASSUME IInv, NEW dir \in Directions, NEW c \in Convictions, NEW rebuttal \in BOOLEAN,
           NEW edge \in Edges, NEW adv \in Advs, Propose(dir, c, rebuttal, edge, adv)
    PROVE  IInv'
  <1> DEFINE size == SizePosition(c, Contested(ballots), crux)
             against == dir # Winner(ballots)
  <1>1. /\ pc = "pm" /\ tries' = 0
        /\ ProposalPasses(dir, rebuttal, 0) /\ EdgeCovers(edge, size, adv)
        /\ proposal' = [dir |-> dir, override |-> against, rebuttal |-> rebuttal,
                        conviction |-> c, size |-> size, edge |-> edge, adv |-> adv]
        /\ log' = Append(log, Written)
        /\ pc' = (IF against THEN "override" ELSE "gate")
        /\ UNCHANGED <<roster, memos, allowed, turns, closings, marks, crux, judge, ballots, decided>>
    BY DEF Propose, Goto, debate, Written
  <1>2. Written \in Plain \cup Orders /\ Written.of = decided /\ Written.kind # "modeled_order"
    BY DEF IInv, TypeOK, Written, Plain
  <1>3. /\ LogTyped'
        /\ Len(log) \in Nat /\ Len(log') = Len(log) + 1 /\ log'[Len(log) + 1] = Written
        /\ \A k \in DOMAIN log : log'[k] = log[k]
        /\ \A k \in DOMAIN log' : k \in DOMAIN log \/ k = Len(log) + 1
        /\ \A k \in DOMAIN log' : log'[k].of \in 0..decided
    BY <1>1, <1>2, LogGrows
  <1>4. pc' \in {"override", "gate"} /\ (pc' = "gate" => ~against)
    BY <1>1
  <1>5. TypeOK' /\ Running' /\ DebateWhole' /\ JudgeNamed'
    <2>1. pc \in Ruled /\ pc' \in Ruled /\ tries' \in 0..1
      BY <1>1, <1>4 DEF Ruled
    <2>2. DOMAIN ballots' \subseteq Range(Voters)
      BY <1>1 DEF IInv, TypeOK
    <2> QED
      BY <1>1, <1>3, <2>1, <2>2, LateStep
  <1>6. BallotsInOrder'
    BY <1>1, <1>4 DEF IInv, BallotsInOrder, Unvoted, Balloted
  <1>7. /\ proposal'.dir = dir /\ proposal'.rebuttal = rebuttal /\ proposal'.size = size
        /\ proposal'.edge = edge /\ proposal'.adv = adv /\ proposal'.conviction = c
    BY <1>1
  <1>8. against => rebuttal
    BY <1>1 DEF ProposalPasses
  <1>9. ProposalKept'
    <2>1. size = SizePosition(c, Contested(ballots'), crux') /\ Winner(ballots') = Winner(ballots)
      BY <1>1
    <2> HIDE DEF size
    <2> QED
      BY <1>1, <1>7, <1>8, <2>1 DEF ProposalKept
  <1>10. OnRecord'
    <2>1. log'[Len(log')] = Written' /\ Len(log') >= 1
      BY <1>1, <1>3 DEF Written
    <2>2. Winner(ballots') = Winner(ballots)
      BY <1>1
    <2> HIDE DEF size
    <2> QED
      BY <1>4, <1>7, <2>1, <2>2 DEF OnRecord
  <1>11. OneOrder'
    BY <1>1, <1>2, <1>3 DEF IInv, OneOrder
  <1>12. OrderKept'
    BY <1>4 DEF OrderKept
  <1> QED
    BY <1>3, <1>5, <1>6, <1>9, <1>10, <1>11, <1>12 DEF IInv

\* A trade against the ballot is logged as one before the gate sees it.
LEMMA OverrideStep ==
    ASSUME IInv, LogOverride
    PROVE  IInv'
  <1>1. /\ pc = "override" /\ pc' = "gate" /\ tries' = 0
        /\ log' = Append(log, Overridden)
        /\ UNCHANGED <<roster, memos, allowed, turns, closings, marks, crux, judge, ballots,
                       proposal, decided>>
    BY DEF LogOverride, Goto, record, debate, Overridden
  <1>2. Overridden \in Plain \cup Orders /\ Overridden.of = decided
        /\ Overridden.kind # "modeled_order"
    BY DEF IInv, TypeOK, Overridden, Plain
  <1>3. /\ LogTyped'
        /\ Len(log) \in Nat /\ Len(log') = Len(log) + 1 /\ log'[Len(log) + 1] = Overridden
        /\ \A k \in DOMAIN log : log'[k] = log[k]
        /\ \A k \in 1..Len(log) : k \in DOMAIN log
        /\ \A k \in DOMAIN log' : k \in DOMAIN log \/ k = Len(log) + 1
        /\ \A k \in DOMAIN log' : log'[k].of \in 0..decided
    BY <1>1, <1>2, LogGrows
  <1>4. TypeOK' /\ Running' /\ DebateWhole' /\ JudgeNamed'
    <2>1. pc \in Ruled /\ pc' \in Ruled /\ tries' \in 0..1
      BY <1>1 DEF Ruled
    <2>2. DOMAIN ballots' \subseteq Range(Voters)
      BY <1>1 DEF IInv, TypeOK
    <2> QED
      BY <1>1, <1>3, <2>1, <2>2, LateStep
  <1>5. BallotsInOrder'
    BY <1>1 DEF IInv, BallotsInOrder, Unvoted, Balloted
  <1>6. ProposalKept'
    BY <1>1 DEF IInv, ProposalKept, Proposed
  <1>7. OnRecord'
    <2>1. Len(log) >= 1 /\ log[Len(log)] = Written
      BY <1>1 DEF IInv, OnRecord
    <2>2. log'[Len(log') - 1] = Written' /\ log'[Len(log')] = Overridden' /\ Len(log') >= 2
      BY <1>1, <1>3, <2>1 DEF Written, Overridden
    <2> QED
      BY <1>1, <2>2 DEF OnRecord
  <1>8. OneOrder' /\ OrderKept'
    BY <1>1, <1>2, <1>3 DEF IInv, OneOrder, OrderKept
  <1> QED
    BY <1>3, <1>4, <1>5, <1>6, <1>7, <1>8 DEF IInv

\* Whole shares of an order at a price that is not nothing.
LEMMA SharesCounted ==
    ASSUME NEW size \in Nat, NEW price \in Nat, price >= 1
    PROVE  Shares(size, Nav, price) \in Nat /\ (size = 0 => Shares(size, Nav, price) = 0)
  <1>1. Nav * size \in Nat /\ (size = 0 => Nav * size = 0)
    BY DecisionAssumption
  <1>2. 1000000 * price \in Nat /\ 1000000 * price > 0
    OBVIOUS
  <1>3. \A n \in Nat, d \in Nat : d > 0 => n \div d \in Nat /\ 0 \div d = 0
    OBVIOUS
  <1>4. 100 * Percent * price = 1000000 * price
    BY DEF Percent
  <1> QED
    BY <1>1, <1>2, <1>3, <1>4 DEF Shares

\* The proposal that stands is of a size size_position can give.
LEMMA ProposalSized ==
    ASSUME IInv, pc \in Proposed
    PROVE  LET full == ConvictionSize(proposal.conviction)
           IN  /\ proposal.size \in Nat /\ full \in Nat
               /\ proposal.size <= full
               /\ Contested(ballots) => proposal.size <= 5000 /\ 2 * proposal.size <= full
               /\ crux => 10 * proposal.size <= 7 * full
               /\ Contested(ballots) /\ crux => 20 * proposal.size <= 7 * full
  <1>1. /\ proposal.conviction \in Convictions
        /\ proposal.size = SizePosition(proposal.conviction, Contested(ballots), crux)
    BY DEF IInv, ProposalKept
  <1>2. proposal.conviction \in Nat
    BY <1>1, DecisionAssumption
  <1>3. Contested(ballots) \in BOOLEAN
    BY DEF Contested
  <1>4. crux \in BOOLEAN
    BY DEF IInv, TypeOK
  <1> QED
    BY <1>1, <1>2, <1>3, <1>4, SizeLimits

\* The order is built from what the gate has approved.
LEMMA PlaceOrderStep ==
    ASSUME IInv, NEW book \in Books, NEW price \in Prices, PlaceOrder(book, price)
    PROVE  IInv'
  <1> DEFINE verdict == Verdict(book, price)
             qty == Shares(verdict.size, Nav, price)
             order == [kind |-> "modeled_order", of |-> decided, dir |-> proposal.dir,
                       size |-> verdict.size, qty |-> qty]
  <1>1. /\ pc = "gate" /\ pc' = "quote" /\ tries' = 0
        /\ verdict.approved /\ qty >= 1
        /\ log' = Append(log, order)
        /\ UNCHANGED <<roster, memos, allowed, turns, closings, marks, crux, judge, ballots,
                       proposal, decided>>
    BY DEF PlaceOrder, Goto, record, debate
  <1>2. /\ verdict.size \in Nat /\ verdict.size <= proposal.size /\ price \in Nat /\ price >= 5
    <2> DEFINE ctx == [book EXCEPT !.price = price, !.adv = proposal.adv]
    <2>1. price \in Nat /\ proposal.adv \in Nat
      BY <1>1, DecisionAssumption DEF IInv, ProposalKept, Proposed
    <2>2. book \in Contexts
      BY DecisionAssumption DEF Contexts
    <2>3. ctx \in Contexts /\ ctx.price = price
      BY <2>1, <2>2 DEF Contexts
    <2>4. verdict = Evaluate(proposal.dir, proposal.size, ctx)
      BY DEF Verdict
    <2>5. proposal.size \in Nat
      BY <1>1, ProposalSized DEF Proposed
    <2> HIDE DEF ctx, verdict
    <2>6. verdict.size \in Nat /\ verdict.size <= proposal.size /\ Admissible(proposal.size, ctx)
      BY <1>1, <2>3, <2>4, <2>5, EvaluateShrinks
    <2> QED
      BY <2>1, <2>3, <2>6 DEF Admissible, MinPrice
  <1> HIDE DEF verdict
  <1>3. qty \in Nat /\ verdict.size >= 1
    <2>1. price >= 1
      BY <1>2
    <2>2. qty \in Nat /\ (verdict.size = 0 => qty = 0)
      BY <1>2, <2>1, SharesCounted
    <2> HIDE DEF qty
    <2> QED
      BY <1>1, <1>2, <2>2
  <1> HIDE DEF qty
  <1>4. /\ order \in Plain \cup Orders /\ order.of = decided /\ order.kind = "modeled_order"
        /\ order.dir = proposal.dir /\ order.size = verdict.size /\ order.qty = qty
    <2>1. proposal.dir \in Directions /\ decided \in Nat
      BY <1>1 DEF IInv, TypeOK, ProposalKept, Proposed
    <2> QED
      BY <1>2, <1>3, <2>1 DEF Orders
  <1> HIDE DEF order
  <1>5. /\ LogTyped'
        /\ Len(log) \in Nat /\ Len(log') = Len(log) + 1 /\ log'[Len(log) + 1] = order
        /\ \A k \in DOMAIN log : log'[k] = log[k]
        /\ \A k \in 1..Len(log) : k \in DOMAIN log
        /\ \A k \in DOMAIN log' : k \in DOMAIN log \/ k = Len(log) + 1
        /\ \A k \in DOMAIN log' : log'[k].of \in 0..decided
    BY <1>1, <1>4, LogGrows
  <1>6. TypeOK' /\ Running' /\ DebateWhole' /\ JudgeNamed'
    <2>1. pc \in Ruled /\ pc' \in Ruled /\ tries' \in 0..1
      BY <1>1 DEF Ruled
    <2>2. DOMAIN ballots' \subseteq Range(Voters)
      BY <1>1 DEF IInv, TypeOK
    <2> QED
      BY <1>1, <1>5, <2>1, <2>2, LateStep
  <1>7. BallotsInOrder'
    BY <1>1 DEF IInv, BallotsInOrder, Unvoted, Balloted
  <1>8. ProposalKept'
    BY <1>1 DEF IInv, ProposalKept, Proposed
  <1>9. OnRecord'
    <2>1. CASE proposal.dir # Winner(ballots)
      <3>1. Len(log) >= 2 /\ log[Len(log) - 1] = Written /\ log[Len(log)] = Overridden
        BY <1>1, <2>1 DEF IInv, OnRecord
      <3>2. /\ Len(log') >= 3
            /\ log'[Len(log') - 2] = Written' /\ log'[Len(log') - 1] = Overridden'
        BY <1>1, <1>5, <3>1 DEF Written, Overridden
      <3> QED
        BY <1>1, <3>2 DEF OnRecord
    <2>2. CASE proposal.dir = Winner(ballots)
      BY <1>1, <2>2 DEF OnRecord
    <2> QED
      BY <2>1, <2>2
  <1>10. OneOrder'
    <2>1. \A k \in DOMAIN log' : log'[k].kind = "modeled_order" /\ log'[k].of = decided
              => k = Len(log) + 1
      BY <1>1, <1>5 DEF IInv, OneOrder
    <2> QED
      BY <1>1, <1>5, <2>1 DEF OneOrder
  <1>11. OrderKept'
    BY <1>1, <1>2, <1>3, <1>4, <1>5 DEF OrderKept
  <1> QED
    BY <1>5, <1>6, <1>7, <1>8, <1>9, <1>10, <1>11 DEF IInv

\* Every step keeps the invariant.
LEMMA StepIInv == IInv /\ [Next]_vars => IInv'
  <1> SUFFICES ASSUME IInv, [Next]_vars
               PROVE  IInv'
    OBVIOUS
  <1>1. CASE Begin
    BY <1>1, BeginStep
  <1>2. CASE RunFundTech \/ \E series \in SUBSET Series : RunTech01(series)
    BY <1>2, MemoStep
  <1>3. CASE TakeTurn
    BY <1>3, TurnStep
  <1>4. CASE \E unresolved \in BOOLEAN : Moderate(unresolved)
    BY <1>4, ModerateStep
  <1>5. CASE Judge
    BY <1>5, JudgeStep
  <1>6. CASE \E stance \in {"long", "short", "no_position"}, c \in Convictions : Vote(stance, c)
    BY <1>6, VoteStep
  <1>7. CASE Retry
    BY <1>7, RetryStep
  <1>8. CASE CallFails \/ Fail \/ Leave \/ NoTrade \/ GateRejects \/ RecordQuote
    BY <1>8, Endings
  <1>9. CASE \E dir \in {"long", "short"}, c \in Convictions, rebuttal \in BOOLEAN :
                \E edge \in Edges, adv \in Advs : Propose(dir, c, rebuttal, edge, adv)
    BY <1>9, ProposeStep DEF Directions
  <1>10. CASE LogOverride
    BY <1>10, OverrideStep
  <1>11. CASE \E book \in Books, price \in Prices : PlaceOrder(book, price)
    BY <1>11, PlaceOrderStep
  <1>12. CASE UNCHANGED vars
    BY <1>12, StutterStep
  <1> QED
    BY <1>1, <1>2, <1>3, <1>4, <1>5, <1>6, <1>7, <1>8, <1>9, <1>10, <1>11, <1>12 DEF Next

-----------------------------------------------------------------------------
(* The tally, and the edge of a smaller order.                             *)

\* What is scored for a direction is a sum over the voters.
LEMMA ScoreIsSum ==
    ASSUME NEW b, NEW dir, IsFiniteSet(DOMAIN b)
    PROVE  Score(b, dir) =
               SumOver([v \in DOMAIN b |-> IF b[v].stance = dir THEN b[v].conviction ELSE 0],
                       DOMAIN b)
  <1> DEFINE D == DOMAIN b
             f == [v \in D |-> IF b[v].stance = dir THEN b[v].conviction ELSE 0]
             Scores(g) == g = [s \in SUBSET D |-> IF s = {} THEN 0
                                ELSE (IF b[Pick(s)].stance = dir THEN b[Pick(s)].conviction ELSE 0)
                                     + g[s \ {Pick(s)}]]
             g == CHOOSE g : Scores(g)
  <1>1. Score(b, dir) = g[D]
    BY DEF Score, MapThenSumSet, MapThenFoldSet, Pick
  <1>2. \A s \in SUBSET D : s # {} =>
            f[Pick(s)] = IF b[Pick(s)].stance = dir THEN b[Pick(s)].conviction ELSE 0
    <2>1. \A s \in SUBSET D : s # {} => Pick(s) \in D
      BY DEF Pick
    <2> QED
      BY <2>1
  <1> HIDE DEF f
  <1>3. \A a : Scores(a) <=> Adds(a, f, D)
    BY <1>2 DEF Adds
  <1>4. PICK a : Adds(a, f, D) /\ SumOver(f, D) = a[D]
    BY SumAdds
  <1>5. Scores(g)
    <2>1. Scores(a)
      BY <1>3, <1>4
    <2> HIDE DEF Scores
    <2> QED
      BY <2>1
  <1>6. Adds(g, f, D)
    BY <1>3, <1>5
  <1> HIDE DEF g
  <1>7. g[D] = a[D]
    BY <1>4, <1>6, AddsAgree
  <1> QED
    BY <1>1, <1>4, <1>7 DEF f

\* So is everything cast.
LEMMA TotalIsSum ==
    ASSUME NEW b, IsFiniteSet(DOMAIN b)
    PROVE  TotalCast(b) = SumOver([v \in DOMAIN b |-> b[v].conviction], DOMAIN b)
  <1> DEFINE D == DOMAIN b
             f == [v \in D |-> b[v].conviction]
             Casts(g) == g = [s \in SUBSET D |-> IF s = {} THEN 0
                               ELSE b[Pick(s)].conviction + g[s \ {Pick(s)}]]
             g == CHOOSE g : Casts(g)
  <1>1. TotalCast(b) = g[D]
    BY DEF TotalCast, MapThenSumSet, MapThenFoldSet, Pick
  <1>2. \A s \in SUBSET D : s # {} => f[Pick(s)] = b[Pick(s)].conviction
    <2>1. \A s \in SUBSET D : s # {} => Pick(s) \in D
      BY DEF Pick
    <2> QED
      BY <2>1
  <1> HIDE DEF f
  <1>3. \A a : Casts(a) <=> Adds(a, f, D)
    BY <1>2 DEF Adds
  <1>4. PICK a : Adds(a, f, D) /\ SumOver(f, D) = a[D]
    BY SumAdds
  <1>5. Casts(g)
    <2>1. Casts(a)
      BY <1>3, <1>4
    <2> HIDE DEF Casts
    <2> QED
      BY <2>1
  <1>6. Adds(g, f, D)
    BY <1>3, <1>5
  <1> HIDE DEF g
  <1>7. g[D] = a[D]
    BY <1>4, <1>6, AddsAgree
  <1> QED
    BY <1>1, <1>4, <1>7 DEF f

\* The tally of whole ballots is in whole numbers.
LEMMA TallyTyped ==
    ASSUME NEW b, IsFiniteSet(DOMAIN b), \A v \in DOMAIN b : b[v] \in Ballot
    PROVE  /\ TotalCast(b) \in Nat
           /\ \A dir : Score(b, dir) \in Nat
  <1>1. \A v \in DOMAIN b : b[v].conviction \in Nat
    BY DEF Ballot
  <1>2. TotalCast(b) \in Nat
    <2> DEFINE f == [v \in DOMAIN b |-> b[v].conviction]
    <2>1. \A v \in DOMAIN b : f[v] \in Nat
      BY <1>1
    <2>2. TotalCast(b) = SumOver(f, DOMAIN b)
      BY TotalIsSum
    <2> HIDE DEF f
    <2> QED
      BY <2>1, <2>2, SumNat
  <1>3. ASSUME NEW dir
        PROVE  Score(b, dir) \in Nat
    <2> DEFINE f == [v \in DOMAIN b |-> IF b[v].stance = dir THEN b[v].conviction ELSE 0]
    <2>1. \A v \in DOMAIN b : f[v] \in Nat
      BY <1>1
    <2>2. Score(b, dir) = SumOver(f, DOMAIN b)
      BY ScoreIsSum
    <2> HIDE DEF f
    <2> QED
      BY <2>1, <2>2, SumNat
  <1> QED
    BY <1>2, <1>3

\* A margin short of a fifth of what was cast, or none at all, is a contested ballot.
LEMMA SlimMargin ==
    ASSUME NEW b, IsFiniteSet(DOMAIN b), \A v \in DOMAIN b : b[v] \in Ballot
    PROVE  LET gap == Score(b, "long") - Score(b, "short")
               total == TotalCast(b)
           IN  5 * gap \in 1 - total..total - 1 \/ gap = 0 => Contested(b)
  <1> DEFINE gap == Score(b, "long") - Score(b, "short")
             total == TotalCast(b)
  <1>1. total \in Nat /\ gap \in Int
    BY TallyTyped
  <1>2. Contested(b) <=> total = 0 \/ 5 * Max({gap, -gap}) < total
    BY DEF Contested
  <1> HIDE DEF gap, total
  <1>3. -gap \in Int
    BY <1>1
  <1>4. Max({gap, -gap}) = IF gap >= -gap THEN gap ELSE -gap
    BY <1>1, <1>3, MaxOfTwo
  <1>5. 5 * gap \in 1 - total..total - 1 \/ gap = 0 => Contested(b)
    BY <1>1, <1>2, <1>4
  <1> QED
    BY <1>5 DEF gap, total

\* An edge that pays for a proposal pays for an order no larger: the order's own
\* impact is no greater.
LEMMA SmallerIsCheaper ==
    ASSUME NEW edge \in Nat, NEW adv \in Nat, NEW size \in Nat, NEW less \in Nat, less <= size,
           EdgeCovers(edge, size, adv)
    PROVE  EdgeCovers(edge, less, adv)
  <1>1. Nav * less \in Nat /\ Nav * size \in Nat /\ Nav * less <= Nav * size
    <2>1. Nav \in Nat
      BY DecisionAssumption
    <2>2. \A n, a, b \in Nat : a <= b => n * a \in Nat /\ n * b \in Nat /\ n * a <= n * b
      OBVIOUS
    <2> QED
      BY <2>1, <2>2
  <1>2. \A a, b \in Nat : a <= b => /\ a \div 1000000 \in Nat /\ b \div 1000000 \in Nat
                                    /\ a \div 1000000 <= b \div 1000000
    OBVIOUS
  <1>3. /\ Notional(less) = (Nav * less) \div 1000000
        /\ Notional(size) = (Nav * size) \div 1000000
    BY DEF Notional, Percent
  <1>4. Notional(less) \in Nat /\ Notional(size) \in Nat /\ Notional(less) <= Notional(size)
    BY <1>1, <1>2, <1>3
  <1>5. /\ EdgeMultiple * EdgeMultiple * ImpactSquared(less) = 22500 * Notional(less)
        /\ EdgeMultiple * EdgeMultiple * ImpactSquared(size) = 22500 * Notional(size)
    BY <1>4 DEF EdgeMultiple, ImpactSquared, Eta
  <1> DEFINE rest == edge - EdgeMultiple * 2 * HalfSpreadBps
             pays == rest * rest * adv * 1000000
  <1>6. pays \in Int
    <2>1. rest \in Int
      BY DEF EdgeMultiple, HalfSpreadBps
    <2> HIDE DEF rest
    <2> QED
      BY <2>1
  <1>7. \A s : EdgeCovers(edge, s, adv) <=>
                   /\ adv > 0 /\ edge >= EdgeMultiple * FloorBps /\ rest >= 0
                   /\ pays >= EdgeMultiple * EdgeMultiple * ImpactSquared(s)
    BY DEF EdgeCovers
  <1> HIDE DEF pays, rest
  <1>8. pays >= 22500 * Notional(size)
    BY <1>5, <1>7
  <1>9. pays >= 22500 * Notional(less)
    BY <1>4, <1>6, <1>8
  <1> QED
    BY <1>5, <1>7, <1>9

-----------------------------------------------------------------------------
(* The theorems.                                                           *)

\* What the steps have checked holds in every state.
THEOREM DecisionInvariant == Spec => []IInv
  BY InitIInv, StepIInv, PTL DEF Spec

\* Whatever the manifest, the replies and the books, the candidate's state is what
\* one of its steps has left: a closing statement in each turn of the last round
\* and nowhere else, ballots of voters only, log entries of candidates there were.
THEOREM TypeCorrect == Spec => []TypeOK
  <1>1. IInv => TypeOK
    BY DEF IInv
  <1> QED
    BY <1>1, DecisionInvariant, PTL

\* An order stands at the end of a whole chain: a memo, a debate of all its rounds
\* in which no position contradicts the agent id it bears and the other checks find
\* nothing, a judge of neither debater's family, every ballot; and it is its
\* candidate's only one.
THEOREM OrdersAreEarned == Spec => []OrderIsEarned
  <1>1. ASSUME IInv, Placed
        PROVE  /\ memos # {}
               /\ turns = 2 * Rounds /\ closings = 2
               /\ marks = {"attack"}
    <2>1. turns = 2 * Rounds /\ DebateStands /\ turns > 0
      BY <1>1, DecisionAssumption DEF Placed, IInv, DebateWhole, Debated
    <2>2. memos # {}
      BY <1>1, <2>1 DEF IInv, DebateWhole
    <2>3. closings = 2
      <3>1. turns \in Nat /\ turns > 2 * (Rounds - 1) /\ turns - 2 * (Rounds - 1) = 2
        BY <2>1, DecisionAssumption
      <3> QED
        BY <1>1, <3>1, ClosingsAt DEF IInv, TypeOK
    <2>4. marks = {"attack"}
      <3>1. marks \subseteq {"stray", "flip", "empty", "echo", "closing", "attack"}
        BY <1>1 DEF IInv, TypeOK
      <3> QED
        BY <2>1, <3>1 DEF DebateStands
    <2> QED
      BY <2>1, <2>2, <2>3, <2>4
  <1>2. ASSUME IInv, Placed
        PROVE  roster.bull # roster.bear /\ judge \notin {0, roster.bull, roster.bear}
    <2>1. roster.bull # roster.bear /\ roster \in Rosters
      BY <1>2 DEF Placed, IInv, TypeOK, Running, Preflight, DistinctDebaters
    <2>2. judge # 0 /\ judge = JudgeFamilyFor(roster.bull, roster.bear, roster.available)
      BY <1>2 DEF Placed, IInv, JudgeNamed, Ruled
    <2> QED
      BY <2>1, <2>2, JudgeIsDisjoint
  <1>3. ASSUME IInv, Placed
        PROVE  /\ DOMAIN ballots = Range(Voters)
               /\ Order.dir = proposal.dir
               /\ \A k \in DOMAIN log : log[k].kind = "modeled_order" /\ log[k].of = decided
                      => k = Len(log)
    BY <1>3 DEF Placed, Order, Last, IInv, BallotsInOrder, Balloted, OrderKept, OneOrder
  <1>4. IInv => OrderIsEarned
    BY <1>1, <1>2, <1>3 DEF OrderIsEarned
  <1> QED
    BY <1>4, DecisionInvariant, PTL

\* Every doubt takes its share off the size of the PM's conviction: the contested
\* ballot, the unresolved crux, the gate; and the edge still pays for the cost.
THEOREM SizesAreWithinPolicy == Spec => []SizeWithinPolicy
  <1>1. ASSUME IInv, Placed
        PROVE  SizeWithinPolicy
    <2> DEFINE gap == Score(ballots, "long") - Score(ballots, "short")
               total == TotalCast(ballots)
               slim == 5 * gap \in 1 - total..total - 1 \/ gap = 0
               full == ConvictionSize(proposal.conviction)
    <2>1. ContestedCap = 5000
      BY DEF ContestedCap, Percent
    <2>2. slim => Contested(ballots)
      <3>1. DOMAIN ballots = {"FUND-TECH", "BULL-01", "BEAR-01"}
        BY <1>1, Names DEF Placed, IInv, BallotsInOrder, Balloted
      <3>2. IsFiniteSet(DOMAIN ballots)
        <4>1. IsFiniteSet({"FUND-TECH"} \cup {"BULL-01"} \cup {"BEAR-01"})
          BY FS_Singleton, FS_Union
        <4>2. DOMAIN ballots = {"FUND-TECH"} \cup {"BULL-01"} \cup {"BEAR-01"}
          BY <3>1
        <4> QED
          BY <4>1, <4>2
      <3>3. \A v \in DOMAIN ballots : ballots[v] \in Ballot
        BY <1>1 DEF IInv, BallotsInOrder
      <3> QED
        BY <3>2, <3>3, SlimMargin
    <2>3. /\ proposal.size \in Nat /\ full \in Nat
          /\ proposal.size <= full
          /\ Contested(ballots) => proposal.size <= 5000 /\ 2 * proposal.size <= full
          /\ crux => 10 * proposal.size <= 7 * full
          /\ Contested(ballots) /\ crux => 20 * proposal.size <= 7 * full
      BY <1>1, ProposalSized DEF Placed, Proposed
    <2>4. /\ Order.size \in Nat /\ Order.size >= 1 /\ Order.size <= proposal.size
          /\ Order.qty >= 1
      BY <1>1 DEF Placed, Order, Last, IInv, OrderKept
    <2>5. EdgeCovers(proposal.edge, Order.size, proposal.adv)
      <3>1. /\ proposal.edge \in Edges /\ proposal.adv \in Advs
            /\ EdgeCovers(proposal.edge, proposal.size, proposal.adv)
        BY <1>1 DEF Placed, IInv, ProposalKept, Proposed
      <3>2. proposal.edge \in Nat /\ proposal.adv \in Nat
        BY <3>1, DecisionAssumption
      <3> QED
        BY <2>3, <2>4, <3>1, <3>2, SmallerIsCheaper
    <2>6. SizeWithinPolicy <=>
              /\ Order.size \in 1..proposal.size
              /\ proposal.size <= full
              /\ slim => proposal.size <= ContestedCap /\ 2 * proposal.size <= full
              /\ crux => 10 * proposal.size <= 7 * full
              /\ slim /\ crux => 20 * proposal.size <= 7 * full
              /\ Order.qty >= 1
              /\ EdgeCovers(proposal.edge, Order.size, proposal.adv)
      BY <1>1 DEF SizeWithinPolicy
    <2> HIDE DEF slim, full
    <2>7. Order.size \in 1..proposal.size
      BY <2>3, <2>4
    <2> QED
      BY <2>1, <2>2, <2>3, <2>4, <2>5, <2>6, <2>7
  <1>2. IInv => SizeWithinPolicy
    <2>1. ~Placed => SizeWithinPolicy
      BY DEF SizeWithinPolicy
    <2> QED
      BY <1>1, <2>1
  <1> QED
    BY <1>2, DecisionInvariant, PTL

\* An order against the ballot was argued for in writing, and the log says so
\* before it: the proposal, then the override.
THEOREM OverridesAreCounted == Spec => []OverrideCounted
  <1>1. ASSUME IInv, Placed, Order.dir # Winner(ballots)
        PROVE  /\ proposal.rebuttal
               /\ \E i, j \in DOMAIN log :
                     /\ i < j /\ j < Len(log)
                     /\ log[i] = [kind |-> "proposal_written", of |-> decided]
                     /\ log[j] = [kind |-> "pm_override", of |-> decided]
    <2>1. proposal.dir # Winner(ballots)
      BY <1>1 DEF Placed, Order, Last, IInv, OrderKept
    <2>2. proposal.rebuttal
      BY <1>1, <2>1 DEF Placed, IInv, ProposalKept, Proposed
    <2>3. /\ Len(log) >= 3
          /\ log[Len(log) - 2] = [kind |-> "proposal_written", of |-> decided]
          /\ log[Len(log) - 1] = [kind |-> "pm_override", of |-> decided]
      BY <1>1, <2>1 DEF Placed, IInv, OnRecord, Written, Overridden
    <2>4. Len(log) \in Nat /\ DOMAIN log = 1..Len(log)
      BY <1>1 DEF IInv, LogTyped
    <2>5. /\ Len(log) - 2 \in DOMAIN log /\ Len(log) - 1 \in DOMAIN log
          /\ Len(log) - 2 < Len(log) - 1 /\ Len(log) - 1 < Len(log)
      BY <2>3, <2>4
    <2> QED
      BY <2>2, <2>3, <2>5
  <1>2. IInv => OverrideCounted
    BY <1>1 DEF OverrideCounted
  <1> QED
    BY <1>2, DecisionInvariant, PTL

=============================================================================
