-------------------------- MODULE DailyCycleProofs --------------------------
(***************************************************************************)
(* For every cap, envelope, cost and number of candidates: the daily cycle *)
(* is type correct, its spend stays within the bounds the governor's       *)
(* refusals leave, and its candidates are all accounted for.               *)
(*                                                                         *)
(* None of the bounds is inductive.  A stage that crosses a cap is refused *)
(* nothing by the bound itself but by the stop flag it sets, so the        *)
(* invariant says how far the spend may be in each state of the flag; and  *)
(* the envelopes bound what comes after the check, so it keeps what the    *)
(* check has seen.                                                         *)
(***************************************************************************)
EXTENDS DailyCycle, SumTheorems

\* The artifacts are a function over finitely many sessions.
ArtifactsFinite == IsFiniteSet(DOMAIN artifacts)

\* No run: what the process held in memory is gone.
IdleIsClear ==
    pc = "idle" =>
        /\ begun = 0 /\ offered = 0 /\ decisions = <<>>
        /\ gov = NewGovernor(0) /\ before = 0 /\ paid = 0

RunHasSession == pc # "idle" => session \in Days

\* Every candidate that was begun has an entry, but for the one in hand.
OneInHand ==
    /\ pc = "next" => Len(decisions) = begun
    /\ pc = "stage" => Len(decisions) + 1 = begun

\* The spend is below each cap by no more than `extra' too much; a week that
\* began beyond its cap has `extra' in all.
WithinBy(extra) ==
    /\ gov.day < DayCap + extra
    /\ gov.prior < WeekCap => gov.prior + gov.day < WeekCap + extra
    /\ gov.prior >= WeekCap => gov.day <= extra

\* The stop flag is set by the charge that reaches a cap.
RunningIsBelowCaps == ~gov.stopped => WithinBy(0)

\* TECH-01's memo, which the stop does not refuse, follows one charge at most.
OneChargeBeforeTech == pc = "stage" /\ stage = 2 => WithinBy(MaxCost)

\* What the check of the second candidate has seen.
RoomForSecond == begun = 2 => before + CandidateEnvelope <= DayCap

\* What the check of the shadow votes has seen; they are cast once.
RoomForShadows ==
    gov.shadow > 0 => pc = "write" /\ gov.day - gov.shadow + ShadowEnvelope <= DayCap

IInv ==
    /\ TypeOK
    /\ ArtifactsFinite
    /\ IdleIsClear
    /\ RunHasSession
    /\ OneInHand
    /\ CandidatesAccounted
    /\ RunningIsBelowCaps
    /\ OneChargeBeforeTech
    /\ OvershootBounded
    /\ RoomForSecond
    /\ RoomForShadows

-----------------------------------------------------------------------------

\* Every cost is a positive number, the greatest of them MaxCost.
LEMMA CostBound ==
    /\ MaxCost \in Nat
    /\ \A cost \in Costs : cost \in Nat /\ cost <= MaxCost
  <1>1. IsFiniteSet(Costs) /\ Costs # {} /\ Costs \subseteq Int
    BY DailyCycleAssumption
  <1>2. Max(Costs) \in Costs /\ \A x \in Costs : x <= Max(Costs)
    BY <1>1, MaxIsMax
  <1> QED
    BY <1>2, DailyCycleAssumption DEF MaxCost

\* What the week has cost so far is a natural number.
LEMMA PriorWeekSpendType == TypeOK /\ ArtifactsFinite => PriorWeekSpend \in Nat
  <1> SUFFICES ASSUME TypeOK, ArtifactsFinite
               PROVE  PriorWeekSpend \in Nat
    OBVIOUS
  <1>1. PriorWeekSpend = SumOver(artifacts, DOMAIN artifacts)
    BY DEF PriorWeekSpend, SumOver
  <1>2. IsFiniteSet(DOMAIN artifacts) /\ \A s \in DOMAIN artifacts : artifacts[s] \in Nat
    BY DEF TypeOK, ArtifactsFinite
  <1> QED
    BY <1>1, <1>2, SumNat

\* An artifact is written.
LEMMA ArtifactWritten ==
    ASSUME TypeOK, ArtifactsFinite, NEW s \in Days, NEW spend \in Nat,
           artifacts' = WithArtifact(s, spend)
    PROVE  /\ DOMAIN artifacts' \subseteq Days
           /\ \A d \in DOMAIN artifacts' : artifacts'[d] \in Nat
           /\ IsFiniteSet(DOMAIN artifacts')
  <1>1. /\ DOMAIN artifacts' = DOMAIN artifacts \cup {s}
        /\ \A d \in DOMAIN artifacts' : artifacts'[d] = IF d = s THEN spend ELSE artifacts[d]
    BY DEF WithArtifact
  <1>2. IsFiniteSet(DOMAIN artifacts \cup {s})
    BY FS_AddElement DEF ArtifactsFinite
  <1> QED
    BY <1>1, <1>2 DEF TypeOK

\* What a charge does to the governor.
LEMMA ChargeEffect ==
    ASSUME TypeOK, NEW cost \in Nat, NEW isShadow \in BOOLEAN, gov' = Charge(gov, cost, isShadow)
    PROVE  /\ gov' \in [prior : Nat, day : Nat, shadow : Nat, stopped : BOOLEAN]
           /\ gov'.prior = gov.prior /\ gov'.day = gov.day + cost
           /\ gov'.shadow = IF isShadow THEN gov.shadow + cost ELSE gov.shadow
           /\ ~gov'.stopped => /\ ~gov.stopped
                               /\ gov'.day < DayCap /\ gov'.prior + gov'.day < WeekCap
  <1>1. gov \in [prior : Nat, day : Nat, shadow : Nat, stopped : BOOLEAN]
    BY DEF TypeOK
  <1>2. DayCap \in Nat /\ WeekCap \in Nat
    BY DailyCycleAssumption
  <1> DEFINE stop == gov.stopped \/ gov.day + cost >= DayCap \/ gov.prior + gov.day + cost >= WeekCap
  <1>3. gov' = [gov EXCEPT !.day = @ + cost,
                           !.shadow = IF isShadow THEN @ + cost ELSE @,
                           !.stopped = stop]
    BY DEF Charge
  <1>4. stop \in BOOLEAN /\ (~stop => /\ ~gov.stopped /\ gov.day + cost < DayCap
                                      /\ gov.prior + gov.day + cost < WeekCap)
    BY <1>1, <1>2
  <1>5. gov.day + cost \in Nat /\ (IF isShadow THEN gov.shadow + cost ELSE gov.shadow) \in Nat
    BY <1>1
  <1> HIDE DEF stop
  <1>6. /\ gov' \in [prior : Nat, day : Nat, shadow : Nat, stopped : BOOLEAN]
        /\ gov'.prior = gov.prior /\ gov'.day = gov.day + cost
        /\ gov'.shadow = IF isShadow THEN gov.shadow + cost ELSE gov.shadow
        /\ gov'.stopped = stop
    BY <1>1, <1>3, <1>4, <1>5
  <1>7. ASSUME ~gov'.stopped
        PROVE  ~gov.stopped /\ gov'.day < DayCap /\ gov'.prior + gov'.day < WeekCap
    <2>1. ~stop
      BY <1>6, <1>7, Zenon
    <2>2. /\ ~gov.stopped /\ gov.day + cost < DayCap
          /\ gov.prior + gov.day + cost < WeekCap
      BY <1>4, <2>1, Zenon
    <2>3. gov'.prior + gov'.day = gov.prior + gov.day + cost
      BY <1>1, <1>6
    <2> QED
      BY <1>6, <2>2, <2>3, Zenon
  <1> QED
    BY <1>6, <1>7

\* A charge of one cost moves the bounds by that cost.
LEMMA ChargeBound ==
    ASSUME TypeOK, NEW cost \in Costs, NEW isShadow \in BOOLEAN,
           gov' = Charge(gov, cost, isShadow), NEW extra \in Nat, WithinBy(extra)
    PROVE  WithinBy(extra + MaxCost)' /\ RunningIsBelowCaps'
  <1>1. cost \in Nat /\ cost <= MaxCost /\ MaxCost \in Nat /\ DayCap \in Nat /\ WeekCap \in Nat
    BY CostBound, DailyCycleAssumption
  <1>2. gov.day \in Nat /\ gov.prior \in Nat
    BY DEF TypeOK
  <1> QED
    BY <1>1, <1>2, ChargeEffect DEF WithinBy, RunningIsBelowCaps

\* A fresh process.
LEMMA InitIInv == Init => IInv
  <1> SUFFICES ASSUME Init
               PROVE  IInv
    OBVIOUS
  <1>1. ArtifactsFinite
    BY FS_EmptySet DEF Init, ArtifactsFinite
  <1>2. MaxCost \in Nat
    BY CostBound
  <1> QED
    BY <1>1, <1>2, DailyCycleAssumption
       DEF Init, IInv, TypeOK, IdleIsClear, RunHasSession, OneInHand, CandidatesAccounted,
           RunningIsBelowCaps, OneChargeBeforeTech, OvershootBounded, RoomForSecond,
           RoomForShadows, WithinBy, NewGovernor, Decided, Stages

\* A run begins with nothing charged and no candidate begun.
LEMMA StartStep ==
    ASSUME IInv, Start
    PROVE  IInv'
  <1>1. PriorWeekSpend \in Nat
    BY PriorWeekSpendType DEF IInv
  <1>2. /\ begun = 0 /\ decisions = <<>> /\ before = 0 /\ paid = 0
        /\ pc' = "next" /\ gov' = NewGovernor(PriorWeekSpend)
        /\ session' \in Days /\ offered' \in 0..Candidates /\ runs' = runs + 1 /\ runs < MaxRuns
        /\ UNCHANGED <<artifacts, begun, stage, decisions, events, before, paid>>
    BY DEF Start, IInv, IdleIsClear
  <1>3. /\ gov' \in [prior : Nat, day : Nat, shadow : Nat, stopped : BOOLEAN]
        /\ gov'.day = 0 /\ gov'.shadow = 0
    BY <1>1, <1>2 DEF NewGovernor
  <1>4. TypeOK'
    BY <1>2, <1>3, DailyCycleAssumption DEF IInv, TypeOK
  <1>5. WithinBy(0)' /\ OvershootBounded'
    BY <1>3, CostBound, DailyCycleAssumption DEF WithinBy, OvershootBounded
  <1>6. OneInHand' /\ CandidatesAccounted' /\ IdleIsClear' /\ RunHasSession'
    BY <1>2 DEF OneInHand, CandidatesAccounted, IdleIsClear, RunHasSession
  <1>7. OneChargeBeforeTech' /\ RoomForSecond' /\ RoomForShadows' /\ ArtifactsFinite'
    BY <1>2, <1>3 DEF IInv, OneChargeBeforeTech, RoomForSecond, RoomForShadows, ArtifactsFinite
  <1> QED
    BY <1>4, <1>5, <1>6, <1>7 DEF IInv, RunningIsBelowCaps

\* A day without a session writes its artifact and stays idle.
LEMMA EndEarlyStep ==
    ASSUME IInv, EndEarly
    PROVE  IInv'
  <1>1. PICK s \in Days : artifacts' = WithArtifact(s, 0)
    BY DEF EndEarly
  <1>2. TypeOK' /\ ArtifactsFinite'
    <2>1. /\ DOMAIN artifacts' \subseteq Days
          /\ \A d \in DOMAIN artifacts' : artifacts'[d] \in Nat
          /\ IsFiniteSet(DOMAIN artifacts')
      BY <1>1, ArtifactWritten DEF IInv
    <2> QED
      BY <2>1, DailyCycleAssumption DEF EndEarly, IInv, TypeOK, ArtifactsFinite
  <1> QED
    BY <1>2 DEF EndEarly, IInv, IdleIsClear, RunHasSession, OneInHand, CandidatesAccounted,
                RunningIsBelowCaps, OneChargeBeforeTech, OvershootBounded, RoomForSecond,
                RoomForShadows, WithinBy

\* A candidate is begun; for the second the check leaves its room behind.
LEMMA BeginStep ==
    ASSUME IInv, BeginCandidate
    PROVE  IInv'
  <1>1. TypeOK'
    BY DEF BeginCandidate, progress, IInv, TypeOK, Decided, Stages
  <1>2. RoomForSecond'
    BY DEF BeginCandidate, AllowSecondCandidate, IInv, TypeOK, RoomForSecond
  <1>3. OneInHand' /\ CandidatesAccounted' /\ IdleIsClear' /\ RunHasSession'
    BY DEF BeginCandidate, progress, IInv, TypeOK, OneInHand, CandidatesAccounted, IdleIsClear,
           RunHasSession
  <1>4. /\ ArtifactsFinite' /\ RunningIsBelowCaps' /\ OneChargeBeforeTech' /\ OvershootBounded'
        /\ RoomForShadows'
    BY DEF BeginCandidate, IInv, ArtifactsFinite, RunningIsBelowCaps, OneChargeBeforeTech,
           OvershootBounded, RoomForShadows, WithinBy
  <1> QED
    BY <1>1, <1>2, <1>3, <1>4 DEF IInv

\* The loop over the candidates ends: with all of them, or with a budget event.
LEMMA LeaveLoopStep ==
    ASSUME IInv, DropSecondCandidate \/ NoMoreCandidates \/ StopOnBudget
    PROVE  IInv'
  <1>1. /\ pc' = "shadows" /\ pc # "idle" /\ pc # "write"
        /\ UNCHANGED <<artifacts, runs, session, offered, begun, stage, gov, decisions, before, paid>>
    BY DEF DropSecondCandidate, NoMoreCandidates, StopOnBudget, progress
  <1>2. TypeOK'
    BY <1>1 DEF DropSecondCandidate, NoMoreCandidates, StopOnBudget, IInv, TypeOK
  <1>3. CandidatesAccounted'
    BY DEF DropSecondCandidate, NoMoreCandidates, StopOnBudget, progress, IInv, OneInHand,
           CandidatesAccounted
  <1>4. OneInHand' /\ IdleIsClear' /\ RunHasSession' /\ RoomForSecond' /\ RoomForShadows'
    BY <1>1 DEF IInv, OneInHand, IdleIsClear, RunHasSession, RoomForSecond, RoomForShadows
  <1>5. ArtifactsFinite' /\ RunningIsBelowCaps' /\ OneChargeBeforeTech' /\ OvershootBounded'
    BY <1>1 DEF IInv, ArtifactsFinite, RunningIsBelowCaps, OneChargeBeforeTech,
                OvershootBounded, WithinBy
  <1> QED
    BY <1>2, <1>3, <1>4, <1>5 DEF IInv

\* A stage is charged.  It ran below the caps, or it is TECH-01's memo after the
\* one charge that reached them.
LEMMA RunStageStep ==
    ASSUME IInv, NEW cost \in Costs, RunStage(cost)
    PROVE  IInv'
  <1>1. /\ cost \in Nat /\ MaxCost \in Nat
        /\ gov.day \in Nat /\ gov.prior \in Nat /\ gov.shadow \in Nat
        /\ paid \in Nat /\ gov.day <= paid /\ paid' = paid + cost
    BY CostBound DEF RunStage, IInv, TypeOK
  <1>2. /\ gov' \in [prior : Nat, day : Nat, shadow : Nat, stopped : BOOLEAN]
        /\ gov'.prior = gov.prior /\ gov'.day = gov.day + cost /\ gov'.shadow = gov.shadow
    <2>1. gov' = Charge(gov, cost, FALSE) /\ TypeOK
      BY DEF RunStage, IInv
    <2> QED
      BY <1>1, <2>1, ChargeEffect
  <1>3. stage \in 1..6 /\ (gov.stopped => stage = 2)
    BY DEF RunStage, MayRun, IInv, TypeOK, Decided, Stages
  <1>4. TypeOK'
    <2>1. paid' \in Nat /\ gov'.day <= paid'
      BY <1>1, <1>2
    <2>2. stage' \in 1..Decided
      BY <1>3 DEF RunStage, Decided, Stages
    <2> QED
      BY <1>2, <2>1, <2>2 DEF RunStage, progress, IInv, TypeOK
  <1>5. RunningIsBelowCaps' /\ OneChargeBeforeTech' /\ OvershootBounded'
    <2>1. CASE ~gov.stopped
      <3>1. WithinBy(0 + MaxCost)' /\ RunningIsBelowCaps'
        BY <1>1, <2>1, ChargeBound DEF RunStage, IInv, RunningIsBelowCaps
      <3>2. WithinBy(MaxCost)'
        BY <1>1, <3>1
      <3>3. OvershootBounded'
        BY <1>1, <1>2, <3>2, DailyCycleAssumption DEF WithinBy, OvershootBounded
      <3> QED
        BY <3>1, <3>2, <3>3 DEF OneChargeBeforeTech
    <2>2. CASE gov.stopped
      <3>1. WithinBy(MaxCost)
        BY <1>3, <2>2 DEF RunStage, IInv, OneChargeBeforeTech
      <3>2. WithinBy(MaxCost + MaxCost)' /\ RunningIsBelowCaps'
        BY <1>1, <3>1, ChargeBound DEF RunStage, IInv
      <3>3. OvershootBounded'
        BY <1>1, <3>2 DEF WithinBy, OvershootBounded
      <3>4. stage' = 3
        BY <1>3, <2>2 DEF RunStage
      <3> QED
        BY <3>2, <3>3, <3>4 DEF OneChargeBeforeTech
    <2> QED
      BY <2>1, <2>2
  <1>6. RoomForSecond' /\ RoomForShadows'
    BY <1>2 DEF RunStage, IInv, RoomForSecond, RoomForShadows
  <1>7. OneInHand' /\ CandidatesAccounted' /\ IdleIsClear' /\ RunHasSession' /\ ArtifactsFinite'
    BY DEF RunStage, progress, IInv, OneInHand, CandidatesAccounted, IdleIsClear, RunHasSession,
           ArtifactsFinite
  <1> QED
    BY <1>4, <1>5, <1>6, <1>7 DEF IInv

\* A candidate comes to its end, with its decision or with its failure.
LEMMA CandidateEndStep ==
    ASSUME IInv, RecordDecision \/ \E cost \in Costs \cup {0} : FailCandidate(cost)
    PROVE  IInv'
  <1>1. /\ pc = "stage" /\ pc' = "next"
        /\ \E d \in {"ok", "error"} : decisions' = Append(decisions, d)
        /\ \E cost \in Costs \cup {0} : paid' = paid + cost
        /\ UNCHANGED <<artifacts, runs, session, offered, begun, stage, gov, events, before>>
    <2>1. RecordDecision => paid' = paid + 0
      BY DEF RecordDecision, IInv, TypeOK
    <2> QED
      BY <2>1 DEF RecordDecision, FailCandidate, progress
  <1>2. TypeOK'
    BY <1>1, CostBound DEF IInv, TypeOK
  <1>3. OneInHand'
    BY <1>1 DEF IInv, TypeOK, OneInHand
  <1>4. CandidatesAccounted' /\ IdleIsClear' /\ RunHasSession' /\ RoomForSecond' /\ RoomForShadows'
    BY <1>1 DEF IInv, CandidatesAccounted, IdleIsClear, RunHasSession, RoomForSecond, RoomForShadows
  <1>5. ArtifactsFinite' /\ RunningIsBelowCaps' /\ OneChargeBeforeTech' /\ OvershootBounded'
    BY <1>1 DEF IInv, ArtifactsFinite, RunningIsBelowCaps, OneChargeBeforeTech,
                OvershootBounded, WithinBy
  <1> QED
    BY <1>2, <1>3, <1>4, <1>5 DEF IInv

\* The shadow votes are charged, once, with their envelope's room below the cap.
LEMMA CastShadowsStep ==
    ASSUME IInv, NEW cost \in Costs, CastShadows(cost)
    PROVE  IInv'
  <1>1. /\ cost \in Nat /\ MaxCost \in Nat
        /\ gov.day \in Nat /\ gov.prior \in Nat /\ gov.shadow \in Nat
        /\ paid \in Nat /\ gov.day <= paid /\ paid' = paid + cost
    BY CostBound DEF CastShadows, IInv, TypeOK
  <1>2. /\ gov' \in [prior : Nat, day : Nat, shadow : Nat, stopped : BOOLEAN]
        /\ gov'.prior = gov.prior /\ gov'.day = gov.day + cost /\ gov'.shadow = gov.shadow + cost
    <2>1. gov' = Charge(gov, cost, TRUE) /\ TypeOK
      BY DEF CastShadows, IInv
    <2> QED
      BY <1>1, <2>1, ChargeEffect
  <1>3. TypeOK'
    <2>1. paid' \in Nat /\ gov'.day <= paid'
      BY <1>1, <1>2
    <2> QED
      BY <1>2, <2>1 DEF CastShadows, progress, IInv, TypeOK
  <1>4. WithinBy(0 + MaxCost)' /\ RunningIsBelowCaps'
    BY <1>1, ChargeBound DEF CastShadows, AllowShadows, IInv, RunningIsBelowCaps
  <1>5. OvershootBounded'
    BY <1>1, <1>2, <1>4, DailyCycleAssumption DEF WithinBy, OvershootBounded
  <1>6. RoomForShadows'
    <2>1. gov.day + ShadowEnvelope <= DayCap /\ pc = "shadows" /\ pc' = "write"
      BY DEF CastShadows, AllowShadows
    <2>2. gov.shadow = 0
      BY <1>1, <2>1 DEF IInv, RoomForShadows
    <2> QED
      BY <1>1, <1>2, <2>1, <2>2, DailyCycleAssumption DEF RoomForShadows
  <1>7. RoomForSecond' /\ OneChargeBeforeTech'
    BY DEF CastShadows, IInv, RoomForSecond, OneChargeBeforeTech
  <1>8. OneInHand' /\ CandidatesAccounted' /\ IdleIsClear' /\ RunHasSession' /\ ArtifactsFinite'
    BY DEF CastShadows, progress, IInv, OneInHand, CandidatesAccounted, IdleIsClear,
           RunHasSession, ArtifactsFinite
  <1> QED
    BY <1>3, <1>4, <1>5, <1>6, <1>7, <1>8 DEF IInv

\* The shadow votes are skipped, or raise.
LEMMA NoShadowsStep ==
    ASSUME IInv, SkipShadows \/ \E cost \in Costs \cup {0} : NoShadows(cost)
    PROVE  IInv'
  <1>1. /\ pc = "shadows" /\ pc' = "write"
        /\ \E cost \in Costs \cup {0} : paid' = paid + cost
        /\ \E new \in SUBSET {"shadow_skipped_budget"} : events' = events \cup new
        /\ UNCHANGED <<artifacts, runs, session, offered, begun, stage, gov, decisions, before>>
    <2>1. SkipShadows => paid' = paid + 0
      BY DEF SkipShadows, IInv, TypeOK
    <2>2. SkipShadows => events' = events \cup {"shadow_skipped_budget"}
      BY DEF SkipShadows
    <2>3. (\E cost \in Costs \cup {0} : NoShadows(cost)) => events' = events \cup {}
      BY DEF NoShadows
    <2> QED
      BY <2>1, <2>2, <2>3 DEF SkipShadows, NoShadows, progress
  <1>2. TypeOK'
    BY <1>1, CostBound DEF IInv, TypeOK
  <1>3. CandidatesAccounted'
    BY <1>1 DEF IInv, CandidatesAccounted
  <1>4. OneInHand' /\ IdleIsClear' /\ RunHasSession' /\ RoomForSecond' /\ RoomForShadows'
    BY <1>1 DEF IInv, OneInHand, IdleIsClear, RunHasSession, RoomForSecond, RoomForShadows
  <1>5. ArtifactsFinite' /\ RunningIsBelowCaps' /\ OneChargeBeforeTech' /\ OvershootBounded'
    BY <1>1 DEF IInv, ArtifactsFinite, RunningIsBelowCaps, OneChargeBeforeTech,
                OvershootBounded, WithinBy
  <1> QED
    BY <1>2, <1>3, <1>4, <1>5 DEF IInv

\* The run ends, with its artifact or without.
LEMMA ExitStep ==
    ASSUME IInv, WriteArtifact \/ Kill
    PROVE  IInv'
  <1>1. Exit /\ UNCHANGED runs
    BY DEF WriteArtifact, Kill
  <1>2. /\ DOMAIN artifacts' \subseteq Days
        /\ \A s \in DOMAIN artifacts' : artifacts'[s] \in Nat
        /\ IsFiniteSet(DOMAIN artifacts')
    <2>1. CASE WriteArtifact
      <3>1. session \in Days /\ gov.day \in Nat
        BY <2>1 DEF WriteArtifact, IInv, RunHasSession, TypeOK
      <3> QED
        BY <2>1, <3>1, ArtifactWritten DEF WriteArtifact, IInv
    <2>2. CASE Kill
      BY <2>2 DEF Kill, IInv, TypeOK, ArtifactsFinite
    <2> QED
      BY <2>1, <2>2
  <1>3. gov' \in [prior : Nat, day : Nat, shadow : Nat, stopped : BOOLEAN]
    BY <1>1 DEF Exit, NewGovernor
  <1>4. TypeOK' /\ ArtifactsFinite'
    BY <1>1, <1>2, <1>3, DailyCycleAssumption
       DEF Exit, NewGovernor, IInv, TypeOK, ArtifactsFinite, Decided, Stages
  <1>5. WithinBy(0)' /\ OvershootBounded'
    BY <1>1, CostBound, DailyCycleAssumption DEF Exit, NewGovernor, WithinBy, OvershootBounded
  <1> QED
    BY <1>1, <1>4, <1>5
       DEF Exit, NewGovernor, IInv, IdleIsClear, RunHasSession, OneInHand, CandidatesAccounted,
           RunningIsBelowCaps, OneChargeBeforeTech, RoomForSecond, RoomForShadows

\* Every step of the daily cycle, a stutter included.
LEMMA StepIInv == IInv /\ [Next]_vars => IInv'
  <1> SUFFICES ASSUME IInv, [Next]_vars
               PROVE  IInv'
    OBVIOUS
  <1>1. CASE UNCHANGED vars
    BY <1>1 DEF vars, IInv, TypeOK, ArtifactsFinite, IdleIsClear, RunHasSession, OneInHand,
                CandidatesAccounted, RunningIsBelowCaps, OneChargeBeforeTech, OvershootBounded,
                RoomForSecond, RoomForShadows, WithinBy
  <1>2. CASE Next
    BY <1>2, StartStep, EndEarlyStep, BeginStep, LeaveLoopStep, RunStageStep, CandidateEndStep,
       CastShadowsStep, NoShadowsStep, ExitStep DEF Next, Work
  <1> QED
    BY <1>1, <1>2

\* The inductive invariant holds in every reachable state.
THEOREM DailyCycleInvariant == Spec => []IInv
  <1>1. Init => IInv
    BY InitIInv
  <1>2. IInv /\ [Next]_vars => IInv'
    BY StepIInv
  <1> QED
    BY <1>1, <1>2, PTL DEF Spec

\* Every variable of the cycle keeps its type, and the governor never charges
\* more than was paid.
THEOREM TypeCorrect == Spec => []TypeOK
  BY DailyCycleInvariant, PTL DEF IInv

\* Whatever the stages cost, the spend the governor knows of stays below a cap
\* plus two stages.
THEOREM OvershootIsBounded == Spec => []OvershootBounded
  BY DailyCycleInvariant, PTL DEF IInv

\* Every name of the screen has an entry, or a budget event says it was dropped.
THEOREM AllAccounted == Spec => []CandidatesAccounted
  BY DailyCycleInvariant, PTL DEF IInv

\* A second candidate that keeps to its envelope keeps the day within its cap.
THEOREM SecondKeepsCap == Spec => []EnvelopeKeepsCap
  <1>1. IInv => EnvelopeKeepsCap
    BY DailyCycleAssumption DEF IInv, TypeOK, RoomForSecond, EnvelopeKeepsCap
  <1> QED
    BY <1>1, DailyCycleInvariant, PTL

\* Shadow votes that keep to their envelope keep the day within its cap.
THEOREM ShadowsAreWithinCap == Spec => []ShadowsKeepCap
  <1>1. IInv => ShadowsKeepCap
    BY DailyCycleAssumption DEF IInv, TypeOK, RoomForShadows, ShadowsKeepCap
  <1> QED
    BY <1>1, DailyCycleInvariant, PTL

=============================================================================
