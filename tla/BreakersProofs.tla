--------------------------- MODULE BreakersProofs ---------------------------
(***************************************************************************)
(* For every set of NAVs and every choice of thresholds: the breakers are  *)
(* type correct, halt is left by a human alone, the high-water mark never  *)
(* falls, and normal is reached only through clean sessions.               *)
(*                                                                         *)
(* The properties speak of the snapshot; the machine a cycle carries       *)
(* between Restore and Persist is what can break them.  LiveNotLooser      *)
(* relates the two, whatever a human does to the snapshot meanwhile, and   *)
(* CountKept relates both to the history variable: the count a machine     *)
(* keeps of its clean sessions is the true one.                            *)
(***************************************************************************)
EXTENDS Breakers, TLAPS

Recovering == {"derisk", "cooldown"}

\* The machine of the running cycle measures drawdown from no lower a mark than
\* the snapshot, and is halted when the snapshot is.
LiveNotLooser ==
    step # "idle" =>
        /\ live.hwm >= Restored.hwm
        /\ Restored.state = "halt" => live.state = "halt"

\* A recovering snapshot has counted the true number of clean sessions, which
\* are not enough yet, and a halted one none; the machine of the cycle has
\* counted the same before its tick, and the session of the tick after it.
CountKept ==
    /\ Restored.state \in Recovering => Restored.clean = quiet /\ quiet < CooldownSessions
    /\ Restored.state = "halt" => quiet = 0
    /\ step = "restored" =>
          /\ live.state \in Recovering => live.clean = quiet /\ quiet < CooldownSessions
          /\ live.state = "normal" => Restored.state = "normal"
    /\ step = "ticked" =>
          /\ live.state \in Recovering =>
                /\ live.clean = IF Down(live, nav, FundDerisk) THEN 0 ELSE quiet + 1
                /\ live.clean < CooldownSessions
          /\ live.state = "normal" /\ Restored.state # "normal" =>
                ~Down(live, nav, FundDerisk) /\ quiet + 1 >= CooldownSessions

IInv ==
    /\ TypeOK
    /\ LiveNotLooser
    /\ CountKept
    /\ StateFitsDrawdown

-----------------------------------------------------------------------------
(* What one tick does to a machine.                                        *)

\* The machine a first cycle starts with is well-formed.
LEMMA FreshType == Fresh \in Machines
  BY BreakersAssumption DEF Fresh, Machines, States, Levels

\* So is the machine any cycle restores.
LEMMA RestoredType == TypeOK => Restored \in Machines
  BY FreshType DEF TypeOK, Restored

\* Raising the mark never lowers it and touches neither state nor count.
LEMMA RaiseFacts ==
    ASSUME NEW m \in Machines, NEW n \in Navs
    PROVE  /\ Raise(m, n) \in Machines
           /\ Raise(m, n).hwm >= m.hwm
           /\ Raise(m, n).state = m.state
           /\ Raise(m, n).clean = m.clean
  <1>1. m.hwm \in Nat \ {0} /\ n \in Int /\ {} \in SUBSET Levels
    BY BreakersAssumption DEF Machines
  <1>2. CASE n > m.hwm
    <2>1. n \in Nat \ {0} /\ Raise(m, n) = [m EXCEPT !.hwm = n, !.fired = {}]
      BY <1>1, <1>2 DEF Raise
    <2> DEFINE u == [m EXCEPT !.hwm = n, !.fired = {}]
    <2>2. u.hwm = n /\ u.state = m.state /\ u.clean = m.clean
      BY DEF Machines
    <2>3. u \in Machines
      BY <1>1, <2>1 DEF Machines
    <2> QED
      BY <1>1, <1>2, <2>1, <2>2, <2>3
  <1>3. CASE ~(n > m.hwm)
    BY <1>1, <1>3 DEF Raise
  <1> QED
    BY <1>2, <1>3

\* A drawdown depends on the high-water mark alone.
LEMMA DownByMark ==
    ASSUME NEW m, NEW k, NEW n, NEW threshold, m.hwm = k.hwm
    PROVE  Down(m, n, threshold) <=> Down(k, n, threshold)
  BY DEF Down

\* The derisk rung: the state becomes derisk when the drawdown is deep enough,
\* and nothing changes otherwise.
LEMMA DeriskFacts ==
    ASSUME NEW m \in Machines, NEW n
    PROVE  /\ Derisk(m, n) \in Machines
           /\ Derisk(m, n).hwm = m.hwm
           /\ Down(m, n, FundDerisk) => Derisk(m, n).state = "derisk"
           /\ ~Down(m, n, FundDerisk) => Derisk(m, n) = m
  BY DEF Derisk, Machines, States

\* Firing a pod level changes the set of fired levels alone.
LEMMA FireFacts ==
    ASSUME NEW m \in Machines, NEW n
    PROVE  /\ Fire(m, n) \in Machines
           /\ Fire(m, n).hwm = m.hwm
           /\ Fire(m, n).state = m.state
           /\ Fire(m, n).clean = m.clean
  <1>1. PodLevel(m, n) \subseteq Levels
    BY DEF PodLevel, Levels
  <1> QED
    BY <1>1 DEF Fire, Machines

\* The decay: a breach starts the count again, a clean session adds one, and
\* enough of them lead to normal.
LEMMA DecayFacts ==
    ASSUME NEW m \in Machines, NEW n
    PROVE  /\ Decay(m, n) \in Machines
           /\ Decay(m, n).hwm = m.hwm
           /\ m.state \notin Recovering => Decay(m, n) = m
           /\ m.state \in Recovering /\ Down(m, n, FundDerisk) =>
                 Decay(m, n).state = m.state /\ Decay(m, n).clean = 0
           /\ m.state \in Recovering /\ ~Down(m, n, FundDerisk) =>
                 \/ /\ m.clean + 1 >= CooldownSessions
                    /\ Decay(m, n).state = "normal"
                 \/ /\ m.clean + 1 < CooldownSessions
                    /\ Decay(m, n).state = m.state
                    /\ Decay(m, n).clean = m.clean + 1
  <1> DEFINE stay == [m EXCEPT !.clean = 0]
             done == [m EXCEPT !.state = "normal", !.clean = @ + 1, !.fired = {}]
             more == [m EXCEPT !.clean = @ + 1]
  <1>1. m.clean \in Nat /\ m.clean + 1 \in Nat /\ CooldownSessions \in Nat
    BY BreakersAssumption DEF Machines
  <1>2. stay \in Machines /\ stay.hwm = m.hwm /\ stay.state = m.state /\ stay.clean = 0
    BY DEF Machines
  <1>3. done \in Machines /\ done.hwm = m.hwm /\ done.state = "normal"
    BY <1>1 DEF Machines, States
  <1>4. /\ more \in Machines /\ more.hwm = m.hwm /\ more.state = m.state
        /\ more.clean = m.clean + 1
    BY <1>1 DEF Machines
  <1>5. Decay(m, n) = IF m.state \notin Recovering THEN m
                      ELSE IF Down(m, n, FundDerisk) THEN stay
                      ELSE IF m.clean + 1 >= CooldownSessions THEN done
                      ELSE more
    BY DEF Decay, Recovering
  <1> HIDE DEF stay, done, more
  <1> QED
    BY <1>1, <1>2, <1>3, <1>4, <1>5

\* The whole tick.
LEMMA TickFacts ==
    ASSUME NEW m \in Machines, NEW n \in Navs, NEW t, t = Tick(m, n)
    PROVE  /\ t \in Machines
           /\ t.hwm >= m.hwm
           /\ m.state = "halt" => t.state = "halt"
           /\ m.state # "halt" /\ Down(t, n, FundHalt) => t.state = "halt"
           /\ Down(t, n, FundDerisk) => t.state # "normal" \/ m.state = "halt"
           /\ t.state \in Recovering /\ Down(t, n, FundDerisk) => t.clean = 0
           /\ t.state \in Recovering /\ ~Down(t, n, FundDerisk) =>
                 /\ m.state \in Recovering
                 /\ t.clean = m.clean + 1
                 /\ t.clean < CooldownSessions
           /\ t.state = "normal" /\ m.state # "normal" =>
                 /\ m.state \in Recovering
                 /\ ~Down(t, n, FundDerisk)
                 /\ m.clean + 1 >= CooldownSessions
  <1> DEFINE r == Raise(m, n)
             d == Derisk(r, n)
             f == Fire(d, n)
             c == Decay(f, n)
             h == [r EXCEPT !.state = "halt"]
  <1>1. r \in Machines /\ r.hwm >= m.hwm /\ r.state = m.state /\ r.clean = m.clean
    BY RaiseFacts
  <1>2. /\ d \in Machines /\ d.hwm = r.hwm
        /\ Down(r, n, FundDerisk) => d.state = "derisk"
        /\ ~Down(r, n, FundDerisk) => d = r
    BY <1>1, DeriskFacts
  <1>3. f \in Machines /\ f.hwm = d.hwm /\ f.state = d.state /\ f.clean = d.clean
    BY <1>2, FireFacts
  <1>4. /\ c \in Machines /\ c.hwm = f.hwm
        /\ f.state \notin Recovering => c = f
        /\ f.state \in Recovering /\ Down(f, n, FundDerisk) => c.state = f.state /\ c.clean = 0
        /\ f.state \in Recovering /\ ~Down(f, n, FundDerisk) =>
              \/ f.clean + 1 >= CooldownSessions /\ c.state = "normal"
              \/ f.clean + 1 < CooldownSessions /\ c.state = f.state /\ c.clean = f.clean + 1
    BY <1>3, DecayFacts
  <1>5. h \in Machines /\ h.hwm = r.hwm /\ h.state = "halt"
    BY <1>1 DEF Machines, States
  <1>6. t = IF r.state = "halt" THEN r
            ELSE IF Down(r, n, FundHalt) THEN h
            ELSE c
    BY DEF Tick
  <1> HIDE DEF r, d, f, c, h
  <1>7. t \in Machines /\ t.hwm = r.hwm
    BY <1>1, <1>2, <1>3, <1>4, <1>5, <1>6
  <1>8. \A x : /\ Down(t, n, x) <=> Down(r, n, x)
               /\ Down(f, n, x) <=> Down(r, n, x)
    BY <1>2, <1>3, <1>7, DownByMark
  <1>9. m.state \in {"normal", "halt"} \cup Recovering
    BY DEF Machines, States, Recovering
  <1> USE DEF Recovering
  <1>10. CASE m.state = "halt"
    BY <1>1, <1>6, <1>7, <1>8, <1>10
  <1>11. CASE m.state # "halt" /\ Down(r, n, FundHalt)
    BY <1>1, <1>5, <1>6, <1>7, <1>8, <1>11
  <1>12. CASE m.state # "halt" /\ ~Down(r, n, FundHalt)
    <2>1. t = c
      BY <1>1, <1>6, <1>12
    <2>2. CASE Down(r, n, FundDerisk)
      <3>1. f.state = "derisk" /\ c.state = "derisk" /\ c.clean = 0
        BY <1>2, <1>3, <1>4, <1>8, <2>2
      <3> QED
        BY <1>1, <1>7, <1>8, <1>12, <2>1, <2>2, <3>1
    <2>3. CASE ~Down(r, n, FundDerisk)
      <3>1. f.state = m.state /\ f.clean = m.clean
        BY <1>1, <1>2, <1>3, <2>3
      <3> QED
        BY <1>1, <1>4, <1>7, <1>8, <1>9, <1>12, <2>1, <2>3, <3>1
    <2> QED
      BY <2>2, <2>3
  <1> QED
    BY <1>10, <1>11, <1>12

-----------------------------------------------------------------------------
(* The steps of a cycle and of the operator.                               *)

\* Before the first cycle.
LEMMA InitIInv == Init => IInv
  BY FreshType, BreakersAssumption
     DEF Init, IInv, TypeOK, LiveNotLooser, CountKept, StateFitsDrawdown, Restored, Fresh,
         Recovering

\* A cycle restores the latest snapshot.
LEMMA RestoreStep == IInv /\ Restore => IInv'
  <1> SUFFICES ASSUME IInv, Restore
               PROVE  IInv'
    OBVIOUS
  <1>1. Restored \in Machines /\ Restored' = Restored /\ live' = Restored
    BY RestoredType DEF IInv, Restore, Restored
  <1>2. TypeOK'
    BY <1>1 DEF IInv, Restore, TypeOK
  <1>3. LiveNotLooser'
    BY <1>1 DEF LiveNotLooser, Machines
  <1>4. CountKept' /\ StateFitsDrawdown'
    BY <1>1 DEF IInv, Restore, CountKept, StateFitsDrawdown
  <1> QED
    BY <1>2, <1>3, <1>4 DEF IInv

\* The restored machine is ticked on the NAV of the session.
LEMMA TickStep == ASSUME IInv, NEW n \in Navs, TickOn(n) PROVE IInv'
  <1>1. live \in Machines /\ Restored \in Machines /\ quiet \in Nat
    BY RestoredType, BreakersAssumption DEF IInv, TypeOK
  <1>2. /\ live' \in Machines
        /\ live'.hwm >= live.hwm
        /\ live.state = "halt" => live'.state = "halt"
        /\ live.state # "halt" /\ Down(live', n, FundHalt) => live'.state = "halt"
        /\ Down(live', n, FundDerisk) => live'.state # "normal" \/ live.state = "halt"
        /\ live'.state \in Recovering /\ Down(live', n, FundDerisk) => live'.clean = 0
        /\ live'.state \in Recovering /\ ~Down(live', n, FundDerisk) =>
              /\ live.state \in Recovering
              /\ live'.clean = live.clean + 1
              /\ live'.clean < CooldownSessions
        /\ live'.state = "normal" /\ live.state # "normal" =>
              /\ live.state \in Recovering
              /\ ~Down(live', n, FundDerisk)
              /\ live.clean + 1 >= CooldownSessions
    <2>1. live' = Tick(live, n)
      BY DEF TickOn
    <2> QED
      BY <1>1, <2>1, TickFacts
  <1>3. /\ step = "restored" /\ step' = "ticked" /\ nav' = n
        /\ saved' = saved /\ quiet' = quiet /\ Restored' = Restored
    BY DEF TickOn, Restored
  <1>4. TypeOK'
    BY <1>2, <1>3 DEF IInv, TypeOK
  <1>5. LiveNotLooser'
    <2>1. live.hwm >= Restored.hwm /\ live.hwm \in Nat /\ live'.hwm \in Nat
          /\ Restored.hwm \in Nat
      BY <1>1, <1>2, <1>3 DEF IInv, LiveNotLooser, Machines
    <2> QED
      BY <1>2, <1>3, <2>1 DEF IInv, LiveNotLooser
  <1>6. CountKept'
    <2>1. 0 < CooldownSessions
      BY BreakersAssumption
    <2>2. /\ Restored'.state \in Recovering => Restored'.clean = quiet' /\ quiet' < CooldownSessions
          /\ Restored'.state = "halt" => quiet' = 0
      BY <1>3 DEF IInv, CountKept
    <2>3. /\ live.state \in Recovering => live.clean = quiet
          /\ live.state = "normal" => Restored.state = "normal"
      BY <1>3 DEF IInv, CountKept
    <2>4. live'.state \in Recovering =>
              /\ live'.clean = IF Down(live', nav', FundDerisk) THEN 0 ELSE quiet' + 1
              /\ live'.clean < CooldownSessions
      BY <1>2, <1>3, <2>1, <2>3
    <2>5. live'.state = "normal" /\ Restored'.state # "normal" =>
              ~Down(live', nav', FundDerisk) /\ quiet' + 1 >= CooldownSessions
      BY <1>2, <1>3, <2>3
    <2> QED
      BY <1>3, <2>2, <2>4, <2>5 DEF CountKept
  <1>7. StateFitsDrawdown'
    BY <1>2, <1>3 DEF StateFitsDrawdown
  <1> QED
    BY <1>4, <1>5, <1>6, <1>7 DEF IInv

\* The count of quiet ticks stays within its bound.
LEMMA CountedRange == TypeOK => Counted \in 0..CooldownSessions
  BY BreakersAssumption DEF TypeOK, Counted

\* The ticked machine becomes the snapshot.
LEMMA PersistStep == IInv /\ Persist => IInv'
  <1> SUFFICES ASSUME IInv, Persist
               PROVE  IInv'
    OBVIOUS
  <1>1. /\ live \in Machines /\ Restored' = live /\ step = "ticked" /\ step' = "idle"
        /\ saved' = <<live>> /\ live' = live /\ nav' = nav /\ quiet' = Counted
    BY DEF IInv, TypeOK, Persist, Restored
  <1>2. TypeOK'
    BY <1>1, CountedRange DEF IInv, TypeOK
  <1>3. live.state \in Recovering => live.clean = Counted /\ Counted < CooldownSessions
    BY <1>1, BreakersAssumption DEF IInv, TypeOK, CountKept, Counted, Recovering
  <1>4. live.state = "halt" => Counted = 0
    BY DEF Counted
  <1> QED
    BY <1>1, <1>2, <1>3, <1>4 DEF IInv, LiveNotLooser, CountKept, StateFitsDrawdown

\* The watchdog halts the live machine.
LEMMA WatchdogStep == IInv /\ WatchdogHalt => IInv'
  <1> SUFFICES ASSUME IInv, WatchdogHalt
               PROVE  IInv'
    OBVIOUS
  <1>1. /\ live' \in Machines /\ live'.state = "halt" /\ live'.hwm = live.hwm
        /\ Restored' = Restored /\ saved' = saved /\ step' = step /\ nav' = nav
        /\ quiet' = quiet
    BY DEF IInv, TypeOK, WatchdogHalt, Restored, Machines, States
  <1> QED
    BY <1>1 DEF IInv, TypeOK, LiveNotLooser, CountKept, StateFitsDrawdown, Recovering

\* A kill loses the live machine and keeps the snapshot.
LEMMA KillStep == IInv /\ Kill => IInv'
  BY DEF Kill, IInv, TypeOK, LiveNotLooser, CountKept, StateFitsDrawdown, Restored

\* What human_recover writes: the halted machine in cooldown, its count at zero.
LEMMA RecoverFacts ==
    ASSUME IInv, HumanRecover
    PROVE  /\ Restored.state = "halt" /\ Restored'.state = "cooldown" /\ Restored'.clean = 0
           /\ Restored'.hwm = Restored.hwm /\ Restored' \in Machines /\ saved' = <<Restored'>>
           /\ live' = live /\ step' = step /\ nav' = nav /\ quiet' = 0
  BY RestoredType DEF IInv, HumanRecover, Restored, Machines, States

\* A human recovers the halted snapshot.
LEMMA RecoverStep == IInv /\ HumanRecover => IInv'
  <1> SUFFICES ASSUME IInv, HumanRecover
               PROVE  IInv'
    OBVIOUS
  <1>1. /\ Restored.state = "halt" /\ Restored'.state = "cooldown" /\ Restored'.clean = 0
        /\ Restored'.hwm = Restored.hwm /\ Restored' \in Machines /\ saved' = <<Restored'>>
        /\ live' = live /\ step' = step /\ nav' = nav /\ quiet' = 0
    BY RecoverFacts
  <1>2. step # "idle" => live.state = "halt"
    BY <1>1 DEF IInv, LiveNotLooser
  <1>3. TypeOK'
    BY <1>1, BreakersAssumption DEF IInv, TypeOK
  <1> QED
    BY <1>1, <1>2, <1>3, BreakersAssumption
       DEF IInv, LiveNotLooser, CountKept, StateFitsDrawdown, Recovering

\* Every step of the breakers, a stutter included.
LEMMA StepIInv == IInv /\ [Next]_breakerVars => IInv'
  <1>1. IInv /\ UNCHANGED breakerVars => IInv'
    BY DEF breakerVars, IInv, TypeOK, LiveNotLooser, CountKept, StateFitsDrawdown, Restored
  <1> QED
    BY <1>1, RestoreStep, TickStep, PersistStep, WatchdogStep, KillStep, RecoverStep DEF Next

\* The inductive invariant holds in every reachable state.
THEOREM BreakersInvariant == Spec => []IInv
  <1>1. Init => IInv
    BY InitIInv
  <1>2. IInv /\ [Next]_breakerVars => IInv'
    BY StepIInv
  <1> QED
    BY <1>1, <1>2, PTL DEF Spec

\* The snapshot changes in two ways only.
LEMMA SnapshotSteps ==
    ASSUME IInv, [Next]_breakerVars
    PROVE  Restored' = Restored \/ Persist \/ HumanRecover
  BY DEF Next, Restore, TickOn, WatchdogHalt, Kill, breakerVars, Restored

-----------------------------------------------------------------------------
(* The theorems.                                                           *)

\* Every variable of the breakers keeps its type.
THEOREM TypeCorrect == Spec => []TypeOK
  BY BreakersInvariant, PTL DEF IInv

\* What a cycle is about to persist is as strict as the drawdown demands.
THEOREM StateFits == Spec => []StateFitsDrawdown
  BY BreakersInvariant, PTL DEF IInv

\* Enough clean sessions lead out of derisk and cooldown.
THEOREM CleanSuffices == Spec => []CleanSessionsSuffice
  <1>1. IInv => CleanSessionsSuffice
    <2> SUFFICES ASSUME IInv, quiet >= CooldownSessions
                 PROVE  Restored.state = "normal"
      BY DEF CleanSessionsSuffice
    <2>1. Restored.state \in {"normal", "halt"} \cup Recovering
      BY RestoredType DEF IInv, Machines, States, Recovering
    <2>2. Restored.state # "halt"
      BY BreakersAssumption DEF IInv, CountKept
    <2>3. Restored.state \notin Recovering
      <3>1. quiet \in Int /\ CooldownSessions \in Int
        BY BreakersAssumption DEF IInv, TypeOK
      <3> QED
        BY <3>1 DEF IInv, CountKept
    <2> QED
      BY <2>1, <2>2, <2>3
  <1> QED
    BY <1>1, BreakersInvariant, PTL

\* Halt is left by a human alone.
THEOREM HaltPersists == Spec => HaltLeftByHumanOnly
  <1>1. IInv /\ [Next]_breakerVars =>
            [Restored.state = "halt" /\ Restored'.state # "halt" => HumanRecover]_breakerVars
    <2> SUFFICES ASSUME IInv, [Next]_breakerVars, Restored.state = "halt",
                        Restored'.state # "halt"
                 PROVE  HumanRecover
      OBVIOUS
    <2>1. ~Persist
      BY DEF Persist, Restored, IInv, LiveNotLooser
    <2> QED
      BY <2>1, SnapshotSteps
  <1> QED
    BY <1>1, BreakersInvariant, PTL DEF Spec, HaltLeftByHumanOnly

\* The high-water mark of the snapshot never falls.
THEOREM MarkNeverFalls == Spec => HighWaterMarkNeverFalls
  <1>1. IInv /\ [Next]_breakerVars => [Restored'.hwm >= Restored.hwm]_breakerVars
    <2> SUFFICES ASSUME IInv, [Next]_breakerVars
                 PROVE  Restored'.hwm >= Restored.hwm
      OBVIOUS
    <2>1. Restored.hwm \in Nat
      BY RestoredType DEF IInv, Machines
    <2>2. CASE Persist
      BY <2>2 DEF Persist, Restored, IInv, LiveNotLooser
    <2>3. CASE HumanRecover
      BY <2>1, <2>3, RecoverFacts
    <2> QED
      BY <2>1, <2>2, <2>3, SnapshotSteps
  <1> QED
    BY <1>1, BreakersInvariant, PTL DEF Spec, HighWaterMarkNeverFalls

\* Normal is reached only through enough clean sessions.
THEOREM NormalIsEarned == Spec => NormalTakesCleanSessions
  <1>1. IInv /\ [Next]_breakerVars =>
            [Restored.state # "normal" /\ Restored'.state = "normal"
                => quiet' >= CooldownSessions]_breakerVars
    <2> SUFFICES ASSUME IInv, [Next]_breakerVars, Restored.state # "normal",
                        Restored'.state = "normal"
                 PROVE  quiet' >= CooldownSessions
      OBVIOUS
    <2>1. ~HumanRecover
      BY RecoverFacts
    <2>2. Persist
      BY <2>1, SnapshotSteps
    <2>3. /\ step = "ticked" /\ live.state = "normal" /\ quiet' = Counted
          /\ quiet \in Nat /\ CooldownSessions \in Nat
      BY <2>2, BreakersAssumption DEF Persist, Restored, IInv, TypeOK
    <2>4. ~Down(live, nav, FundDerisk) /\ quiet + 1 >= CooldownSessions
      BY <2>3 DEF IInv, CountKept
    <2> QED
      BY <2>3, <2>4 DEF Counted
  <1> QED
    BY <1>1, BreakersInvariant, PTL DEF Spec, NormalTakesCleanSessions

=============================================================================
