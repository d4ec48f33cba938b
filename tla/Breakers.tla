------------------------------ MODULE Breakers ------------------------------
(***************************************************************************)
(* The drawdown breakers (graphs/monitor.py, BreakerStateMachine) and how  *)
(* they survive from one cycle to the next (persist_breakers and           *)
(* restore_breakers of graphs/ledger.py).                                  *)
(*                                                                         *)
(* A machine lives for one cycle: it is restored from the latest           *)
(* breaker_snapshot event, ticked once on the NAV of the session and       *)
(* written back.  The process may be killed between any two of these       *)
(* steps.  A human moves a halted book to cooldown, also while a cycle     *)
(* is under way.                                                           *)
(***************************************************************************)
EXTENDS Integers

CONSTANTS
    Navs,              \* the NAVs a session may close at
    StartNav,          \* STARTING_NAV_USD
    PodHalve,          \* pod_halve_dd, out of Whole
    FundDerisk,        \* fund_derisk_dd
    PodHalt,           \* pod_halt_dd
    FundHalt,          \* fund_halt_dd
    Whole,             \* what the thresholds are parts of: 1000 for 5.0% = 50
    CooldownSessions   \* cooldown_cycles

ASSUME BreakersAssumption ==
    /\ Navs \subseteq Int
    /\ StartNav \in Nat \ {0}
    /\ Whole \in Nat \ {0}
    /\ PodHalve \in Nat \ {0} /\ FundDerisk \in Nat \ {0}
    /\ PodHalt \in Nat \ {0} /\ FundHalt \in Nat \ {0}
    /\ CooldownSessions \in Nat \ {0}

VARIABLES
    saved,    \* the latest breaker_snapshot event as <<machine>>, <<>> before the first
    live,     \* the machine of the running cycle
    step,     \* "idle", "restored" or "ticked": how far the cycle is
    nav,      \* the NAV of the latest tick
    quiet     \* history: consecutive persisted ticks below the derisk threshold
              \* since the last breach or recovery, counted up to CooldownSessions

breakerVars == <<saved, live, step, nav, quiet>>

States == {"normal", "derisk", "halt", "cooldown"}
Levels == {"pod_halve", "pod_halt"}

Machines == [state : States, hwm : Nat \ {0}, clean : Nat, fired : SUBSET Levels]

\* BreakerStateMachine(STARTING_NAV_USD); no snapshot at all means this machine.
Fresh == [state |-> "normal", hwm |-> StartNav, clean |-> 0, fired |-> {}]

-----------------------------------------------------------------------------
(* BreakerStateMachine.tick, in the order of its statements.               *)

\* The drawdown of NAV n from the high-water mark is at least the threshold.
Down(m, n, threshold) == (m.hwm - n) * Whole >= threshold * m.hwm

\* Mutant: the mark follows the NAV down as well.
RaiseToLast(m, n) == [m EXCEPT !.hwm = n]

\* A new high-water mark ends the episode, in every state.
Raise(m, n) == IF n > m.hwm THEN [m EXCEPT !.hwm = n, !.fired = {}] ELSE m

Derisk(m, n) ==
    IF Down(m, n, FundDerisk) /\ m.state # "derisk"
    THEN [m EXCEPT !.state = "derisk", !.clean = 0]
    ELSE m

\* Each level fires once per episode; the deeper one hides the other in the
\* tick it fires in.
PodLevel(m, n) ==
    IF Down(m, n, PodHalt) /\ "pod_halt" \notin m.fired THEN {"pod_halt"}
    ELSE IF Down(m, n, PodHalve) /\ "pod_halve" \notin m.fired THEN {"pod_halve"}
    ELSE {}

Fire(m, n) == [m EXCEPT !.fired = @ \cup PodLevel(m, n)]

\* Mutants: every session counts as clean; one clean session too many is asked.
DecayAlways(m, n) ==
    IF m.state \notin {"derisk", "cooldown"} THEN m
    ELSE IF m.clean + 1 >= CooldownSessions
    THEN [m EXCEPT !.state = "normal", !.clean = @ + 1, !.fired = {}]
    ELSE [m EXCEPT !.clean = @ + 1]

DecayLate(m, n) ==
    IF m.state \notin {"derisk", "cooldown"} THEN m
    ELSE IF Down(m, n, FundDerisk) THEN [m EXCEPT !.clean = 0]
    ELSE IF m.clean >= CooldownSessions
    THEN [m EXCEPT !.state = "normal", !.fired = {}]
    ELSE [m EXCEPT !.clean = @ + 1]

\* Clean sessions lead from derisk and cooldown back to normal.
Decay(m, n) ==
    IF m.state \notin {"derisk", "cooldown"} THEN m
    ELSE IF Down(m, n, FundDerisk) THEN [m EXCEPT !.clean = 0]
    ELSE IF m.clean + 1 >= CooldownSessions
    THEN [m EXCEPT !.state = "normal", !.clean = @ + 1, !.fired = {}]
    ELSE [m EXCEPT !.clean = @ + 1]

\* Mutant: the halted machine is not frozen.
TickThawed(m, n) ==
    LET r == Raise(m, n)
    IN  IF Down(r, n, FundHalt) THEN [r EXCEPT !.state = "halt"]
        ELSE Decay(Fire(Derisk(r, n), n), n)

Tick(m, n) ==
    LET r == Raise(m, n)
    IN  IF r.state = "halt" THEN r
        ELSE IF Down(r, n, FundHalt) THEN [r EXCEPT !.state = "halt"]
        ELSE Decay(Fire(Derisk(r, n), n), n)

-----------------------------------------------------------------------------

\* restore_breakers: the latest snapshot wins.
Restored == IF saved = <<>> THEN Fresh ELSE saved[1]

Init ==
    /\ saved = <<>>
    /\ live = Fresh
    /\ step = "idle"
    /\ nav = StartNav
    /\ quiet = 0

Restore ==
    /\ step = "idle"
    /\ live' = Restored
    /\ step' = "restored"
    /\ UNCHANGED <<saved, nav, quiet>>

TickOn(n) ==
    /\ step = "restored"
    /\ live' = Tick(live, n)
    /\ nav' = n
    /\ step' = "ticked"
    /\ UNCHANGED <<saved, quiet>>

\* The session counts as quiet when it closes below the derisk threshold.
Counted ==
    IF live.state = "halt" \/ Down(live, nav, FundDerisk) THEN 0
    ELSE IF quiet < CooldownSessions THEN quiet + 1 ELSE quiet

Persist ==
    /\ step = "ticked"
    /\ saved' = <<live>>
    /\ step' = "idle"
    /\ quiet' = Counted
    /\ UNCHANGED <<live, nav>>

\* The watchdog of the cycle's process finds the heartbeat too old.
WatchdogHalt ==
    /\ step # "idle"
    /\ live.state # "halt"
    /\ live' = [live EXCEPT !.state = "halt"]
    /\ UNCHANGED <<saved, step, nav, quiet>>

Kill ==
    /\ step # "idle"
    /\ step' = "idle"
    /\ UNCHANGED <<saved, live, nav, quiet>>

\* Mutant: recovery keeps the clean sessions counted before the halt.
HumanRecoverKeepsCount ==
    /\ Restored.state = "halt"
    /\ saved' = <<[Restored EXCEPT !.state = "cooldown"]>>
    /\ quiet' = 0
    /\ UNCHANGED <<live, step, nav>>

\* An operator restores the machine, calls human_recover and persists it.
HumanRecover ==
    /\ Restored.state = "halt"
    /\ saved' = <<[Restored EXCEPT !.state = "cooldown", !.clean = 0]>>
    /\ quiet' = 0
    /\ UNCHANGED <<live, step, nav>>

Next ==
    \/ Restore
    \/ \E n \in Navs : TickOn(n)
    \/ Persist
    \/ WatchdogHalt
    \/ Kill
    \/ HumanRecover

Spec == Init /\ [][Next]_breakerVars

-----------------------------------------------------------------------------
(* Properties.                                                             *)

\* Every variable stays in its range.
TypeOK ==
    /\ saved = <<>> \/ saved \in [1..1 -> Machines]
    /\ live \in Machines
    /\ step \in {"idle", "restored", "ticked"}
    /\ nav \in Navs \cup {StartNav}
    /\ quiet \in 0..CooldownSessions

\* HALT persists: whatever is killed, restored or ticked, the snapshot a later
\* cycle starts from leaves halt by human_recover alone.
HaltLeftByHumanOnly ==
    [][Restored.state = "halt" /\ Restored'.state # "halt" => HumanRecover]_breakerVars

\* The high-water mark a later cycle starts from never falls, so a drawdown is
\* never measured from a lower mark than before.
HighWaterMarkNeverFalls == [][Restored'.hwm >= Restored.hwm]_breakerVars

\* Derisk, cooldown and halt lead back to normal only through CooldownSessions
\* persisted ticks in a row below the derisk threshold, counted after the last
\* breach or recovery; a killed tick does not count.
NormalTakesCleanSessions ==
    [][Restored.state # "normal" /\ Restored'.state = "normal"
          => quiet' >= CooldownSessions]_breakerVars

\* A machine about to be persisted is at least as strict as the drawdown of the
\* session demands: halted from the fund's halt threshold on, and not normal from
\* the derisk threshold on, whichever state the cycle started in.
StateFitsDrawdown ==
    step = "ticked" =>
        /\ Down(live, nav, FundHalt) => live.state = "halt"
        /\ Down(live, nav, FundDerisk) => live.state # "normal"

\* Enough clean sessions do lead back: a book that closed CooldownSessions times
\* in a row below the derisk threshold, with no breach or recovery since, is
\* neither in derisk nor in cooldown.
CleanSessionsSuffice == quiet >= CooldownSessions => Restored.state = "normal"

=============================================================================
