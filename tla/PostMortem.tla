----------------------------- MODULE PostMortem -----------------------------
(***************************************************************************)
(* Post-mortems (graphs/pmort.py) and what is captured of them in the log  *)
(* (core/episodic.py): a verdict asked of a seat outside the family that   *)
(* decided, retried once, queued when the model cannot be reached, and     *)
(* drained from the queue later.  The process may be killed between any    *)
(* two events it appends.  The queue and the episodic store are views of   *)
(* the log and nothing else survives.                                      *)
(***************************************************************************)
EXTENDS Integers, Sequences, FiniteSets, SequencesExt

CONSTANTS
    Trades,              \* naturals, in the order of their ids
    DecidedFamily,       \* [Trades -> family that decided the trade]
    Families,            \* families of the manifest, in sorted order
    Seats,               \* families that have a T3 seat
    MaxCalls, MaxKills   \* bounds

ASSUME TradesAreNaturals == Trades \subseteq Nat /\ IsFiniteSet(Trades)
ASSUME SeatsAreFamilies == Seats \subseteq ToSet(Families)
ASSUME FamiliesAreListedOnce ==
    /\ Families \in Seq(ToSet(Families))
    /\ \A i, j \in DOMAIN Families : Families[i] = Families[j] => i = j

VARIABLES
    log,        \* PMORT-01's events, in the order they were appended
    job,        \* the running post-mortem, or Idle
    drain,      \* trades the running drain pass has still to retry
    calls,      \* post-mortems begun so far
    kills       \* kills so far

postVars == <<log, job, drain, calls, kills>>

Lessons == {"none", "anecdote", "general"}
Idle == [stage |-> "idle"]

-----------------------------------------------------------------------------
(* Views of the log *)

Episodes == {i \in DOMAIN log : log[i].type = "post_mortem"}

CapturedTrades == {log[i].trade : i \in Episodes}

(* Mutant: the queue remembers the last pending event only. *)
PendingLatest ==
    LET queued == {j \in DOMAIN log : log[j].type = "pmort_pending"}
    IN {log[i].trade : i \in {j \in queued : \A k \in queued : k <= j}} \ CapturedTrades

(* Any post_mortem of the trade takes it off the queue, earlier or later. *)
Pending ==
    {log[i].trade : i \in {j \in DOMAIN log : log[j].type = "pmort_pending"}}
        \ CapturedTrades

(* The place the episode captured in event i has in the store. *)
Place(i) == Cardinality({j \in Episodes :
                log[j].trade < log[i].trade \/ (log[j].trade = log[i].trade /\ j <= i)})

(* The store holds an episode per post_mortem event, sorted by trade. *)
Store == [k \in 1..Cardinality(Episodes) |-> log[CHOOSE i \in Episodes : Place(i) = k]]

-----------------------------------------------------------------------------
(* The seat, and what counts as an answer *)

(* The first family in sorted order that is not the decided one; a manifest
   of a single family judges itself (logged). *)
Resolve(decided) ==
    LET others == SelectSeq(Families, LAMBDA f : f # decided)
    IN IF others = <<>> THEN decided ELSE Head(others)

(* resolve_pmort_seat: the family has a judge's role, and is not the decided
   one unless there is no other. *)
Seated(family, decided) ==
    /\ family \in Seats
    /\ family = decided => ToSet(Families) \subseteq {decided}

(* A lesson drawn from a partial window is an anecdote. *)
Valid(interim, lesson) == lesson \in Lessons /\ ~(interim /\ lesson = "general")

-----------------------------------------------------------------------------
PostInit ==
    /\ log = <<>>
    /\ job = Idle
    /\ drain = {}
    /\ calls = 0
    /\ kills = 0

AppendCapture(type, lesson) ==
    log' = Append(log, [type |-> type, trade |-> job.trade, interim |-> job.interim,
                        family |-> job.family, lesson |-> lesson])

Finish == job' = Idle /\ UNCHANGED <<drain, calls, kills>>

(* run_pmort on trade t resolves a seat, or raises before anything is asked;
   an exception out of retry_fn ends the drain pass. *)
RunPmort(t, interim, rest) ==
    /\ calls < MaxCalls
    /\ calls' = calls + 1
    /\ LET family == Resolve(DecidedFamily[t])
       IN IF Seated(family, DecidedFamily[t])
          THEN /\ job' = [stage |-> "asking", trade |-> t, interim |-> interim,
                          family |-> family, attempts |-> 0, lesson |-> "none"]
               /\ drain' = rest
          ELSE job' = Idle /\ drain' = {}
    /\ UNCHANGED <<log, kills>>

Request(t, interim) == job = Idle /\ drain = {} /\ RunPmort(t, interim, {})

(* drain_pending reads the queue once, then retries in the order of ids. *)
StartDrain ==
    /\ job = Idle /\ drain = {} /\ Pending # {}
    /\ drain' = Pending
    /\ UNCHANGED <<log, job, calls, kills>>

RetryQueued(interim) ==
    /\ job = Idle /\ drain # {}
    /\ \E t \in drain : (\A u \in drain : t <= u) /\ RunPmort(t, interim, drain \ {t})

(* A schema or grounding error: asked once more, then PMORTError leaves
   run_pmort with nothing captured and nothing queued. *)
InvalidReply ==
    /\ job.stage = "asking"
    /\ IF job.attempts = 0
       THEN job' = [job EXCEPT !.attempts = 1] /\ UNCHANGED drain
       ELSE job' = Idle /\ drain' = {}
    /\ UNCHANGED <<log, calls, kills>>

ValidReply(lesson) ==
    /\ job.stage = "asking"
    /\ Valid(job.interim, lesson)
    /\ job' = [job EXCEPT !.stage = "capturing", !.lesson = lesson]
    /\ UNCHANGED <<log, drain, calls, kills>>

Unreachable ==
    /\ job.stage = "asking"
    /\ job' = [job EXCEPT !.stage = "queueing"]
    /\ UNCHANGED <<log, drain, calls, kills>>

(* Mutant: the lesson is appended before the post-mortem it came from. *)
CaptureLessonFirst ==
    /\ job.stage = "capturing"
    /\ AppendCapture(IF job.lesson = "none" THEN "post_mortem" ELSE "lesson_candidate", job.lesson)
    /\ IF job.lesson = "none"
       THEN Finish
       ELSE job' = [job EXCEPT !.stage = "lesson"] /\ UNCHANGED <<drain, calls, kills>>

(* capture_post_mortem: one event, then a second one when there is a lesson. *)
Capture ==
    /\ job.stage = "capturing"
    /\ AppendCapture("post_mortem", job.lesson)
    /\ IF job.lesson = "none"
       THEN Finish
       ELSE job' = [job EXCEPT !.stage = "lesson"] /\ UNCHANGED <<drain, calls, kills>>

CaptureLesson ==
    /\ job.stage = "lesson"
    /\ AppendCapture("lesson_candidate", job.lesson)
    /\ Finish

CapturePending ==
    /\ job.stage = "queueing"
    /\ AppendCapture("pmort_pending", "none")
    /\ Finish

KillPmort ==
    /\ job # Idle \/ drain # {}
    /\ kills < MaxKills
    /\ kills' = kills + 1
    /\ job' = Idle
    /\ drain' = {}
    /\ UNCHANGED <<log, calls>>

PostNext ==
    \/ \E t \in Trades, interim \in BOOLEAN : Request(t, interim)
    \/ StartDrain
    \/ \E interim \in BOOLEAN : RetryQueued(interim)
    \/ InvalidReply
    \/ \E lesson \in Lessons : ValidReply(lesson)
    \/ Unreachable
    \/ Capture
    \/ CaptureLesson
    \/ CapturePending
    \/ KillPmort

PostSpec == PostInit /\ [][PostNext]_postVars

-----------------------------------------------------------------------------
(* Properties *)

(* A queued trade leaves the queue only when a post-mortem of it is
   captured: no kill, failed retry, aborted drain pass or later queueing of
   another trade loses it (pending_post_mortems). *)
QueueLeftByCapture ==
    [][\A t \in Pending \ Pending' :
          \E i \in DOMAIN log' \ DOMAIN log :
              log'[i].type = "post_mortem" /\ log'[i].trade = t]_postVars

(* Every lesson candidate follows the post-mortem it came from, no other
   event in between, that episode is in the rebuilt store, it was judged by
   a family other than the one that decided whenever the manifest has one,
   and a lesson called general is never one of a partial window. *)
LessonsHaveTheirEpisode ==
    \A i \in DOMAIN log : log[i].type = "lesson_candidate" =>
        /\ i > 1
        /\ log[i - 1] = [log[i] EXCEPT !.type = "post_mortem"]
        /\ log[i - 1] \in ToSet(Store)
        /\ Len(Families) > 1 => log[i].family # DecidedFamily[log[i].trade]
        /\ log[i].lesson = "general" => ~log[i].interim

=============================================================================
