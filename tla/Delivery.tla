------------------------------ MODULE Delivery ------------------------------
(***************************************************************************)
(* How results leave the machine: every service syncs its checkout to the  *)
(* reviewed head (ops/vm_git_sync.sh, ExecStartPre), runs, then commits    *)
(* and pushes what it produced (ops/vm_commit_results.sh, ExecStopPost);   *)
(* the flush service only commits and pushes.  All share one checkout, one *)
(* index and one tracking ref, git commands are the atomic steps, and the  *)
(* services may overlap: their timers catch up together after a downtime.  *)
(*                                                                         *)
(* A history is the set of commits it holds: a commit of code, or one of   *)
(* result artifacts with the `vm(' prefix, which a rebase carries over.    *)
(***************************************************************************)
EXTENDS Integers, FiniteSets

CONSTANTS
    Runners,     \* services that sync and run: soak, cycle
    Flushers,    \* services that only deliver: flush
    Artifacts,   \* result files the runs may produce
    Vendor,      \* those the pre-commit guard takes for vendor data
    MaxReviewed,
    MaxIncidents    \* bounds; an incident: a kill, a commit of code, a clean-up

Services == Runners \cup Flushers

ASSUME VendorAreArtifacts == Vendor \subseteq Artifacts

VARIABLES
    remote,      \* origin's main
    origin,      \* the tracking ref origin/main
    local,       \* the checked-out branch
    parked,      \* branches of parked commits
    cleaning,    \* vm_sync_to_cleaned_history.sh has parked and is to reset
    staged,      \* artifacts in the index and in no commit
    loose,       \* artifacts no git command has touched
    produced,
    pc,          \* each service's next command
    view,        \* what its sync read of the queue
    tries,       \* its push attempts
    since,       \* history: unreviewed commits made since its last guard, before its push
    atLook,      \* history: what was ahead when its sync looked
    atPark,      \* history: what was ahead when the clean-up parked
    overtaken,   \* history: results reset away that were committed after that
    reviewed, foreign, killed, cleaned    \* counts

checkout == <<local, staged, loose>>
cleaner == <<parked, cleaning>>
counts == <<reviewed, foreign, killed, cleaned>>
histories == <<since, atLook, atPark, overtaken>>
deliveryVars == <<remote, origin, cleaner, checkout, produced, pc, view, tries, histories, counts>>

Code(n)    == [kind |-> "code", what |-> {n}]
Foreign(n) == [kind |-> "foreign", what |-> {n}]
Vm(as)     == [kind |-> "vm", what |-> as]

Results(history) == UNION {c.what : c \in {d \in history : d.kind = "vm"}}

\* origin/main..HEAD
Ahead == local \ origin
Queued == Results(Ahead)
AllVm(commits) == \A c \in commits : c.kind = "vm"

Goto(s, label) == pc' = [pc EXCEPT ![s] = label] /\ UNCHANGED tries
Stop(s) == pc' = [pc EXCEPT ![s] = "idle"] /\ tries' = [tries EXCEPT ![s] = 0]
Try(s, n) == pc' = [pc EXCEPT ![s] = "again"] /\ tries' = [tries EXCEPT ![s] = n]

DeliveryInit ==
    /\ remote = {} /\ origin = {} /\ local = {} /\ parked = {} /\ cleaning = FALSE
    /\ staged = {} /\ loose = {} /\ produced = {}
    /\ pc = [s \in Services |-> "idle"]
    /\ view = [s \in Services |-> "behind"]
    /\ tries = [s \in Services |-> 0]
    /\ since = [s \in Services |-> {}]
    /\ atLook = [s \in Services |-> {}]
    /\ atPark = {}
    /\ overtaken = {}
    /\ reviewed = 0 /\ foreign = 0 /\ killed = 0 /\ cleaned = 0

MayHappen == foreign + killed + cleaned < MaxIncidents

Start(s) ==
    /\ pc[s] = "idle"
    /\ Goto(s, IF s \in Runners THEN "sync" ELSE "guard")
    /\ UNCHANGED <<remote, origin, cleaner, checkout, produced, view, histories, counts>>

-----------------------------------------------------------------------------
\* vm_git_sync.sh

\* git fetch: a failure runs the current checkout.
SyncFetch(s) ==
    /\ pc[s] = "sync"
    /\ \/ origin' = remote /\ Goto(s, "look")
       \/ UNCHANGED origin /\ Goto(s, "run")
    /\ UNCHANGED <<remote, cleaner, checkout, produced, view, histories, counts>>

\* Mutant: nothing is looked for and everything reset, as before 2026-07-05.
SyncLookBlind(s) ==
    /\ pc[s] = "look"
    /\ view' = [view EXCEPT ![s] = "behind"]
    /\ atLook' = [atLook EXCEPT ![s] = Ahead]
    /\ Goto(s, "move")
    /\ UNCHANGED <<remote, origin, cleaner, checkout, produced, since, atPark, overtaken, counts>>

\* QUEUED and FOREIGN, read before the command they decide.
SyncLook(s) ==
    /\ pc[s] = "look"
    /\ view' = [view EXCEPT ![s] = IF Ahead # {} /\ AllVm(Ahead) THEN "queued" ELSE "behind"]
    /\ atLook' = [atLook EXCEPT ![s] = Ahead]
    /\ Goto(s, "move")
    /\ UNCHANGED <<remote, origin, cleaner, checkout, produced, since, atPark, overtaken, counts>>

\* Queued results are rebased onto the new head; anything else ahead is reset away
\* with what was staged, also what another service committed since the look.  Git
\* refuses to rebase over a dirty index, and either command may fail and leave the
\* checkout as it is.
SyncMove(s) ==
    /\ pc[s] = "move"
    /\ \/ UNCHANGED <<checkout, overtaken>>
       \/ /\ view[s] = "queued" /\ staged = {}
          /\ local' = origin \cup Ahead
          /\ UNCHANGED <<staged, loose, overtaken>>
       \/ /\ view[s] = "behind"
          /\ local' = origin /\ staged' = {}
          /\ overtaken' = overtaken \cup Results(Ahead \ atLook[s])
          /\ UNCHANGED loose
    /\ view' = [view EXCEPT ![s] = "behind"]
    /\ atLook' = [atLook EXCEPT ![s] = {}]
    /\ Goto(s, "run")
    /\ UNCHANGED <<remote, origin, cleaner, produced, since, atPark, counts>>

\* The program itself: it leaves an artifact, or fails before it does.
Run(s) ==
    /\ pc[s] = "run"
    /\ \/ UNCHANGED <<loose, produced>>
       \/ \E a \in Artifacts \ produced :
             loose' = loose \cup {a} /\ produced' = produced \cup {a}
    /\ Goto(s, "guard")
    /\ UNCHANGED <<remote, origin, cleaner, local, staged, view, histories, counts>>

-----------------------------------------------------------------------------
\* vm_commit_results.sh

\* Mutant: the guard is not run again before a retry.
GuardFirstOnly(s) ==
    /\ pc[s] \in {"guard", "again"}
    /\ origin' \in {origin, remote}
    /\ IF pc[s] = "again" \/ AllVm(local \ origin')
       THEN Goto(s, IF pc[s] = "guard" THEN "add" ELSE "pull")
       ELSE Stop(s)
    /\ since' = [since EXCEPT ![s] = {}]
    /\ UNCHANGED <<remote, cleaner, checkout, produced, view, atLook, atPark, overtaken, counts>>

\* guard_check, before the commit and again before each attempt: it fetches if it
\* can and refuses a checkout that carries anything but results.
Guard(s) ==
    /\ pc[s] \in {"guard", "again"}
    /\ origin' \in {origin, remote}
    /\ IF AllVm(local \ origin')
       THEN Goto(s, IF pc[s] = "guard" THEN "add" ELSE "pull")
       ELSE Stop(s)
    /\ since' = [since EXCEPT ![s] = {}]
    /\ UNCHANGED <<remote, cleaner, checkout, produced, view, atLook, atPark, overtaken, counts>>

Add(s) ==
    /\ pc[s] = "add"
    /\ staged' = staged \cup loose
    /\ loose' = {}
    /\ Goto(s, "commit")
    /\ UNCHANGED <<remote, origin, cleaner, local, produced, view, histories, counts>>

\* precommit_guard: something staged is licensed vendor data, by path or by shape.
Blocked == staged \cap Vendor # {}

\* Mutant: nothing new, nothing pushed, as before 2026-07-03.
CommitOrStop(s) ==
    /\ pc[s] = "commit"
    /\ IF staged = {} \/ Blocked
       THEN Stop(s) /\ UNCHANGED <<local, staged>>
       ELSE /\ local' = local \cup {Vm(staged)} /\ staged' = {}
            /\ Goto(s, "queue")
    /\ UNCHANGED <<remote, origin, cleaner, loose, produced, view, histories, counts>>

\* Nothing staged, a commit, or a commit the hook blocks: then nothing is pushed.
CommitStaged(s) ==
    /\ pc[s] = "commit"
    /\ \/ /\ staged = {}
          /\ Goto(s, "queue")
          /\ UNCHANGED <<local, staged>>
       \/ /\ Blocked
          /\ Stop(s)
          /\ UNCHANGED <<local, staged>>
       \/ /\ staged # {} /\ ~Blocked
          /\ local' = local \cup {Vm(staged)} /\ staged' = {}
          /\ Goto(s, "queue")
    /\ UNCHANGED <<remote, origin, cleaner, loose, produced, view, histories, counts>>

\* Whatever is ahead must go, new or queued.
CountQueue(s) ==
    /\ pc[s] = "queue"
    /\ IF Ahead = {} THEN Stop(s) ELSE Try(s, 1)
    /\ UNCHANGED <<remote, origin, cleaner, checkout, produced, view, histories, counts>>

PullOk(s) ==
    /\ pc[s] = "pull"
    /\ staged = {}
    /\ origin' = remote
    /\ local' = remote \cup (local \ remote)
    /\ Goto(s, "push")
    /\ UNCHANGED <<remote, cleaner, staged, loose, produced, view, histories, counts>>

\* The network, a conflict or a dirty index: the rebase is not made, or aborted after
\* the fetch.
PullFails(s) ==
    /\ pc[s] = "pull"
    /\ origin' \in {origin, remote}
    /\ Goto(s, "push")
    /\ UNCHANGED <<remote, cleaner, checkout, produced, view, histories, counts>>

\* A push that is not a fast-forward is refused; three attempts in all.
Retry(s) ==
    IF tries[s] < 3 THEN Try(s, tries[s] + 1) ELSE Stop(s)

PushOk(s) ==
    /\ pc[s] = "push"
    /\ remote \subseteq local
    /\ remote' = local /\ origin' = local
    /\ Stop(s)
    /\ UNCHANGED <<cleaner, checkout, produced, view, histories, counts>>

\* The push may have arrived and its answer been lost.
PushFails(s) ==
    /\ pc[s] = "push"
    /\ remote' \in {remote} \cup (IF remote \subseteq local THEN {local} ELSE {})
    /\ Retry(s)
    /\ UNCHANGED <<origin, cleaner, checkout, produced, view, histories, counts>>

-----------------------------------------------------------------------------
\* The rest of the world

\* A timeout or a reboot ends a service between two commands.
KillService(s) ==
    /\ pc[s] # "idle"
    /\ MayHappen
    /\ killed' = killed + 1
    /\ Stop(s)
    /\ UNCHANGED <<remote, origin, cleaner, checkout, produced, view, histories,
                   reviewed, foreign, cleaned>>

\* Reviewed code is merged on the remote.
Review ==
    /\ reviewed < MaxReviewed
    /\ reviewed' = reviewed + 1
    /\ remote' = remote \cup {Code(reviewed + 1)}
    /\ UNCHANGED <<origin, cleaner, checkout, produced, pc, view, tries, histories,
                   foreign, killed, cleaned>>

\* The service's last guard is behind it and its push is not.
Delivering(s) == pc[s] \in {"pull", "push"}

\* Unreviewed code is committed in the checkout, at any time.
ForeignCommit ==
    /\ MayHappen
    /\ foreign' = foreign + 1
    /\ local' = local \cup {Foreign(foreign + 1)}
    /\ since' = [s \in Services |->
                     since[s] \cup (IF Delivering(s) THEN {Foreign(foreign + 1)} ELSE {})]
    /\ UNCHANGED <<remote, origin, cleaner, staged, loose, produced, pc, view, tries,
                   atLook, atPark, overtaken, reviewed, killed, cleaned>>

\* vm_sync_to_cleaned_history.sh: what is ahead is parked on a branch and the checkout
\* reset.  The timers it pauses are not those of every service, and a paused timer
\* does not stop what runs.
CleanPark ==
    /\ ~cleaning /\ local # remote
    /\ MayHappen
    /\ cleaned' = cleaned + 1
    /\ cleaning' = TRUE
    /\ origin' = remote
    /\ parked' = parked \cup (local \ remote)
    /\ atPark' = local \ remote
    /\ UNCHANGED <<remote, checkout, produced, pc, view, tries, since, atLook, overtaken,
                   reviewed, foreign, killed>>

CleanReset ==
    /\ cleaning
    /\ cleaning' = FALSE
    /\ local' = origin /\ staged' = {}
    /\ overtaken' = overtaken \cup Results(Ahead \ atPark)
    /\ atPark' = {}
    /\ UNCHANGED <<remote, origin, parked, loose, produced, pc, view, tries, since, atLook, counts>>

Step(s) ==
    \/ SyncFetch(s) \/ SyncLook(s) \/ SyncMove(s) \/ Run(s)
    \/ Guard(s) \/ Add(s) \/ CommitStaged(s) \/ CountQueue(s)
    \/ PullOk(s) \/ PullFails(s) \/ PushOk(s) \/ PushFails(s)

DeliveryNext ==
    \/ \E s \in Services : Start(s) \/ Step(s) \/ KillService(s)
    \/ Review \/ ForeignCommit
    \/ CleanPark \/ CleanReset

\* Timers fire every day, a started script runs on, and the network works again
\* and again.
Fairness ==
    \A s \in Services :
        /\ SF_deliveryVars(Start(s)) /\ WF_deliveryVars(Step(s))
        /\ SF_deliveryVars(PullOk(s)) /\ SF_deliveryVars(PushOk(s))

DeliverySpec == DeliveryInit /\ [][DeliveryNext]_deliveryVars /\ Fairness

-----------------------------------------------------------------------------
\* Properties

(***************************************************************************)
(* A committed result leaves the queue by delivery or by being parked, and *)
(* a sync that saw it, and nothing but results beside it, never resets it  *)
(* away, nor does a clean-up that saw it: what is lost was committed by    *)
(* another service after the look that decided the reset, or was seen with *)
(* unreviewed code beside it.  (vm_git_sync.sh rebases queued results; the *)
(* clean-up parks them.  "Never reset away", vm_git_sync.sh:13-14, says    *)
(* more than that: a result committed after the look is.)                  *)
(***************************************************************************)
Lost == Results(local) \ Results(local' \cup remote' \cup parked')

QueueKept ==
    [][ \A a \in Lost :
          \/ \E s \in Services :
                /\ pc[s] = "move" /\ pc'[s] # "move"
                /\ a \notin Results(atLook[s]) \/ ~AllVm(atLook[s])
          \/ cleaning /\ ~cleaning' /\ a \notin Results(atPark) ]_deliveryVars

(***************************************************************************)
(* An unreviewed commit gets past the merge gate only in the window the    *)
(* script leaves open: committed after the last guard of the service that  *)
(* pushes it, on whatever stale tracking ref that guard looked, and        *)
(* whatever the other services did meanwhile.  (guard_check, re-checked    *)
(* before every attempt.  That a push "can never carry code",              *)
(* vm_commit_results.sh:12-14, does not hold: the window is there.)        *)
(***************************************************************************)
GuardHolds ==
    [][ \A c \in remote' \ remote :
          c.kind = "foreign" => \E s \in Services : pc[s] = "push" /\ c \in since[s] ]_deliveryVars

(***************************************************************************)
(* A queued result is delivered or parked in the end, through failed       *)
(* fetches, lost answers and a moving remote - if no unreviewed commit     *)
(* ever came up, no file the hook blocks sits in the index for good, and   *)
(* it was not committed while a script was about to reset.                 *)
(* (Self-healing of vm_commit_results.sh.)                                 *)
(***************************************************************************)
QueueDelivered ==
    []<>(staged \cap Vendor = {}) =>
        \A a \in Artifacts :
            a \in Queued ~> (a \in Results(remote \cup parked) \cup overtaken \/ foreign > 0)

=============================================================================
