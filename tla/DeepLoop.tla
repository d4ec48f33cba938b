------------------------------ MODULE DeepLoop ------------------------------
(***************************************************************************)
(* One cycle of the checkpointed deep loop (graphs/deep_loop.py): ten      *)
(* nodes in protocol order, each appending its events to the log and then  *)
(* having its result checkpointed; a node that raises fails the cycle      *)
(* closed.  The process may be killed anywhere and the cycle resumed from  *)
(* the last checkpoint, with the events of the lost node still in the log. *)
(*                                                                         *)
(* A checkpoint is on disk before the next node begins.  LangGraph, which  *)
(* run_cycle invokes with its default durability (deep_loop.py:234), may   *)
(* write it beside the next node: a kill then may lose two nodes.          *)
(***************************************************************************)
EXTENDS Integers, Sequences

CONSTANTS
    Proposals,   \* what the PM may propose: [dir, fits], fits as the gate sees its size
    NoProposal,
    Turns,       \* debate turns the injected debate returns
    MaxLife      \* bound: the last life of the cycle, its kills

ASSUME NoProposalIsNone == NoProposal \notin Proposals
ASSUME ProposalsAreSized == \A p \in Proposals : p.fits \in BOOLEAN
ASSUME BoundsAreNaturals == Turns \in Nat /\ MaxLife \in Nat

NodeOrder == <<"cycle_open", "research", "verify", "debate_gate", "debate",
               "ballot", "pm", "risk_gate", "terminal", "post_mortem">>
Nodes == {NodeOrder[i] : i \in DOMAIN NodeOrder}

VARIABLES
    events,   \* the cycle's events in the log: [type, node, slot, body, life]
    disk,     \* the checkpointed cycle state
    mem,      \* the cycle state the running process holds
    draft,    \* the updates the running node has made to it
    slot,     \* events the running node has appended; -1 between nodes
    running,
    life      \* of the cycle: the kills so far

deepVars == <<events, disk, mem, draft, slot, running, life>>

Fresh == [done |-> 0, proposal |-> NoProposal, passed |-> FALSE,
          decision |-> "none", tradeId |-> -1, halted |-> FALSE]

DeepInit ==
    /\ events = <<>>
    /\ disk = Fresh /\ mem = Fresh /\ draft = Fresh
    /\ slot = -1
    /\ running = TRUE
    /\ life = 0

Finished(state) == state.halted \/ state.done = Len(NodeOrder)

Node == NodeOrder[mem.done + 1]

\* The events a node appends before it returns.
Emits == CASE Node = "cycle_open" -> 1
           [] Node = "research"   -> 3
           [] Node = "debate"     -> Turns
           [] Node = "ballot"     -> 5
           [] Node = "pm"         -> IF draft.proposal = NoProposal THEN 0 ELSE 1
           [] Node = "terminal"   -> 1
           [] OTHER               -> 0

EventType == CASE Node = "cycle_open" -> "cycle_open"
               [] Node = "research"   -> "memo_written"
               [] Node = "debate"     -> "debate_turn"
               [] Node = "ballot"     -> "ballot_cast"
               [] Node = "pm"         -> "proposal_written"
               [] Node = "terminal"   -> draft.decision

Body == IF Node \in {"pm", "terminal"}
        THEN [proposal |-> draft.proposal, tradeId |-> draft.tradeId]
        ELSE [proposal |-> NoProposal, tradeId |-> -1]

\* A rerun of the PM may propose otherwise, and a rerun of the terminal node draws a
\* fresh trade id: one per life.
BeginNode ==
    /\ running /\ slot = -1 /\ ~Finished(mem)
    /\ \E p \in Proposals \cup {NoProposal} :
          /\ Node # "pm" => p = NoProposal
          /\ draft' = CASE Node = "pm"        -> [mem EXCEPT !.proposal = p]
                        [] Node = "risk_gate" -> [mem EXCEPT !.passed =
                               mem.proposal # NoProposal /\ mem.proposal.fits]
                        [] Node = "terminal" /\ mem.passed ->
                               [mem EXCEPT !.decision = "intended_order", !.tradeId = life]
                        [] Node = "terminal" /\ ~mem.passed ->
                               [mem EXCEPT !.decision = "no_trade"]
                        [] OTHER -> mem
    /\ slot' = 0
    /\ UNCHANGED <<events, disk, mem, running, life>>

AppendEvent(type, body) ==
    events' = Append(events, [type |-> type, node |-> mem.done + 1, slot |-> slot,
                              body |-> body, life |-> life])

Emit ==
    /\ running /\ slot >= 0 /\ slot < Emits /\ ~draft.halted
    /\ AppendEvent(EventType, Body)
    /\ slot' = slot + 1
    /\ UNCHANGED <<disk, mem, draft, running, life>>

\* The graph saves a node's updates once it has returned.
Checkpoint ==
    /\ running /\ slot >= 0 /\ slot = Emits /\ ~draft.halted
    /\ mem' = [draft EXCEPT !.done = @ + 1]
    /\ disk' = mem'
    /\ slot' = -1
    /\ UNCHANGED <<events, draft, running, life>>

\* Any exception of the node - an agent's, the fault injector's, a node that is not
\* wired - before or between its events.  What it had computed is dropped.
Raise ==
    /\ running /\ slot >= 0 /\ ~draft.halted
    /\ AppendEvent("cycle_failed", [proposal |-> NoProposal, tradeId |-> -1])
    /\ draft' = [mem EXCEPT !.halted = TRUE]
    /\ UNCHANGED <<disk, mem, slot, running, life>>

\* Mutant: the failure is logged and the next node runs all the same.
CheckpointFailureGoesOn ==
    /\ running /\ slot >= 0 /\ draft.halted
    /\ mem' = [draft EXCEPT !.halted = FALSE, !.done = @ + 1]
    /\ disk' = mem'
    /\ slot' = -1
    /\ UNCHANGED <<events, draft, running, life>>

\* The halted state is checkpointed and the graph goes to its end.
CheckpointFailure ==
    /\ running /\ slot >= 0 /\ draft.halted
    /\ mem' = draft /\ disk' = draft
    /\ slot' = -1
    /\ UNCHANGED <<events, draft, running, life>>

KillCycle ==
    /\ running /\ ~Finished(mem)
    /\ life < MaxLife
    /\ life' = life + 1
    /\ running' = FALSE
    /\ mem' = Fresh /\ draft' = Fresh /\ slot' = -1
    /\ UNCHANGED <<events, disk>>

\* Mutant: the resumed cycle starts over with the state it had.
ResumeFromStart ==
    /\ ~running
    /\ running' = TRUE
    /\ mem' = [disk EXCEPT !.done = 0]
    /\ UNCHANGED <<events, disk, draft, slot, life>>

Resume ==
    /\ ~running
    /\ running' = TRUE
    /\ mem' = disk
    /\ UNCHANGED <<events, disk, draft, slot, life>>

DeepNext == BeginNode \/ Emit \/ Checkpoint \/ Raise \/ CheckpointFailure \/ KillCycle \/ Resume

DeepSpec == DeepInit /\ [][DeepNext]_deepVars

-----------------------------------------------------------------------------
\* Properties

(***************************************************************************)
(* Whatever is repeated in the log is repeated because of a kill, and only *)
(* in the node the kill hit: the log never goes back to an earlier node,   *)
(* no life appends the same event of a node twice, and after a             *)
(* `cycle_failed' nothing follows in the same life.  (The kill-and-resume  *)
(* test counts events at one boundary; fail-closed routing R4.)            *)
(***************************************************************************)
RepeatsAreKills ==
    \A i, j \in DOMAIN events : i < j =>
        /\ events[i].node <= events[j].node
        /\ events[i].life = events[j].life =>
              /\ events[i].type # "cycle_failed"
              /\ events[i].node = events[j].node /\ events[j].type # "cycle_failed"
                    => events[i].slot < events[j].slot

Latest(type) == LET at == {i \in DOMAIN events : events[i].type = type}
                IN  events[CHOOSE i \in at : \A j \in at : j <= i]

Has(type) == \E i \in DOMAIN events : events[i].type = type

(***************************************************************************)
(* The decision the checkpoints end with is the last one of the log, trade *)
(* id included, and the proposal it carries is the last one written: a     *)
(* reader who takes the last event of each kind reads the decision taken,  *)
(* however often nodes were rerun.  (deep_loop.py pm and terminal nodes.)  *)
(***************************************************************************)
DecisionIsLastRecorded ==
    disk.decision = "intended_order" =>
        /\ Has("intended_order") /\ Has("proposal_written")
        /\ Latest("intended_order").body = [proposal |-> disk.proposal, tradeId |-> disk.tradeId]
        /\ Latest("proposal_written").body.proposal = disk.proposal
        /\ disk.proposal.fits

=============================================================================
