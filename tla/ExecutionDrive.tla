--------------------------- MODULE ExecutionDrive ---------------------------
(* One execution stream and everything that writes to it: the asynchronous   *)
(* drive of core/runtime/src/driver.rs, and the owner's pause, cancel,       *)
(* resume, approve and immediate-stop commands.  A process reads the stream, *)
(* decides, and appends later; other processes append in between.  A drive   *)
(* takes the sequence for its append only after it has decided, an owner's   *)
(* command appends at the sequence its decision was read at (#1670).         *)
EXTENDS NodeMachine

CONSTANTS
    Drives,       \* drive slots: the drives that can be live at the same time
    Owners,       \* owner commands that can be in progress at the same time
    NoDrive,      \* no cancel sender is registered
    Commands,     \* the commands the owner uses, a subset of CommandNames
    Delegated,    \* nodes that declare a delegation
    Results,      \* what an executor may report, a subset of ResultNames
    Preflights,   \* the verdicts of the preflight on the graphs that are started
    MaxCommands,  \* bound: owner commands issued
    MaxCrashes,   \* bound: processes killed
    MaxProposals  \* bound: 0, or 1 governed proposal

CommandNames == {"pause", "stop", "cancel", "resume", "approve"}
ResultNames  == {"Succeeded", "RetryableFailure", "TerminalFailure", "NeedsCapacity",
                 "refused", "panicked"}

ASSUME ProcessAssumption == Drives \cap Owners = {} /\ NoDrive \notin Drives
ASSUME ConfigAssumption ==
    /\ Commands \subseteq CommandNames
    /\ Delegated \subseteq Nodes
    /\ Results \subseteq ResultNames
    /\ Preflights \subseteq BOOLEAN
    /\ MaxCommands \in Nat
    /\ MaxCrashes \in Nat
    /\ MaxProposals \in 0..1

VARIABLES
    proj,         \* the projection of the stream at its head
    observed,     \* processes whose observed sequence is still the head
    drv,          \* the drives' local state
    own,          \* the owner commands' local state
    cancels,      \* the drive whose cancel sender serve holds for this execution
    issued, crashes,  \* counters for the bounds
    lateStarts    \* history: nodes that entered Running since the last pause

vars == <<proj, observed, drv, own, cancels, issued, crashes, lateStarts>>

DrivePcs == {"off", "preflight", "pass", "approve", "release", "dispatch", "hop1", "hop2",
             "delegate", "reuse", "wait", "record", "proposalPause", "stopping",
             "stopPause", "quiesce", "complete", "failing"}
OwnerPcs == {"idle", "pausing", "holding", "sweeping", "cancelling", "triaging",
             "resuming", "approving"}

\* todo: what is left of a loop over nodes; plan: the rest of the dispatch plan, each node with
\* its sort key; flight: in_flight_nodes; tasks: the JoinSet; sequenced: next_sequence was read.
DriveState == [pc: DrivePcs, todo: SUBSET Nodes, plan: SUBSET (Nat \X Nodes),
               flight: SUBSET Nodes, tasks: SUBSET Nodes, refused: SUBSET Nodes,
               release: SUBSET Nodes, stop: BOOLEAN, event: Event, sequenced: BOOLEAN]
OwnerState == [pc: OwnerPcs, todo: SUBSET Nodes, event: Event]

Off == [pc |-> "off", todo |-> {}, plan |-> {}, flight |-> {}, tasks |-> {}, refused |-> {},
        release |-> {}, stop |-> FALSE, event |-> NoEvent, sequenced |-> FALSE]
Idle == [pc |-> "idle", todo |-> {}, event |-> NoEvent]

\* A fresh drive: its sender replaces whatever `cancels` held for the execution.
Fresh(release) == [Off EXCEPT !.pc = "preflight", !.release = release]

\* `start` has appended ExecutionStarted and its drive is about to run, or, held, has appended
\* ExecutionPaused in the same batch and starts no drive (#90).
Init ==
    /\ \/ /\ \E clean \in Preflights : proj = Started(clean)
          /\ \E d \in Drives :
              /\ drv = [e \in Drives |-> IF e = d THEN Fresh({}) ELSE Off]
              /\ cancels = d
       \/ /\ \E clean \in Preflights : proj = fold_paused(Started(clean))
          /\ drv = [e \in Drives |-> Off]
          /\ cancels = NoDrive
    /\ observed = {}
    /\ own = [o \in Owners |-> Idle]
    /\ issued = 0
    /\ crashes = 0
    /\ lateStarts = 0

---------------------------------------------------------------------------
(* The store *)

\* The least node of a loop's rest: BTreeMap and BTreeSet iterate in name order.
Least(n, nodes) == n \in nodes /\ \A m \in nodes : n <= m

\* append_atomic accepted: the head moves, so nobody's observed sequence is the head any more.
Appended(e) ==
    /\ proj' = fold(proj, e)
    /\ observed' = {}
    /\ lateStarts' = IF e.kind = "paused" THEN 0
                     ELSE IF e.kind = "outcome" /\ e.outcome = "Started" /\ e.next = "Running"
                          THEN lateStarts + (IF proj.status = "Paused" THEN 1 ELSE 0)
                          ELSE lateStarts

NoAppend == UNCHANGED <<proj, lateStarts>>

---------------------------------------------------------------------------
(* The drive.  An idle `event` means the drive is between appends. *)

Between(d, pc) == drv[d].pc = pc /\ drv[d].event = NoEvent

\* drive_inner returned Err: its JoinSet is dropped and serve forgets the sender, whoever's it is.
Fail(d) ==
    /\ drv' = [drv EXCEPT ![d] = [Off EXCEPT !.pc = "failing"]]
    /\ cancels' = NoDrive
    /\ observed' = observed \ {d}
    /\ NoAppend
    /\ UNCHANGED <<own, issued, crashes>>

\* drive_inner returned Ok.
Return(d) ==
    /\ drv' = [drv EXCEPT ![d] = Off]
    /\ cancels' = NoDrive

\* Only drive d's own local state changes.
Local(d, state) ==
    /\ drv' = [drv EXCEPT ![d] = state]
    /\ NoAppend
    /\ UNCHANGED <<observed, own, cancels, issued, crashes>>

\* Mutant of Decide: the refusal of apply_transition is recorded instead of propagated.
Decide_Unrefused(d, n, outcome, state) ==
    Local(d, [state EXCEPT !.event = OutcomeEvent(n, outcome, next_state(proj, n, outcome))])

\* record_outcome_cached up to the sequence: read, apply_transition, seal.
Decide(d, n, outcome, state) ==
    LET next == next_state(proj, n, outcome)
    IN  IF proj.corrupt \/ next = IllegalTransition THEN Fail(d)
        ELSE Local(d, [state EXCEPT !.event = OutcomeEvent(n, outcome, next)])

\* Mutant of Preflight: the diagnostics are reported and the drive goes on.
Preflight_Advisory(d) == Between(d, "preflight") /\ Local(d, [drv[d] EXCEPT !.pc = "pass"])

\* One reading of the graph at the start of a drive; a refused graph settles the execution.
Preflight(d) ==
    /\ Between(d, "preflight")
    /\ proj.clean \/ ~proj.corrupt
    /\ IF proj.clean
       THEN Local(d, [drv[d] EXCEPT !.pc = "pass"])
       ELSE IF terminal_status(proj.status)
       THEN Return(d) /\ NoAppend /\ UNCHANGED <<observed, own, issued, crashes>>
       ELSE Local(d, [drv[d] EXCEPT !.pc = "complete",
                                    !.event = StatusEvent("completed", "Failed")])

\* The immediate-stop branch: cancel_all, abort, drain; in_flight_nodes are left to interrupt.
Stopping(d) == [drv[d] EXCEPT !.pc = "stopping", !.todo = drv[d].flight, !.flight = {},
                              !.tasks = {}, !.plan = {}]

\* The top of 'passes with a cancel request already in the channel.
PassStop(d) ==
    /\ Between(d, "pass")
    /\ drv[d].stop
    /\ Local(d, Stopping(d))

\* The top of 'passes: a pending proposal pauses the execution, otherwise Draft nodes are approved.
Pass(d) ==
    /\ Between(d, "pass")
    /\ ~drv[d].stop
    /\ ~proj.corrupt
    /\ Local(d, IF pending_proposal(proj)
                THEN IF proj.status # "Paused"
                     THEN [drv[d] EXCEPT !.pc = "proposalPause",
                                         !.event = StatusEvent("paused", "Paused")]
                     ELSE [drv[d] EXCEPT !.pc = "quiesce"]
                ELSE [drv[d] EXCEPT !.pc = "approve",
                                    !.todo = {n \in Nodes : proj.node[n] = "Draft"}])

Approve(d) ==
    /\ Between(d, "approve")
    /\ \E n \in drv[d].todo :
        /\ Least(n, drv[d].todo)
        /\ Decide(d, n, "Approved", [drv[d] EXCEPT !.todo = @ \ {n}])

\* Mutant of PlanPass: without the plan gate, left to the dispatch gate alone.
PlanPass_Ungated(d) ==
    LET candidates == dispatch_candidates(proj.node) \ (drv[d].flight \cup drv[d].refused)
        plan == dispatch_plan(candidates, proj.attempts, Cardinality(drv[d].flight))
    IN  Local(d, [drv[d] EXCEPT
                    !.pc = IF plan = {} /\ drv[d].tasks = {} THEN "quiesce" ELSE "dispatch",
                    !.todo = {},
                    !.plan = plan])

\* Candidates, the plan gate and dispatch_plan, all from the projection just read.
PlanPass(d) ==
    IF ReadySetTooLarge(proj.node) \/ (ZeroParallelism /\ proj.status # "Paused") THEN Fail(d)
    ELSE LET candidates == dispatch_candidates(proj.node) \ (drv[d].flight \cup drv[d].refused)
             plan == IF proj.status = "Paused" THEN {}
                     ELSE dispatch_plan(candidates, proj.attempts, Cardinality(drv[d].flight))
         IN  Local(d, [drv[d] EXCEPT
                         !.pc = IF plan = {} /\ drv[d].tasks = {} THEN "quiesce" ELSE "dispatch",
                         !.todo = {},
                         !.plan = plan])

\* The held nodes this pass may release, from the second reread.
releasable(d) == {n \in drv[d].release : /\ proj.node[n] = "Paused"
                                         /\ proj.status # "Paused"
                                         /\ edges_satisfied(proj.node, n)}

\* Every Draft node is approved: reread, then release or, with nothing to release, plan.
Reread(d) ==
    /\ Between(d, "approve")
    /\ drv[d].todo = {}
    /\ ~proj.corrupt
    /\ IF releasable(d) # {}
       THEN Local(d, [drv[d] EXCEPT !.pc = "release", !.todo = releasable(d)])
       ELSE PlanPass(d)

Release(d) ==
    /\ Between(d, "release")
    /\ \E n \in drv[d].todo :
        /\ Least(n, drv[d].todo)
        /\ Decide(d, n, "Started", [drv[d] EXCEPT !.todo = @ \ {n}])

\* Something was released: reread before planning.
Replan(d) ==
    /\ Between(d, "release")
    /\ drv[d].todo = {}
    /\ ~proj.corrupt
    /\ PlanPass(d)

First(p, plan) == p \in plan /\ \A q \in plan : Before(p, q)

\* The context compile, build_work, the delegation or the subagent choice refuses the node.
DispatchRefuse(d) ==
    /\ Between(d, "dispatch")
    /\ \E p \in drv[d].plan :
        /\ First(p, drv[d].plan)
        /\ "refused" \in Results
        /\ Local(d, [drv[d] EXCEPT !.plan = @ \ {p}, !.refused = @ \cup {p[2]}])

\* An immediate stop wins the race against the context compile.
DispatchStop(d) ==
    /\ Between(d, "dispatch")
    /\ drv[d].plan # {}
    /\ drv[d].stop
    /\ Local(d, Stopping(d))

\* The dispatch-point gate: a pause that landed since the plan ends the pass.
DispatchGate(d) ==
    /\ Between(d, "dispatch")
    /\ drv[d].plan # {}
    /\ ~proj.corrupt
    /\ proj.status = "Paused"
    /\ Local(d, [drv[d] EXCEPT !.plan = {}])

\* Mutant of DispatchNode: the pause is not asked about again at the point of dispatch.
DispatchNode_Ungated(d) ==
    /\ Between(d, "dispatch")
    /\ ~proj.corrupt
    /\ \E p \in drv[d].plan :
        /\ First(p, drv[d].plan)
        /\ Local(d, [drv[d] EXCEPT !.pc = IF proj.node[p[2]] = "Ready" THEN "hop1" ELSE "hop2"])

\* Past the gate; the Ready hop is written only if the node read as Ready.
DispatchNode(d) ==
    /\ Between(d, "dispatch")
    /\ ~proj.corrupt
    /\ proj.status # "Paused"
    /\ \E p \in drv[d].plan :
        /\ First(p, drv[d].plan)
        /\ Local(d, [drv[d] EXCEPT !.pc = IF proj.node[p[2]] = "Ready" THEN "hop1" ELSE "hop2"])

\* Each hop reads the node again; nothing looks at the state the second one produced.
Hop(d) ==
    /\ Between(d, "hop1") \/ Between(d, "hop2")
    /\ \E p \in drv[d].plan :
        /\ First(p, drv[d].plan)
        /\ Decide(d, p[2], "Started", drv[d])

\* delegation_chosen, then subagent_reused, for a node that declares a delegation.
NoteDelegation(d) ==
    /\ Between(d, "delegate") \/ Between(d, "reuse")
    /\ Local(d, [drv[d] EXCEPT !.event = StatusEvent("note", "None")])

\* The plan is dispatched or cut short: wait for work, or start the next pass with none.
DispatchDone(d) ==
    /\ Between(d, "dispatch")
    /\ drv[d].plan = {}
    /\ Local(d, [drv[d] EXCEPT !.pc = IF drv[d].tasks = {} THEN "pass" ELSE "wait"])

\* A task whose executor panicked leaves the JoinSet and stays in in_flight_nodes.
JoinPanicked(d) ==
    /\ Between(d, "wait")
    /\ "panicked" \in Results
    /\ \E n \in drv[d].tasks :
        Local(d, [drv[d] EXCEPT !.pc = "pass", !.tasks = @ \ {n}])

\* The executor declined to attempt: nothing is recorded and the drive never dispatches it again.
JoinRefused(d) ==
    /\ Between(d, "wait")
    /\ "refused" \in Results
    /\ \E n \in drv[d].tasks :
        Local(d, [drv[d] EXCEPT !.pc = "pass", !.tasks = @ \ {n}, !.flight = @ \ {n},
                                !.refused = @ \cup {n}])

\* An outcome; the success of a node whose completion is gated parks instead.
JoinOutcome(d) ==
    /\ Between(d, "wait")
    /\ \E n \in drv[d].tasks, r \in Results \ {"refused", "panicked"} :
        LET outcome == IF r = "Succeeded" /\ n \in Gated THEN "NeedsInput" ELSE r
        IN  Decide(d, n, outcome, [drv[d] EXCEPT !.pc = "record", !.tasks = @ \ {n},
                                                 !.flight = @ \ {n}])

WaitStop(d) ==
    /\ Between(d, "wait")
    /\ drv[d].stop
    /\ Local(d, Stopping(d))

Interrupt(d) ==
    /\ Between(d, "stopping")
    /\ \E n \in drv[d].todo :
        /\ Least(n, drv[d].todo)
        /\ Decide(d, n, "Interrupted", [drv[d] EXCEPT !.todo = @ \ {n}])

\* Everything in flight is interrupted: pause the execution unless it reads as paused already.
StopSettle(d) ==
    /\ Between(d, "stopping")
    /\ drv[d].todo = {}
    /\ ~proj.corrupt
    /\ IF proj.status # "Paused"
       THEN Local(d, [drv[d] EXCEPT !.pc = "stopPause",
                                    !.event = StatusEvent("paused", "Paused")])
       ELSE Return(d) /\ NoAppend /\ UNCHANGED <<observed, own, issued, crashes>>

\* Mutant of Quiesce: settles as soon as nothing is left to dispatch, whatever is unfinished.
Quiesce_Eager(d) ==
    /\ Between(d, "quiesce")
    /\ Local(d, [drv[d] EXCEPT
                   !.pc = "complete",
                   !.event = StatusEvent("completed",
                       IF \E n \in Nodes : proj.node[n] = "Failed" THEN "Failed" ELSE "Completed")])

\* Quiescence: complete the execution when every node is terminal and it is not settled yet.
Quiesce(d) ==
    /\ Between(d, "quiesce")
    /\ ~proj.corrupt
    /\ IF /\ ~pending_proposal(proj)
          /\ \A n \in Nodes : is_terminal(proj.node[n])
          /\ ~terminal_status(proj.status)
       THEN Local(d, [drv[d] EXCEPT
                        !.pc = "complete",
                        !.event = StatusEvent("completed",
                            IF \A n \in Nodes : satisfies_dependents(proj.node[n])
                            THEN "Completed" ELSE "Failed")])
       ELSE Return(d) /\ NoAppend /\ UNCHANGED <<observed, own, issued, crashes>>

\* Every reread of a stream that no longer replays is an error.
ReadFails(d) ==
    /\ proj.corrupt
    /\ \/ Between(d, "preflight") /\ ~proj.clean
       \/ Between(d, "pass") /\ ~drv[d].stop
       \/ \E pc \in {"approve", "release", "stopping"} : Between(d, pc) /\ drv[d].todo = {}
       \/ Between(d, "dispatch") /\ drv[d].plan # {}
       \/ Between(d, "quiesce")
    /\ Fail(d)

\* next_sequence is read from the store after the decision.
TakeSequence(d) ==
    /\ drv[d].event # NoEvent
    /\ ~drv[d].sequenced
    /\ drv' = [drv EXCEPT ![d].sequenced = TRUE]
    /\ observed' = observed \cup {d}
    /\ NoAppend
    /\ UNCHANGED <<own, cancels, issued, crashes>>

\* Where the drive stands once its append is durable; the spawn itself is in DriveAppend.
AfterAppend(d) ==
    LET s == [drv[d] EXCEPT !.event = NoEvent, !.sequenced = FALSE]
    IN  CASE s.pc = "hop1"          -> [s EXCEPT !.pc = "hop2"]
          [] s.pc = "hop2"          -> [s EXCEPT !.pc = "delegate"]
          [] s.pc = "delegate"      -> [s EXCEPT !.pc = "reuse"]
          [] s.pc = "record"        -> [s EXCEPT !.pc = "pass"]
          [] s.pc = "proposalPause" -> [s EXCEPT !.pc = "quiesce"]
          [] OTHER                  -> s

\* The last append before the executor future starts.
spawns(d, n) == drv[d].pc = "reuse" \/ (drv[d].pc = "hop2" /\ n \notin Delegated)

DriveAppend(d) ==
    /\ drv[d].sequenced
    /\ d \in observed
    /\ Appended(drv[d].event)
    /\ \/ /\ drv[d].pc \notin {"hop2", "reuse", "stopPause", "complete"}
          /\ drv' = [drv EXCEPT ![d] = AfterAppend(d)]
          /\ UNCHANGED cancels
       \/ /\ drv[d].pc \in {"hop2", "reuse"}
          /\ \E p \in drv[d].plan :
              /\ First(p, drv[d].plan)
              /\ drv' = [drv EXCEPT ![d] =
                    IF spawns(d, p[2])
                    THEN [AfterAppend(d) EXCEPT !.pc = "dispatch", !.plan = @ \ {p},
                                                !.flight = @ \cup {p[2]},
                                                !.tasks = @ \cup {p[2]}]
                    ELSE AfterAppend(d)]
          /\ UNCHANGED cancels
       \/ /\ drv[d].pc \in {"stopPause", "complete"}
          /\ Return(d)
    /\ UNCHANGED <<own, issued, crashes>>

\* Somebody appended between next_sequence and append_atomic.
SequenceConflict(d) ==
    /\ drv[d].sequenced
    /\ d \notin observed
    /\ Fail(d)

\* A detached drive records its failure at the head; a caller-owned one returns it.
RecordFailure(d) ==
    /\ drv[d].pc = "failing"
    /\ drv' = [drv EXCEPT ![d] = Off]
    /\ \/ Appended(StatusEvent("note", "None"))
       \/ NoAppend /\ UNCHANGED observed
    /\ UNCHANGED <<own, cancels, issued, crashes>>

DriveStep(d) ==
    \/ Preflight(d) \/ PassStop(d) \/ Pass(d) \/ Approve(d) \/ Reread(d) \/ Release(d)
    \/ Replan(d) \/ DispatchRefuse(d) \/ DispatchStop(d) \/ DispatchGate(d) \/ DispatchNode(d)
    \/ Hop(d) \/ NoteDelegation(d) \/ DispatchDone(d) \/ JoinPanicked(d) \/ JoinRefused(d)
    \/ JoinOutcome(d) \/ WaitStop(d) \/ Interrupt(d) \/ StopSettle(d) \/ Quiesce(d)
    \/ ReadFails(d) \/ TakeSequence(d) \/ DriveAppend(d) \/ SequenceConflict(d)
    \/ RecordFailure(d)

---------------------------------------------------------------------------
(* The owner's commands *)

\* Command `name` begins: it reads the stream, so its observed sequence is the head.
Issue(o, name, state) ==
    /\ own[o] = Idle
    /\ name \in Commands
    /\ issued < MaxCommands
    /\ issued' = issued + 1
    /\ ~proj.corrupt
    /\ own' = [own EXCEPT ![o] = state]
    /\ observed' = observed \cup {o}
    /\ NoAppend
    /\ UNCHANGED <<drv, cancels, crashes>>

\* pause::execute with or without the graph file: the nodes to hold come from the read that
\* precedes the pause itself.
BeginPause(o, name) ==
    /\ proj.status \in {"None", "Running"}
    /\ LET bare == {n \in Nodes : proj.node[n] \in {"Ready", "Queued"}}
       IN  \E held \in {bare, IF ReadySetTooLarge(proj.node) THEN bare
                              ELSE dispatch_candidates(proj.node)} :
            Issue(o, name, [pc |-> "pausing", todo |-> held,
                            event |-> StatusEvent("paused", "Paused")])

PauseCommand(o) == BeginPause(o, "pause")

\* POST /pause {"mode": "immediate"}: signal the registered drive, or pause gracefully without one.
StopCommand(o) ==
    IF cancels = NoDrive THEN BeginPause(o, "stop")
    ELSE /\ own[o] = Idle
         /\ "stop" \in Commands
         /\ issued < MaxCommands
         /\ issued' = issued + 1
         /\ drv' = [drv EXCEPT ![cancels].stop = TRUE]
         /\ NoAppend
         /\ UNCHANGED <<observed, own, cancels, crashes>>

\* Only nodes with a recorded state are swept; an untouched node is absent from node_states.
CancelCommand(o) ==
    /\ ~terminal_status(proj.status)
    /\ Issue(o, "cancel", [pc |-> "sweeping", event |-> NoEvent,
                           todo |-> {n \in Nodes : /\ proj.node[n] # "Draft"
                                                   /\ ~is_terminal(proj.node[n])}])

ResumeCommand(o) ==
    Issue(o, "resume", [pc |-> "triaging", todo |-> recovery_plan(proj), event |-> NoEvent])

ApproveCommand(o) ==
    \E n \in Nodes :
        /\ proj.node[n] \in {"Ghost", "Blocked"}
        /\ Issue(o, "approve", [pc |-> "approving", todo |-> {n}, event |-> NoEvent])

OwnerBetween(o, pc) == own[o].pc = pc /\ own[o].event = NoEvent

\* A command that was refused or is done leaves what it appended behind.
Settle(o) ==
    /\ own' = [own EXCEPT ![o] = Idle]
    /\ observed' = observed \ {o}
    /\ NoAppend
    /\ UNCHANGED <<drv, cancels, issued, crashes>>

\* An owner command's own read and decision; its append keeps the sequence of this read.
Observe(o, state) ==
    /\ own' = [own EXCEPT ![o] = state]
    /\ observed' = observed \cup {o}
    /\ NoAppend
    /\ UNCHANGED <<drv, cancels, issued, crashes>>

OutcomeOf(pc) == CASE pc = "holding"  -> "Paused"
                   [] pc = "sweeping" -> "Cancelled"
                   [] pc = "triaging" -> "Interrupted"
                   [] OTHER           -> "Approved"

\* mod.rs record_outcome: replay, apply_transition; an illegal outcome ends the command here.
OwnerDecide(o) ==
    /\ own[o].event = NoEvent
    /\ \E n \in own[o].todo :
        /\ Least(n, own[o].todo)
        /\ LET outcome == OutcomeOf(own[o].pc)
               next == next_state(proj, n, outcome)
           IN  IF proj.corrupt \/ next = IllegalTransition THEN Settle(o)
               ELSE Observe(o, [own[o] EXCEPT !.event = OutcomeEvent(n, outcome, next),
                                              !.todo = @ \ {n}])

PauseDone(o) ==
    /\ OwnerBetween(o, "holding")
    /\ own[o].todo = {}
    /\ Settle(o)

\* The sweep is over: read again, and complete as Cancelled unless something else settled it.
CancelSettle(o) ==
    /\ OwnerBetween(o, "sweeping")
    /\ own[o].todo = {}
    /\ IF proj.corrupt \/ terminal_status(proj.status) THEN Settle(o)
       ELSE Observe(o, [own[o] EXCEPT !.pc = "cancelling",
                                      !.event = StatusEvent("completed", "Cancelled")])

\* Crash triage is over: read again and check the preconditions; the held nodes are this read's.
ResumeSettle(o) ==
    /\ OwnerBetween(o, "triaging")
    /\ own[o].todo = {}
    /\ IF proj.corrupt \/ ~resume_preconditions(proj) THEN Settle(o)
       ELSE Observe(o, [pc |-> "resuming", event |-> StatusEvent("resumed", "Running"),
                        todo |-> {n \in Nodes : proj.node[n] = "Paused"}])

\* Mutant of OwnerAppend: the sequence is taken from the store at the append (before #1670).
OwnerAppend_AtHead(o) ==
    /\ own[o].event # NoEvent
    /\ own[o].pc # "resuming"
    /\ Appended(own[o].event)
    /\ own' = [own EXCEPT ![o] =
            IF own[o].pc = "pausing" THEN [own[o] EXCEPT !.pc = "holding", !.event = NoEvent]
            ELSE IF own[o].pc \in {"holding", "sweeping", "triaging"}
            THEN [own[o] EXCEPT !.event = NoEvent] ELSE Idle]
    /\ UNCHANGED <<drv, cancels, issued, crashes>>

\* append_event at observed + 1.
OwnerAppend(o) ==
    /\ own[o].event # NoEvent
    /\ own[o].pc # "resuming"
    /\ o \in observed
    /\ Appended(own[o].event)
    /\ own' = [own EXCEPT ![o] =
            CASE own[o].pc = "pausing" -> [own[o] EXCEPT !.pc = "holding", !.event = NoEvent]
              [] own[o].pc \in {"holding", "sweeping", "triaging"}
                                       -> [own[o] EXCEPT !.event = NoEvent]
              [] OTHER                 -> Idle]
    /\ UNCHANGED <<drv, cancels, issued, crashes>>

\* ExecutionResumed is durable: a drive starts, whatever other drive is still live.
ResumeAppend(o) ==
    /\ own[o].pc = "resuming"
    /\ o \in observed
    /\ \E d \in Drives :
        /\ drv[d] = Off
        /\ Appended(own[o].event)
        /\ drv' = [drv EXCEPT ![d] = Fresh(own[o].todo)]
        /\ cancels' = d
    /\ own' = [own EXCEPT ![o] = Idle]
    /\ UNCHANGED <<issued, crashes>>

\* GHE001_SEQUENCE_CONFLICT: the loser is told the state moved.
OwnerConflict(o) ==
    /\ own[o].event # NoEvent
    /\ o \notin observed
    /\ Settle(o)

OwnerContinue(o) ==
    \/ OwnerDecide(o) \/ PauseDone(o) \/ CancelSettle(o) \/ ResumeSettle(o)
    \/ OwnerAppend(o) \/ ResumeAppend(o) \/ OwnerConflict(o)

OwnerBegin(o) ==
    \/ PauseCommand(o) \/ StopCommand(o) \/ CancelCommand(o) \/ ResumeCommand(o)
    \/ ApproveCommand(o)

---------------------------------------------------------------------------
(* The environment: governed proposals, and killed processes *)

\* An agent's signal appends DraftProposed; the owner later applies or rejects it.
Proposal ==
    /\ \/ proj.draft = "none" /\ MaxProposals = 1 /\ proj' = [proj EXCEPT !.draft = "proposed"]
       \/ proj.draft = "proposed" /\ proj' = [proj EXCEPT !.draft = "resolved"]
    /\ observed' = {}
    /\ UNCHANGED <<drv, own, cancels, issued, crashes, lateStarts>>

\* The server process dies, with its drives and the commands it was serving.
Crash ==
    /\ crashes < MaxCrashes
    /\ crashes' = crashes + 1
    /\ drv' = [d \in Drives |-> Off]
    /\ own' = [o \in Owners |-> Idle]
    /\ cancels' = NoDrive
    /\ observed' = {}
    /\ NoAppend
    /\ UNCHANGED issued

\* A command line dies between two of its appends.
OwnerKilled(o) ==
    /\ own[o] # Idle
    /\ crashes < MaxCrashes
    /\ crashes' = crashes + 1
    /\ own' = [own EXCEPT ![o] = Idle]
    /\ observed' = observed \ {o}
    /\ NoAppend
    /\ UNCHANGED <<drv, cancels, issued>>

Next ==
    \/ \E d \in Drives : DriveStep(d)
    \/ \E o \in Owners : OwnerBegin(o) \/ OwnerContinue(o) \/ OwnerKilled(o)
    \/ Proposal
    \/ Crash

Spec == Init /\ [][Next]_vars

\* tokio keeps polling a live drive and every executor is bounded by its own timeout; a command
\* that has begun runs to its end.  Nobody is obliged to issue a command.
FairSpec ==
    /\ Spec
    /\ \A d \in Drives : WF_vars(DriveStep(d))
    /\ \A o \in Owners : WF_vars(OwnerContinue(o))

---------------------------------------------------------------------------
(* What should hold *)

TypeOK ==
    /\ proj \in Projection
    /\ observed \subseteq Drives \cup Owners
    /\ drv \in [Drives -> DriveState]
    /\ own \in [Owners -> OwnerState]
    /\ cancels \in Drives \cup {NoDrive}
    /\ issued \in Nat
    /\ crashes \in Nat
    /\ lateStarts \in Nat

\* The stream always replays: no interleaving of owner commands and a drive makes
\* the fold of ExecutionPaused or ExecutionResumed answer ReplayError::Corrupt.
NoCorruption == ~proj.corrupt

\* A recorded success or failure is final: apply_transition decides on an older read than the one
\* its event is appended after, and still no append replaces Succeeded or Failed.
OutcomesFinal ==
    [][\A n \in Nodes : proj.node[n] \in {"Succeeded", "Failed"}
                          => proj'.node[n] = proj.node[n]]_vars

\* Work is only ever done behind satisfied edges (dispatch_candidates, #80): whatever was attempted
\* or is being executed has every gating predecessor settled, now and not only at its dispatch.
DependencyOrder ==
    \A n \in Nodes :
        proj.attempts[n] > 0 \/ (\E d \in Drives : n \in drv[d].tasks)
            => edges_satisfied(proj.node, n)

\* An execution reported Completed has only successes (the drive's quiescence append races
\* every owner command and is not a compare-and-set).
CompletionSound ==
    proj.status = "Completed" => \A n \in Nodes : satisfies_dependents(proj.node[n])

\* An execution its drive settled as Failed has no unfinished node.
FailureSettled ==
    proj.status = "Failed" /\ proj.clean => \A n \in Nodes : is_terminal(proj.node[n])

\* The residue of the plan gate and the dispatch gate (#124, #562): after ExecutionPaused is durable,
\* each live drive starts at most the one node it had already taken past its gate.
PauseResidue == lateStarts <= Cardinality(Drives)

\* ExecutionResumed is only ever appended to a stream in which no node is Running and
\* no interruption is untriaged (resume_preconditions at the head the append takes, #1670).
ResumeTriaged ==
    [][proj.status = "Paused" /\ proj'.status = "Running"
         => recovery_plan(proj) = {} /\ untriaged(proj) = {}]_vars

\* A graph the preflight refuses has no effect: no node of it is ever approved or attempted, in this
\* drive or in one that a resume starts.
RefusedGraphIsInert ==
    ~proj.clean => \A n \in Nodes : proj.node[n] = "Draft" /\ proj.attempts[n] = 0

\* A node waiting for a retry has attempts left and is not repeating itself: MAX_NODE_ATTEMPTS is the
\* number of attempts "before the execution blocks for an owner decision" (bounds.rs:6), the one being
\* reported included, and MAX_IDENTICAL_OUTCOMES failures in a row are followed by one more attempt at
\* most.  The first contradicts the comment at transition.rs:21 ("not counting the one being
\* reported"), by which a node would get one attempt more.
RetryBounded ==
    \A n \in Nodes : proj.node[n] = "Queued" /\ proj.last[n] = "RetryableFailure"
        => proj.attempts[n] < MaxAttempts /\ proj.identical[n] <= MaxIdentical

\* No drive has more executor futures than the graph's parallel budget, refusals, panics,
\* retries and releases included.
ParallelBound == \A d \in Drives : Cardinality(drv[d].tasks) <= MaxParallel

\* An owner command's outcome is the one apply_transition gives at the moment it is appended, not
\* only at the moment it was decided (the compare-and-set of #1670).
CommandsLinearize ==
    [][\A o \in Owners :
         own[o].event.kind = "outcome" /\ own'[o].event = NoEvent /\ proj' # proj
           => own[o].event.next = next_state(proj, own[o].event.node, own[o].event.outcome)]_vars

\* A live drive returns: retries are bounded, and the plan gate ends the pass that the
\* dispatch gate cut short.
DriveReturns == \A d \in Drives : (drv[d].pc # "off") ~> (drv[d].pc = "off")

(* What the source says and the code does not keep *)

\* recovery.rs: a node whose effects are unknown is never resumed, so no two drives execute it.
SingleExecutor ==
    \A n \in Nodes : \A d, e \in Drives : n \in drv[d].tasks /\ n \in drv[e].tasks => d = e
============================================================================
