------------------------ MODULE ExecutionDriveProofs ------------------------
(* What ExecutionDrive guarantees for every graph, every bound and every number of drives and owner  *)
(* commands, proved with TLAPS.                                                                      *)
EXTENDS ExecutionDrive, TLAPS

---------------------------------------------------------------------------
(* The pure operators *)

\* apply_transition answers a node state or refuses (transition.rs).
LEMMA ApplyTransitionType ==
    ASSUME NEW current \in NodeStates, NEW outcome \in NodeOutcomes, NEW attempts, NEW identical
    PROVE  apply_transition(current, outcome, attempts, identical)
               \in NodeStates \cup {IllegalTransition}
BY DEF apply_transition, NodeStates, NodeOutcomes, is_terminal, IllegalTransition

\* The refusal is not a state, so a legal decision is a state.
LEMMA NextStateType ==
    ASSUME NEW p \in Projection, NEW n \in Nodes, NEW outcome \in NodeOutcomes,
           next_state(p, n, outcome) # IllegalTransition
    PROVE  next_state(p, n, outcome) \in NodeStates
BY ApplyTransitionType DEF next_state, Projection

LEMMA EventTypes ==
    /\ NoEvent \in Event
    /\ \A n \in Nodes, outcome \in NodeOutcomes, next \in NodeStates :
          OutcomeEvent(n, outcome, next) \in Event
    /\ \A kind \in {"paused", "resumed", "completed", "note"}, status \in SimulationStatus :
          StatusEvent(kind, status) \in Event
BY DEF Event, OutcomeEvent, StatusEvent, NoEvent

LEMMA ProjectionUpdate ==
    ASSUME NEW p \in Projection, NEW node \in [Nodes -> NodeStates],
           NEW attempts \in [Nodes -> Nat], NEW last \in [Nodes -> NodeOutcomes \cup {"None"}],
           NEW identical \in [Nodes -> Nat]
    PROVE  [p EXCEPT !.node = node, !.attempts = attempts, !.last = last,
                     !.identical = identical] \in Projection
BY DEF Projection

\* Folding any event keeps the projection well formed (projection.rs).
LEMMA FoldType ==
    ASSUME NEW p \in Projection, NEW e \in Event
    PROVE  fold(p, e) \in Projection
<1>1. CASE e.kind = "outcome"
  <2>1. e.node \in Nodes /\ e.outcome \in NodeOutcomes /\ e.next \in NodeStates
    BY <1>1 DEF Event, NoEvent
  <2>2. count_attempt(p, e.node, e.outcome, e.next) \in [Nodes -> Nat]
    BY <2>1 DEF count_attempt, Projection
  <2>3. last_outcome(p, e.node, e.outcome) \in [Nodes -> NodeOutcomes \cup {"None"}]
    BY <2>1 DEF last_outcome, Projection
  <2>4. identical_outcomes(p, e.node, e.outcome) \in [Nodes -> Nat]
    BY <2>1 DEF identical_outcomes, identical_outcomes_for, Projection
  <2>5. [p.node EXCEPT ![e.node] = e.next] \in [Nodes -> NodeStates]
    BY <2>1 DEF Projection
  <2> QED BY <1>1, <2>2, <2>3, <2>4, <2>5, ProjectionUpdate DEF fold, fold_outcome
<1>2. CASE e.kind = "completed"
  <2>1. e.next \in SimulationStatus
    BY <1>2 DEF Event, NoEvent
  <2> QED BY <1>2, <2>1 DEF fold, fold_completed, Projection
<1>3. CASE e.kind \in {"paused", "resumed"}
  BY <1>3 DEF fold, fold_paused, fold_resumed, Projection, SimulationStatus
<1>4. CASE e.kind \notin {"outcome", "completed", "paused", "resumed"}
  BY <1>4 DEF fold
<1> QED BY <1>1, <1>2, <1>3, <1>4

---------------------------------------------------------------------------
(* The type invariant: one lemma per form a step takes, then one step per action *)

\* Appending an event of the right shape keeps the stream's state well formed.
LEMMA AppendedType ==
    ASSUME TypeOK, NEW e \in Event, Appended(e)
    PROVE  proj' \in Projection /\ observed' \subseteq Drives \cup Owners /\ lateStarts' \in Nat
<1>1. proj' \in Projection
  BY FoldType DEF Appended, TypeOK
<1> QED BY <1>1 DEF Appended, TypeOK

LEMMA OffType == Off \in DriveState /\ Idle \in OwnerState
BY EventTypes DEF Off, Idle, DriveState, OwnerState, DrivePcs, OwnerPcs

LEMMA LocalType ==
    ASSUME TypeOK, NEW d \in Drives, NEW state \in DriveState, Local(d, state)
    PROVE  TypeOK'
BY DEF TypeOK, Local, NoAppend

LEMMA FailType ==
    ASSUME TypeOK, NEW d \in Drives, Fail(d)
    PROVE  TypeOK'
<1>1. [Off EXCEPT !.pc = "failing"] \in DriveState
  BY OffType DEF DriveState, DrivePcs
<1> QED BY <1>1 DEF TypeOK, Fail, NoAppend

LEMMA ReturnType ==
    ASSUME TypeOK, NEW d \in Drives, Return(d), NoAppend,
           UNCHANGED <<observed, own, issued, crashes>>
    PROVE  TypeOK'
BY OffType DEF TypeOK, Return, NoAppend

LEMMA DecideType ==
    ASSUME TypeOK, NEW d \in Drives, NEW n \in Nodes, NEW outcome \in NodeOutcomes,
           NEW state \in DriveState, Decide(d, n, outcome, state)
    PROVE  TypeOK'
<1> DEFINE next == next_state(proj, n, outcome)
<1>1. CASE proj.corrupt \/ next = IllegalTransition
  BY <1>1, FailType DEF Decide
<1>2. CASE ~(proj.corrupt \/ next = IllegalTransition)
  <2>1. next \in NodeStates
    BY <1>2, NextStateType DEF TypeOK
  <2>2. OutcomeEvent(n, outcome, next) \in Event
    BY <2>1, EventTypes
  <2>3. [state EXCEPT !.event = OutcomeEvent(n, outcome, next)] \in DriveState
    BY <2>2 DEF DriveState
  <2> QED BY <1>2, <2>3, LocalType DEF Decide
<1> QED BY <1>1, <1>2

LEMMA PlanPassType ==
    ASSUME TypeOK, NEW d \in Drives, PlanPass(d)
    PROVE  TypeOK'
<1> DEFINE candidates == dispatch_candidates(proj.node) \ (drv[d].flight \cup drv[d].refused)
           plan == IF proj.status = "Paused" THEN {}
                   ELSE dispatch_plan(candidates, proj.attempts, Cardinality(drv[d].flight))
<1>1. CASE ReadySetTooLarge(proj.node) \/ (ZeroParallelism /\ proj.status # "Paused")
  BY <1>1, FailType DEF PlanPass
<1>2. CASE ~(ReadySetTooLarge(proj.node) \/ (ZeroParallelism /\ proj.status # "Paused"))
  <2>1. candidates \subseteq Nodes
    BY DEF dispatch_candidates, ready_set
  <2>2. proj.attempts \in [Nodes -> Nat]
    BY DEF TypeOK, Projection
  <2>3. plan \in SUBSET (Nat \X Nodes)
    BY <2>1, <2>2 DEF dispatch_plan
  <2> HIDE DEF plan
  <2> DEFINE pc == IF plan = {} /\ drv[d].tasks = {} THEN "quiesce" ELSE "dispatch"
  <2>4. pc \in DrivePcs
    BY DEF DrivePcs
  <2> HIDE DEF pc
  <2>5. drv[d] \in DriveState
    BY DEF TypeOK
  <2>6. [drv[d] EXCEPT !.pc = pc, !.todo = {}, !.plan = plan] \in DriveState
    BY <2>3, <2>4, <2>5 DEF DriveState
  <2> QED BY <1>2, <2>6, LocalType DEF PlanPass, plan, pc
<1> QED BY <1>1, <1>2

\* Every step of a drive keeps the type invariant.
LEMMA DriveStepType ==
    ASSUME TypeOK, NEW d \in Drives, DriveStep(d)
    PROVE  TypeOK'
<1> DEFINE s == drv[d]
<1>0. /\ s \in DriveState
      /\ s.todo \subseteq Nodes /\ s.plan \subseteq Nat \X Nodes
      /\ s.flight \subseteq Nodes /\ s.tasks \subseteq Nodes
      /\ s.event \in Event
  BY DEF TypeOK, DriveState
<1>1. CASE Preflight(d)
  <2>1. [s EXCEPT !.pc = "pass"] \in DriveState
    BY <1>0 DEF DriveState, DrivePcs
  <2>2. StatusEvent("completed", "Failed") \in Event
    BY EventTypes DEF SimulationStatus
  <2>3. [s EXCEPT !.pc = "complete", !.event = StatusEvent("completed", "Failed")] \in DriveState
    BY <1>0, <2>2 DEF DriveState, DrivePcs
  <2> QED BY <1>1, <2>1, <2>3, LocalType, ReturnType DEF Preflight
<1>2. Stopping(d) \in DriveState
  BY <1>0 DEF Stopping, DriveState, DrivePcs
<1>3. CASE PassStop(d) \/ DispatchStop(d) \/ WaitStop(d)
  BY <1>2, <1>3, LocalType DEF PassStop, DispatchStop, WaitStop
<1>4. CASE Pass(d)
  <2>1. StatusEvent("paused", "Paused") \in Event
    BY EventTypes DEF SimulationStatus
  <2>2. [s EXCEPT !.pc = "proposalPause", !.event = StatusEvent("paused", "Paused")]
            \in DriveState
    BY <1>0, <2>1 DEF DriveState, DrivePcs
  <2>3. [s EXCEPT !.pc = "quiesce"] \in DriveState
    BY <1>0 DEF DriveState, DrivePcs
  <2>4. [s EXCEPT !.pc = "approve", !.todo = {n \in Nodes : proj.node[n] = "Draft"}]
            \in DriveState
    BY <1>0 DEF DriveState, DrivePcs
  <2> QED BY <1>4, <2>2, <2>3, <2>4, LocalType DEF Pass
<1>5. CASE Approve(d) \/ Release(d) \/ Interrupt(d)
  <2>1. PICK n \in s.todo : \E outcome \in {"Approved", "Started", "Interrupted"} :
            Decide(d, n, outcome, [s EXCEPT !.todo = @ \ {n}])
    BY <1>5 DEF Approve, Release, Interrupt
  <2>2. [s EXCEPT !.todo = @ \ {n}] \in DriveState
    BY <1>0 DEF DriveState
  <2> QED BY <1>0, <2>1, <2>2, DecideType DEF NodeOutcomes
<1>6. CASE Reread(d)
  <2>1. releasable(d) \subseteq Nodes
    BY <1>0 DEF releasable, DriveState
  <2>2. [s EXCEPT !.pc = "release", !.todo = releasable(d)] \in DriveState
    BY <1>0, <2>1 DEF DriveState, DrivePcs
  <2> QED BY <1>6, <2>2, LocalType, PlanPassType DEF Reread
<1>7. CASE Replan(d)
  BY <1>7, PlanPassType DEF Replan
<1>8. CASE DispatchRefuse(d)
  <2>1. PICK p \in s.plan :
            Local(d, [s EXCEPT !.plan = @ \ {p}, !.refused = @ \cup {p[2]}])
    BY <1>8 DEF DispatchRefuse
  <2>2. p[2] \in Nodes
    BY <1>0
  <2>3. [s EXCEPT !.plan = @ \ {p}, !.refused = @ \cup {p[2]}] \in DriveState
    BY <1>0, <2>2 DEF DriveState
  <2> QED BY <2>1, <2>3, LocalType
<1>9. CASE DispatchGate(d)
  <2>1. [s EXCEPT !.plan = {}] \in DriveState
    BY <1>0 DEF DriveState
  <2> QED BY <1>9, <2>1, LocalType DEF DispatchGate
<1>10. CASE DispatchNode(d)
  <2>1. \A pc \in {"hop1", "hop2"} : [s EXCEPT !.pc = pc] \in DriveState
    BY <1>0 DEF DriveState, DrivePcs
  <2>2. \E pc \in {"hop1", "hop2"} : Local(d, [s EXCEPT !.pc = pc])
    BY <1>10 DEF DispatchNode
  <2> QED BY <2>1, <2>2, LocalType
<1>11. CASE Hop(d)
  <2>1. PICK p \in s.plan : Decide(d, p[2], "Started", s)
    BY <1>11 DEF Hop
  <2>2. p[2] \in Nodes
    BY <1>0
  <2> QED BY <1>0, <2>1, <2>2, DecideType DEF NodeOutcomes
<1>12. CASE NoteDelegation(d)
  <2>1. StatusEvent("note", "None") \in Event
    BY EventTypes DEF SimulationStatus
  <2>2. [s EXCEPT !.event = StatusEvent("note", "None")] \in DriveState
    BY <1>0, <2>1 DEF DriveState
  <2> QED BY <1>12, <2>2, LocalType DEF NoteDelegation
<1>13. CASE DispatchDone(d)
  <2>1. \A pc \in {"pass", "wait"} : [s EXCEPT !.pc = pc] \in DriveState
    BY <1>0 DEF DriveState, DrivePcs
  <2>2. \E pc \in {"pass", "wait"} : Local(d, [s EXCEPT !.pc = pc])
    BY <1>13 DEF DispatchDone
  <2> QED BY <2>1, <2>2, LocalType
<1>14. CASE JoinPanicked(d) \/ JoinRefused(d)
  <2>1. \A n \in s.tasks : [s EXCEPT !.pc = "pass", !.tasks = @ \ {n}] \in DriveState
    BY <1>0 DEF DriveState, DrivePcs
  <2>2. \A n \in s.tasks : [s EXCEPT !.pc = "pass", !.tasks = @ \ {n}, !.flight = @ \ {n},
                                     !.refused = @ \cup {n}] \in DriveState
    BY <1>0 DEF DriveState, DrivePcs
  <2> QED BY <1>14, <2>1, <2>2, LocalType DEF JoinPanicked, JoinRefused
<1>15. CASE JoinOutcome(d)
  <2>1. PICK n \in s.tasks, r \in Results \ {"refused", "panicked"} :
            Decide(d, n, IF r = "Succeeded" /\ n \in Gated THEN "NeedsInput" ELSE r,
                   [s EXCEPT !.pc = "record", !.tasks = @ \ {n}, !.flight = @ \ {n}])
    BY <1>15 DEF JoinOutcome
  <2> DEFINE outcome == IF r = "Succeeded" /\ n \in Gated THEN "NeedsInput" ELSE r
  <2>2. outcome \in NodeOutcomes
    BY <2>1, ConfigAssumption DEF NodeOutcomes, ResultNames
  <2>3. [s EXCEPT !.pc = "record", !.tasks = @ \ {n}, !.flight = @ \ {n}] \in DriveState
    BY <1>0 DEF DriveState, DrivePcs
  <2> HIDE DEF outcome
  <2>4. Decide(d, n, outcome, [s EXCEPT !.pc = "record", !.tasks = @ \ {n}, !.flight = @ \ {n}])
    BY <2>1 DEF outcome
  <2> QED BY <1>0, <2>1, <2>2, <2>3, <2>4, DecideType
<1>16. CASE StopSettle(d)
  <2>1. StatusEvent("paused", "Paused") \in Event
    BY EventTypes DEF SimulationStatus
  <2>2. [s EXCEPT !.pc = "stopPause", !.event = StatusEvent("paused", "Paused")] \in DriveState
    BY <1>0, <2>1 DEF DriveState, DrivePcs
  <2> QED BY <1>16, <2>2, LocalType, ReturnType DEF StopSettle
<1>17. CASE Quiesce(d)
  <2> DEFINE status == IF \A n \in Nodes : satisfies_dependents(proj.node[n])
                       THEN "Completed" ELSE "Failed"
  <2>1. StatusEvent("completed", status) \in Event
    BY EventTypes DEF SimulationStatus
  <2>2. [s EXCEPT !.pc = "complete", !.event = StatusEvent("completed", status)] \in DriveState
    BY <1>0, <2>1 DEF DriveState, DrivePcs
  <2> QED BY <1>17, <2>2, LocalType, ReturnType DEF Quiesce
<1>18. CASE ReadFails(d) \/ SequenceConflict(d)
  BY <1>18, FailType DEF ReadFails, SequenceConflict
<1>19. CASE TakeSequence(d)
  <2>1. [s EXCEPT !.sequenced = TRUE] \in DriveState
    BY <1>0 DEF DriveState
  <2>2. drv' \in [Drives -> DriveState]
    BY <1>19, <2>1 DEF TakeSequence, TypeOK
  <2> QED BY <1>19, <2>2 DEF TakeSequence, TypeOK, NoAppend
<1>20. CASE DriveAppend(d)
  <2>1. proj' \in Projection /\ observed' \subseteq Drives \cup Owners /\ lateStarts' \in Nat
    BY <1>0, <1>20, AppendedType DEF DriveAppend
  <2>2. AfterAppend(d) \in DriveState
    <3>1. [s EXCEPT !.event = NoEvent, !.sequenced = FALSE] \in DriveState
      BY <1>0, EventTypes DEF DriveState
    <3>2. \A pc \in DrivePcs : [[s EXCEPT !.event = NoEvent, !.sequenced = FALSE]
                                   EXCEPT !.pc = pc] \in DriveState
      BY <3>1 DEF DriveState
    <3> QED BY <3>1, <3>2 DEF AfterAppend, DrivePcs
  <2>3. drv' \in [Drives -> DriveState] /\ cancels' \in Drives \cup {NoDrive}
    <3>1. CASE drv' = [drv EXCEPT ![d] = AfterAppend(d)] /\ UNCHANGED cancels
      BY <2>2, <3>1 DEF TypeOK
    <3>2. CASE /\ UNCHANGED cancels
               /\ \E p \in s.plan :
                    drv' = [drv EXCEPT ![d] =
                              [AfterAppend(d) EXCEPT !.pc = "dispatch", !.plan = @ \ {p},
                                                     !.flight = @ \cup {p[2]},
                                                     !.tasks = @ \cup {p[2]}]]
      <4>1. PICK p \in s.plan :
                drv' = [drv EXCEPT ![d] =
                              [AfterAppend(d) EXCEPT !.pc = "dispatch", !.plan = @ \ {p},
                                                     !.flight = @ \cup {p[2]},
                                                     !.tasks = @ \cup {p[2]}]]
        BY <3>2
      <4>2. p[2] \in Nodes
        BY <1>0
      <4>3. [AfterAppend(d) EXCEPT !.pc = "dispatch", !.plan = @ \ {p}, !.flight = @ \cup {p[2]},
                                   !.tasks = @ \cup {p[2]}] \in DriveState
        BY <2>2, <4>2 DEF DriveState, DrivePcs
      <4> QED BY <3>2, <4>1, <4>3 DEF TypeOK
    <3>3. CASE Return(d)
      BY <3>3, OffType DEF Return, TypeOK
    <3> QED BY <1>20, <3>1, <3>2, <3>3 DEF DriveAppend
  <2> QED BY <1>20, <2>1, <2>3 DEF DriveAppend, TypeOK
<1>21. CASE RecordFailure(d)
  <2>1. StatusEvent("note", "None") \in Event
    BY EventTypes DEF SimulationStatus
  <2>2. proj' \in Projection /\ observed' \subseteq Drives \cup Owners /\ lateStarts' \in Nat
    BY <1>21, <2>1, AppendedType DEF RecordFailure, NoAppend, TypeOK
  <2> QED BY <1>21, <2>2, OffType DEF RecordFailure, TypeOK
<1> QED BY <1>1, <1>3, <1>4, <1>5, <1>6, <1>7, <1>8, <1>9, <1>10, <1>11, <1>12, <1>13, <1>14,
           <1>15, <1>16, <1>17, <1>18, <1>19, <1>20, <1>21 DEF DriveStep

LEMMA IssueType ==
    ASSUME TypeOK, NEW o \in Owners, NEW name, NEW state \in OwnerState, Issue(o, name, state)
    PROVE  TypeOK'
BY DEF TypeOK, Issue, NoAppend

LEMMA SettleType ==
    ASSUME TypeOK, NEW o \in Owners, Settle(o)
    PROVE  TypeOK'
BY OffType DEF TypeOK, Settle, NoAppend

LEMMA ObserveType ==
    ASSUME TypeOK, NEW o \in Owners, NEW state \in OwnerState, Observe(o, state)
    PROVE  TypeOK'
BY DEF TypeOK, Observe, NoAppend

LEMMA BeginPauseType ==
    ASSUME TypeOK, NEW o \in Owners, NEW name, BeginPause(o, name)
    PROVE  TypeOK'
<1>1. PICK held \in SUBSET Nodes :
          Issue(o, name, [pc |-> "pausing", todo |-> held,
                          event |-> StatusEvent("paused", "Paused")])
  BY DEF BeginPause, dispatch_candidates, ready_set
<1>2. StatusEvent("paused", "Paused") \in Event
  BY EventTypes DEF SimulationStatus
<1>3. [pc |-> "pausing", todo |-> held, event |-> StatusEvent("paused", "Paused")]
          \in OwnerState
  BY <1>2 DEF OwnerState, OwnerPcs
<1> QED BY <1>1, <1>3, IssueType

\* Every step of an owner command keeps the type invariant.
LEMMA OwnerStepType ==
    ASSUME TypeOK, NEW o \in Owners, OwnerBegin(o) \/ OwnerContinue(o) \/ OwnerKilled(o)
    PROVE  TypeOK'
<1>0. own[o] \in OwnerState /\ own[o].todo \subseteq Nodes /\ own[o].event \in Event
  BY DEF TypeOK, OwnerState
<1>1. CASE PauseCommand(o)
  BY <1>1, BeginPauseType DEF PauseCommand
<1>2. CASE StopCommand(o)
  <2>1. CASE cancels = NoDrive
    BY <1>2, <2>1, BeginPauseType DEF StopCommand
  <2>2. CASE cancels # NoDrive
    <3>1. cancels \in Drives /\ drv[cancels] \in DriveState
      BY <2>2 DEF TypeOK
    <3>2. [drv[cancels] EXCEPT !.stop = TRUE] \in DriveState
      BY <3>1 DEF DriveState
    <3>3. drv' \in [Drives -> DriveState]
      BY <1>2, <2>2, <3>1, <3>2 DEF StopCommand, TypeOK
    <3> QED BY <1>2, <2>2, <3>3 DEF StopCommand, TypeOK, NoAppend
  <2> QED BY <2>1, <2>2
<1>3. CASE CancelCommand(o)
  <2>1. [pc |-> "sweeping", event |-> NoEvent,
         todo |-> {n \in Nodes : proj.node[n] # "Draft" /\ ~is_terminal(proj.node[n])}]
            \in OwnerState
    BY EventTypes DEF OwnerState, OwnerPcs
  <2> QED BY <1>3, <2>1, IssueType DEF CancelCommand
<1>4. CASE ResumeCommand(o)
  <2>1. [pc |-> "triaging", todo |-> recovery_plan(proj), event |-> NoEvent] \in OwnerState
    BY EventTypes DEF OwnerState, OwnerPcs, recovery_plan
  <2> QED BY <1>4, <2>1, IssueType DEF ResumeCommand
<1>5. CASE ApproveCommand(o)
  <2>1. \A n \in Nodes : [pc |-> "approving", todo |-> {n}, event |-> NoEvent] \in OwnerState
    BY EventTypes DEF OwnerState, OwnerPcs
  <2> QED BY <1>5, <2>1, IssueType DEF ApproveCommand
<1>6. CASE OwnerDecide(o)
  <2> DEFINE outcome == OutcomeOf(own[o].pc)
  <2>1. outcome \in NodeOutcomes
    BY DEF OutcomeOf, NodeOutcomes
  <2> HIDE DEF outcome
  <2>2. PICK n \in own[o].todo :
            IF proj.corrupt \/ next_state(proj, n, outcome) = IllegalTransition THEN Settle(o)
            ELSE Observe(o, [own[o] EXCEPT
                               !.event = OutcomeEvent(n, outcome, next_state(proj, n, outcome)),
                               !.todo = @ \ {n}])
    BY <1>6 DEF OwnerDecide, outcome
  <2>3. ASSUME next_state(proj, n, outcome) # IllegalTransition
        PROVE  [own[o] EXCEPT !.event = OutcomeEvent(n, outcome, next_state(proj, n, outcome)),
                              !.todo = @ \ {n}] \in OwnerState
    <3>1. next_state(proj, n, outcome) \in NodeStates
      BY <1>0, <2>1, <2>2, <2>3, NextStateType DEF TypeOK
    <3>2. OutcomeEvent(n, outcome, next_state(proj, n, outcome)) \in Event
      BY <1>0, <2>1, <2>2, <3>1, EventTypes
    <3> QED BY <1>0, <3>2 DEF OwnerState
  <2> QED BY <2>2, <2>3, SettleType, ObserveType
<1>7. CASE PauseDone(o) \/ OwnerConflict(o)
  BY <1>7, SettleType DEF PauseDone, OwnerConflict
<1>8. CASE CancelSettle(o)
  <2>1. StatusEvent("completed", "Cancelled") \in Event
    BY EventTypes DEF SimulationStatus
  <2>2. [own[o] EXCEPT !.pc = "cancelling", !.event = StatusEvent("completed", "Cancelled")]
            \in OwnerState
    BY <1>0, <2>1 DEF OwnerState, OwnerPcs
  <2> QED BY <1>8, <2>2, SettleType, ObserveType DEF CancelSettle
<1>9. CASE ResumeSettle(o)
  <2>1. StatusEvent("resumed", "Running") \in Event
    BY EventTypes DEF SimulationStatus
  <2>2. [pc |-> "resuming", event |-> StatusEvent("resumed", "Running"),
         todo |-> {n \in Nodes : proj.node[n] = "Paused"}] \in OwnerState
    BY <2>1 DEF OwnerState, OwnerPcs
  <2> QED BY <1>9, <2>2, SettleType, ObserveType DEF ResumeSettle
<1>10. CASE OwnerAppend(o)
  <2>1. proj' \in Projection /\ observed' \subseteq Drives \cup Owners /\ lateStarts' \in Nat
    BY <1>0, <1>10, AppendedType DEF OwnerAppend
  <2>2. /\ [own[o] EXCEPT !.pc = "holding", !.event = NoEvent] \in OwnerState
        /\ [own[o] EXCEPT !.event = NoEvent] \in OwnerState
    BY <1>0, EventTypes DEF OwnerState, OwnerPcs
  <2>3. own' \in [Owners -> OwnerState]
    BY <1>10, <2>2, OffType DEF OwnerAppend, TypeOK
  <2> QED BY <1>10, <2>1, <2>3 DEF OwnerAppend, TypeOK
<1>11. CASE ResumeAppend(o)
  <2>1. PICK d \in Drives : /\ Appended(own[o].event)
                            /\ drv' = [drv EXCEPT ![d] = Fresh(own[o].todo)]
                            /\ cancels' = d
    BY <1>11 DEF ResumeAppend
  <2>2. proj' \in Projection /\ observed' \subseteq Drives \cup Owners /\ lateStarts' \in Nat
    BY <1>0, <2>1, AppendedType
  <2>3. Fresh(own[o].todo) \in DriveState
    BY <1>0, OffType DEF Fresh, DriveState, DrivePcs
  <2> QED BY <1>11, <2>1, <2>2, <2>3, OffType DEF ResumeAppend, TypeOK
<1>12. CASE OwnerKilled(o)
  BY <1>12, OffType DEF OwnerKilled, TypeOK, NoAppend
<1> QED BY <1>1, <1>2, <1>3, <1>4, <1>5, <1>6, <1>7, <1>8, <1>9, <1>10, <1>11, <1>12
        DEF OwnerBegin, OwnerContinue

LEMMA TypeInit == Init => TypeOK
<1> SUFFICES ASSUME Init PROVE TypeOK
  OBVIOUS
<1>1. \A clean \in BOOLEAN : Started(clean) \in Projection
  BY DEF Started, Projection, NodeStates, SimulationStatus
<1>2. \A clean \in BOOLEAN : fold_paused(Started(clean)) \in Projection
  BY <1>1 DEF fold_paused, Projection, SimulationStatus
<1>3. Fresh({}) \in DriveState
  BY OffType DEF Fresh, DriveState, DrivePcs
<1> QED BY <1>1, <1>2, <1>3, OffType, ConfigAssumption DEF Init, TypeOK

\* An execution begins with no node touched, readable, without drafts and not settled.
LEMMA InitProjection ==
    ASSUME Init
    PROVE  /\ \A n \in Nodes : /\ proj.node[n] = "Draft" /\ proj.attempts[n] = 0
                               /\ proj.last[n] = "None"
           /\ proj.status \in {"None", "Paused"} /\ ~proj.corrupt /\ proj.draft = "none"
<1>1. PICK clean \in BOOLEAN : proj = Started(clean) \/ proj = fold_paused(Started(clean))
  BY ConfigAssumption DEF Init
<1> QED BY <1>1 DEF Started, fold_paused

LEMMA TypeNext == TypeOK /\ [Next]_vars => TypeOK'
<1> SUFFICES ASSUME TypeOK, [Next]_vars PROVE TypeOK'
  OBVIOUS
<1>1. CASE \E d \in Drives : DriveStep(d)
  BY <1>1, DriveStepType
<1>2. CASE \E o \in Owners : OwnerBegin(o) \/ OwnerContinue(o) \/ OwnerKilled(o)
  BY <1>2, OwnerStepType
<1>3. CASE Proposal
  <2>1. [proj EXCEPT !.draft = "proposed"] \in Projection
        /\ [proj EXCEPT !.draft = "resolved"] \in Projection
    BY DEF TypeOK, Projection
  <2> QED BY <1>3, <2>1 DEF Proposal, TypeOK
<1>4. CASE Crash
  BY <1>4, OffType DEF Crash, TypeOK, NoAppend
<1>5. CASE UNCHANGED vars
  BY <1>5 DEF vars, TypeOK
<1> QED BY <1>1, <1>2, <1>3, <1>4, <1>5 DEF Next

\* Every state the drive, the owner's commands, crashes and proposals can reach is well formed: in
\* particular no illegal transition is ever recorded and every recorded state is a node state.
THEOREM TypeInvariant == Spec => []TypeOK
BY TypeInit, TypeNext, PTL DEF Spec

---------------------------------------------------------------------------
(* The compare-and-set of the owner's commands (#1670).  The inductive invariant relates what a       *)
(* command has decided to the head it was decided at: as long as nothing was appended since, the      *)
(* decision is still the right one.  It needs the shape of pending events as well, for an append is   *)
(* judged by its kind.                                                                                *)

\* A command whose observed sequence is still the head has a decision that holds at the head.
FreshDecision(o) ==
    /\ own[o].event.kind = "outcome" =>
          own[o].event.next = next_state(proj, own[o].event.node, own[o].event.outcome)
    /\ own[o].event.kind = "paused" => proj.status \in {"None", "Running"}
    /\ own[o].event.kind = "resumed" => resume_preconditions(proj)

CommandsFresh == \A o \in Owners : o \in observed => FreshDecision(o)

\* Which status events a command and a drive may have pending.  With neither immediate stops nor
\* proposals no drive ever pauses its execution.
Quiet == "stop" \notin Commands /\ MaxProposals = 0
OwnerShape(e) == e.kind = "completed" => e.next = "Cancelled"
DriveShape(s) ==
    /\ s.event.kind # "resumed"
    /\ s.event.kind = "completed" => s.event.next \in {"Completed", "Failed"}
    /\ Quiet => /\ ~s.stop /\ s.event.kind # "paused"
                /\ s.pc \notin {"stopping", "stopPause", "proposalPause"}
EventShapes ==
    /\ \A o \in Owners : OwnerShape(own[o].event)
    /\ \A d \in Drives : DriveShape(drv[d])
    /\ Quiet => proj.draft = "none"

CommandInv == TypeOK /\ CommandsFresh /\ EventShapes

\* What a step of a drive does to everything but the drive: it appends, or it changes nothing
\* anybody else reads.
LEMMA DriveStepEffect ==
    ASSUME TypeOK, NEW d \in Drives, DriveStep(d)
    PROVE  /\ own' = own
           /\ \/ Appended(drv[d].event) \/ Appended(StatusEvent("note", "None"))
              \/ proj' = proj /\ observed' \subseteq observed \cup {d}
<1> USE DEF Local, Fail, Return, NoAppend
<1>1. CASE \/ Preflight(d) \/ PassStop(d) \/ Pass(d) \/ DispatchRefuse(d) \/ DispatchStop(d)
           \/ DispatchGate(d) \/ DispatchNode(d) \/ NoteDelegation(d) \/ DispatchDone(d)
           \/ JoinPanicked(d) \/ JoinRefused(d) \/ WaitStop(d) \/ StopSettle(d) \/ Quiesce(d)
           \/ ReadFails(d) \/ TakeSequence(d) \/ SequenceConflict(d)
  BY <1>1 DEF Preflight, PassStop, Pass, DispatchRefuse, DispatchStop, DispatchGate, DispatchNode,
       NoteDelegation, DispatchDone, JoinPanicked, JoinRefused, WaitStop, StopSettle, Quiesce,
       ReadFails, TakeSequence, SequenceConflict
<1>2. CASE Approve(d) \/ Release(d) \/ Hop(d) \/ JoinOutcome(d) \/ Interrupt(d)
  BY <1>2 DEF Approve, Release, Hop, JoinOutcome, Interrupt, Decide
<1>3. CASE Reread(d) \/ Replan(d)
  BY <1>3 DEF Reread, Replan, PlanPass
<1>4. CASE DriveAppend(d) \/ RecordFailure(d)
  BY <1>4 DEF DriveAppend, RecordFailure
<1> QED BY <1>1, <1>2, <1>3, <1>4 DEF DriveStep

\* What a step of a drive leaves pending: its old event, nothing, an outcome or a status event of
\* its own.
LEMMA DriveStepShape ==
    ASSUME TypeOK, EventShapes, NEW d \in Drives, DriveStep(d)
    PROVE  \A e \in Drives : DriveShape(drv'[e])
<1> DEFINE s == drv[d]
           Goal == (\A e \in Drives \ {d} : drv'[e] = drv[e]) /\ DriveShape(drv'[d])
           Loud == {"stopping", "stopPause", "proposalPause"}
<1>0. /\ s \in DriveState /\ drv \in [Drives -> DriveState]
      /\ DriveShape(s) /\ \A e \in Drives : DriveShape(drv[e])
  BY DEF TypeOK, EventShapes
<1>1. SUFFICES Goal
  BY <1>0
<1>2. ASSUME Fail(d) \/ Return(d) PROVE Goal
  <2>1. DriveShape(Off) /\ DriveShape([Off EXCEPT !.pc = "failing"])
    BY DEF DriveShape, Off, NoEvent
  <2> QED BY <1>0, <1>2, <2>1 DEF Fail, Return
<1>3. ASSUME NEW st, Local(d, st), DriveShape(st) PROVE Goal
  BY <1>0, <1>3 DEF Local
<1> HIDE DEF Goal
<1>4. ASSUME NEW st \in DriveState, DriveShape(st), NEW n, NEW outcome,
             Decide(d, n, outcome, st)
      PROVE  Goal
  <2>1. \A next : DriveShape([st EXCEPT !.event = OutcomeEvent(n, outcome, next)])
    BY <1>4 DEF DriveShape, DriveState, OutcomeEvent
  <2> QED BY <1>2, <1>3, <1>4, <2>1 DEF Decide
<1>5. CASE Preflight(d)
  <2>1. /\ DriveShape([s EXCEPT !.pc = "pass"])
        /\ DriveShape([s EXCEPT !.pc = "complete", !.event = StatusEvent("completed", "Failed")])
    BY <1>0 DEF DriveShape, DriveState, StatusEvent
  <2> QED BY <1>2, <1>3, <1>5, <2>1 DEF Preflight
<1>6. CASE StopSettle(d)
  <2>1. DriveShape([s EXCEPT !.pc = "stopPause", !.event = StatusEvent("paused", "Paused")])
    BY <1>0, <1>6 DEF DriveShape, DriveState, StatusEvent, StopSettle, Between
  <2> QED BY <1>2, <1>3, <1>6, <2>1 DEF StopSettle
<1>7. CASE Quiesce(d)
  <2> DEFINE status == IF \A n \in Nodes : satisfies_dependents(proj.node[n])
                       THEN "Completed" ELSE "Failed"
  <2>1. status \in {"Completed", "Failed"}
    OBVIOUS
  <2> HIDE DEF status
  <2>2. DriveShape([s EXCEPT !.pc = "complete", !.event = StatusEvent("completed", status)])
    BY <1>0, <2>1 DEF DriveShape, DriveState, StatusEvent
  <2> QED BY <1>2, <1>3, <1>7, <2>2 DEF Quiesce, status
<1>8. CASE Pass(d)
  <2>1. /\ DriveShape([s EXCEPT !.pc = "quiesce"])
        /\ DriveShape([s EXCEPT !.pc = "approve",
                                !.todo = {n \in Nodes : proj.node[n] = "Draft"}])
    BY <1>0 DEF DriveShape, DriveState
  <2>2. pending_proposal(proj) => ~Quiet
    BY DEF EventShapes, pending_proposal
  <2>3. ~Quiet => DriveShape([s EXCEPT !.pc = "proposalPause",
                                       !.event = StatusEvent("paused", "Paused")])
    BY <1>0 DEF DriveShape, DriveState, StatusEvent
  <2> QED BY <1>3, <1>8, <2>1, <2>2, <2>3 DEF Pass
<1>9. CASE NoteDelegation(d)
  <2>1. DriveShape([s EXCEPT !.event = StatusEvent("note", "None")])
    BY <1>0 DEF DriveShape, DriveState, StatusEvent
  <2> QED BY <1>3, <1>9, <2>1 DEF NoteDelegation
<1>10. CASE PassStop(d) \/ DispatchStop(d) \/ WaitStop(d)
  <2>1. s.stop
    BY <1>10 DEF PassStop, DispatchStop, WaitStop
  <2>2. DriveShape(Stopping(d))
    BY <1>0, <2>1 DEF Stopping, DriveShape, DriveState
  <2> QED BY <1>3, <1>10, <2>2 DEF PassStop, DispatchStop, WaitStop
<1>11. CASE DispatchRefuse(d)
  <2>1. \A p : DriveShape([s EXCEPT !.plan = @ \ {p}, !.refused = @ \cup {p[2]}])
    BY <1>0 DEF DriveShape, DriveState
  <2> QED BY <1>3, <1>11, <2>1 DEF DispatchRefuse
<1>12. CASE DispatchGate(d)
  <2>1. DriveShape([s EXCEPT !.plan = {}])
    BY <1>0 DEF DriveShape, DriveState
  <2> QED BY <1>3, <1>12, <2>1 DEF DispatchGate
<1>13. CASE DispatchNode(d) \/ DispatchDone(d)
  <2>1. PICK pc \in {"hop1", "hop2", "pass", "wait"} : Local(d, [s EXCEPT !.pc = pc])
    BY <1>13 DEF DispatchNode, DispatchDone
  <2>2. DriveShape([s EXCEPT !.pc = pc])
    BY <1>0 DEF DriveShape, DriveState
  <2> QED BY <1>3, <2>1, <2>2
<1>14. CASE JoinPanicked(d) \/ JoinRefused(d)
  <2>1. \A n : /\ DriveShape([s EXCEPT !.pc = "pass", !.tasks = @ \ {n}])
               /\ DriveShape([s EXCEPT !.pc = "pass", !.tasks = @ \ {n}, !.flight = @ \ {n},
                                       !.refused = @ \cup {n}])
    BY <1>0 DEF DriveShape, DriveState
  <2> QED BY <1>3, <1>14, <2>1 DEF JoinPanicked, JoinRefused
<1>15. CASE Approve(d) \/ Release(d) \/ Interrupt(d) \/ Hop(d) \/ JoinOutcome(d)
  <2>1. /\ \A n : LET st == [s EXCEPT !.todo = @ \ {n}] IN st \in DriveState /\ DriveShape(st)
        /\ \A n : LET st == [s EXCEPT !.pc = "record", !.tasks = @ \ {n}, !.flight = @ \ {n}]
                  IN  st \in DriveState /\ DriveShape(st)
    <3>1. ASSUME NEW n
          PROVE  [s EXCEPT !.todo = @ \ {n}] \in DriveState
      BY <1>0 DEF DriveState
    <3>2. ASSUME NEW n
          PROVE  DriveShape([s EXCEPT !.todo = @ \ {n}])
      BY <1>0 DEF DriveShape, DriveState
    <3>3. ASSUME NEW n
          PROVE  [s EXCEPT !.pc = "record", !.tasks = @ \ {n}, !.flight = @ \ {n}] \in DriveState
      BY <1>0 DEF DriveState, DrivePcs
    <3>4. ASSUME NEW n
          PROVE  DriveShape([s EXCEPT !.pc = "record", !.tasks = @ \ {n}, !.flight = @ \ {n}])
      BY <1>0 DEF DriveShape, DriveState
    <3> QED BY <3>1, <3>2, <3>3, <3>4
  <2>2. CASE Approve(d) \/ Release(d) \/ Interrupt(d)
    BY <1>4, <2>1, <2>2 DEF Approve, Release, Interrupt
  <2>3. CASE Hop(d)
    BY <1>0, <1>4, <2>3 DEF Hop
  <2>4. CASE JoinOutcome(d)
    BY <1>4, <2>1, <2>4 DEF JoinOutcome
  <2> QED BY <1>15, <2>2, <2>3, <2>4
<1>16. CASE Reread(d) \/ Replan(d)
  <2>1. ASSUME PlanPass(d) PROVE Goal
    <3> DEFINE candidates == dispatch_candidates(proj.node) \ (drv[d].flight \cup drv[d].refused)
               plan == IF proj.status = "Paused" THEN {}
                       ELSE dispatch_plan(candidates, proj.attempts, Cardinality(drv[d].flight))
               pc == IF plan = {} /\ drv[d].tasks = {} THEN "quiesce" ELSE "dispatch"
    <3>1. Fail(d) \/ Local(d, [s EXCEPT !.pc = pc, !.todo = {}, !.plan = plan])
      BY <2>1 DEF PlanPass
    <3>2. pc \in {"quiesce", "dispatch"}
      OBVIOUS
    <3> HIDE DEF plan, pc
    <3>3. DriveShape([s EXCEPT !.pc = pc, !.todo = {}, !.plan = plan])
      BY <1>0, <3>2 DEF DriveShape, DriveState
    <3> QED BY <1>2, <1>3, <3>1, <3>3
  <2>2. DriveShape([s EXCEPT !.pc = "release", !.todo = releasable(d)])
    BY <1>0 DEF DriveShape, DriveState
  <2> QED BY <1>3, <1>16, <2>1, <2>2 DEF Reread, Replan
<1>17. CASE ReadFails(d) \/ SequenceConflict(d)
  BY <1>2, <1>17 DEF ReadFails, SequenceConflict
<1>18. CASE TakeSequence(d)
  <2>1. drv' = [drv EXCEPT ![d] = [s EXCEPT !.sequenced = TRUE]]
    BY <1>18 DEF TakeSequence
  <2>2. DriveShape([s EXCEPT !.sequenced = TRUE])
    BY <1>0 DEF DriveShape, DriveState
  <2> QED BY <1>0, <2>1, <2>2 DEF Goal
<1>19. CASE DriveAppend(d)
  <2> DEFINE base == [s EXCEPT !.event = NoEvent, !.sequenced = FALSE]
  <2>1. base \in DriveState /\ DriveShape(base)
    BY <1>0, EventTypes DEF DriveShape, DriveState, NoEvent
  <2>2. \A pc \in DrivePcs \ Loud :
            [base EXCEPT !.pc = pc] \in DriveState /\ DriveShape([base EXCEPT !.pc = pc])
    BY <2>1 DEF DriveShape, DriveState
  <2>3. AfterAppend(d) \in DriveState /\ DriveShape(AfterAppend(d))
    BY <2>1, <2>2 DEF AfterAppend, DrivePcs
  <2>4. \A p : DriveShape([AfterAppend(d) EXCEPT !.pc = "dispatch", !.plan = @ \ {p},
                                                 !.flight = @ \cup {p[2]},
                                                 !.tasks = @ \cup {p[2]}])
    BY <2>3 DEF DriveShape, DriveState
  <2>5. CASE drv' = [drv EXCEPT ![d] = AfterAppend(d)]
    BY <1>0, <2>3, <2>5 DEF Goal
  <2>6. CASE \E p : drv' = [drv EXCEPT ![d] =
                              [AfterAppend(d) EXCEPT !.pc = "dispatch", !.plan = @ \ {p},
                                                     !.flight = @ \cup {p[2]},
                                                     !.tasks = @ \cup {p[2]}]]
    BY <1>0, <2>4, <2>6 DEF Goal
  <2> QED BY <1>2, <1>19, <2>5, <2>6 DEF DriveAppend
<1>20. CASE RecordFailure(d)
  <2>1. DriveShape(Off)
    BY DEF DriveShape, Off, NoEvent
  <2> QED BY <1>0, <1>20, <2>1 DEF RecordFailure, Goal
<1> QED BY <1>5, <1>6, <1>7, <1>8, <1>9, <1>10, <1>11, <1>12, <1>13, <1>14, <1>15, <1>16, <1>17,
           <1>18, <1>19, <1>20 DEF DriveStep

\* A command that reads and decides, without appending, keeps the invariant if its own decision is
\* fresh.
LEMMA OwnerReads ==
    ASSUME CommandInv, NEW o \in Owners, NEW state, own' = [own EXCEPT ![o] = state],
           proj' = proj, observed' \subseteq observed \cup {o},
           OwnerShape(state.event), FreshDecision(o)'
    PROVE  CommandsFresh' /\ \A q \in Owners : OwnerShape(own'[q].event)
<1>1. own \in [Owners -> OwnerState]
  BY DEF CommandInv, TypeOK
<1>2. \A q \in Owners \ {o} : own'[q] = own[q] /\ own'[o] = state
  BY <1>1
<1>3. ASSUME NEW q \in Owners, q \in observed' PROVE FreshDecision(q)'
  <2>1. CASE q = o
    BY <2>1
  <2>2. CASE q # o
    <3>1. FreshDecision(q) /\ own'[q] = own[q]
      BY <1>2, <1>3, <2>2 DEF CommandInv, CommandsFresh
    <3> QED BY <3>1 DEF FreshDecision
  <2> QED BY <2>1, <2>2
<1>4. \A q \in Owners : OwnerShape(own'[q].event)
  <2>1. own'[o] = state
    BY <1>1
  <2> QED BY <1>2, <2>1 DEF CommandInv, EventShapes
<1> QED BY <1>3, <1>4 DEF CommandsFresh

LEMMA IdleFresh ==
    ASSUME NEW o \in Owners, own \in [Owners -> OwnerState], own' = [own EXCEPT ![o] = Idle]
    PROVE  FreshDecision(o)' /\ OwnerShape(Idle.event)
BY DEF FreshDecision, Idle, NoEvent, OwnerShape

\* A step of an owner command, other than an append, keeps the invariant.
LEMMA OwnerStepFresh ==
    ASSUME CommandInv, NEW o \in Owners, OwnerBegin(o) \/ OwnerContinue(o) \/ OwnerKilled(o)
    PROVE  CommandsFresh' /\ \A q \in Owners : OwnerShape(own'[q].event)
<1>0. /\ own \in [Owners -> OwnerState] /\ own[o] \in OwnerState
      /\ TypeOK /\ CommandsFresh /\ \A q \in Owners : OwnerShape(own[q].event)
  BY DEF CommandInv, TypeOK, EventShapes
<1> DEFINE Goal == CommandsFresh' /\ \A q \in Owners : OwnerShape(own'[q].event)
<1> SUFFICES Goal
  OBVIOUS
<1>1. ASSUME Settle(o) \/ OwnerKilled(o) PROVE Goal
  <2>1. own' = [own EXCEPT ![o] = Idle] /\ proj' = proj /\ observed' \subseteq observed \cup {o}
    BY <1>1 DEF Settle, OwnerKilled, NoAppend
  <2> QED BY <1>0, <2>1, OwnerReads, IdleFresh
<1>2. ASSUME NEW name, NEW state, Issue(o, name, state) \/ Observe(o, state),
             OwnerShape(state.event),
             state.event.kind = "outcome" =>
                state.event.next = next_state(proj, state.event.node, state.event.outcome),
             state.event.kind = "paused" => proj.status \in {"None", "Running"},
             state.event.kind = "resumed" => resume_preconditions(proj)
      PROVE  Goal
  <2>1. own' = [own EXCEPT ![o] = state] /\ proj' = proj /\ observed' \subseteq observed \cup {o}
    BY <1>2 DEF Issue, Observe, NoAppend
  <2>2. own'[o] = state
    BY <1>0, <2>1
  <2>3. FreshDecision(o)'
    BY <1>2, <2>1, <2>2 DEF FreshDecision
  <2> QED BY <1>2, <2>1, <2>3, OwnerReads
<1> HIDE DEF Goal
<1>3. ASSUME NEW name, BeginPause(o, name) PROVE Goal
  <2>1. PICK held : /\ proj.status \in {"None", "Running"}
                    /\ Issue(o, name, [pc |-> "pausing", todo |-> held,
                                       event |-> StatusEvent("paused", "Paused")])
    BY <1>3 DEF BeginPause
  <2> DEFINE st == [pc |-> "pausing", todo |-> held, event |-> StatusEvent("paused", "Paused")]
  <2>2. st.event.kind = "paused" /\ OwnerShape(st.event)
    BY DEF StatusEvent, OwnerShape
  <2>3. Issue(o, name, st)
    BY <2>1
  <2> HIDE DEF st
  <2> QED BY <1>2, <2>1, <2>2, <2>3
<1>4. CASE PauseCommand(o)
  BY <1>3, <1>4 DEF PauseCommand
<1>5. CASE StopCommand(o)
  <2>1. CASE cancels = NoDrive
    BY <1>3, <1>5, <2>1 DEF StopCommand
  <2>2. CASE cancels # NoDrive
    BY <1>0, <1>5, <2>2 DEF StopCommand, NoAppend, Goal, CommandsFresh, FreshDecision
  <2> QED BY <2>1, <2>2
<1>6. CASE CancelCommand(o) \/ ResumeCommand(o) \/ ApproveCommand(o)
  <2>1. PICK pc, todo, name : Issue(o, name, [pc |-> pc, todo |-> todo, event |-> NoEvent])
    <3>1. CASE CancelCommand(o)
      BY <3>1 DEF CancelCommand
    <3>2. CASE ResumeCommand(o)
      BY <3>2 DEF ResumeCommand
    <3>3. CASE ApproveCommand(o)
      BY <3>3 DEF ApproveCommand
    <3> QED BY <1>6, <3>1, <3>2, <3>3
  <2> DEFINE st == [pc |-> pc, todo |-> todo, event |-> NoEvent]
  <2>2. st.event.kind = "none" /\ OwnerShape(st.event)
    BY DEF NoEvent, OwnerShape
  <2>3. Issue(o, name, st)
    BY <2>1
  <2> HIDE DEF st
  <2> QED BY <1>2, <2>2, <2>3
<1>7. CASE OwnerDecide(o)
  <2> DEFINE outcome == OutcomeOf(own[o].pc)
             st(n) == [own[o] EXCEPT
                         !.event = OutcomeEvent(n, outcome, next_state(proj, n, outcome)),
                         !.todo = @ \ {n}]
  <2>1. PICK n : Settle(o) \/ Observe(o, st(n))
    BY <1>7 DEF OwnerDecide
  <2>2. st(n).event = OutcomeEvent(n, outcome, next_state(proj, n, outcome))
    BY <1>0 DEF OwnerState
  <2> HIDE DEF st, outcome
  <2>3. /\ st(n).event.kind = "outcome" /\ OwnerShape(st(n).event)
        /\ st(n).event.next = next_state(proj, st(n).event.node, st(n).event.outcome)
    BY <2>2 DEF OutcomeEvent, OwnerShape
  <2> QED BY <1>1, <1>2, <2>1, <2>3
<1>8. CASE PauseDone(o) \/ OwnerConflict(o)
  BY <1>1, <1>8 DEF PauseDone, OwnerConflict
<1>9. CASE CancelSettle(o)
  <2> DEFINE st == [own[o] EXCEPT !.pc = "cancelling",
                                  !.event = StatusEvent("completed", "Cancelled")]
  <2>1. Settle(o) \/ Observe(o, st)
    BY <1>9 DEF CancelSettle
  <2>2. st.event = StatusEvent("completed", "Cancelled")
    BY <1>0 DEF OwnerState
  <2>3. st.event.kind = "completed" /\ OwnerShape(st.event)
    BY <2>2 DEF StatusEvent, OwnerShape
  <2> HIDE DEF st
  <2> QED BY <1>1, <1>2, <2>1, <2>3
<1>10. CASE ResumeSettle(o)
  <2> DEFINE st == [pc |-> "resuming", event |-> StatusEvent("resumed", "Running"),
                    todo |-> {n \in Nodes : proj.node[n] = "Paused"}]
  <2>1. Settle(o) \/ (resume_preconditions(proj) /\ Observe(o, st))
    BY <1>10 DEF ResumeSettle
  <2>2. st.event.kind = "resumed" /\ OwnerShape(st.event)
    BY DEF StatusEvent, OwnerShape
  <2> HIDE DEF st
  <2> QED BY <1>1, <1>2, <2>1, <2>2
<1>11. CASE OwnerAppend(o)
  <2>1. observed' = {}
    BY <1>11 DEF OwnerAppend, Appended
  <2>2. OwnerShape(NoEvent)
    BY DEF OwnerShape, NoEvent
  <2>3. /\ [own[o] EXCEPT !.pc = "holding", !.event = NoEvent].event = NoEvent
        /\ [own[o] EXCEPT !.event = NoEvent].event = NoEvent
        /\ Idle.event = NoEvent
    BY <1>0 DEF OwnerState, Idle
  <2>4. own'[o].event = NoEvent /\ \A q \in Owners \ {o} : own'[q] = own[q]
    BY <1>0, <1>11, <2>3 DEF OwnerAppend
  <2> QED BY <1>0, <2>1, <2>2, <2>4 DEF Goal, CommandsFresh
<1>12. CASE ResumeAppend(o)
  <2>1. observed' = {} /\ own' = [own EXCEPT ![o] = Idle]
    BY <1>12 DEF ResumeAppend, Appended
  <2>2. OwnerShape(Idle.event)
    BY DEF OwnerShape, NoEvent, Idle
  <2> QED BY <1>0, <2>1, <2>2 DEF Goal, CommandsFresh
<1>13. CASE OwnerKilled(o)
  BY <1>1, <1>13
<1> QED BY <1>4, <1>5, <1>6, <1>7, <1>8, <1>9, <1>10, <1>11, <1>12, <1>13
        DEF OwnerBegin, OwnerContinue

\* What a step of a command does to everything but itself: other commands keep their state, and the
\* stream only grows by this command's own event, at the sequence it observed.
LEMMA OwnerStepEffect ==
    ASSUME TypeOK, NEW o \in Owners, OwnerBegin(o) \/ OwnerContinue(o) \/ OwnerKilled(o)
    PROVE  /\ \A q \in Owners \ {o} : own'[q] = own[q]
           /\ \/ proj' = proj
              \/ o \in observed /\ Appended(own[o].event)
<1>0. own \in [Owners -> OwnerState]
  BY DEF TypeOK
<1>1. CASE OwnerBegin(o)
  BY <1>0, <1>1 DEF OwnerBegin, PauseCommand, StopCommand, CancelCommand, ResumeCommand,
       ApproveCommand, BeginPause, Issue, NoAppend
<1>2. CASE OwnerDecide(o) \/ PauseDone(o) \/ CancelSettle(o) \/ ResumeSettle(o) \/ OwnerConflict(o)
  BY <1>0, <1>2 DEF OwnerDecide, PauseDone, CancelSettle, ResumeSettle, OwnerConflict, Settle,
       Observe, NoAppend
<1>3. CASE OwnerAppend(o)
  BY <1>0, <1>3 DEF OwnerAppend
<1>4. CASE ResumeAppend(o)
  BY <1>0, <1>4 DEF ResumeAppend
<1>5. CASE OwnerKilled(o)
  BY <1>0, <1>5 DEF OwnerKilled, NoAppend
<1> QED BY <1>1, <1>2, <1>3, <1>4, <1>5 DEF OwnerContinue

\* A command leaves the drives' pending events alone: it starts a drive, or asks one to stop.
LEMMA OwnerStepDrives ==
    ASSUME TypeOK, EventShapes, NEW o \in Owners,
           OwnerBegin(o) \/ OwnerContinue(o) \/ OwnerKilled(o)
    PROVE  \A d \in Drives : DriveShape(drv'[d])
<1>0. drv \in [Drives -> DriveState] /\ \A d \in Drives : DriveShape(drv[d])
  BY DEF TypeOK, EventShapes
<1>1. CASE StopCommand(o)
  <2>1. CASE cancels = NoDrive
    BY <1>0, <1>1, <2>1 DEF StopCommand, BeginPause, Issue
  <2>2. CASE cancels # NoDrive
    <3>1. cancels \in Drives /\ drv[cancels] \in DriveState /\ ~Quiet
      BY <1>1, <2>2 DEF TypeOK, StopCommand, Quiet
    <3>2. drv' = [drv EXCEPT ![cancels] = [drv[cancels] EXCEPT !.stop = TRUE]]
      BY <1>1, <2>2 DEF StopCommand
    <3>3. DriveShape([drv[cancels] EXCEPT !.stop = TRUE])
      BY <1>0, <3>1 DEF DriveState, DriveShape
    <3> QED BY <1>0, <3>1, <3>2, <3>3
  <2> QED BY <2>1, <2>2
<1>2. CASE PauseCommand(o) \/ CancelCommand(o) \/ ResumeCommand(o) \/ ApproveCommand(o)
  <2>1. drv' = drv
    BY <1>2 DEF PauseCommand, CancelCommand, ResumeCommand, ApproveCommand, BeginPause, Issue
  <2> QED BY <1>0, <2>1
<1>3. CASE ResumeAppend(o)
  <2>1. PICK d \in Drives : drv' = [drv EXCEPT ![d] = Fresh(own[o].todo)]
    BY <1>3 DEF ResumeAppend
  <2>2. DriveShape(Fresh(own[o].todo))
    BY DEF DriveShape, Fresh, Off, NoEvent
  <2> QED BY <1>0, <2>1, <2>2
<1>4. CASE \/ OwnerDecide(o) \/ PauseDone(o) \/ CancelSettle(o) \/ ResumeSettle(o)
           \/ OwnerAppend(o) \/ OwnerConflict(o) \/ OwnerKilled(o)
  <2>1. drv' = drv
    BY <1>4 DEF OwnerDecide, PauseDone, CancelSettle, ResumeSettle, OwnerAppend, OwnerConflict,
         OwnerKilled, Settle, Observe
  <2> QED BY <1>0, <2>1
<1> QED BY <1>1, <1>2, <1>3, <1>4 DEF OwnerBegin, OwnerContinue

\* No event the drives or the commands append touches the drafts.
LEMMA FoldDraft ==
    ASSUME NEW p \in Projection, NEW e \in Event
    PROVE  fold(p, e).draft = p.draft
BY DEF fold, fold_outcome, fold_paused, fold_resumed, fold_completed, Projection

LEMMA CommandInit == Init => CommandInv
<1> SUFFICES ASSUME Init PROVE CommandInv
  OBVIOUS
<1>1. TypeOK
  BY TypeInit
<1>2. CommandsFresh
  BY DEF Init, CommandsFresh
<1>3. \A o \in Owners : OwnerShape(own[o].event)
  BY DEF Init, OwnerShape, Idle, NoEvent
<1>4. \A d \in Drives : DriveShape(drv[d])
  <2>1. DriveShape(Off) /\ DriveShape(Fresh({}))
    BY DEF DriveShape, Fresh, Off, NoEvent
  <2> QED BY <2>1 DEF Init
<1>5. proj.draft = "none"
  BY InitProjection
<1> QED BY <1>1, <1>2, <1>3, <1>4, <1>5 DEF CommandInv, EventShapes

LEMMA CommandNext == CommandInv /\ [Next]_vars => CommandInv'
<1> SUFFICES ASSUME CommandInv, [Next]_vars PROVE CommandInv'
  OBVIOUS
<1>0. TypeOK /\ CommandsFresh /\ EventShapes
  BY DEF CommandInv
<1>1. TypeOK'
  BY <1>0, TypeNext
<1>2. ASSUME NEW e \in Event, Appended(e) PROVE proj'.draft = proj.draft
  BY <1>0, <1>2, FoldDraft DEF Appended, TypeOK
<1>3. CASE \E d \in Drives : DriveStep(d)
  <2>1. PICK d \in Drives : DriveStep(d)
    BY <1>3
  <2>2. /\ own' = own
        /\ \/ Appended(drv[d].event) \/ Appended(StatusEvent("note", "None"))
           \/ proj' = proj /\ observed' \subseteq observed \cup {d}
    BY <1>0, <2>1, DriveStepEffect
  <2>3. d \notin Owners
    BY ProcessAssumption
  <2>4. CommandsFresh'
    BY <1>0, <2>2, <2>3 DEF CommandsFresh, FreshDecision, Appended
  <2>5. \A e \in Drives : DriveShape(drv'[e])
    BY <1>0, <2>1, DriveStepShape
  <2>6. drv[d].event \in Event /\ StatusEvent("note", "None") \in Event
    BY <1>0, EventTypes DEF TypeOK, DriveState, SimulationStatus
  <2>7. proj'.draft = proj.draft
    BY <1>2, <2>2, <2>6
  <2> QED BY <1>0, <1>1, <2>2, <2>4, <2>5, <2>7 DEF CommandInv, EventShapes
<1>4. CASE \E o \in Owners : OwnerBegin(o) \/ OwnerContinue(o) \/ OwnerKilled(o)
  <2>1. PICK o \in Owners : OwnerBegin(o) \/ OwnerContinue(o) \/ OwnerKilled(o)
    BY <1>4
  <2>2. CommandsFresh' /\ \A q \in Owners : OwnerShape(own'[q].event)
    BY <2>1, OwnerStepFresh
  <2>3. \A d \in Drives : DriveShape(drv'[d])
    BY <1>0, <2>1, OwnerStepDrives
  <2>4. own[o].event \in Event
    BY <1>0 DEF TypeOK, OwnerState
  <2>5. proj'.draft = proj.draft
    BY <1>0, <1>2, <2>1, <2>4, OwnerStepEffect
  <2> QED BY <1>0, <1>1, <2>2, <2>3, <2>5 DEF CommandInv, EventShapes
<1>5. CASE Proposal
  <2>1. ~Quiet
    BY <1>0, <1>5 DEF Proposal, EventShapes, Quiet
  <2>2. observed' = {} /\ own' = own /\ drv' = drv
    BY <1>5 DEF Proposal
  <2> QED BY <1>0, <1>1, <2>1, <2>2 DEF CommandInv, CommandsFresh, EventShapes
<1>6. CASE Crash
  <2>1. /\ observed' = {} /\ own' = [o \in Owners |-> Idle] /\ drv' = [d \in Drives |-> Off]
        /\ proj' = proj
    BY <1>6 DEF Crash, NoAppend
  <2>2. OwnerShape(Idle.event) /\ DriveShape(Off)
    BY DEF OwnerShape, DriveShape, Idle, Off, NoEvent
  <2> QED BY <1>0, <1>1, <2>1, <2>2 DEF CommandInv, CommandsFresh, EventShapes
<1>7. CASE UNCHANGED vars
  BY <1>0, <1>1, <1>7 DEF vars, CommandInv, CommandsFresh, FreshDecision, EventShapes
<1> QED BY <1>3, <1>4, <1>5, <1>6, <1>7 DEF Next

\* A decision read at the head stays right until something is appended (#1670).
THEOREM CommandInvariant == Spec => []CommandInv
BY CommandInit, CommandNext, PTL DEF Spec

\* For any number of drives and commands: whatever interleaves, the outcome an owner's command
\* records is the one apply_transition gives at the head it is appended to (append_event, #1670).
THEOREM CommandsLinearizeAlways == Spec => CommandsLinearize
<1> DEFINE A == \A o \in Owners :
         own[o].event.kind = "outcome" /\ own'[o].event = NoEvent /\ proj' # proj
           => own[o].event.next = next_state(proj, own[o].event.node, own[o].event.outcome)
<1>1. CommandInv /\ [Next]_vars => [A]_vars
  <2> SUFFICES ASSUME CommandInv, Next, NEW o \in Owners,
                      own[o].event.kind = "outcome", own'[o].event = NoEvent, proj' # proj
               PROVE  own[o].event.next
                        = next_state(proj, own[o].event.node, own[o].event.outcome)
    OBVIOUS
  <2>0. TypeOK /\ CommandsFresh /\ own'[o] # own[o]
    BY DEF CommandInv, NoEvent
  <2>1. CASE \E d \in Drives : DriveStep(d)
    BY <2>0, <2>1, DriveStepEffect
  <2>2. CASE \E q \in Owners : OwnerBegin(q) \/ OwnerContinue(q) \/ OwnerKilled(q)
    <3>1. o \in observed
      BY <2>0, <2>2, OwnerStepEffect
    <3> QED BY <2>0, <3>1 DEF CommandsFresh, FreshDecision
  <2>3. CASE Proposal \/ Crash
    BY <2>0, <2>3 DEF Proposal, Crash, NoAppend
  <2> QED BY <2>1, <2>2, <2>3 DEF Next
<1> QED BY <1>1, CommandInvariant, PTL DEF Spec, CommandsLinearize

\* ExecutionResumed lands only where the preconditions hold, whatever interleaves with the triage: an
\* execution never goes back to Running over a Running node or an untriaged interruption.
THEOREM ResumeTriagedAlways == Spec => ResumeTriaged
<1> DEFINE A == proj.status = "Paused" /\ proj'.status = "Running"
                  => recovery_plan(proj) = {} /\ untriaged(proj) = {}
<1>1. CommandInv /\ [Next]_vars => [A]_vars
  <2> SUFFICES ASSUME CommandInv, Next, proj.status = "Paused", proj'.status = "Running"
               PROVE  recovery_plan(proj) = {} /\ untriaged(proj) = {}
    OBVIOUS
  <2>0. /\ TypeOK /\ CommandsFresh /\ EventShapes /\ proj \in Projection
        /\ \A d \in Drives : drv[d].event \in Event
        /\ \A o \in Owners : own[o].event \in Event
    BY DEF CommandInv, TypeOK, DriveState, OwnerState
  <2>1. ASSUME NEW e \in Event, Appended(e)
        PROVE  e.kind = "resumed" \/ (e.kind = "completed" /\ e.next = "Running")
    BY <2>0, <2>1 DEF Appended, fold, fold_outcome, fold_paused, fold_resumed, fold_completed,
         Projection
  <2>2. CASE \E d \in Drives : DriveStep(d)
    <3>1. PICK d \in Drives : DriveStep(d)
      BY <2>2
    <3>2. Appended(drv[d].event) \/ Appended(StatusEvent("note", "None"))
      BY <2>0, <3>1, DriveStepEffect
    <3>3. StatusEvent("note", "None") \in Event /\ StatusEvent("note", "None").kind = "note"
      BY EventTypes DEF StatusEvent, SimulationStatus
    <3> QED BY <2>0, <2>1, <3>2, <3>3 DEF EventShapes, DriveShape
  <2>3. CASE \E o \in Owners : OwnerBegin(o) \/ OwnerContinue(o) \/ OwnerKilled(o)
    <3>1. PICK o \in Owners : o \in observed /\ Appended(own[o].event)
      BY <2>0, <2>3, OwnerStepEffect
    <3>2. own[o].event.kind = "resumed"
      BY <2>0, <2>1, <3>1 DEF EventShapes, OwnerShape
    <3>3. resume_preconditions(proj)
      BY <2>0, <3>1, <3>2 DEF CommandsFresh, FreshDecision
    <3> QED BY <3>3 DEF resume_preconditions
  <2>4. CASE Proposal \/ Crash
    BY <2>0, <2>4 DEF Proposal, Crash, NoAppend, Projection
  <2> QED BY <2>2, <2>3, <2>4 DEF Next
<1> QED BY <1>1, CommandInvariant, PTL DEF Spec, ResumeTriaged

\* Without immediate stops and proposals the stream always replays, for any number of drives and
\* commands and whatever crashes: only a command appends ExecutionPaused or ExecutionResumed, and its
\* compare-and-set makes it the one the fold accepts.  (With an immediate stop it is not so.)
THEOREM ReplayableWithoutStop ==
    ASSUME "stop" \notin Commands, MaxProposals = 0
    PROVE  Spec => []NoCorruption
<1>1. Init => NoCorruption
  BY InitProjection DEF NoCorruption
<1>2. CommandInv /\ NoCorruption /\ [Next]_vars => NoCorruption'
  <2> SUFFICES ASSUME CommandInv, NoCorruption, [Next]_vars PROVE NoCorruption'
    OBVIOUS
  <2>0. /\ TypeOK /\ CommandsFresh /\ EventShapes /\ proj \in Projection /\ Quiet
        /\ \A d \in Drives : drv[d].event \in Event
        /\ \A o \in Owners : own[o].event \in Event
    BY DEF CommandInv, TypeOK, DriveState, OwnerState, Quiet
  <2>1. ASSUME NEW e \in Event, Appended(e),
               e.kind = "paused" => proj.status \in {"None", "Running"},
               e.kind = "resumed" => proj.status = "Paused"
        PROVE  NoCorruption'
    BY <2>0, <2>1 DEF Appended, fold, fold_outcome, fold_paused, fold_resumed, fold_completed,
         Projection, NoCorruption
  <2>2. CASE \E d \in Drives : DriveStep(d)
    <3>1. PICK d \in Drives : DriveStep(d)
      BY <2>2
    <3>2. StatusEvent("note", "None") \in Event /\ StatusEvent("note", "None").kind = "note"
      BY EventTypes DEF StatusEvent, SimulationStatus
    <3>3. drv[d].event.kind # "paused" /\ drv[d].event.kind # "resumed"
      BY <2>0 DEF EventShapes, DriveShape
    <3>4. CASE proj' = proj
      BY <3>4 DEF NoCorruption
    <3>5. CASE Appended(drv[d].event) \/ Appended(StatusEvent("note", "None"))
      BY <2>0, <2>1, <3>2, <3>3, <3>5
    <3> QED BY <2>0, <3>1, <3>4, <3>5, DriveStepEffect
  <2>3. CASE \E o \in Owners : OwnerBegin(o) \/ OwnerContinue(o) \/ OwnerKilled(o)
    <3>1. CASE proj' = proj
      BY <3>1 DEF NoCorruption
    <3>2. CASE \E o \in Owners : o \in observed /\ Appended(own[o].event)
      BY <2>0, <2>1, <3>2 DEF CommandsFresh, FreshDecision, resume_preconditions
    <3> QED BY <2>0, <2>3, <3>1, <3>2, OwnerStepEffect
  <2>4. CASE Proposal \/ Crash
    BY <2>0, <2>4 DEF Proposal, Crash, NoAppend, NoCorruption, Projection
  <2>5. CASE UNCHANGED vars
    BY <2>5 DEF vars, NoCorruption
  <2> QED BY <2>2, <2>3, <2>4, <2>5 DEF Next
<1> QED BY <1>1, <1>2, CommandInvariant, PTL DEF Spec

=============================================================================
