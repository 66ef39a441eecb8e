------------------------- MODULE DriveSafetyProofs -------------------------
(* What the passes of any number of drives guarantee: a graph the preflight refuses stays untouched, *)
(* and no drive exceeds the graph's parallel budget.  Proved with TLAPS.                              *)
EXTENDS ExecutionDriveProofs, FiniteSetTheorems, WellFoundedInduction

\* The least number of a set of naturals.
LEMMA LeastNat ==
    ASSUME NEW T \in SUBSET Nat, T # {}
    PROVE  \E x \in T : \A y \in T : x <= y
<1> DEFINE R == OpToRel(<, Nat)
<1>1. IsWellFoundedOn(R, Nat)
  BY NatLessThanWellFounded
<1>2. \A x, y \in Nat : x < y => <<x, y>> \in R
  BY DEF OpToRel
<1> HIDE DEF R
<1>3. PICK x \in T : \A y \in T : ~(<<y, x>> \in R)
  BY <1>1, WFMin
<1>4. ASSUME NEW y \in T PROVE x <= y
  <2>1. ~(y < x)
    BY <1>2, <1>3
  <2> QED BY <2>1
<1> QED BY <1>4

---------------------------------------------------------------------------
(* A refused graph.  Inductive: nobody ever has anything to decide about a node. *)

InertDrive(s) ==
    s.pc \in {"off", "preflight", "complete", "failing"} /\ s.event.kind # "outcome"

Inert ==
    /\ \A n \in Nodes : proj.node[n] = "Draft" /\ proj.attempts[n] = 0
    /\ \A d \in Drives : InertDrive(drv[d])
    /\ \A o \in Owners : own[o].todo = {} /\ own[o].event.kind # "outcome"

\* Only an outcome touches the nodes.
LEMMA FoldNodes ==
    ASSUME NEW p \in Projection, NEW e \in Event, e.kind # "outcome"
    PROVE  /\ fold(p, e).node = p.node /\ fold(p, e).attempts = p.attempts
           /\ fold(p, e).last = p.last /\ fold(p, e).identical = p.identical
           /\ fold(p, e).clean = p.clean
BY DEF fold, fold_paused, fold_resumed, fold_completed, Projection

LEMMA InertDriveStep ==
    ASSUME TypeOK, Inert, ~proj.clean, NEW d \in Drives, DriveStep(d)
    PROVE  /\ proj'.node = proj.node /\ proj'.attempts = proj.attempts
           /\ \A e \in Drives : InertDrive(drv'[e])
<1> DEFINE s == drv[d]
<1>0. /\ s \in DriveState /\ drv \in [Drives -> DriveState] /\ s.event \in Event
      /\ proj \in Projection
      /\ s.pc \in {"off", "preflight", "complete", "failing"} /\ s.event.kind # "outcome"
  BY DEF TypeOK, DriveState, Inert, InertDrive
<1>1. InertDrive(Off) /\ InertDrive([Off EXCEPT !.pc = "failing"])
  BY DEF InertDrive, Off, NoEvent
<1>2. ASSUME NEW new, InertDrive(new), drv' = [drv EXCEPT ![d] = new]
      PROVE  \A e \in Drives : InertDrive(drv'[e])
  BY <1>0, <1>2 DEF Inert
<1>3. ASSUME NEW e \in Event, e.kind # "outcome", Appended(e)
      PROVE  proj'.node = proj.node /\ proj'.attempts = proj.attempts
  BY <1>0, <1>3, FoldNodes DEF Appended
<1>4. CASE Fail(d)
  BY <1>1, <1>2, <1>4 DEF Fail, NoAppend
<1>5. CASE Preflight(d)
  <2>1. InertDrive([s EXCEPT !.pc = "complete", !.event = StatusEvent("completed", "Failed")])
    BY <1>0 DEF InertDrive, StatusEvent, DriveState
  <2> QED BY <1>1, <1>2, <1>5, <2>1 DEF Preflight, Local, NoAppend, Return
<1>6. CASE TakeSequence(d)
  <2>1. InertDrive([s EXCEPT !.sequenced = TRUE])
    BY <1>0 DEF InertDrive, DriveState
  <2>2. drv' = [drv EXCEPT ![d] = [s EXCEPT !.sequenced = TRUE]]
    BY <1>6 DEF TakeSequence
  <2> QED BY <1>2, <1>6, <2>1, <2>2 DEF TakeSequence, NoAppend
<1>7. CASE DriveAppend(d)
  <2>1. proj'.node = proj.node /\ proj'.attempts = proj.attempts
    BY <1>0, <1>3, <1>7 DEF DriveAppend
  <2>2. CASE s.pc = "complete"
    BY <1>1, <1>2, <1>7, <2>1, <2>2 DEF DriveAppend, Return
  <2>3. CASE s.pc # "complete"
    <3>1. drv' = [drv EXCEPT ![d] = AfterAppend(d)]
      BY <1>0, <1>7, <2>3 DEF DriveAppend
    <3>2. AfterAppend(d) = [s EXCEPT !.event = NoEvent, !.sequenced = FALSE]
      BY <1>0 DEF AfterAppend, DriveState
    <3>3. InertDrive(AfterAppend(d))
      BY <1>0, <3>2 DEF InertDrive, DriveState, NoEvent
    <3> QED BY <1>2, <2>1, <3>1, <3>3
  <2> QED BY <2>2, <2>3
<1>8. CASE RecordFailure(d)
  <2>1. StatusEvent("note", "None") \in Event /\ StatusEvent("note", "None").kind = "note"
    BY EventTypes DEF StatusEvent, SimulationStatus
  <2>2. proj'.node = proj.node /\ proj'.attempts = proj.attempts
    BY <1>3, <1>8, <2>1 DEF RecordFailure, NoAppend
  <2> QED BY <1>1, <1>2, <1>8, <2>2 DEF RecordFailure
<1>9. \/ Preflight(d) \/ Fail(d) \/ TakeSequence(d) \/ DriveAppend(d) \/ RecordFailure(d)
  BY <1>0 DEF DriveStep, PassStop, Pass, Approve, Reread, Release, Replan, DispatchRefuse,
       DispatchStop, DispatchGate, DispatchNode, Hop, NoteDelegation, DispatchDone, JoinPanicked,
       JoinRefused, JoinOutcome, WaitStop, Interrupt, StopSettle, Quiesce, ReadFails,
       SequenceConflict, Between
<1> QED BY <1>4, <1>5, <1>6, <1>7, <1>8, <1>9

LEMMA InertOwnerStep ==
    ASSUME TypeOK, Inert, NEW o \in Owners, OwnerBegin(o) \/ OwnerContinue(o) \/ OwnerKilled(o)
    PROVE  /\ proj'.node = proj.node /\ proj'.attempts = proj.attempts
           /\ \A d \in Drives : InertDrive(drv'[d])
           /\ \A q \in Owners : own'[q].todo = {} /\ own'[q].event.kind # "outcome"
<1> DEFINE Pending == \A q \in Owners : own'[q].todo = {} /\ own'[q].event.kind # "outcome"
           Same == proj'.node = proj.node /\ proj'.attempts = proj.attempts
<1>0. /\ own \in [Owners -> OwnerState] /\ own[o] \in OwnerState /\ drv \in [Drives -> DriveState]
      /\ proj \in Projection /\ own[o].event \in Event
      /\ own[o].todo = {} /\ own[o].event.kind # "outcome"
      /\ \A n \in Nodes : proj.node[n] = "Draft"
      /\ \A d \in Drives : InertDrive(drv[d])
  BY DEF TypeOK, OwnerState, Inert
<1>1. ASSUME NEW new, new.todo = {}, new.event.kind # "outcome", own' = [own EXCEPT ![o] = new]
      PROVE  Pending
  BY <1>0, <1>1 DEF Inert
<1>2. Idle.todo = {} /\ Idle.event.kind # "outcome"
  BY DEF Idle, NoEvent
<1>3. \A kind, status : kind # "outcome" => StatusEvent(kind, status).kind # "outcome"
  BY DEF StatusEvent
<1>4. CASE \E name : BeginPause(o, name)
  <2>1. PICK name : BeginPause(o, name)
    BY <1>4
  <2>2. /\ {n \in Nodes : proj.node[n] \in {"Ready", "Queued"}} = {}
        /\ dispatch_candidates(proj.node) = {}
    BY <1>0 DEF dispatch_candidates, ready_set
  <2>3. PICK held : /\ held = {}
                    /\ Issue(o, name, [pc |-> "pausing", todo |-> held,
                                       event |-> StatusEvent("paused", "Paused")])
    BY <2>1, <2>2 DEF BeginPause
  <2> QED BY <1>0, <1>1, <1>3, <2>3 DEF Issue, NoAppend
<1>5. CASE StopCommand(o) /\ cancels # NoDrive
  <2>1. cancels \in Drives /\ drv[cancels] \in DriveState
    BY <1>5 DEF TypeOK
  <2>2. InertDrive([drv[cancels] EXCEPT !.stop = TRUE])
    BY <1>0, <2>1 DEF InertDrive, DriveState
  <2>3. drv' = [drv EXCEPT ![cancels] = [drv[cancels] EXCEPT !.stop = TRUE]]
    BY <1>5 DEF StopCommand
  <2> QED BY <1>0, <1>5, <2>1, <2>2, <2>3 DEF StopCommand, NoAppend, Inert
<1>6. CASE CancelCommand(o)
  <2>1. {n \in Nodes : proj.node[n] # "Draft" /\ ~is_terminal(proj.node[n])} = {}
    BY <1>0
  <2> QED BY <1>0, <1>1, <1>2, <1>6, <2>1 DEF CancelCommand, Issue, NoAppend, NoEvent
<1>7. CASE ResumeCommand(o)
  <2>1. recovery_plan(proj) = {}
    BY <1>0 DEF recovery_plan
  <2> QED BY <1>0, <1>1, <1>2, <1>7, <2>1 DEF ResumeCommand, Issue, NoAppend, NoEvent
<1>8. ~ApproveCommand(o) /\ ~OwnerDecide(o)
  BY <1>0 DEF ApproveCommand, OwnerDecide
<1>9. CASE Settle(o)
  BY <1>0, <1>1, <1>2, <1>9 DEF Settle, NoAppend
<1>10. CASE CancelSettle(o) /\ ~Settle(o)
  <2> DEFINE st == [own[o] EXCEPT !.pc = "cancelling", !.event = StatusEvent("completed", "Cancelled")]
  <2>1. st.todo = {} /\ st.event.kind # "outcome"
    BY <1>0, <1>3 DEF OwnerState
  <2> QED BY <1>0, <1>1, <1>10, <2>1 DEF CancelSettle, Observe, NoAppend
<1>11. CASE ResumeSettle(o) /\ ~Settle(o)
  <2>1. {n \in Nodes : proj.node[n] = "Paused"} = {}
    BY <1>0
  <2> QED BY <1>0, <1>1, <1>3, <1>11, <2>1 DEF ResumeSettle, Observe, NoAppend
<1>12. CASE OwnerAppend(o)
  <2>1. Same
    BY <1>0, <1>12, FoldNodes DEF OwnerAppend, Appended
  <2>2. /\ [own[o] EXCEPT !.pc = "holding", !.event = NoEvent].event = NoEvent
        /\ [own[o] EXCEPT !.event = NoEvent].event = NoEvent
        /\ [own[o] EXCEPT !.pc = "holding", !.event = NoEvent].todo = {}
        /\ [own[o] EXCEPT !.event = NoEvent].todo = {}
        /\ NoEvent.kind # "outcome"
    BY <1>0 DEF OwnerState, NoEvent
  <2>3. PICK new : own' = [own EXCEPT ![o] = new] /\ new.todo = {} /\ new.event.kind # "outcome"
    BY <1>2, <1>12, <2>2 DEF OwnerAppend
  <2> QED BY <1>0, <1>1, <1>12, <2>1, <2>3 DEF OwnerAppend
<1>13. CASE ResumeAppend(o)
  <2>1. PICK d \in Drives : Appended(own[o].event) /\ drv' = [drv EXCEPT ![d] = Fresh(own[o].todo)]
    BY <1>13 DEF ResumeAppend
  <2>2. InertDrive(Fresh(own[o].todo))
    BY DEF InertDrive, Fresh, Off, NoEvent
  <2>3. Same
    BY <1>0, <2>1, FoldNodes DEF Appended
  <2> QED BY <1>0, <1>1, <1>2, <1>13, <2>1, <2>2, <2>3 DEF ResumeAppend
<1>14. CASE OwnerKilled(o)
  BY <1>0, <1>1, <1>2, <1>14 DEF OwnerKilled, NoAppend
<1> HIDE DEF Pending, Same
<1> QED BY <1>4, <1>5, <1>6, <1>7, <1>8, <1>9, <1>10, <1>11, <1>12, <1>13, <1>14
        DEF OwnerBegin, OwnerContinue, PauseCommand, StopCommand, PauseDone, OwnerConflict, Pending, Same

\* The verdict of the preflight on the graph is the same for every drive: no step changes it.
LEMMA VerdictKept ==
    ASSUME TypeOK, [Next]_vars
    PROVE  proj'.clean = proj.clean
<1>1. proj \in Projection /\ StatusEvent("note", "None") \in Event
  BY EventTypes DEF TypeOK, SimulationStatus
<1>2. ASSUME NEW e \in Event, Appended(e) PROVE proj'.clean = proj.clean
  BY <1>1, <1>2
     DEF Appended, fold, fold_outcome, fold_paused, fold_resumed, fold_completed, Projection
<1>3. CASE \E d \in Drives : DriveStep(d)
  <2>1. PICK d \in Drives : DriveStep(d)
    BY <1>3
  <2>2. drv[d].event \in Event
    BY DEF TypeOK, DriveState
  <2> QED BY <1>1, <1>2, <2>1, <2>2, DriveStepEffect
<1>4. CASE \E o \in Owners : OwnerBegin(o) \/ OwnerContinue(o) \/ OwnerKilled(o)
  <2>1. PICK o \in Owners : OwnerBegin(o) \/ OwnerContinue(o) \/ OwnerKilled(o)
    BY <1>4
  <2>2. own[o].event \in Event
    BY DEF TypeOK, OwnerState
  <2> QED BY <1>2, <2>1, <2>2, OwnerStepEffect
<1>5. CASE Proposal \/ Crash \/ UNCHANGED vars
  BY <1>1, <1>5 DEF Proposal, Crash, NoAppend, vars, Projection
<1> QED BY <1>3, <1>4, <1>5 DEF Next

\* A graph the preflight refuses has no effect, in this drive or in one that a resume starts: no node
\* of it is ever approved or attempted, for any number of drives, commands and crashes.
THEOREM RefusedGraphIsInertAlways == Spec => []RefusedGraphIsInert
<1> DEFINE Refused == ~proj.clean => Inert
<1>1. Init => Refused
  <2> SUFFICES ASSUME Init PROVE Inert
    OBVIOUS
  <2>1. \A n \in Nodes : proj.node[n] = "Draft" /\ proj.attempts[n] = 0
    BY InitProjection
  <2>2. InertDrive(Off) /\ InertDrive(Fresh({}))
    BY DEF InertDrive, Fresh, Off, NoEvent
  <2>3. Idle.todo = {} /\ Idle.event.kind # "outcome"
    BY DEF Idle, NoEvent
  <2> QED BY <2>1, <2>2, <2>3 DEF Init, Inert
<1>2. TypeOK /\ Refused /\ [Next]_vars => Refused'
  <2> SUFFICES ASSUME TypeOK, [Next]_vars, Refused, ~proj'.clean PROVE Inert'
    OBVIOUS
  <2>0. ~proj.clean /\ Inert
    BY VerdictKept
  <2>1. CASE \E d \in Drives : DriveStep(d)
    <3>1. own' = own
      BY <2>1, DriveStepEffect
    <3> QED BY <2>0, <2>1, <3>1, InertDriveStep DEF Inert
  <2>2. CASE \E o \in Owners : OwnerBegin(o) \/ OwnerContinue(o) \/ OwnerKilled(o)
    BY <2>0, <2>2, InertOwnerStep DEF Inert
  <2>3. CASE Proposal
    BY <2>0, <2>3 DEF Proposal, Inert, TypeOK, Projection
  <2>4. CASE Crash
    BY <2>0, <2>4 DEF Crash, Inert, InertDrive, NoAppend, Off, Idle, NoEvent
  <2>5. CASE UNCHANGED vars
    BY <2>0, <2>5 DEF vars, Inert
  <2> QED BY <2>1, <2>2, <2>3, <2>4, <2>5 DEF Next
<1>3. Refused => RefusedGraphIsInert
  BY DEF Inert, RefusedGraphIsInert
<1> HIDE DEF Refused
<1> QED BY <1>1, <1>2, <1>3, TypeInvariant, PTL DEF Spec

---------------------------------------------------------------------------
(* The parallel budget.  Inductive: what is in flight and what is planned fit the budget together. *)

BudgetKept(s) ==
    /\ s.tasks \subseteq s.flight
    /\ IsFiniteSet(s.plan)
    /\ Cardinality(s.flight) + Cardinality(s.plan) <= MaxParallel

\* dispatch_plan leaves room for what is in flight: the last planned node, in the attempt-fair
\* order, has all the others before it.
LEMMA PlanFits ==
    ASSUME NEW candidates \in SUBSET Nodes, NEW attempts \in [Nodes -> Nat],
           NEW k \in 0 .. MaxParallel
    PROVE  LET plan == dispatch_plan(candidates, attempts, k)
           IN  IsFiniteSet(plan) /\ Cardinality(plan) + k <= MaxParallel
<1> DEFINE keyed == {<<attempts[n], n>> : n \in candidates}
           behind(p) == {q \in keyed : Before(q, p)}
           plan == {p \in keyed : Cardinality(behind(p)) + k <= MaxParallel}
<1>1. MaxParallel \in Nat /\ k \in Nat
  BY BoundsAssumption
<1>2. IsFiniteSet(keyed)
  <2>1. IsFiniteSet(candidates)
    BY NodesAssumption, FS_Subset
  <2>2. [q \in keyed |-> q[2]] \in Injection(keyed, candidates)
    BY DEF Injection, IsInjective
  <2> QED BY <2>1, <2>2, FS_Injection
<1>3. \A p \in keyed : p[1] \in Nat /\ p[2] \in Nat /\ p = <<p[1], p[2]>>
  BY NodesAssumption
<1>4. /\ \A p, q \in keyed : Before(p, q) \/ Before(q, p)
      /\ \A p, q \in keyed : Before(p, q) /\ Before(q, p) => p = q
      /\ \A p, q, r \in keyed : Before(p, q) /\ Before(q, r) => Before(p, r)
      /\ \A p \in keyed : Before(p, p)
  BY <1>3 DEF Before
<1> HIDE DEF keyed
<1>5. \A p \in keyed : IsFiniteSet(behind(p)) /\ Cardinality(behind(p)) \in Nat
  <2>1. ASSUME NEW p \in keyed PROVE IsFiniteSet(behind(p)) /\ Cardinality(behind(p)) \in Nat
    <3>1. behind(p) \in SUBSET keyed
      OBVIOUS
    <3> HIDE DEF behind
    <3>2. IsFiniteSet(behind(p))
      BY <1>2, <3>1, FS_Subset
    <3> QED BY <3>2, FS_CardinalityType
  <2> QED BY <2>1
<1>6. plan \subseteq keyed /\ IsFiniteSet(plan) /\ Cardinality(plan) \in Nat
  <2>1. plan \in SUBSET keyed
    OBVIOUS
  <2> HIDE DEF plan
  <2>2. IsFiniteSet(plan)
    BY <1>2, <2>1, FS_Subset
  <2> QED BY <2>1, <2>2, FS_CardinalityType
<1>7. Cardinality(plan) + k <= MaxParallel
  <2>1. CASE plan = {}
    <3>1. Cardinality(plan) = 0
      BY <2>1, FS_EmptySet
    <3> HIDE DEF plan
    <3> QED BY <1>1, <3>1
  <2>2. CASE plan # {}
    <3> DEFINE room == {MaxParallel - Cardinality(behind(p)) : p \in plan}
    <3>1. \A p \in plan : /\ p \in keyed /\ Cardinality(behind(p)) \in Nat
                          /\ Cardinality(behind(p)) + k <= MaxParallel
      BY <1>5
    <3> HIDE DEF behind, plan
    <3>2. room \in SUBSET Nat /\ room # {}
      BY <1>1, <2>2, <3>1
    <3> HIDE DEF room
    <3>3. PICK x \in room : \A y \in room : x <= y
      BY <3>2, LeastNat
    <3>4. PICK p \in plan : \A q \in plan : Cardinality(behind(q)) <= Cardinality(behind(p))
      <4>1. PICK p \in plan : x = MaxParallel - Cardinality(behind(p))
        BY <3>3 DEF room
      <4>2. ASSUME NEW q \in plan PROVE Cardinality(behind(q)) <= Cardinality(behind(p))
        <5>1. MaxParallel - Cardinality(behind(q)) \in room
          BY DEF room
        <5>2. MaxParallel - Cardinality(behind(p)) <= MaxParallel - Cardinality(behind(q))
          BY <3>3, <4>1, <5>1
        <5> QED BY <1>1, <3>1, <5>2
      <4> QED BY <4>2
    <3>5. ASSUME NEW q \in plan PROVE q \in behind(p)
      <4>1. p \in keyed /\ q \in keyed
        BY <3>1
      <4>2. CASE Before(q, p)
        BY <4>1, <4>2 DEF behind
      <4>3. CASE ~Before(q, p)
        <5>1. Before(p, q)
          BY <1>4, <4>1, <4>3
        <5>2. behind(p) \subseteq behind(q)
          BY <1>4, <4>1, <5>1 DEF behind
        <5>3. q \in behind(q) /\ q \notin behind(p)
          BY <1>4, <4>1, <4>3 DEF behind
        <5>4. behind(p) \in SUBSET behind(q) /\ behind(p) # behind(q)
          BY <5>2, <5>3
        <5>5. Cardinality(behind(p)) <= Cardinality(behind(q))
              /\ Cardinality(behind(q)) # Cardinality(behind(p))
          BY <1>5, <4>1, <5>4, FS_Subset
        <5> QED BY <3>1, <3>4, <5>5
      <4> QED BY <4>2, <4>3
    <3>6. Cardinality(plan) <= Cardinality(behind(p))
      <4>1. plan \in SUBSET behind(p)
        BY <3>5
      <4> QED BY <1>5, <3>1, <4>1, FS_Subset
    <3> QED BY <1>1, <1>6, <3>1, <3>6
  <2> QED BY <2>1, <2>2
<1>8. dispatch_plan(candidates, attempts, k) = plan
  BY DEF dispatch_plan, keyed
<1> HIDE DEF plan
<1> QED BY <1>6, <1>7, <1>8

LEMMA BudgetSame ==
    ASSUME NEW s, NEW new, BudgetKept(s), new.flight = s.flight, new.tasks \subseteq s.tasks,
           new.plan = s.plan
    PROVE  BudgetKept(new)
BY DEF BudgetKept

LEMMA BudgetOff == BudgetKept(Off) /\ BudgetKept([Off EXCEPT !.pc = "failing"])
                   /\ \A release : BudgetKept(Fresh(release))
<1>1. Cardinality({}) = 0 /\ IsFiniteSet({}) /\ 0 + 0 <= MaxParallel
  BY FS_EmptySet, BoundsAssumption
<1> QED BY <1>1 DEF BudgetKept, Off, Fresh

\* Dropping planned nodes, and finishing work, only makes room.
LEMMA BudgetLess ==
    ASSUME NEW s \in DriveState, NEW new \in DriveState, BudgetKept(s),
           new.flight \subseteq s.flight, new.tasks \subseteq new.flight, new.plan \subseteq s.plan
    PROVE  BudgetKept(new)
<1>1. IsFiniteSet(s.flight)
  BY NodesAssumption, FS_Subset DEF DriveState
<1>2. IsFiniteSet(new.flight) /\ Cardinality(new.flight) <= Cardinality(s.flight)
  BY <1>1, FS_Subset
<1>3. IsFiniteSet(new.plan) /\ Cardinality(new.plan) <= Cardinality(s.plan)
  BY FS_Subset DEF BudgetKept
<1>4. /\ Cardinality(s.flight) \in Nat /\ Cardinality(s.plan) \in Nat
      /\ Cardinality(new.flight) \in Nat /\ Cardinality(new.plan) \in Nat /\ MaxParallel \in Nat
  BY <1>1, <1>2, <1>3, FS_CardinalityType, BoundsAssumption DEF BudgetKept
<1> QED BY <1>2, <1>3, <1>4 DEF BudgetKept

\* A planned node that starts moves from the plan into flight.
LEMMA BudgetSpawn ==
    ASSUME NEW s \in DriveState, BudgetKept(s), NEW p \in s.plan
    PROVE  BudgetKept([s EXCEPT !.pc = "dispatch", !.plan = @ \ {p}, !.flight = @ \cup {p[2]},
                                !.tasks = @ \cup {p[2]}])
<1> DEFINE new == [s EXCEPT !.pc = "dispatch", !.plan = @ \ {p}, !.flight = @ \cup {p[2]},
                            !.tasks = @ \cup {p[2]}]
<1>1. /\ new.plan = s.plan \ {p} /\ new.flight = s.flight \cup {p[2]}
      /\ new.tasks = s.tasks \cup {p[2]}
  BY DEF DriveState
<1> HIDE DEF new
<1>2. IsFiniteSet(s.flight) /\ IsFiniteSet(s.plan)
  BY NodesAssumption, FS_Subset DEF DriveState, BudgetKept
<1>3. IsFiniteSet(s.plan \ {p}) /\ Cardinality(s.plan \ {p}) = Cardinality(s.plan) - 1
  BY <1>2, FS_RemoveElement
<1>4. Cardinality(s.flight \cup {p[2]}) \in {Cardinality(s.flight), Cardinality(s.flight) + 1}
  BY <1>2, FS_AddElement
<1>5. /\ Cardinality(s.flight) \in Nat /\ Cardinality(s.plan) \in Nat /\ MaxParallel \in Nat
  BY <1>2, FS_CardinalityType, BoundsAssumption
<1>6. Cardinality(s.flight \cup {p[2]}) + Cardinality(s.plan \ {p}) <= MaxParallel
  BY <1>3, <1>4, <1>5 DEF BudgetKept
<1>7. BudgetKept(new)
  BY <1>1, <1>3, <1>6 DEF BudgetKept
<1> QED BY <1>7 DEF new

LEMMA BudgetDriveStep ==
    ASSUME TypeOK, NEW d \in Drives, \A e \in Drives : BudgetKept(drv[e]), DriveStep(d)
    PROVE  \A e \in Drives : BudgetKept(drv'[e])
<1> DEFINE s == drv[d]
           Goal == \A e \in Drives : BudgetKept(drv'[e])
<1>0. s \in DriveState /\ drv \in [Drives -> DriveState] /\ BudgetKept(s) /\ s.tasks \subseteq s.flight
  BY DEF TypeOK, BudgetKept
<1>1. ASSUME NEW new, BudgetKept(new), drv' = [drv EXCEPT ![d] = new] PROVE Goal
  BY <1>0, <1>1
<1> SUFFICES Goal
  OBVIOUS
<1> HIDE DEF Goal
<1>2. ASSUME Fail(d) \/ Return(d) \/ RecordFailure(d)
      PROVE  Goal
  BY <1>1, <1>2, BudgetOff DEF Fail, Return, RecordFailure
<1>3. ASSUME NEW new, BudgetKept(new), Local(d, new) PROVE Goal
  BY <1>1, <1>3 DEF Local
<1>4. ASSUME NEW st \in DriveState, BudgetKept(st), NEW n, NEW outcome, Decide(d, n, outcome, st)
      PROVE  Goal
  <2>1. \A next : BudgetKept([st EXCEPT !.event = OutcomeEvent(n, outcome, next)])
    BY <1>4, BudgetSame DEF DriveState
  <2> QED BY <1>2, <1>3, <1>4, <2>1 DEF Decide
<1>5. CASE Preflight(d)
  <2>1. /\ BudgetKept([s EXCEPT !.pc = "pass"])
        /\ BudgetKept([s EXCEPT !.pc = "complete", !.event = StatusEvent("completed", "Failed")])
    BY <1>0, BudgetSame DEF DriveState
  <2> QED BY <1>2, <1>3, <1>5, <2>1 DEF Preflight
<1>6. CASE PassStop(d) \/ DispatchStop(d) \/ WaitStop(d)
  <2>1. Stopping(d) \in DriveState /\ Stopping(d).flight = {} /\ Stopping(d).tasks = {} /\ Stopping(d).plan = {}
    BY <1>0 DEF Stopping, DriveState, DrivePcs
  <2>2. BudgetKept(Stopping(d))
    BY <1>0, <2>1, BudgetLess
  <2> QED BY <1>3, <1>6, <2>2 DEF PassStop, DispatchStop, WaitStop
<1>7. CASE Pass(d)
  <2>1. /\ BudgetKept([s EXCEPT !.pc = "proposalPause", !.event = StatusEvent("paused", "Paused")])
        /\ BudgetKept([s EXCEPT !.pc = "quiesce"])
        /\ \A nodes : BudgetKept([s EXCEPT !.pc = "approve", !.todo = nodes])
    BY <1>0, BudgetSame DEF DriveState
  <2> QED BY <1>3, <1>7, <2>1 DEF Pass
<1>8. CASE Approve(d) \/ Release(d) \/ Interrupt(d)
  <2>1. PICK n, outcome : n \in s.todo /\ Decide(d, n, outcome, [s EXCEPT !.todo = @ \ {n}])
    BY <1>8 DEF Approve, Release, Interrupt
  <2>2. [s EXCEPT !.todo = @ \ {n}] \in DriveState
    BY <1>0 DEF DriveState
  <2>3. BudgetKept([s EXCEPT !.todo = @ \ {n}])
    BY <1>0, BudgetSame DEF DriveState
  <2> QED BY <1>4, <2>1, <2>2, <2>3
<1>9. CASE PlanPass(d)
  <2> DEFINE candidates == dispatch_candidates(proj.node) \ (s.flight \cup s.refused)
             plan == IF proj.status = "Paused" THEN {}
                     ELSE dispatch_plan(candidates, proj.attempts, Cardinality(s.flight))
             pc == IF plan = {} /\ s.tasks = {} THEN "quiesce" ELSE "dispatch"
  <2>1. Fail(d) \/ Local(d, [s EXCEPT !.pc = pc, !.todo = {}, !.plan = plan])
    BY <1>9 DEF PlanPass
  <2>2. candidates \in SUBSET Nodes /\ proj.attempts \in [Nodes -> Nat]
    BY DEF dispatch_candidates, ready_set, TypeOK, Projection
  <2>3. Cardinality(s.flight) \in 0 .. MaxParallel
    <3>1. IsFiniteSet(s.flight) /\ IsFiniteSet(s.plan)
      BY <1>0, NodesAssumption, FS_Subset DEF DriveState, BudgetKept
    <3>2. Cardinality(s.flight) \in Nat /\ Cardinality(s.plan) \in Nat /\ MaxParallel \in Nat
      BY <3>1, FS_CardinalityType, BoundsAssumption
    <3> QED BY <1>0, <3>2 DEF BudgetKept
  <2> HIDE DEF candidates
  <2>4. /\ IsFiniteSet(plan)
        /\ Cardinality(plan) + Cardinality(s.flight) <= MaxParallel
    <3>1. CASE proj.status = "Paused"
      <4>1. plan = {} /\ Cardinality({}) = 0 /\ IsFiniteSet({})
        BY <3>1, FS_EmptySet
      <4>2. 0 + Cardinality(s.flight) <= MaxParallel
        BY <2>3, BoundsAssumption
      <4> QED BY <4>1, <4>2, Zenon
    <3>2. CASE proj.status # "Paused"
      <4>1. plan = dispatch_plan(candidates, proj.attempts, Cardinality(s.flight))
        BY <3>2
      <4>2. /\ IsFiniteSet(dispatch_plan(candidates, proj.attempts, Cardinality(s.flight)))
            /\ Cardinality(dispatch_plan(candidates, proj.attempts, Cardinality(s.flight)))
                 + Cardinality(s.flight) <= MaxParallel
        BY <2>2, <2>3, PlanFits
      <4> QED BY <4>1, <4>2, Zenon
    <3> QED BY <3>1, <3>2
  <2> HIDE DEF plan, pc
  <2>5. Cardinality(plan) \in Nat
    BY <2>4, FS_CardinalityType
  <2>6. BudgetKept([s EXCEPT !.pc = pc, !.todo = {}, !.plan = plan])
    <3> DEFINE new == [s EXCEPT !.pc = pc, !.todo = {}, !.plan = plan]
    <3>1. new.flight = s.flight /\ new.tasks = s.tasks /\ new.plan = plan
      BY <1>0 DEF DriveState
    <3> HIDE DEF new
    <3>2. BudgetKept(new)
      BY <1>0, <2>3, <2>4, <2>5, <3>1 DEF BudgetKept
    <3> QED BY <3>2 DEF new
  <2> QED BY <1>2, <1>3, <2>1, <2>6
<1>10. CASE Reread(d)
  <2>1. BudgetKept([s EXCEPT !.pc = "release", !.todo = releasable(d)])
    BY <1>0, BudgetSame DEF DriveState
  <2> QED BY <1>3, <1>9, <1>10, <2>1 DEF Reread
<1>11. CASE DispatchRefuse(d) \/ DispatchGate(d)
  <2>1. PICK new \in DriveState : /\ Local(d, new) /\ new.flight = s.flight /\ new.tasks = s.tasks
                                  /\ new.plan \subseteq s.plan
    <3>1. CASE DispatchRefuse(d)
      <4>1. PICK p \in s.plan : Local(d, [s EXCEPT !.plan = @ \ {p}, !.refused = @ \cup {p[2]}])
        BY <3>1 DEF DispatchRefuse
      <4>2. p[2] \in Nodes
        BY <1>0 DEF DriveState
      <4>3. [s EXCEPT !.plan = @ \ {p}, !.refused = @ \cup {p[2]}] \in DriveState
        BY <1>0, <4>2 DEF DriveState
      <4> QED BY <1>0, <4>1, <4>3 DEF DriveState
    <3>2. CASE DispatchGate(d)
      <4>1. [s EXCEPT !.plan = {}] \in DriveState
        BY <1>0 DEF DriveState
      <4> QED BY <1>0, <3>2, <4>1 DEF DispatchGate, DriveState
    <3> QED BY <1>11, <3>1, <3>2
  <2> QED BY <1>0, <1>3, <2>1, BudgetLess
<1>12. CASE DispatchNode(d) \/ DispatchDone(d)
  <2>1. PICK pc : Local(d, [s EXCEPT !.pc = pc])
    BY <1>12 DEF DispatchNode, DispatchDone
  <2>2. BudgetKept([s EXCEPT !.pc = pc])
    BY <1>0, BudgetSame DEF DriveState
  <2> QED BY <1>3, <2>1, <2>2
<1>13. CASE Hop(d)
  BY <1>0, <1>4, <1>13 DEF Hop
<1>14. CASE NoteDelegation(d) \/ StopSettle(d) \/ Quiesce(d)
  <2>1. \/ Return(d)
        \/ \E pc, event : Local(d, [s EXCEPT !.pc = pc, !.event = event])
        \/ \E event : Local(d, [s EXCEPT !.event = event])
    BY <1>14 DEF NoteDelegation, StopSettle, Quiesce
  <2>2. \A pc, event : BudgetKept([s EXCEPT !.pc = pc, !.event = event])
    BY <1>0, BudgetSame DEF DriveState
  <2>3. \A event : BudgetKept([s EXCEPT !.event = event])
    BY <1>0, BudgetSame DEF DriveState
  <2> QED BY <1>2, <1>3, <2>1, <2>2, <2>3
<1>15. CASE JoinPanicked(d)
  <2>1. PICK n : Local(d, [s EXCEPT !.pc = "pass", !.tasks = @ \ {n}])
    BY <1>15 DEF JoinPanicked
  <2>2. BudgetKept([s EXCEPT !.pc = "pass", !.tasks = @ \ {n}])
    BY <1>0, BudgetSame DEF DriveState
  <2> QED BY <1>3, <2>1, <2>2
<1>16. CASE JoinRefused(d)
  <2>1. PICK n \in s.tasks : Local(d, [s EXCEPT !.pc = "pass", !.tasks = @ \ {n}, !.flight = @ \ {n},
                                                !.refused = @ \cup {n}])
    BY <1>16 DEF JoinRefused
  <2> DEFINE new == [s EXCEPT !.pc = "pass", !.tasks = @ \ {n}, !.flight = @ \ {n},
                              !.refused = @ \cup {n}]
  <2>2. new \in DriveState /\ new.tasks = s.tasks \ {n} /\ new.flight = s.flight \ {n} /\ new.plan = s.plan
    BY <1>0 DEF DriveState, DrivePcs
  <2> HIDE DEF new
  <2>3. BudgetKept(new)
    BY <1>0, <2>2, BudgetLess
  <2> QED BY <1>3, <2>1, <2>3 DEF new
<1>17. CASE JoinOutcome(d)
  <2>1. PICK n, outcome : n \in s.tasks /\
            Decide(d, n, outcome, [s EXCEPT !.pc = "record", !.tasks = @ \ {n}, !.flight = @ \ {n}])
    BY <1>17 DEF JoinOutcome
  <2> DEFINE new == [s EXCEPT !.pc = "record", !.tasks = @ \ {n}, !.flight = @ \ {n}]
  <2>2. new \in DriveState /\ new.tasks = s.tasks \ {n} /\ new.flight = s.flight \ {n} /\ new.plan = s.plan
    BY <1>0 DEF DriveState, DrivePcs
  <2> HIDE DEF new
  <2>3. BudgetKept(new)
    BY <1>0, <2>2, BudgetLess
  <2>4. Decide(d, n, outcome, new)
    BY <2>1 DEF new
  <2> QED BY <1>4, <2>2, <2>3, <2>4
<1>18. CASE TakeSequence(d)
  <2>1. drv' = [drv EXCEPT ![d] = [s EXCEPT !.sequenced = TRUE]]
    BY <1>18 DEF TakeSequence
  <2>2. BudgetKept([s EXCEPT !.sequenced = TRUE])
    BY <1>0, BudgetSame DEF DriveState
  <2> QED BY <1>1, <2>1, <2>2
<1>19. CASE DriveAppend(d)
  <2> DEFINE base == [s EXCEPT !.event = NoEvent, !.sequenced = FALSE]
  <2>1. base \in DriveState /\ BudgetKept(base) /\ base.plan = s.plan
    BY <1>0, BudgetSame, EventTypes DEF DriveState
  <2>2. \A pc \in DrivePcs : /\ [base EXCEPT !.pc = pc] \in DriveState
                             /\ BudgetKept([base EXCEPT !.pc = pc])
                             /\ [base EXCEPT !.pc = pc].plan = s.plan
    BY <2>1, BudgetSame DEF DriveState
  <2>3. AfterAppend(d) \in DriveState /\ BudgetKept(AfterAppend(d)) /\ AfterAppend(d).plan = s.plan
    BY <2>1, <2>2 DEF AfterAppend, DrivePcs
  <2>4. CASE drv' = [drv EXCEPT ![d] = AfterAppend(d)]
    BY <1>1, <2>3, <2>4
  <2>5. CASE \E p \in s.plan :
                drv' = [drv EXCEPT ![d] =
                          [AfterAppend(d) EXCEPT !.pc = "dispatch", !.plan = @ \ {p},
                                                 !.flight = @ \cup {p[2]},
                                                 !.tasks = @ \cup {p[2]}]]
    BY <1>1, <2>3, <2>5, BudgetSpawn
  <2> QED BY <1>2, <1>19, <2>4, <2>5 DEF DriveAppend
<1>20. CASE ReadFails(d) \/ SequenceConflict(d)
  BY <1>2, <1>20 DEF ReadFails, SequenceConflict
<1>21. CASE Replan(d)
  BY <1>9, <1>21 DEF Replan
<1> QED BY <1>2, <1>5, <1>6, <1>7, <1>8, <1>10, <1>11, <1>12, <1>13, <1>14, <1>15, <1>16, <1>17, <1>18,
     <1>19, <1>20, <1>21 DEF DriveStep

\* Whatever retries, refusals, panics, stops and releases happen, no drive has more executor futures
\* than the graph's parallel budget.
THEOREM ParallelBoundAlways == Spec => []ParallelBound
<1> DEFINE Inv == \A d \in Drives : BudgetKept(drv[d])
<1>1. Init => Inv
  BY BudgetOff DEF Init
<1>2. TypeOK /\ Inv /\ [Next]_vars => Inv'
  <2> SUFFICES ASSUME TypeOK, Inv, [Next]_vars PROVE Inv'
    OBVIOUS
  <2>0. drv \in [Drives -> DriveState]
    BY DEF TypeOK
  <2>1. CASE \E d \in Drives : DriveStep(d)
    BY <2>1, BudgetDriveStep
  <2>2. CASE \E o \in Owners : OwnerBegin(o) \/ OwnerContinue(o) \/ OwnerKilled(o)
    <3>1. PICK o \in Owners : OwnerBegin(o) \/ OwnerContinue(o) \/ OwnerKilled(o)
      BY <2>2
    <3>2. CASE StopCommand(o) /\ cancels # NoDrive
      <4>1. cancels \in Drives /\ drv[cancels] \in DriveState
        BY <3>2 DEF TypeOK
      <4>2. drv' = [drv EXCEPT ![cancels] = [drv[cancels] EXCEPT !.stop = TRUE]]
        BY <3>2 DEF StopCommand
      <4>3. BudgetKept([drv[cancels] EXCEPT !.stop = TRUE])
        BY <4>1, BudgetSame DEF DriveState
      <4> QED BY <2>0, <4>1, <4>2, <4>3
    <3>3. CASE ResumeAppend(o)
      BY <2>0, <3>3, BudgetOff DEF ResumeAppend
    <3>4. CASE drv' = drv
      BY <3>4
    <3> QED BY <3>1, <3>2, <3>3, <3>4
            DEF OwnerBegin, OwnerContinue, OwnerKilled, PauseCommand, StopCommand, CancelCommand,
                ResumeCommand, ApproveCommand, BeginPause, Issue, OwnerDecide, PauseDone, CancelSettle,
                ResumeSettle, OwnerAppend, OwnerConflict, Settle, Observe
  <2>3. CASE Proposal \/ UNCHANGED vars
    BY <2>3 DEF Proposal, vars
  <2>4. CASE Crash
    BY <2>4, BudgetOff DEF Crash
  <2> QED BY <2>1, <2>2, <2>3, <2>4 DEF Next
<1>3. TypeOK /\ Inv => ParallelBound
  <2> SUFFICES ASSUME TypeOK, Inv, NEW d \in Drives PROVE Cardinality(drv[d].tasks) <= MaxParallel
    BY DEF ParallelBound
  <2>1. /\ drv[d].flight \in SUBSET Nodes /\ drv[d].tasks \in SUBSET drv[d].flight
        /\ IsFiniteSet(drv[d].plan)
    BY DEF TypeOK, DriveState, BudgetKept
  <2>2. IsFiniteSet(drv[d].flight)
    BY <2>1, NodesAssumption, FS_Subset
  <2>3. IsFiniteSet(drv[d].tasks) /\ Cardinality(drv[d].tasks) <= Cardinality(drv[d].flight)
    BY <2>1, <2>2, FS_Subset
  <2>4. /\ Cardinality(drv[d].flight) \in Nat /\ Cardinality(drv[d].plan) \in Nat
        /\ Cardinality(drv[d].tasks) \in Nat /\ MaxParallel \in Nat
    BY <2>1, <2>2, <2>3, FS_CardinalityType, BoundsAssumption
  <2> QED BY <2>3, <2>4 DEF BudgetKept
<1> HIDE DEF Inv
<1> QED BY <1>1, <1>2, <1>3, TypeInvariant, PTL DEF Spec
=============================================================================
