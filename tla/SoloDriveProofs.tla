-------------------------- MODULE SoloDriveProofs --------------------------
(* What a drive guarantees when it is the only one of its execution, whatever the owner's commands,  *)
(* crashes and proposals interleave with it: edges, retry bounds, the verdict of quiescence, final    *)
(* outcomes and the residue of a pause.  (Two drives of one execution do not keep all of this: a      *)
(* drive decides on a read that the other one's append has made old.)  Proved with TLAPS.             *)
EXTENDS DriveSafetyProofs

OneDrive == \A d, e \in Drives : d = e

Settled(state) == state \in {"Succeeded", "Failed", "Waived", "Skipped"}
OwnerOutcomes == {"Paused", "Cancelled", "Interrupted", "Approved"}
AllSatisfied(p) == \A n \in Nodes : satisfies_dependents(p.node[n])
AllTerminal(p) == \A n \in Nodes : is_terminal(p.node[n])

(* The inductive invariant, of the projection p at the head and of the drive's state s.  A drive's   *)
(* pending event was decided on an older projection; what makes it right to append all the same is    *)
(* what no command of the owner's can undo in between.                                                *)

\* Attempts were made behind satisfied edges; a retry that is waiting is within its bounds, and a
\* node whose last outcome is retryable is nowhere a first hop could start from; a settled execution
\* has the nodes its verdict speaks of.
RetrySound(p, n) ==
    p.last[n] = "RetryableFailure" =>
        /\ p.node[n] \in {"Queued", "Running", "Blocked"}
        /\ p.node[n] = "Queued" => p.attempts[n] < MaxAttempts /\ p.identical[n] <= MaxIdentical
VerdictSound(p) ==
    /\ p.status = "Completed" => AllSatisfied(p)
    /\ p.status = "Failed" /\ p.clean => AllTerminal(p)
ProjSound(p) ==
    /\ \A n \in Nodes : p.attempts[n] > 0 => edges_satisfied(p.node, n)
    /\ \A n \in Nodes : RetrySound(p, n)
    /\ VerdictSound(p)

\* What a drive's pending outcome may still rely on at the head.
OutcomeSound(p, e) ==
    /\ ~Settled(p.node[e.node])
    /\ e.outcome = "Started" => /\ edges_satisfied(p.node, e.node)
                                /\ e.next \in {"Queued", "Running"}
                                /\ e.next = "Queued" => p.last[e.node] # "RetryableFailure"
    /\ e.outcome = "RetryableFailure" =>
          /\ e.next \in {"Queued", "Blocked"}
          /\ e.next = "Queued" =>
                /\ p.attempts[e.node] < MaxAttempts
                /\ identical_outcomes_for(p, e.node, "RetryableFailure") < MaxIdentical
EventSound(p, e) ==
    /\ e.kind = "outcome" => OutcomeSound(p, e)
    /\ e.kind = "completed" => /\ e.next = "Completed" => AllSatisfied(p)
                               /\ e.next = "Failed" /\ p.clean => AllTerminal(p)

\* What is planned, released or executed stays behind satisfied edges.
WorkSound(p, s) ==
    /\ \A q \in s.plan : edges_satisfied(p.node, q[2])
    /\ \A n \in s.tasks : edges_satisfied(p.node, n)
    /\ s.pc = "release" =>
          /\ \A n \in s.todo : edges_satisfied(p.node, n) /\ p.node[n] \in {"Paused", "Cancelled"}
          /\ s.event.kind = "outcome" => s.event.node \notin s.todo
    /\ s.pc = "hop1" /\ s.event = NoEvent =>
          \A q \in s.plan : First(q, s.plan) => p.node[q[2]] \in {"Ready", "Paused", "Cancelled"}

\* Where a drive may stand with the event it has pending, and with the execution settled.
PcSound(p, s) ==
    /\ s.event.outcome = "Started" /\ s.event.next = "Running" => s.pc = "hop2"
    /\ s.event.kind = "completed" => s.pc = "complete"
    /\ s.pc \in {"off", "failing"} => s.event = NoEvent
    /\ p.status \in {"Completed", "Failed"} => s.pc \in {"off", "failing"}

DriveSound(p, s) == EventSound(p, s.event) /\ WorkSound(p, s) /\ PcSound(p, s)

\* One node at most enters Running after a pause: the drive is past its gate only once.
LateSound(p, s, late) ==
    /\ late \in {0, 1}
    /\ p.status = "Paused" /\ s.pc \in {"hop1", "hop2"} => late = 0

\* The outcomes a command of the owner's records, and the only append that starts a drive.
OwnerSound(w) ==
    /\ w.event.kind = "outcome" => w.event.outcome \in OwnerOutcomes
    /\ w.pc = "resuming" => w.event.kind = "resumed"

SoloInv ==
    /\ ProjSound(proj)
    /\ lateStarts \in {0, 1}
    /\ \A d \in Drives : DriveSound(proj, drv[d]) /\ LateSound(proj, drv[d], lateStarts)
    /\ \A o \in Owners : OwnerSound(own[o])

---------------------------------------------------------------------------
(* Facts about projections *)

\* Satisfied edges stay satisfied as long as no settled node moves.
LEMMA EdgesStable ==
    ASSUME NEW p \in Projection, NEW q \in Projection, NEW n \in Nodes,
           \A m \in Nodes : Settled(p.node[m]) => q.node[m] = p.node[m],
           edges_satisfied(p.node, n)
    PROVE  edges_satisfied(q.node, n)
<1> SUFFICES ASSUME NEW edge \in Edges, edge.to = n PROVE ~edge_gates(edge, q.node[edge.from])
  BY DEF edges_satisfied
<1>1. edge.from \in Nodes /\ ~edge_gates(edge, p.node[edge.from])
  BY EdgesAssumption DEF edges_satisfied
<1> QED BY <1>1 DEF edge_gates, satisfies_dependents, Settled

\* A projection that differs in neither nodes nor counters, and is not newly settled.
LEMMA SameNodesSound ==
    ASSUME NEW p \in Projection, NEW q \in Projection, q.node = p.node, q.attempts = p.attempts,
           q.last = p.last, q.identical = p.identical, q.clean = p.clean
    PROVE  /\ ProjSound(p) /\ VerdictSound(q) => ProjSound(q)
           /\ \A e : EventSound(p, e) => EventSound(q, e)
           /\ \A s : WorkSound(p, s) => WorkSound(q, s)
<1>1. ProjSound(p) /\ VerdictSound(q) => ProjSound(q)
  BY DEF ProjSound, RetrySound
<1>2. ASSUME NEW e, EventSound(p, e) PROVE EventSound(q, e)
  BY <1>2 DEF EventSound, OutcomeSound, identical_outcomes_for, AllSatisfied, AllTerminal
<1>3. ASSUME NEW s, WorkSound(p, s) PROVE WorkSound(q, s)
  BY <1>3 DEF WorkSound
<1> QED BY <1>1, <1>2, <1>3

\* What one recorded outcome does to the projection.
LEMMA FoldOutcome ==
    ASSUME NEW p \in Projection, NEW e \in Event, e.kind = "outcome"
    PROVE  LET q == fold(p, e) IN
           /\ e.node \in Nodes /\ e.outcome \in NodeOutcomes /\ e.next \in NodeStates
           /\ q \in Projection /\ q.status = p.status /\ q.clean = p.clean
           /\ q.node[e.node] = e.next
           /\ q.last[e.node] = (IF e.outcome = "Started" THEN p.last[e.node] ELSE e.outcome)
           /\ q.attempts[e.node] = (IF e.outcome = "Started" /\ e.next = "Running"
                                    THEN p.attempts[e.node] + 1 ELSE p.attempts[e.node])
           /\ q.identical[e.node] = (IF e.outcome = "Started" THEN p.identical[e.node]
                                     ELSE identical_outcomes_for(p, e.node, e.outcome) + 1)
           /\ \A m \in Nodes \ {e.node} :
                 /\ q.node[m] = p.node[m] /\ q.last[m] = p.last[m]
                 /\ q.attempts[m] = p.attempts[m] /\ q.identical[m] = p.identical[m]
<1>1. e.node \in Nodes /\ e.outcome \in NodeOutcomes /\ e.next \in NodeStates
  BY DEF Event, NoEvent
<1>2. fold(p, e) \in Projection
  BY FoldType
<1>3. fold(p, e) = fold_outcome(p, e.node, e.outcome, e.next)
  BY DEF fold
<1>4. /\ fold(p, e).node = [p.node EXCEPT ![e.node] = e.next]
      /\ fold(p, e).last = last_outcome(p, e.node, e.outcome)
      /\ fold(p, e).attempts = count_attempt(p, e.node, e.outcome, e.next)
      /\ fold(p, e).identical = identical_outcomes(p, e.node, e.outcome)
      /\ fold(p, e).status = p.status /\ fold(p, e).clean = p.clean
  BY <1>3 DEF fold_outcome, Projection
<1>5. /\ p.node \in [Nodes -> NodeStates] /\ p.attempts \in [Nodes -> Nat]
      /\ p.last \in [Nodes -> NodeOutcomes \cup {"None"}] /\ p.identical \in [Nodes -> Nat]
  BY DEF Projection
<1>6. /\ fold(p, e).node[e.node] = e.next
      /\ \A m \in Nodes \ {e.node} : fold(p, e).node[m] = p.node[m]
  BY <1>1, <1>4, <1>5
<1>7. /\ fold(p, e).last[e.node] = (IF e.outcome = "Started" THEN p.last[e.node] ELSE e.outcome)
      /\ \A m \in Nodes \ {e.node} : fold(p, e).last[m] = p.last[m]
  BY <1>1, <1>4, <1>5 DEF last_outcome
<1>8. /\ fold(p, e).attempts[e.node] = (IF e.outcome = "Started" /\ e.next = "Running"
                                        THEN p.attempts[e.node] + 1 ELSE p.attempts[e.node])
      /\ \A m \in Nodes \ {e.node} : fold(p, e).attempts[m] = p.attempts[m]
  BY <1>1, <1>4, <1>5 DEF count_attempt
<1>9. /\ fold(p, e).identical[e.node] = (IF e.outcome = "Started" THEN p.identical[e.node]
                                         ELSE identical_outcomes_for(p, e.node, e.outcome) + 1)
      /\ \A m \in Nodes \ {e.node} : fold(p, e).identical[m] = p.identical[m]
  BY <1>1, <1>4, <1>5 DEF identical_outcomes
<1> QED BY <1>1, <1>2, <1>4, <1>6, <1>7, <1>8, <1>9
---------------------------------------------------------------------------
(* An outcome the owner's command appends: decided at the head, on a node that is not terminal *)

\* What the owner's outcomes make of a node.
LEMMA OwnerOutcome ==
    ASSUME NEW p \in Projection, NEW e \in Event, e.kind = "outcome", e.outcome \in OwnerOutcomes,
           e.next = next_state(p, e.node, e.outcome)
    PROVE  /\ ~is_terminal(p.node[e.node])
           /\ e.next \in {"Paused", "Cancelled", "Blocked", "Ready"}
           /\ p.node[e.node] = "Paused" => e.next = "Cancelled"
           /\ p.node[e.node] = "Ready" => e.next \in {"Paused", "Cancelled"}
<1>1. e.node \in Nodes /\ e.next \in NodeStates
  BY FoldOutcome
<1>2. p.node[e.node] \in NodeStates
  BY <1>1 DEF Projection
<1>3. e.next # IllegalTransition
  BY <1>1 DEF NodeStates, IllegalTransition
<1> QED BY <1>2, <1>3 DEF next_state, apply_transition, is_terminal, OwnerOutcomes, IllegalTransition

LEMMA OwnerFoldSound ==
    ASSUME NEW p \in Projection, NEW e \in Event, e.kind = "outcome", e.outcome \in OwnerOutcomes,
           e.next = next_state(p, e.node, e.outcome), ProjSound(p)
    PROVE  /\ ProjSound(fold(p, e))
           /\ \A n \in Nodes : Settled(p.node[n]) => fold(p, e).node[n] = p.node[n]
           /\ \A s \in DriveState : DriveSound(p, s) => DriveSound(fold(p, e), s)
<1> DEFINE q == fold(p, e)
<1>1. /\ e.node \in Nodes /\ q \in Projection /\ q.status = p.status /\ q.clean = p.clean
      /\ q.node[e.node] = e.next /\ q.last[e.node] = e.outcome
      /\ q.attempts[e.node] = p.attempts[e.node]
      /\ \A m \in Nodes \ {e.node} :
            /\ q.node[m] = p.node[m] /\ q.last[m] = p.last[m]
            /\ q.attempts[m] = p.attempts[m] /\ q.identical[m] = p.identical[m]
  BY FoldOutcome DEF OwnerOutcomes
<1>2. /\ ~is_terminal(p.node[e.node])
      /\ e.next \in {"Paused", "Cancelled", "Blocked", "Ready"}
      /\ p.node[e.node] = "Paused" => e.next = "Cancelled"
      /\ p.node[e.node] = "Ready" => e.next \in {"Paused", "Cancelled"}
  BY OwnerOutcome
<1> HIDE DEF q
<1>3. \A n \in Nodes : Settled(p.node[n]) => q.node[n] = p.node[n]
  BY <1>1, <1>2 DEF Settled, is_terminal
<1>4. \A n \in Nodes : edges_satisfied(p.node, n) => edges_satisfied(q.node, n)
  BY <1>1, <1>3, EdgesStable
<1>5. \A n \in Nodes : q.attempts[n] = p.attempts[n]
  BY <1>1
<1>6. ~AllSatisfied(p) /\ ~AllTerminal(p)
  BY <1>1, <1>2 DEF AllSatisfied, AllTerminal, satisfies_dependents, is_terminal
<1>7. ProjSound(q)
  <2>1. \A n \in Nodes : RetrySound(q, n)
    BY <1>1, <1>5 DEF ProjSound, RetrySound, OwnerOutcomes
  <2>2. VerdictSound(q)
    BY <1>1, <1>6 DEF ProjSound, VerdictSound
  <2>3. \A n \in Nodes : q.attempts[n] > 0 => edges_satisfied(q.node, n)
    BY <1>4, <1>5 DEF ProjSound
  <2> QED BY <2>1, <2>2, <2>3 DEF ProjSound
<1>8. ASSUME NEW s \in DriveState, DriveSound(p, s) PROVE DriveSound(q, s)
  <2>1. /\ s.event \in Event /\ s.todo \subseteq Nodes /\ s.tasks \subseteq Nodes
        /\ \A x \in s.plan : x[2] \in Nodes
        /\ EventSound(p, s.event) /\ WorkSound(p, s) /\ PcSound(p, s)
    BY <1>8 DEF DriveState, DriveSound
  <2>2. ASSUME s.event.kind = "outcome" PROVE OutcomeSound(q, s.event)
    <3>1. s.event.node \in Nodes /\ OutcomeSound(p, s.event)
      BY <2>1, <2>2, FoldOutcome DEF EventSound
    <3>2. ~Settled(q.node[s.event.node])
      BY <1>1, <1>2, <3>1 DEF OutcomeSound, Settled
    <3>3. q.last[s.event.node] = p.last[s.event.node] \/ q.last[s.event.node] # "RetryableFailure"
      BY <1>1, <3>1 DEF OwnerOutcomes
    <3>4. \/ identical_outcomes_for(q, s.event.node, "RetryableFailure")
               = identical_outcomes_for(p, s.event.node, "RetryableFailure")
          \/ identical_outcomes_for(q, s.event.node, "RetryableFailure") = 0
      BY <1>1, <3>1 DEF identical_outcomes_for, OwnerOutcomes
    <3>5. identical_outcomes_for(p, s.event.node, "RetryableFailure") \in Nat /\ MaxIdentical \in Nat
      BY <3>1, BoundsAssumption DEF identical_outcomes_for, Projection
    <3> QED BY <1>4, <1>5, <3>1, <3>2, <3>3, <3>4, <3>5 DEF OutcomeSound
  <2>3. EventSound(q, s.event)
    BY <1>1, <1>6, <2>1, <2>2 DEF EventSound
  <2>4. ASSUME NEW n \in Nodes, p.node[n] \in {"Paused", "Cancelled"}
        PROVE  q.node[n] \in {"Paused", "Cancelled"}
    BY <1>1, <1>2, <2>4 DEF is_terminal
  <2>5. ASSUME NEW n \in Nodes, p.node[n] \in {"Ready", "Paused", "Cancelled"}
        PROVE  q.node[n] \in {"Ready", "Paused", "Cancelled"}
    BY <1>1, <1>2, <2>5 DEF is_terminal
  <2>6. WorkSound(q, s)
    BY <1>4, <2>1, <2>4, <2>5 DEF WorkSound
  <2>7. PcSound(q, s)
    BY <1>1, <2>1 DEF PcSound
  <2> QED BY <2>3, <2>6, <2>7 DEF DriveSound
<1> QED BY <1>3, <1>7, <1>8 DEF q

\* A status event the owner's command appends, and a proposal, touch no node.
LEMMA StatusSound ==
    ASSUME NEW p \in Projection, NEW q \in Projection, q.node = p.node, q.attempts = p.attempts,
           q.last = p.last, q.identical = p.identical, q.clean = p.clean,
           q.status \in {"Completed", "Failed"} => q.status = p.status, ProjSound(p)
    PROVE  ProjSound(q) /\ \A s : DriveSound(p, s) => DriveSound(q, s)
<1>1. VerdictSound(q)
  BY DEF ProjSound, VerdictSound, AllSatisfied, AllTerminal
<1>2. ASSUME NEW s, DriveSound(p, s) PROVE DriveSound(q, s)
  <2>1. PcSound(q, s)
    BY <1>2 DEF DriveSound, PcSound
  <2> QED BY <1>2, <2>1, SameNodesSound DEF DriveSound
<1> QED BY <1>1, <1>2, SameNodesSound

---------------------------------------------------------------------------
(* An outcome the drive appends: decided on an older projection *)

LEMMA DriveFoldSound ==
    ASSUME NEW p \in Projection, NEW e \in Event, e.kind = "outcome", OutcomeSound(p, e),
           ProjSound(p), p.status \notin {"Completed", "Failed"}
    PROVE  /\ ProjSound(fold(p, e))
           /\ \A n \in Nodes : Settled(p.node[n]) => fold(p, e).node[n] = p.node[n]
<1> DEFINE q == fold(p, e)
<1>1. /\ e.node \in Nodes /\ q \in Projection /\ q.status = p.status /\ q.clean = p.clean
      /\ q.node[e.node] = e.next
      /\ q.last[e.node] = (IF e.outcome = "Started" THEN p.last[e.node] ELSE e.outcome)
      /\ q.attempts[e.node] = (IF e.outcome = "Started" /\ e.next = "Running"
                               THEN p.attempts[e.node] + 1 ELSE p.attempts[e.node])
      /\ q.identical[e.node] = (IF e.outcome = "Started" THEN p.identical[e.node]
                                ELSE identical_outcomes_for(p, e.node, e.outcome) + 1)
      /\ \A m \in Nodes \ {e.node} :
            /\ q.node[m] = p.node[m] /\ q.last[m] = p.last[m]
            /\ q.attempts[m] = p.attempts[m] /\ q.identical[m] = p.identical[m]
  BY FoldOutcome
<1> HIDE DEF q
<1>2. \A n \in Nodes : Settled(p.node[n]) => q.node[n] = p.node[n]
  BY <1>1 DEF OutcomeSound
<1>3. \A n \in Nodes : edges_satisfied(p.node, n) => edges_satisfied(q.node, n)
  BY <1>1, <1>2, EdgesStable
<1>4. ASSUME NEW n \in Nodes, q.attempts[n] > 0 PROVE edges_satisfied(q.node, n)
  BY <1>1, <1>3, <1>4 DEF ProjSound, OutcomeSound
<1>5. ASSUME NEW n \in Nodes PROVE RetrySound(q, n)
  <2>1. CASE n # e.node
    BY <1>1, <2>1 DEF ProjSound, RetrySound
  <2>2. CASE n = e.node /\ e.outcome = "Started"
    BY <1>1, <2>2 DEF OutcomeSound, RetrySound
  <2>3. CASE n = e.node /\ e.outcome = "RetryableFailure"
    <3>1. identical_outcomes_for(p, n, "RetryableFailure") \in Nat /\ MaxIdentical \in Nat
      BY BoundsAssumption DEF identical_outcomes_for, Projection
    <3> QED BY <1>1, <2>3, <3>1 DEF OutcomeSound, RetrySound
  <2>4. CASE n = e.node /\ e.outcome \notin {"Started", "RetryableFailure"}
    BY <1>1, <2>4 DEF RetrySound
  <2> QED BY <2>1, <2>2, <2>3, <2>4
<1>6. VerdictSound(q)
  BY <1>1 DEF VerdictSound
<1> QED BY <1>2, <1>4, <1>5, <1>6 DEF ProjSound, q

\* A decision of the drive's is sound where it is made.
LEMMA DecisionSound ==
    ASSUME NEW p \in Projection, NEW n \in Nodes, NEW outcome \in NodeOutcomes,
           outcome # "Invalidated", next_state(p, n, outcome) # IllegalTransition, ProjSound(p),
           outcome = "Started" => edges_satisfied(p.node, n)
    PROVE  /\ EventSound(p, OutcomeEvent(n, outcome, next_state(p, n, outcome)))
           /\ outcome = "Started" /\ p.node[n] \in {"Ready", "Paused", "Cancelled"}
                => next_state(p, n, outcome) # "Running"
<1> DEFINE e == OutcomeEvent(n, outcome, next_state(p, n, outcome))
<1>1. /\ e.kind = "outcome" /\ e.node = n /\ e.outcome = outcome
      /\ e.next = next_state(p, n, outcome)
  BY DEF OutcomeEvent
<1> HIDE DEF e
<1>2. p.node[n] \in NodeStates /\ p.attempts[n] \in Nat /\ MaxAttempts \in Nat /\ MaxIdentical \in Nat
      /\ identical_outcomes_for(p, n, outcome) \in Nat
  BY BoundsAssumption DEF Projection, identical_outcomes_for
<1>3. ~is_terminal(p.node[n])
  BY DEF next_state, apply_transition
<1>4. CASE outcome = "Started"
  <2>1. /\ next_state(p, n, outcome) \in {"Queued", "Running"}
        /\ p.node[n] \in {"Queued", "Ready", "WaitingInput", "WaitingCapacity", "Paused"}
        /\ p.node[n] = "Queued" <=> next_state(p, n, outcome) = "Running"
    BY <1>2, <1>3, <1>4 DEF next_state, apply_transition, NodeStates, IllegalTransition
  <2>2. next_state(p, n, outcome) = "Queued" => p.last[n] # "RetryableFailure"
    BY <2>1 DEF ProjSound, RetrySound
  <2> QED BY <1>1, <1>3, <1>4, <2>1, <2>2 DEF EventSound, OutcomeSound, Settled, is_terminal, e
<1>5. CASE outcome = "RetryableFailure"
  <2>1. /\ next_state(p, n, outcome) \in {"Queued", "Blocked"}
        /\ next_state(p, n, outcome) = "Queued" =>
              ~(p.attempts[n] >= MaxAttempts \/ identical_outcomes_for(p, n, outcome) >= MaxIdentical)
    BY <1>2, <1>3, <1>5 DEF next_state, apply_transition, NodeStates, IllegalTransition
  <2> QED BY <1>1, <1>2, <1>3, <1>5, <2>1 DEF EventSound, OutcomeSound, Settled, is_terminal, e
<1>6. CASE outcome \notin {"Started", "RetryableFailure"}
  BY <1>1, <1>3, <1>6 DEF EventSound, OutcomeSound, Settled, is_terminal, e
<1> QED BY <1>4, <1>5, <1>6
---------------------------------------------------------------------------
(* The steps of the drive *)

LEMMA RestSound ==
    \A p, late : /\ DriveSound(p, Off) /\ DriveSound(p, [Off EXCEPT !.pc = "failing"])
                 /\ late \in {0, 1} => /\ LateSound(p, Off, late)
                                       /\ LateSound(p, [Off EXCEPT !.pc = "failing"], late)
BY DEF DriveSound, EventSound, WorkSound, PcSound, LateSound, Off, NoEvent

\* A live drive that goes on: to any point but a release, with what it still does behind satisfied
\* edges and with a sound event, or none, pending.
LEMMA MoveSound ==
    ASSUME NEW p, NEW s, NEW new, PcSound(p, s), s.pc \notin {"off", "failing"},
           new.pc \notin {"off", "failing", "release"}, new.pc = "hop1" => new.event # NoEvent,
           \A q \in new.plan : edges_satisfied(p.node, q[2]),
           \A n \in new.tasks : edges_satisfied(p.node, n),
           EventSound(p, new.event), new.event.kind = "completed" => new.pc = "complete",
           new.event.outcome = "Started" /\ new.event.next = "Running" => new.pc = "hop2"
    PROVE  DriveSound(p, new)
BY DEF DriveSound, WorkSound, PcSound

\* The append of the drive's pending event.
LEMMA DriveAppendSound ==
    ASSUME CommandInv, SoloInv, NEW d \in Drives, DriveAppend(d)
    PROVE  /\ ProjSound(proj') /\ lateStarts' \in {0, 1}
           /\ DriveSound(proj', drv'[d]) /\ LateSound(proj', drv'[d], lateStarts')
           /\ \A n \in Nodes : Settled(proj.node[n]) => proj'.node[n] = proj.node[n]
<1> DEFINE s == drv[d]
           e == drv[d].event
           q == fold(proj, e)
           StartsNode == e.kind = "outcome" /\ e.outcome = "Started" /\ e.next = "Running"
<1>0. /\ s \in DriveState /\ e \in Event /\ proj \in Projection /\ ProjSound(proj)
      /\ drv \in [Drives -> DriveState] /\ lateStarts \in {0, 1}
      /\ EventSound(proj, e) /\ WorkSound(proj, s) /\ PcSound(proj, s)
      /\ LateSound(proj, s, lateStarts)
      /\ DriveShape(s) /\ proj' = q /\ s.todo \subseteq Nodes /\ s.tasks \subseteq Nodes
      /\ \A x \in s.plan : x[2] \in Nodes
      /\ lateStarts' = IF e.kind = "paused" THEN 0
                       ELSE IF StartsNode THEN lateStarts + (IF proj.status = "Paused" THEN 1 ELSE 0)
                       ELSE lateStarts
  BY DEF CommandInv, EventShapes, TypeOK, DriveState, SoloInv, DriveSound, DriveAppend, Appended
<1>1. q \in Projection
  BY <1>0, FoldType
<1>2. /\ ProjSound(q)
      /\ \A n \in Nodes : Settled(proj.node[n]) => q.node[n] = proj.node[n]
      /\ \A n \in Nodes : ~(e.kind = "outcome" /\ e.node = n) => q.node[n] = proj.node[n]
      /\ q.status \in {"Completed", "Failed"} => s.pc \in {"complete", "off", "failing"}
      /\ q.status = "Paused" => proj.status = "Paused" \/ e.kind = "paused"
  <2>1. CASE e.kind = "outcome"
    <3>1. s.pc \notin {"off", "failing"} /\ proj.status \notin {"Completed", "Failed"}
      BY <1>0, <2>1 DEF PcSound, NoEvent
    <3>2. OutcomeSound(proj, e)
      BY <1>0, <2>1 DEF EventSound
    <3>3. /\ q.status = proj.status
          /\ \A m \in Nodes \ {e.node} : q.node[m] = proj.node[m]
      BY <1>0, <2>1, FoldOutcome
    <3> QED BY <1>0, <2>1, <3>1, <3>2, <3>3, DriveFoldSound
  <2>2. CASE e.kind # "outcome"
    <3>1. /\ q.node = proj.node /\ q.attempts = proj.attempts
          /\ q.last = proj.last /\ q.identical = proj.identical /\ q.clean = proj.clean
      BY <1>0, <2>2, FoldNodes
    <3>2. /\ e.kind = "completed" => q.status = e.next
          /\ e.kind \in {"paused", "resumed"} => q.status \in {proj.status, "Paused", "Running"}
          /\ e.kind # "paused" /\ q.status = "Paused" => proj.status = "Paused" \/ e.kind = "completed"
          /\ e.kind \notin {"completed", "paused", "resumed"} => q.status = proj.status
      BY <1>0, <2>2 DEF fold, fold_completed, fold_paused, fold_resumed, Projection
    <3>3. VerdictSound(q)
      BY <1>0, <3>1, <3>2 DEF ProjSound, VerdictSound, EventSound, AllSatisfied, AllTerminal
    <3>4. e.kind = "completed" => s.pc = "complete"
      BY <1>0 DEF PcSound
    <3>5. q.status \in {"Completed", "Failed"} => s.pc \in {"complete", "off", "failing"}
      BY <1>0, <3>2, <3>4 DEF PcSound
    <3>6. e.kind = "completed" => e.next # "Paused"
      BY <1>0 DEF DriveShape
    <3> QED BY <1>0, <1>1, <3>1, <3>2, <3>3, <3>5, <3>6, SameNodesSound
  <2> QED BY <2>1, <2>2
<1>3. \A n \in Nodes : edges_satisfied(proj.node, n) => edges_satisfied(q.node, n)
  BY <1>0, <1>1, <1>2, EdgesStable
<1>4. /\ lateStarts' \in {0, 1}
      /\ s.pc # "hop2" /\ q.status = "Paused" /\ s.pc = "hop1" => lateStarts' = 0
  <2>1. StartsNode => s.pc = "hop2" /\ (proj.status = "Paused" => lateStarts = 0)
    BY <1>0 DEF PcSound, LateSound
  <2> QED BY <1>0, <1>2, <2>1 DEF LateSound
<1> HIDE DEF q, StartsNode
<1> DEFINE after == AfterAppend(d)
<1>5. /\ after.event = NoEvent /\ after.plan = s.plan /\ after.tasks = s.tasks /\ after.todo = s.todo
      /\ after.pc # "hop1" /\ (after.pc = "hop2" => s.pc = "hop1")
      /\ (after.pc = "release" => s.pc = "release")
      /\ (s.pc \in {"off", "failing"} => after.pc = s.pc)
      /\ after \in DriveState
  <2> DEFINE base == [s EXCEPT !.event = NoEvent, !.sequenced = FALSE]
  <2>1. /\ base \in DriveState /\ base.event = NoEvent /\ base.plan = s.plan
        /\ base.tasks = s.tasks /\ base.todo = s.todo /\ base.pc = s.pc
    BY <1>0, EventTypes DEF DriveState
  <2>2. after = CASE base.pc = "hop1"          -> [base EXCEPT !.pc = "hop2"]
                  [] base.pc = "hop2"          -> [base EXCEPT !.pc = "delegate"]
                  [] base.pc = "delegate"      -> [base EXCEPT !.pc = "reuse"]
                  [] base.pc = "record"        -> [base EXCEPT !.pc = "pass"]
                  [] base.pc = "proposalPause" -> [base EXCEPT !.pc = "quiesce"]
                  [] OTHER                     -> base
    BY DEF AfterAppend
  <2> HIDE DEF base, after
  <2>3. \A pc \in DrivePcs : LET new == [base EXCEPT !.pc = pc] IN
              /\ new \in DriveState /\ new.event = NoEvent /\ new.plan = s.plan
              /\ new.tasks = s.tasks /\ new.todo = s.todo /\ new.pc = pc
    BY <2>1 DEF DriveState
  <2> QED BY <2>1, <2>2, <2>3 DEF DrivePcs
<1> HIDE DEF after
<1>6. EventSound(q, NoEvent) /\ NoEvent.outcome = "None" /\ NoEvent.kind = "none"
  BY DEF EventSound, NoEvent
<1>7. CASE drv' = [drv EXCEPT ![d] = after] /\ s.pc # "complete"
  <2>1. drv'[d] = after
    BY <1>0, <1>7
  <2>2. WorkSound(q, after)
    BY <1>0, <1>2, <1>3, <1>5, <1>6 DEF WorkSound
  <2>3. PcSound(q, after)
    BY <1>2, <1>5, <1>6, <1>7 DEF PcSound
  <2>4. LateSound(q, after, lateStarts')
    BY <1>4, <1>5 DEF LateSound
  <2> QED BY <1>0, <1>2, <1>4, <1>5, <1>6, <2>1, <2>2, <2>3, <2>4 DEF DriveSound
<1>8. CASE /\ s.pc \in {"hop2", "reuse"}
           /\ \E x \in s.plan :
                drv' = [drv EXCEPT ![d] = [after EXCEPT !.pc = "dispatch", !.plan = @ \ {x},
                                                        !.flight = @ \cup {x[2]},
                                                        !.tasks = @ \cup {x[2]}]]
  <2>1. PICK x \in s.plan :
                drv' = [drv EXCEPT ![d] = [after EXCEPT !.pc = "dispatch", !.plan = @ \ {x},
                                                        !.flight = @ \cup {x[2]},
                                                        !.tasks = @ \cup {x[2]}]]
    BY <1>8
  <2> DEFINE new == [after EXCEPT !.pc = "dispatch", !.plan = @ \ {x}, !.flight = @ \cup {x[2]},
                                  !.tasks = @ \cup {x[2]}]
  <2>2. drv'[d] = new
    BY <1>0, <2>1
  <2>3. /\ new.pc = "dispatch" /\ new.event = NoEvent /\ new.plan = s.plan \ {x}
        /\ new.tasks = s.tasks \cup {x[2]}
    BY <1>5 DEF DriveState
  <2> HIDE DEF new
  <2>4. WorkSound(q, new)
    BY <1>0, <1>3, <1>6, <2>3 DEF WorkSound
  <2>5. PcSound(q, new)
    BY <1>2, <1>6, <1>8, <2>3 DEF PcSound
  <2>6. LateSound(q, new, lateStarts')
    BY <1>4, <2>3 DEF LateSound
  <2> QED BY <1>0, <1>2, <1>4, <1>6, <2>2, <2>3, <2>4, <2>5, <2>6 DEF DriveSound
<1>9. CASE Return(d)
  <2>1. drv'[d] = Off
    BY <1>0, <1>9 DEF Return
  <2> QED BY <1>0, <1>2, <1>4, <2>1, RestSound
<1> QED BY <1>7, <1>8, <1>9 DEF DriveAppend, after

LEMMA DriveStepSound ==
    ASSUME CommandInv, SoloInv, NEW d \in Drives, DriveStep(d)
    PROVE  /\ ProjSound(proj') /\ lateStarts' \in {0, 1}
           /\ DriveSound(proj', drv'[d]) /\ LateSound(proj', drv'[d], lateStarts')
           /\ \A n \in Nodes : Settled(proj.node[n]) => proj'.node[n] = proj.node[n]
<1> DEFINE s == drv[d]
           Goal == /\ ProjSound(proj') /\ lateStarts' \in {0, 1}
                   /\ DriveSound(proj', drv'[d]) /\ LateSound(proj', drv'[d], lateStarts')
                   /\ \A n \in Nodes : Settled(proj.node[n]) => proj'.node[n] = proj.node[n]
           Sound(new) == DriveSound(proj, new) /\ LateSound(proj, new, lateStarts)
           Live == s.pc \notin {"off", "failing"}
<1> SUFFICES Goal
  OBVIOUS
<1>0. /\ s \in DriveState /\ proj \in Projection /\ ProjSound(proj)
      /\ drv \in [Drives -> DriveState] /\ lateStarts \in {0, 1}
      /\ EventSound(proj, s.event) /\ WorkSound(proj, s) /\ PcSound(proj, s)
      /\ LateSound(proj, s, lateStarts) /\ Sound(s)
      /\ s.todo \subseteq Nodes /\ s.tasks \subseteq Nodes /\ s.plan \subseteq Nat \X Nodes
      /\ \A x \in s.plan : edges_satisfied(proj.node, x[2])
      /\ \A n \in s.tasks : edges_satisfied(proj.node, n)
  BY DEF CommandInv, TypeOK, DriveState, SoloInv, DriveSound, WorkSound
<1>1. ASSUME NEW new, Sound(new), drv' = [drv EXCEPT ![d] = new], NoAppend PROVE Goal
  <2>1. drv'[d] = new /\ proj' = proj /\ lateStarts' = lateStarts
    BY <1>0, <1>1 DEF NoAppend
  <2> QED BY <1>0, <1>1, <2>1
<1> HIDE DEF Goal
<1>2. ASSUME Fail(d) \/ (Return(d) /\ NoAppend) PROVE Goal
  <2>1. Sound(Off) /\ Sound([Off EXCEPT !.pc = "failing"])
    BY <1>0, RestSound
  <2> QED BY <1>1, <1>2, <2>1 DEF Fail, Return
<1>3. ASSUME NEW new, Sound(new), Local(d, new) PROVE Goal
  BY <1>1, <1>3 DEF Local
\* A move to a point where no event is pending, or a status event that is sound there.
<1>4. ASSUME NEW new, Live, new.pc \notin {"off", "failing", "release", "hop1", "hop2"},
             \A x \in new.plan : edges_satisfied(proj.node, x[2]), new.tasks \subseteq s.tasks,
             \/ new.event = NoEvent
             \/ new.event.kind # "outcome" /\ new.event.outcome = "None"
                /\ EventSound(proj, new.event)
                /\ (new.event.kind = "completed" => new.pc = "complete")
      PROVE  Sound(new)
  <2>1. /\ EventSound(proj, new.event) /\ new.event.outcome = "None"
        /\ (new.event.kind = "completed" => new.pc = "complete")
    BY <1>4 DEF EventSound, NoEvent
  <2>2. \A n \in new.tasks : edges_satisfied(proj.node, n)
    BY <1>0, <1>4
  <2>3. DriveSound(proj, new)
    BY <1>0, <1>4, <2>1, <2>2, MoveSound
  <2>4. LateSound(proj, new, lateStarts)
    BY <1>0, <1>4 DEF LateSound
  <2> QED BY <2>3, <2>4
<1> HIDE DEF Sound
<1>5. CASE Preflight(d)
  <2>1. Live /\ s.event = NoEvent
    BY <1>5 DEF Preflight, Between
  <2>2. Sound([s EXCEPT !.pc = "pass"])
    <3> DEFINE new == [s EXCEPT !.pc = "pass"]
    <3>1. new.pc = "pass" /\ new.event = NoEvent /\ new.plan = s.plan /\ new.tasks = s.tasks
      BY <1>0, <2>1 DEF DriveState
    <3> QED BY <1>0, <1>4, <2>1, <3>1
  <2>3. ~proj.clean =>
           Sound([s EXCEPT !.pc = "complete", !.event = StatusEvent("completed", "Failed")])
    <3> DEFINE new == [s EXCEPT !.pc = "complete", !.event = StatusEvent("completed", "Failed")]
    <3>1. /\ new.pc = "complete" /\ new.event = StatusEvent("completed", "Failed")
          /\ new.plan = s.plan /\ new.tasks = s.tasks
      BY <1>0 DEF DriveState
    <3> HIDE DEF new
    <3>2. ~proj.clean => EventSound(proj, new.event)
      BY <3>1 DEF EventSound, StatusEvent
    <3>3. /\ new.event.kind # "outcome" /\ new.event.outcome = "None"
          /\ (new.event.kind = "completed" => new.pc = "complete")
      BY <3>1 DEF StatusEvent
    <3> QED BY <1>0, <1>4, <2>1, <3>1, <3>2, <3>3 DEF new
  <2> QED BY <1>2, <1>3, <1>5, <2>2, <2>3 DEF Preflight
<1>6. CASE PassStop(d) \/ DispatchStop(d) \/ WaitStop(d)
  <2>1. Live /\ s.event = NoEvent
    BY <1>6 DEF PassStop, DispatchStop, WaitStop, Between
  <2>2. /\ Stopping(d).pc = "stopping" /\ Stopping(d).event = NoEvent
        /\ Stopping(d).plan = {} /\ Stopping(d).tasks = {}
    BY <1>0, <2>1 DEF Stopping, DriveState
  <2>3. Sound(Stopping(d))
    BY <1>4, <2>1, <2>2
  <2> QED BY <1>3, <1>6, <2>3 DEF PassStop, DispatchStop, WaitStop
<1>7. CASE Pass(d)
  <2>1. Live /\ s.event = NoEvent
    BY <1>7 DEF Pass, Between
  <2>2. ASSUME NEW pc \in {"quiesce", "approve"}, NEW todo
        PROVE  Sound([s EXCEPT !.pc = pc]) /\ Sound([s EXCEPT !.pc = pc, !.todo = todo])
    <3>1. LET new == [s EXCEPT !.pc = pc]
          IN  new.pc = pc /\ new.event = NoEvent /\ new.plan = s.plan /\ new.tasks = s.tasks
      BY <1>0, <2>1 DEF DriveState
    <3>2. LET new == [s EXCEPT !.pc = pc, !.todo = todo]
          IN  new.pc = pc /\ new.event = NoEvent /\ new.plan = s.plan /\ new.tasks = s.tasks
      BY <1>0, <2>1 DEF DriveState
    <3> QED BY <1>0, <1>4, <2>1, <3>1, <3>2
  <2>3. Sound([s EXCEPT !.pc = "proposalPause", !.event = StatusEvent("paused", "Paused")])
    <3> DEFINE new == [s EXCEPT !.pc = "proposalPause", !.event = StatusEvent("paused", "Paused")]
    <3>1. /\ new.pc = "proposalPause" /\ new.event = StatusEvent("paused", "Paused")
          /\ new.plan = s.plan /\ new.tasks = s.tasks
      BY <1>0 DEF DriveState
    <3> HIDE DEF new
    <3>2. new.event.kind = "paused" /\ new.event.outcome = "None" /\ EventSound(proj, new.event)
      BY <3>1 DEF EventSound, StatusEvent
    <3> QED BY <1>0, <1>4, <2>1, <3>1, <3>2 DEF new
  <2> QED BY <1>3, <1>7, <2>2, <2>3 DEF Pass
\* A decision, wherever the drive makes it.
<1>8. ASSUME NEW n \in Nodes, NEW outcome \in NodeOutcomes \ {"Invalidated"}, NEW st \in DriveState,
             Decide(d, n, outcome, st), Live, st.pc \notin {"off", "failing"},
             st.plan = s.plan, st.tasks \subseteq s.tasks,
             outcome = "Started" => /\ edges_satisfied(proj.node, n)
                                    /\ st.pc = "hop2" \/ proj.node[n] \in {"Ready", "Paused", "Cancelled"},
             st.pc \in {"hop1", "hop2"} => st.pc = s.pc,
             st.pc = "release" => /\ s.pc = "release" /\ st.todo \subseteq s.todo \ {n}
      PROVE  Goal
  <2> DEFINE next == next_state(proj, n, outcome)
             new == [st EXCEPT !.event = OutcomeEvent(n, outcome, next)]
  <2>1. CASE Fail(d)
    BY <1>2, <2>1
  <2>2. CASE next # IllegalTransition /\ Local(d, new)
    <3>1. /\ EventSound(proj, OutcomeEvent(n, outcome, next))
          /\ outcome = "Started" /\ proj.node[n] \in {"Ready", "Paused", "Cancelled"} => next # "Running"
      BY <1>0, <1>8, <2>2, DecisionSound
    <3>2. /\ new.pc = st.pc /\ new.plan = s.plan /\ new.tasks = st.tasks /\ new.todo = st.todo
          /\ new.event = OutcomeEvent(n, outcome, next)
      BY <1>8 DEF DriveState
    <3>3. /\ new.event.kind = "outcome" /\ new.event.node = n /\ new.event.outcome = outcome
          /\ new.event.next = next /\ new.event # NoEvent
      BY <3>2 DEF OutcomeEvent, NoEvent
    <3> HIDE DEF new, next
    <3>4. \A m \in new.tasks : edges_satisfied(proj.node, m)
      BY <1>0, <1>8, <3>2
    <3>5. new.event.outcome = "Started" /\ new.event.next = "Running" => new.pc = "hop2"
      BY <1>8, <3>1, <3>2, <3>3
    <3>6. EventSound(proj, new.event)
      BY <3>1, <3>2
    <3>7. WorkSound(proj, new)
      BY <1>0, <1>8, <3>2, <3>3, <3>4 DEF WorkSound
    <3>8. PcSound(proj, new)
      BY <1>0, <1>8, <3>2, <3>3, <3>5 DEF PcSound
    <3>9. LateSound(proj, new, lateStarts)
      BY <1>0, <1>8, <3>2 DEF LateSound
    <3> QED BY <1>3, <2>2, <3>6, <3>7, <3>8, <3>9 DEF DriveSound, Sound
  <2> QED BY <1>8, <2>1, <2>2 DEF Decide
<1>9. CASE Approve(d) \/ Interrupt(d)
  <2>1. PICK n \in s.todo, outcome \in {"Approved", "Interrupted"} :
            Decide(d, n, outcome, [s EXCEPT !.todo = @ \ {n}])
    BY <1>9 DEF Approve, Interrupt
  <2>2. s.pc \in {"approve", "stopping"}
    BY <1>9 DEF Approve, Interrupt, Between
  <2> DEFINE st == [s EXCEPT !.todo = @ \ {n}]
  <2>3. st \in DriveState /\ st.pc = s.pc /\ st.plan = s.plan /\ st.tasks = s.tasks
    BY <1>0 DEF DriveState
  <2> HIDE DEF st
  <2>4. Decide(d, n, outcome, st)
    BY <2>1 DEF st
  <2>5. n \in Nodes /\ outcome \in NodeOutcomes \ {"Invalidated"} /\ outcome # "Started" /\ Live
    BY <1>0, <2>1, <2>2 DEF NodeOutcomes
  <2> QED BY <1>8, <2>2, <2>3, <2>4, <2>5
<1>10. CASE Release(d)
  <2>1. PICK n \in s.todo : Decide(d, n, "Started", [s EXCEPT !.todo = @ \ {n}])
    BY <1>10 DEF Release
  <2>2. s.pc = "release"
    BY <1>10 DEF Release, Between
  <2> DEFINE st == [s EXCEPT !.todo = @ \ {n}]
  <2>3. /\ st \in DriveState /\ st.pc = s.pc /\ st.plan = s.plan /\ st.tasks = s.tasks
        /\ st.todo = s.todo \ {n}
    BY <1>0 DEF DriveState
  <2> HIDE DEF st
  <2>4. Decide(d, n, "Started", st)
    BY <2>1 DEF st
  <2>5. n \in Nodes /\ edges_satisfied(proj.node, n) /\ proj.node[n] \in {"Paused", "Cancelled"}
    BY <1>0, <2>2 DEF WorkSound
  <2>6. "Started" \in NodeOutcomes \ {"Invalidated"} /\ Live
    BY <2>2 DEF NodeOutcomes
  <2> QED BY <1>8, <2>2, <2>3, <2>4, <2>5, <2>6
<1>11. CASE Hop(d)
  <2>1. PICK x \in s.plan : First(x, s.plan) /\ Decide(d, x[2], "Started", s)
    BY <1>11 DEF Hop
  <2>2. s.pc \in {"hop1", "hop2"} /\ s.event = NoEvent
    BY <1>11 DEF Hop, Between
  <2>3. x[2] \in Nodes /\ edges_satisfied(proj.node, x[2])
    BY <1>0, <2>1
  <2>4. s.pc = "hop2" \/ proj.node[x[2]] \in {"Ready", "Paused", "Cancelled"}
    BY <1>0, <2>1, <2>2 DEF WorkSound
  <2>5. "Started" \in NodeOutcomes \ {"Invalidated"} /\ Live /\ s.pc # "release"
    BY <2>2 DEF NodeOutcomes
  <2> QED BY <1>0, <1>8, <2>1, <2>3, <2>4, <2>5
<1>12. CASE JoinOutcome(d)
  <2>1. PICK n \in s.tasks, r \in Results \ {"refused", "panicked"} :
            Decide(d, n, IF r = "Succeeded" /\ n \in Gated THEN "NeedsInput" ELSE r,
                   [s EXCEPT !.pc = "record", !.tasks = @ \ {n}, !.flight = @ \ {n}])
    BY <1>12 DEF JoinOutcome
  <2> DEFINE outcome == IF r = "Succeeded" /\ n \in Gated THEN "NeedsInput" ELSE r
             st == [s EXCEPT !.pc = "record", !.tasks = @ \ {n}, !.flight = @ \ {n}]
  <2>2. outcome \in NodeOutcomes \ {"Invalidated"} /\ outcome # "Started"
    BY <2>1, ConfigAssumption DEF NodeOutcomes, ResultNames
  <2>3. st \in DriveState /\ st.pc = "record" /\ st.plan = s.plan /\ st.tasks = s.tasks \ {n}
    BY <1>0 DEF DriveState, DrivePcs
  <2>4. Live /\ n \in Nodes
    BY <1>0, <1>12 DEF JoinOutcome, Between
  <2> HIDE DEF outcome, st
  <2>5. Decide(d, n, outcome, st)
    BY <2>1 DEF outcome, st
  <2> QED BY <1>8, <2>2, <2>3, <2>4, <2>5
<1>13. ASSUME PlanPass(d), Live, s.event = NoEvent PROVE Goal
  <2> DEFINE candidates == dispatch_candidates(proj.node) \ (s.flight \cup s.refused)
             plan == IF proj.status = "Paused" THEN {}
                     ELSE dispatch_plan(candidates, proj.attempts, Cardinality(s.flight))
             pc == IF plan = {} /\ s.tasks = {} THEN "quiesce" ELSE "dispatch"
             new == [s EXCEPT !.pc = pc, !.todo = {}, !.plan = plan]
  <2>1. Fail(d) \/ Local(d, new)
    BY <1>13 DEF PlanPass
  <2>2. \A x \in plan : x[2] \in candidates
    BY DEF dispatch_plan
  <2>3. \A n \in candidates : edges_satisfied(proj.node, n)
    BY DEF dispatch_candidates, ready_set
  <2>4. pc \in {"quiesce", "dispatch"}
    OBVIOUS
  <2> HIDE DEF candidates, plan, pc
  <2>5. new.pc = pc /\ new.plan = plan /\ new.tasks = s.tasks /\ new.event = NoEvent
    BY <1>0, <1>13 DEF DriveState
  <2> HIDE DEF new
  <2>6. Sound(new)
    BY <1>4, <1>13, <2>2, <2>3, <2>4, <2>5
  <2> QED BY <1>2, <1>3, <2>1, <2>6
<1>14. CASE Reread(d)
  <2>1. Live /\ s.event = NoEvent /\ s.pc = "approve"
    BY <1>14 DEF Reread, Between
  <2> DEFINE new == [s EXCEPT !.pc = "release", !.todo = releasable(d)]
  <2>2. /\ new.pc = "release" /\ new.todo = releasable(d) /\ new.plan = s.plan
        /\ new.tasks = s.tasks /\ new.event = NoEvent
    BY <1>0, <2>1 DEF DriveState
  <2> HIDE DEF new
  <2>3. \A n \in releasable(d) : edges_satisfied(proj.node, n) /\ proj.node[n] = "Paused"
    BY DEF releasable
  <2>4. NoEvent.kind = "none" /\ NoEvent.outcome = "None" /\ EventSound(proj, NoEvent)
    BY DEF NoEvent, EventSound
  <2>5. WorkSound(proj, new) /\ PcSound(proj, new) /\ LateSound(proj, new, lateStarts)
    BY <1>0, <2>1, <2>2, <2>3, <2>4 DEF WorkSound, PcSound, LateSound
  <2>6. Sound(new)
    BY <2>2, <2>4, <2>5 DEF DriveSound, Sound
  <2> QED BY <1>3, <1>13, <1>14, <2>1, <2>6 DEF Reread, new
<1>15. CASE Replan(d)
  BY <1>13, <1>15 DEF Replan, Between
<1>16. CASE DispatchRefuse(d) \/ DispatchGate(d)
  <2>1. Live /\ s.event = NoEvent /\ s.pc = "dispatch"
    BY <1>16 DEF DispatchRefuse, DispatchGate, Between
  <2>2. \A x : Sound([s EXCEPT !.plan = @ \ {x}, !.refused = @ \cup {x[2]}])
    <3> TAKE x
    <3>1. LET new == [s EXCEPT !.plan = @ \ {x}, !.refused = @ \cup {x[2]}]
          IN  /\ new.pc = "dispatch" /\ new.event = NoEvent /\ new.plan = s.plan \ {x}
              /\ new.tasks = s.tasks
      BY <1>0, <2>1 DEF DriveState
    <3> QED BY <1>0, <1>4, <2>1, <3>1
  <2>3. Sound([s EXCEPT !.plan = {}])
    <3>1. LET new == [s EXCEPT !.plan = {}]
          IN  new.pc = "dispatch" /\ new.event = NoEvent /\ new.plan = {} /\ new.tasks = s.tasks
      BY <1>0, <2>1 DEF DriveState
    <3> QED BY <1>0, <1>4, <2>1, <3>1
  <2> QED BY <1>3, <1>16, <2>2, <2>3 DEF DispatchRefuse, DispatchGate
<1>17. CASE DispatchNode(d)
  <2>1. Live /\ s.event = NoEvent /\ s.pc = "dispatch" /\ proj.status # "Paused"
    BY <1>17 DEF DispatchNode, Between
  <2>2. PICK x \in s.plan :
            /\ First(x, s.plan)
            /\ Local(d, [s EXCEPT !.pc = IF proj.node[x[2]] = "Ready" THEN "hop1" ELSE "hop2"])
    BY <1>17 DEF DispatchNode
  <2> DEFINE pc == IF proj.node[x[2]] = "Ready" THEN "hop1" ELSE "hop2"
             new == [s EXCEPT !.pc = pc]
  <2>3. pc \in {"hop1", "hop2"} /\ (pc = "hop1" => proj.node[x[2]] = "Ready")
    OBVIOUS
  <2>4. ASSUME NEW y \in s.plan, First(y, s.plan) PROVE y = x
    <3>1. Before(x, y) /\ Before(y, x) /\ x \in Nat \X Nodes /\ y \in Nat \X Nodes
      BY <1>0, <2>2, <2>4 DEF First
    <3>2. PICK i \in Nat, m \in Nodes : x = <<i, m>>
      BY <3>1
    <3>3. PICK j \in Nat, k \in Nodes : y = <<j, k>>
      BY <3>1
    <3>4. m \in Nat /\ k \in Nat
      BY NodesAssumption
    <3>5. i = j /\ m = k
      BY <3>1, <3>2, <3>3, <3>4 DEF Before
    <3> QED BY <3>2, <3>3, <3>5
  <2> HIDE DEF pc
  <2>5. new.pc = pc /\ new.plan = s.plan /\ new.tasks = s.tasks /\ new.event = NoEvent
    BY <1>0, <2>1 DEF DriveState
  <2> HIDE DEF new
  <2>6. NoEvent.kind = "none" /\ NoEvent.outcome = "None" /\ EventSound(proj, NoEvent)
    BY DEF NoEvent, EventSound
  <2>7. WorkSound(proj, new)
    BY <1>0, <2>3, <2>4, <2>5 DEF WorkSound
  <2>8. PcSound(proj, new) /\ LateSound(proj, new, lateStarts)
    BY <1>0, <2>1, <2>3, <2>5, <2>6 DEF PcSound, LateSound
  <2>9. Sound(new)
    BY <2>5, <2>6, <2>7, <2>8 DEF DriveSound, Sound
  <2> QED BY <1>3, <2>2, <2>9 DEF new, pc
<1>18. CASE DispatchDone(d)
  <2>1. Live /\ s.event = NoEvent
    BY <1>18 DEF DispatchDone, Between
  <2>2. PICK pc \in {"pass", "wait"} : Local(d, [s EXCEPT !.pc = pc])
    BY <1>18 DEF DispatchDone
  <2>3. LET new == [s EXCEPT !.pc = pc]
        IN  new.pc = pc /\ new.event = NoEvent /\ new.plan = s.plan /\ new.tasks = s.tasks
    BY <1>0, <2>1 DEF DriveState
  <2>4. Sound([s EXCEPT !.pc = pc])
    BY <1>0, <1>4, <2>1, <2>3
  <2> QED BY <1>3, <2>2, <2>4
<1>19. CASE JoinPanicked(d) \/ JoinRefused(d)
  <2>1. Live /\ s.event = NoEvent
    BY <1>19 DEF JoinPanicked, JoinRefused, Between
  <2>2. ASSUME NEW n
        PROVE  /\ Sound([s EXCEPT !.pc = "pass", !.tasks = @ \ {n}])
               /\ Sound([s EXCEPT !.pc = "pass", !.tasks = @ \ {n}, !.flight = @ \ {n},
                                  !.refused = @ \cup {n}])
    <3>1. LET new == [s EXCEPT !.pc = "pass", !.tasks = @ \ {n}]
          IN  /\ new.pc = "pass" /\ new.event = NoEvent /\ new.plan = s.plan
              /\ new.tasks = s.tasks \ {n}
      BY <1>0, <2>1 DEF DriveState
    <3>2. LET new == [s EXCEPT !.pc = "pass", !.tasks = @ \ {n}, !.flight = @ \ {n},
                               !.refused = @ \cup {n}]
          IN  /\ new.pc = "pass" /\ new.event = NoEvent /\ new.plan = s.plan
              /\ new.tasks = s.tasks \ {n}
      BY <1>0, <2>1 DEF DriveState
    <3> QED BY <1>0, <1>4, <2>1, <3>1, <3>2
  <2> QED BY <1>3, <1>19, <2>2 DEF JoinPanicked, JoinRefused
<1>20. CASE NoteDelegation(d)
  <2>1. Live /\ s.pc \in {"delegate", "reuse"}
    BY <1>20 DEF NoteDelegation, Between
  <2> DEFINE new == [s EXCEPT !.event = StatusEvent("note", "None")]
  <2>2. /\ new.pc = s.pc /\ new.event = StatusEvent("note", "None")
        /\ new.plan = s.plan /\ new.tasks = s.tasks
    BY <1>0 DEF DriveState
  <2> HIDE DEF new
  <2>3. new.event.kind = "note" /\ new.event.outcome = "None" /\ EventSound(proj, new.event)
    BY <2>2 DEF EventSound, StatusEvent
  <2>4. Sound(new)
    BY <1>0, <1>4, <2>1, <2>2, <2>3
  <2> QED BY <1>3, <1>20, <2>4 DEF NoteDelegation, new
<1>21. CASE StopSettle(d)
  <2>1. Live
    BY <1>21 DEF StopSettle, Between
  <2> DEFINE new == [s EXCEPT !.pc = "stopPause", !.event = StatusEvent("paused", "Paused")]
  <2>2. /\ new.pc = "stopPause" /\ new.event = StatusEvent("paused", "Paused")
        /\ new.plan = s.plan /\ new.tasks = s.tasks
    BY <1>0 DEF DriveState
  <2> HIDE DEF new
  <2>3. new.event.kind = "paused" /\ new.event.outcome = "None" /\ EventSound(proj, new.event)
    BY <2>2 DEF EventSound, StatusEvent
  <2>4. Sound(new)
    BY <1>0, <1>4, <2>1, <2>2, <2>3
  <2> QED BY <1>2, <1>3, <1>21, <2>4 DEF StopSettle, new
<1>22. CASE Quiesce(d)
  <2>1. Live
    BY <1>22 DEF Quiesce, Between
  <2> DEFINE status == IF \A n \in Nodes : satisfies_dependents(proj.node[n])
                       THEN "Completed" ELSE "Failed"
             new == [s EXCEPT !.pc = "complete", !.event = StatusEvent("completed", status)]
  <2>2. (Return(d) /\ NoAppend) \/ (AllTerminal(proj) /\ Local(d, new))
    BY <1>22 DEF Quiesce, AllTerminal
  <2>3. status \in {"Completed", "Failed"} /\ (status = "Completed" => AllSatisfied(proj))
    BY DEF AllSatisfied
  <2> HIDE DEF status
  <2>4. /\ new.pc = "complete" /\ new.event = StatusEvent("completed", status)
        /\ new.plan = s.plan /\ new.tasks = s.tasks
    BY <1>0 DEF DriveState
  <2> HIDE DEF new
  <2>5. new.event.kind = "completed" /\ new.event.outcome = "None" /\ new.event.next = status
    BY <2>4 DEF StatusEvent
  <2>6. AllTerminal(proj) => EventSound(proj, new.event)
    BY <2>3, <2>5 DEF EventSound
  <2>7. AllTerminal(proj) => Sound(new)
    BY <1>0, <1>4, <2>1, <2>4, <2>5, <2>6
  <2> QED BY <1>2, <1>3, <2>2, <2>7
<1>23. CASE ReadFails(d) \/ SequenceConflict(d)
  BY <1>2, <1>23 DEF ReadFails, SequenceConflict
<1>24. CASE TakeSequence(d)
  <2> DEFINE new == [s EXCEPT !.sequenced = TRUE]
  <2>1. drv' = [drv EXCEPT ![d] = new] /\ NoAppend
    BY <1>24 DEF TakeSequence
  <2>2. /\ new.pc = s.pc /\ new.event = s.event /\ new.plan = s.plan /\ new.tasks = s.tasks
        /\ new.todo = s.todo
    BY <1>0 DEF DriveState
  <2> HIDE DEF new
  <2>3. Sound(new)
    BY <1>0, <2>2 DEF Sound, DriveSound, WorkSound, PcSound, LateSound
  <2> QED BY <1>1, <2>1, <2>3
<1>25. CASE DriveAppend(d)
  BY <1>25, DriveAppendSound DEF Goal
<1>26. CASE RecordFailure(d)
  <2>1. drv' = [drv EXCEPT ![d] = Off]
    BY <1>26 DEF RecordFailure
  <2>2. NoAppend
    <3>1. CASE Appended(StatusEvent("note", "None"))
      BY <3>1 DEF Appended, NoAppend, fold, StatusEvent
    <3> QED BY <1>26, <3>1 DEF RecordFailure
  <2>3. Sound(Off)
    BY <1>0, RestSound DEF Sound
  <2> QED BY <1>1, <2>1, <2>2, <2>3
<1> QED BY <1>5, <1>6, <1>7, <1>9, <1>10, <1>11, <1>12, <1>14, <1>15, <1>16, <1>17, <1>18, <1>19,
           <1>20, <1>21, <1>22, <1>23, <1>24, <1>25, <1>26 DEF DriveStep

---------------------------------------------------------------------------
(* The invariant and what follows from it *)

\* The owner's commands: their appends keep what the drive relies on, and they start a drive only
\* where none is live.
LEMMA OwnerStepSound ==
    ASSUME CommandInv, SoloInv, NEW o \in Owners,
           OwnerBegin(o) \/ OwnerContinue(o) \/ OwnerKilled(o)
    PROVE  /\ ProjSound(proj') /\ lateStarts' \in {0, 1}
           /\ \A d \in Drives : DriveSound(proj', drv'[d]) /\ LateSound(proj', drv'[d], lateStarts')
           /\ \A n \in Nodes : Settled(proj.node[n]) => proj'.node[n] = proj.node[n]
<1> DEFINE e == own[o].event
           Kept == /\ ProjSound(proj') /\ lateStarts' \in {0, 1}
                   /\ \A s \in DriveState : DriveSound(proj, s) => DriveSound(proj', s)
                   /\ \A s \in DriveState : LateSound(proj, s, lateStarts)
                                              => LateSound(proj', s, lateStarts')
                   /\ \A n \in Nodes : Settled(proj.node[n]) => proj'.node[n] = proj.node[n]
<1>0. /\ TypeOK /\ CommandsFresh /\ OwnerShape(e) /\ proj \in Projection /\ e \in Event
      /\ drv \in [Drives -> DriveState] /\ own[o] \in OwnerState /\ ProjSound(proj)
      /\ lateStarts \in {0, 1}
      /\ e.kind = "outcome" => e.outcome \in OwnerOutcomes
      /\ own[o].pc = "resuming" => e.kind = "resumed"
      /\ \A d \in Drives : DriveSound(proj, drv[d]) /\ LateSound(proj, drv[d], lateStarts)
  BY DEF CommandInv, TypeOK, EventShapes, OwnerState, SoloInv, OwnerSound
<1>1. Kept
  <2>1. CASE proj' = proj /\ lateStarts' = lateStarts
    BY <1>0, <2>1
  <2>2. CASE o \in observed /\ Appended(e)
    <3>1. /\ FreshDecision(o) /\ proj' = fold(proj, e)
          /\ e.kind = "paused" => lateStarts' = 0
          /\ e.kind # "paused" => lateStarts' = lateStarts
      BY <1>0, <2>2 DEF CommandsFresh, Appended, OwnerOutcomes
    <3>2. CASE e.kind = "outcome"
      <4>1. e.next = next_state(proj, e.node, e.outcome)
        BY <3>1, <3>2 DEF FreshDecision
      <4>2. proj'.status = proj.status
        BY <1>0, <3>1, <3>2, FoldOutcome
      <4>3. lateStarts' = lateStarts
        BY <3>1, <3>2
      <4>4. \A s : LateSound(proj, s, lateStarts) => LateSound(proj', s, lateStarts')
        BY <4>2, <4>3 DEF LateSound
      <4> QED BY <1>0, <3>1, <3>2, <4>1, <4>3, <4>4, OwnerFoldSound
    <3>3. CASE e.kind # "outcome"
      <4>1. /\ proj'.node = proj.node /\ proj'.attempts = proj.attempts
            /\ proj'.last = proj.last /\ proj'.identical = proj.identical
            /\ proj'.clean = proj.clean /\ proj' \in Projection
        BY <1>0, <3>1, <3>3, FoldNodes, FoldType
      <4>2. /\ proj'.status \in {"Completed", "Failed"} => proj'.status = proj.status
            /\ proj'.status = "Paused" => proj.status = "Paused" \/ e.kind = "paused"
        BY <1>0, <3>1, <3>3 DEF fold, fold_completed, fold_paused, fold_resumed, Projection,
             FreshDecision, resume_preconditions, OwnerShape
      <4>3. \A s : LateSound(proj, s, lateStarts) => LateSound(proj', s, lateStarts')
        BY <3>1, <4>2 DEF LateSound
      <4>4. ProjSound(proj') /\ \A s : DriveSound(proj, s) => DriveSound(proj', s)
        BY <1>0, <4>1, <4>2, StatusSound
      <4> QED BY <1>0, <3>1, <4>1, <4>3, <4>4
    <3> QED BY <3>2, <3>3
  <2>3. (proj' = proj /\ lateStarts' = lateStarts) \/ (o \in observed /\ Appended(e))
    <3>1. CASE OwnerBegin(o)
      BY <3>1 DEF OwnerBegin, PauseCommand, StopCommand, CancelCommand, ResumeCommand,
           ApproveCommand, BeginPause, Issue, NoAppend
    <3>2. CASE OwnerContinue(o)
      BY <3>2 DEF OwnerContinue, OwnerDecide, PauseDone, CancelSettle, ResumeSettle, OwnerConflict,
           Settle, Observe, NoAppend, OwnerAppend, ResumeAppend
    <3>3. CASE OwnerKilled(o)
      BY <3>3 DEF OwnerKilled, NoAppend
    <3> QED BY <3>1, <3>2, <3>3
  <2> QED BY <2>1, <2>2, <2>3
<1> HIDE DEF Kept
<1>2. \A d \in Drives : \/ drv'[d] = drv[d] \/ drv'[d] = [drv[d] EXCEPT !.stop = TRUE]
                        \/ e.kind = "resumed" /\ Appended(e) /\ o \in observed
                           /\ \E todo : drv'[d] = Fresh(todo)
  <2>1. CASE OwnerBegin(o)
    BY <1>0, <2>1 DEF OwnerBegin, PauseCommand, StopCommand, CancelCommand, ResumeCommand,
         ApproveCommand, BeginPause, Issue
  <2>2. CASE ResumeAppend(o)
    BY <1>0, <2>2 DEF ResumeAppend
  <2>3. CASE OwnerKilled(o) \/ (OwnerContinue(o) /\ ~ResumeAppend(o))
    BY <2>3 DEF OwnerKilled, OwnerContinue, OwnerDecide, PauseDone, CancelSettle, ResumeSettle,
         OwnerConflict, Settle, Observe, OwnerAppend
  <2> QED BY <2>1, <2>2, <2>3
<1>3. ASSUME NEW d \in Drives
      PROVE  DriveSound(proj', drv'[d]) /\ LateSound(proj', drv'[d], lateStarts')
  <2>0. drv[d] \in DriveState /\ DriveSound(proj', drv[d]) /\ LateSound(proj', drv[d], lateStarts')
    BY <1>0, <1>1 DEF Kept
  <2>1. CASE drv'[d] = drv[d]
    BY <2>0, <2>1
  <2>2. CASE drv'[d] = [drv[d] EXCEPT !.stop = TRUE]
    <3>1. /\ drv'[d].pc = drv[d].pc /\ drv'[d].event = drv[d].event /\ drv'[d].plan = drv[d].plan
          /\ drv'[d].tasks = drv[d].tasks /\ drv'[d].todo = drv[d].todo
      BY <2>0, <2>2 DEF DriveState
    <3> QED BY <2>0, <3>1 DEF DriveSound, WorkSound, PcSound, LateSound
  <2>3. CASE /\ e.kind = "resumed" /\ Appended(e) /\ o \in observed
             /\ \E todo : drv'[d] = Fresh(todo)
    <3>1. proj'.status = "Running"
      BY <1>0, <2>3 DEF Appended, fold, fold_resumed, CommandsFresh, FreshDecision,
           resume_preconditions, Projection
    <3>2. /\ drv'[d].pc = "preflight" /\ drv'[d].event = NoEvent /\ drv'[d].plan = {}
          /\ drv'[d].tasks = {}
      BY <2>3 DEF Fresh, Off
    <3>3. EventSound(proj', NoEvent) /\ NoEvent.outcome = "None" /\ NoEvent.kind = "none"
      BY DEF EventSound, NoEvent
    <3> QED BY <1>1, <3>1, <3>2, <3>3 DEF Kept, DriveSound, WorkSound, PcSound, LateSound
  <2> QED BY <1>2, <2>1, <2>2, <2>3
<1> QED BY <1>1, <1>3 DEF Kept

LEMMA OwnerStepOwners ==
    ASSUME TypeOK, SoloInv, NEW o \in Owners, OwnerBegin(o) \/ OwnerContinue(o) \/ OwnerKilled(o)
    PROVE  \A q \in Owners : OwnerSound(own'[q])
<1> DEFINE w == own[o]
<1>0. own \in [Owners -> OwnerState] /\ w \in OwnerState /\ \A q \in Owners : OwnerSound(own[q])
  BY DEF TypeOK, SoloInv
<1>1. ASSUME NEW state, OwnerSound(state), own' = [own EXCEPT ![o] = state]
      PROVE  \A q \in Owners : OwnerSound(own'[q])
  BY <1>0, <1>1
<1>2. OwnerSound(Idle) /\ \A pc, todo : pc # "resuming" =>
          OwnerSound([pc |-> pc, todo |-> todo, event |-> NoEvent])
  BY DEF OwnerSound, Idle, NoEvent
<1>3. CASE OwnerBegin(o)
  <2>1. \A held : OwnerSound([pc |-> "pausing", todo |-> held,
                              event |-> StatusEvent("paused", "Paused")])
    BY DEF OwnerSound, StatusEvent
  <2>2. own' = own \/ \E state : OwnerSound(state) /\ own' = [own EXCEPT ![o] = state]
    BY <1>2, <1>3, <2>1 DEF OwnerBegin, PauseCommand, StopCommand, CancelCommand, ResumeCommand,
         ApproveCommand, BeginPause, Issue
  <2> QED BY <1>0, <1>1, <2>2
<1>4. CASE OwnerDecide(o)
  <2> DEFINE outcome == OutcomeOf(w.pc)
             st(n) == [w EXCEPT !.event = OutcomeEvent(n, outcome, next_state(proj, n, outcome)),
                                !.todo = @ \ {n}]
  <2>1. PICK n : own' = [own EXCEPT ![o] = Idle] \/ own' = [own EXCEPT ![o] = st(n)]
    BY <1>4 DEF OwnerDecide, Settle, Observe
  <2>2. w.pc # "resuming"
    BY <1>0, <1>4 DEF OwnerDecide, OwnerSound, NoEvent
  <2>3. outcome \in OwnerOutcomes
    BY DEF OutcomeOf, OwnerOutcomes
  <2> HIDE DEF outcome
  <2>4. st(n).pc = w.pc /\ st(n).event = OutcomeEvent(n, outcome, next_state(proj, n, outcome))
    BY <1>0 DEF OwnerState
  <2>5. OwnerSound(st(n))
    BY <2>2, <2>3, <2>4 DEF OwnerSound, OutcomeEvent
  <2> QED BY <1>1, <1>2, <2>1, <2>5
<1>5. CASE PauseDone(o) \/ OwnerConflict(o) \/ OwnerKilled(o) \/ ResumeAppend(o)
  BY <1>1, <1>2, <1>5 DEF PauseDone, OwnerConflict, OwnerKilled, ResumeAppend, Settle
<1>6. CASE CancelSettle(o) \/ ResumeSettle(o)
  <2>1. OwnerSound([w EXCEPT !.pc = "cancelling", !.event = StatusEvent("completed", "Cancelled")])
    BY <1>0 DEF OwnerSound, OwnerState, StatusEvent
  <2>2. \A todo : OwnerSound([pc |-> "resuming", event |-> StatusEvent("resumed", "Running"),
                              todo |-> todo])
    BY DEF OwnerSound, StatusEvent
  <2> QED BY <1>1, <1>2, <1>6, <2>1, <2>2 DEF CancelSettle, ResumeSettle, Settle, Observe
<1>7. CASE OwnerAppend(o)
  <2>1. /\ OwnerSound([w EXCEPT !.pc = "holding", !.event = NoEvent])
        /\ w.pc # "resuming" => OwnerSound([w EXCEPT !.event = NoEvent])
    BY <1>0 DEF OwnerSound, OwnerState, NoEvent
  <2> QED BY <1>1, <1>2, <1>7, <2>1 DEF OwnerAppend
<1> QED BY <1>3, <1>4, <1>5, <1>6, <1>7 DEF OwnerContinue

LEMMA SoloInit == Init => SoloInv
<1> SUFFICES ASSUME Init PROVE SoloInv
  OBVIOUS
<1>1. /\ \A n \in Nodes : proj.node[n] = "Draft" /\ proj.attempts[n] = 0 /\ proj.last[n] = "None"
      /\ proj.status \in {"None", "Paused"}
  BY InitProjection
<1>2. ProjSound(proj)
  BY <1>1 DEF ProjSound, RetrySound, VerdictSound
<1>3. lateStarts \in {0, 1} /\ lateStarts = 0 /\ own = [o \in Owners |-> Idle]
  BY DEF Init
<1>4. \A d \in Drives : drv[d] = Off \/ drv[d] = Fresh({})
  BY DEF Init
<1>5. DriveSound(proj, Off) /\ LateSound(proj, Off, lateStarts)
  BY <1>3, RestSound
<1>6. DriveSound(proj, Fresh({})) /\ LateSound(proj, Fresh({}), lateStarts)
  BY <1>1, <1>3 DEF DriveSound, EventSound, WorkSound, PcSound, LateSound, Fresh, Off, NoEvent
<1>7. OwnerSound(Idle)
  BY DEF OwnerSound, Idle, NoEvent
<1> QED BY <1>2, <1>3, <1>4, <1>5, <1>6, <1>7 DEF SoloInv

\* The invariant is inductive, and no step moves a settled node.
LEMMA SoloNext ==
    ASSUME OneDrive, CommandInv, SoloInv, [Next]_vars
    PROVE  /\ SoloInv'
           /\ \A n \in Nodes : Settled(proj.node[n]) => proj'.node[n] = proj.node[n]
<1>0. /\ TypeOK /\ proj \in Projection /\ ProjSound(proj) /\ lateStarts \in {0, 1}
      /\ \A d \in Drives : DriveSound(proj, drv[d]) /\ LateSound(proj, drv[d], lateStarts)
      /\ \A o \in Owners : OwnerSound(own[o])
  BY DEF CommandInv, TypeOK, SoloInv
<1>1. CASE \E d \in Drives : DriveStep(d)
  <2>1. PICK d \in Drives : DriveStep(d)
    BY <1>1
  <2>2. \A e \in Drives : e = d
    BY DEF OneDrive
  <2>3. own' = own
    BY <1>0, <2>1, DriveStepEffect
  <2>4. /\ ProjSound(proj') /\ lateStarts' \in {0, 1}
        /\ DriveSound(proj', drv'[d]) /\ LateSound(proj', drv'[d], lateStarts')
        /\ \A n \in Nodes : Settled(proj.node[n]) => proj'.node[n] = proj.node[n]
    BY <2>1, DriveStepSound
  <2> QED BY <1>0, <2>2, <2>3, <2>4 DEF SoloInv
<1>2. CASE \E o \in Owners : OwnerBegin(o) \/ OwnerContinue(o) \/ OwnerKilled(o)
  <2>1. PICK o \in Owners : OwnerBegin(o) \/ OwnerContinue(o) \/ OwnerKilled(o)
    BY <1>2
  <2>2. \A q \in Owners : OwnerSound(own'[q])
    BY <1>0, <2>1, OwnerStepOwners
  <2>3. /\ ProjSound(proj') /\ lateStarts' \in {0, 1}
        /\ \A d \in Drives : DriveSound(proj', drv'[d]) /\ LateSound(proj', drv'[d], lateStarts')
        /\ \A n \in Nodes : Settled(proj.node[n]) => proj'.node[n] = proj.node[n]
    BY <2>1, OwnerStepSound
  <2> QED BY <2>2, <2>3 DEF SoloInv
<1>3. CASE Proposal
  <2>1. /\ proj' \in Projection /\ proj'.node = proj.node /\ proj'.attempts = proj.attempts
        /\ proj'.last = proj.last /\ proj'.identical = proj.identical
        /\ proj'.status = proj.status /\ proj'.clean = proj.clean
    BY <1>0, <1>3 DEF Proposal, Projection
  <2>2. drv' = drv /\ own' = own /\ lateStarts' = lateStarts
    BY <1>3 DEF Proposal
  <2>3. ProjSound(proj') /\ \A s : DriveSound(proj, s) => DriveSound(proj', s)
    BY <1>0, <2>1, StatusSound
  <2>4. \A s : LateSound(proj, s, lateStarts) => LateSound(proj', s, lateStarts')
    BY <2>1, <2>2 DEF LateSound
  <2> QED BY <1>0, <2>1, <2>2, <2>3, <2>4 DEF SoloInv
<1>4. CASE Crash
  <2>1. /\ proj' = proj /\ lateStarts' = lateStarts /\ drv' = [d \in Drives |-> Off]
        /\ own' = [o \in Owners |-> Idle]
    BY <1>4 DEF Crash, NoAppend
  <2>2. OwnerSound(Idle)
    BY DEF OwnerSound, Idle, NoEvent
  <2>3. \A d \in Drives : DriveSound(proj', drv'[d]) /\ LateSound(proj', drv'[d], lateStarts')
    BY <1>0, <2>1, RestSound
  <2> QED BY <1>0, <2>1, <2>2, <2>3 DEF SoloInv
<1>5. CASE UNCHANGED vars
  <2>1. proj' = proj /\ drv' = drv /\ own' = own /\ lateStarts' = lateStarts
    BY <1>5 DEF vars
  <2> QED BY <1>0, <2>1 DEF SoloInv
<1> QED BY <1>1, <1>2, <1>3, <1>4, <1>5 DEF Next

\* With one drive at a time, whatever interleaves with it, the invariant holds.
THEOREM SoloInvariant ==
    ASSUME OneDrive
    PROVE  Spec => []SoloInv
<1>1. CommandInv /\ SoloInv /\ [Next]_vars => SoloInv'
  BY SoloNext
<1> QED BY <1>1, SoloInit, CommandInvariant, PTL DEF Spec

\* An execution reported Completed has only successes, although the quiescence append races the
\* owner's commands and is no compare-and-set: nothing moves a satisfied node any more.
THEOREM CompletionSoundAlways ==
    ASSUME OneDrive
    PROVE  Spec => []CompletionSound
<1>1. SoloInv => CompletionSound
  BY DEF SoloInv, ProjSound, VerdictSound, AllSatisfied, CompletionSound
<1> QED BY <1>1, SoloInvariant, PTL

\* An execution its drive settled as Failed has no unfinished node.
THEOREM FailureSettledAlways ==
    ASSUME OneDrive
    PROVE  Spec => []FailureSettled
<1>1. SoloInv => FailureSettled
  BY DEF SoloInv, ProjSound, VerdictSound, AllTerminal, FailureSettled
<1> QED BY <1>1, SoloInvariant, PTL

\* A retry that is waiting has attempts left and is not repeating itself, however the owner pauses,
\* cancels and approves nodes in between.
THEOREM RetryBoundedAlways ==
    ASSUME OneDrive
    PROVE  Spec => []RetryBounded
<1>1. SoloInv => RetryBounded
  BY DEF SoloInv, ProjSound, RetrySound, RetryBounded
<1> QED BY <1>1, SoloInvariant, PTL

\* What was attempted or is being executed has every gating predecessor settled, in every state and
\* not only when it was dispatched.
THEOREM DependencyOrderAlways ==
    ASSUME OneDrive
    PROVE  Spec => []DependencyOrder
<1>1. SoloInv => DependencyOrder
  BY DEF SoloInv, ProjSound, DriveSound, WorkSound, DependencyOrder
<1> QED BY <1>1, SoloInvariant, PTL

\* After ExecutionPaused is durable at most one node still starts.
THEOREM PauseResidueAlways ==
    ASSUME OneDrive, Drives # {}
    PROVE  Spec => []PauseResidue
<1>1. Cardinality(Drives) = 1
  <2>1. PICK d : Drives = {d}
    BY DEF OneDrive
  <2> QED BY <2>1, FS_Singleton
<1>2. SoloInv => PauseResidue
  BY <1>1 DEF SoloInv, PauseResidue
<1> QED BY <1>2, SoloInvariant, PTL

\* No append replaces a recorded success or failure, although the drive decides on an older read
\* than the one its event is appended after.
THEOREM OutcomesFinalAlways ==
    ASSUME OneDrive
    PROVE  Spec => OutcomesFinal
<1> DEFINE A == \A n \in Nodes : proj.node[n] \in {"Succeeded", "Failed"}
                                   => proj'.node[n] = proj.node[n]
<1>1. CommandInv /\ SoloInv /\ [Next]_vars => [A]_vars
  BY SoloNext DEF Settled
<1> QED BY <1>1, SoloInvariant, CommandInvariant, PTL DEF Spec, OutcomesFinal
=============================================================================
