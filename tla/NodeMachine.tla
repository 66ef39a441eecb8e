---------------------------- MODULE NodeMachine ----------------------------
(* The pure decisions of core/execution and the fold of core/events that    *)
(* every writer of an execution stream shares: which outcome a node accepts, *)
(* which nodes may be dispatched, which of them one pass dispatches, when a  *)
(* paused execution may resume, and what one appended event does to the      *)
(* projection.  Nothing here has state; ExecutionDrive gives it processes.   *)
EXTENDS Naturals, FiniteSets

CONSTANTS
    Nodes,          \* node ids; their numeric order is the name order of the BTreeMaps
    Edges,          \* GraphEdge: [from, to, type, disabled]
    Gated,          \* nodes whose completion.customs declares proof kinds
    MaxParallel,    \* parallel_limit(budgets)
    MaxAttempts,    \* MAX_NODE_ATTEMPTS (8 in bounds.rs)
    MaxIdentical,   \* MAX_IDENTICAL_OUTCOMES (3 in bounds.rs)
    MaxReadySet     \* MAX_READY_SET (1024 in bounds.rs)

NodeStates == {"Ghost", "Draft", "Linting", "Ready", "Queued", "Running", "Succeeded",
               "Failed", "Blocked", "WaitingInput", "WaitingCapacity", "Paused",
               "Waived", "Skipped", "Cancelled", "Invalidated"}

NodeOutcomes == {"Started", "Succeeded", "RetryableFailure", "TerminalFailure",
                 "NeedsInput", "NeedsCapacity", "Approved", "Waived", "Skipped",
                 "Cancelled", "Invalidated", "Paused", "Interrupted"}

\* `None` is simulation_status before any status event folds; nothing modelled here writes Blocked.
SimulationStatus == {"None", "Running", "Paused", "Completed", "Failed", "Cancelled"}

EdgeTypes == {"Control", "Failure"}   \* the other types gate as Control does

ASSUME NodesAssumption == Nodes \subseteq Nat \ {0} /\ IsFiniteSet(Nodes)
ASSUME EdgesAssumption ==
    Edges \subseteq [from: Nodes, to: Nodes, type: EdgeTypes, disabled: BOOLEAN]
ASSUME GatedAssumption == Gated \subseteq Nodes
ASSUME BoundsAssumption ==
    /\ MaxParallel \in Nat
    /\ MaxAttempts \in Nat
    /\ MaxIdentical \in Nat
    /\ MaxReadySet \in Nat

---------------------------------------------------------------------------
(* transition.rs *)

is_terminal(state) == state \in {"Succeeded", "Failed", "Waived", "Skipped", "Cancelled"}

IllegalTransition == "IllegalTransition"

\* One outcome applied to one node: the next state, or IllegalTransition.
apply_transition(current, outcome, attempts, identical) ==
    IF is_terminal(current)
    THEN IF current = "Succeeded" /\ outcome = "Invalidated" THEN "Invalidated"
                                                             ELSE IllegalTransition
    ELSE IF outcome = "Cancelled" THEN "Cancelled"
    ELSE IF outcome = "RetryableFailure" /\ current = "Running"
    THEN IF attempts >= MaxAttempts \/ identical >= MaxIdentical THEN "Blocked" ELSE "Queued"
    ELSE CASE outcome = "Approved"
                /\ current \in {"Ghost", "Draft", "Linting", "Blocked", "Invalidated"} -> "Ready"
           [] outcome = "Started" /\ current = "Queued"                       -> "Running"
           [] outcome = "Started"
                /\ current \in {"Ready", "WaitingInput", "WaitingCapacity", "Paused"} -> "Queued"
           [] outcome = "Paused" /\ current \in {"Ready", "Queued"}           -> "Paused"
           [] outcome = "Succeeded" /\ current = "Running"                    -> "Succeeded"
           [] outcome = "TerminalFailure" /\ current = "Running"              -> "Failed"
           [] outcome = "Interrupted" /\ current = "Running"                  -> "Blocked"
           [] outcome = "NeedsInput" /\ current \in {"Running", "WaitingInput"}
                                                                        -> "WaitingInput"
           [] outcome = "NeedsCapacity" /\ current \in {"Running", "WaitingCapacity"}
                                                                        -> "WaitingCapacity"
           [] outcome = "Waived" /\ current # "Ghost"                         -> "Waived"
           [] outcome = "Skipped" /\ current # "Ghost"                        -> "Skipped"
           [] OTHER                                                           -> IllegalTransition

---------------------------------------------------------------------------
(* ready.rs and dispatch.rs; `states` maps every node, an untouched one to Draft *)

satisfies_dependents(state) == state \in {"Succeeded", "Waived", "Skipped"}

edge_gates(edge, predecessor) ==
    /\ ~edge.disabled
    /\ IF edge.type = "Failure" THEN predecessor # "Failed"
                                ELSE ~satisfies_dependents(predecessor)

edges_satisfied(states, node) ==
    \A edge \in Edges : edge.to = node => ~edge_gates(edge, states[edge.from])

ready_set(states) == {n \in Nodes : states[n] = "Ready" /\ edges_satisfied(states, n)}

ReadySetTooLarge(states) == Cardinality(ready_set(states)) > MaxReadySet

\* Mutant of dispatch_candidates: bare state, the edges are not asked (#80).
dispatch_candidates_Bare(states) == {n \in Nodes : states[n] \in {"Ready", "Queued"}}

dispatch_candidates(states) ==
    ready_set(states) \cup {n \in Nodes : states[n] = "Queued" /\ edges_satisfied(states, n)}

\* Attempt-fair order: fewer attempts first, then the name.  A planned node keeps its sort key.
Before(p, q) == p[1] < q[1] \/ (p[1] = q[1] /\ p[2] <= q[2])

\* Mutant of dispatch_plan: the budget is per pass, work in flight is not counted.
dispatch_plan_PerPass(candidates, attempts, in_flight) ==
    LET keyed == {<<attempts[n], n>> : n \in candidates}
    IN  {p \in keyed : Cardinality({q \in keyed : Before(q, p)}) <= MaxParallel}

\* The first `MaxParallel - in_flight` (saturating) candidates in that order.
dispatch_plan(candidates, attempts, in_flight) ==
    LET keyed == {<<attempts[n], n>> : n \in candidates}
    IN  {p \in keyed : Cardinality({q \in keyed : Before(q, p)}) + in_flight <= MaxParallel}

ZeroParallelism == MaxParallel = 0

---------------------------------------------------------------------------
(* The execution projection and its fold, projection.rs *)

\* `last` is "None" until a work outcome is recorded.  A draft is one governed graph proposal.  `clean`
\* is what the preflight finds of the graph that ExecutionStarted names: FALSE when the graph carries a
\* declaration it refuses.
Projection == [node: [Nodes -> NodeStates], attempts: [Nodes -> Nat],
               last: [Nodes -> NodeOutcomes \cup {"None"}], identical: [Nodes -> Nat],
               status: SimulationStatus, corrupt: BOOLEAN,
               draft: {"none", "proposed", "resolved"}, clean: BOOLEAN]

\* After ExecutionStarted: execution_id is set, no node has a state, status is None.
Started(clean) ==
           [node |-> [n \in Nodes |-> "Draft"], attempts |-> [n \in Nodes |-> 0],
            last |-> [n \in Nodes |-> "None"], identical |-> [n \in Nodes |-> 0],
            status |-> "None", corrupt |-> FALSE, draft |-> "none", clean |-> clean]

terminal_status(status) == status \in {"Completed", "Failed", "Cancelled"}

pending_proposal(p) == p.draft = "proposed"

identical_outcomes_for(p, n, outcome) == IF p.last[n] = outcome THEN p.identical[n] ELSE 0

\* Mutant of next_state: the attempt being reported is not counted, as transition.rs:21 has it.
next_state_OffByOne(p, n, outcome) ==
    apply_transition(p.node[n], outcome, IF p.attempts[n] = 0 THEN 0 ELSE p.attempts[n] - 1,
                     identical_outcomes_for(p, n, outcome))
\* Mutant of next_state: the request is built without the run of identical outcomes.
next_state_Uncounted(p, n, outcome) == apply_transition(p.node[n], outcome, p.attempts[n], 0)

\* What recording `outcome` for `n` would make of it, decided on projection p.  Every caller passes
\* node_attempts, which counts the attempt being reported; the comment on TransitionRequest::attempts
\* (transition.rs:21) says that it does not.
next_state(p, n, outcome) ==
    apply_transition(p.node[n], outcome, p.attempts[n], identical_outcomes_for(p, n, outcome))

\* An attempt is counted when the node enters Running.
count_attempt(p, n, outcome, next) ==
    [p.attempts EXCEPT ![n] = IF outcome = "Started" /\ next = "Running" THEN @ + 1 ELSE @]

\* Started is a scheduler's hop: it neither repeats nor breaks a run of identical outcomes.
last_outcome(p, n, outcome) == [p.last EXCEPT ![n] = IF outcome = "Started" THEN @ ELSE outcome]

identical_outcomes(p, n, outcome) ==
    [p.identical EXCEPT ![n] = IF outcome = "Started" THEN @
                               ELSE identical_outcomes_for(p, n, outcome) + 1]

\* NodeOutcomeRecorded: the fold trusts the recorded next_state.
fold_outcome(p, n, outcome, next) ==
    [p EXCEPT !.node      = [p.node EXCEPT ![n] = next],
              !.attempts  = count_attempt(p, n, outcome, next),
              !.last      = last_outcome(p, n, outcome),
              !.identical = identical_outcomes(p, n, outcome)]

\* ExecutionPaused is accepted once, from None or Running; anything else is ReplayError::Corrupt.
fold_paused(p) ==
    IF p.status \in {"None", "Running"} THEN [p EXCEPT !.status = "Paused"]
                                        ELSE [p EXCEPT !.corrupt = TRUE]

fold_resumed(p) ==
    IF p.status = "Paused" THEN [p EXCEPT !.status = "Running"]
                           ELSE [p EXCEPT !.corrupt = TRUE]

\* ExecutionCompleted checks the execution id only, never the status it replaces.
fold_completed(p, status) == [p EXCEPT !.status = status]

\* An event waiting to be appended.  A note changes no field modelled here
\* (delegation_chosen, subagent_reused, drive_failed).
NoNode == 0
NoEvent == [kind |-> "none", node |-> NoNode, outcome |-> "None", next |-> "None"]
Event ==
    {NoEvent}
    \cup [kind: {"outcome"}, node: Nodes, outcome: NodeOutcomes, next: NodeStates]
    \cup [kind: {"paused", "resumed", "completed", "note"}, node: {NoNode},
          outcome: {"None"}, next: SimulationStatus]
OutcomeEvent(n, outcome, next) ==
    [kind |-> "outcome", node |-> n, outcome |-> outcome, next |-> next]
StatusEvent(kind, status) ==
    [kind |-> kind, node |-> NoNode, outcome |-> "None", next |-> status]

fold(p, e) ==
    CASE e.kind = "outcome"   -> fold_outcome(p, e.node, e.outcome, e.next)
      [] e.kind = "paused"    -> fold_paused(p)
      [] e.kind = "resumed"   -> fold_resumed(p)
      [] e.kind = "completed" -> fold_completed(p, e.next)
      [] OTHER                -> p

---------------------------------------------------------------------------
(* recovery.rs *)

recovery_plan(p) == {n \in Nodes : p.node[n] = "Running"}

untriaged(p) == {n \in Nodes : p.node[n] = "Blocked" /\ p.last[n] = "Interrupted"}

\* Mutant of resume_preconditions: a recovered interruption nobody has triaged does not hold resume.
resume_preconditions_Untriaged(p) == p.status = "Paused" /\ recovery_plan(p) = {}

\* The graph version is fixed in this model, so VersionMismatch cannot arise.
resume_preconditions(p) ==
    /\ p.status = "Paused"
    /\ recovery_plan(p) = {}
    /\ untriaged(p) = {}
============================================================================
