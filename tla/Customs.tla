------------------------------ MODULE Customs ------------------------------
(***************************************************************************)
(* Customs: the completion of a gated node.  Its drive parks it, a claim   *)
(* answers the park with evidence, a clearance releases it, and a sweep    *)
(* raises one exception for a stage that outlived its deadline             *)
(* (core/events/src/customs.rs, sweep.rs and the customs arms of           *)
(* projection.rs), while the owner may cancel the execution.               *)
(*                                                                         *)
(* A step is one touch of the store.  A verb appends at the sequence its   *)
(* decision read (next_after, append_event); a drive and a sweep take      *)
(* their sequence in a later touch than the one they decided on.  The      *)
(* sweep_performed and overdue_exception events of one sweep are one       *)
(* atomic batch, and one element of the stream here.                       *)
(***************************************************************************)
EXTENDS Naturals, Sequences, FiniteSets

CONSTANTS
    Nodes,            \* the nodes of the execution, all Running at the start
    Declared,         \* those whose declaration has a customs block
    Bundles,          \* evidence bundles; a bundle stands for its digest
    Sufficient,       \* those that present every declared proof kind
    WaitWithin,       \* the budget of the parked stage
    ClearanceWithin,  \* the budget of the claimed stage
    Drives,           \* drives that executed every node once
    Callers,          \* processes that claim, clear and cancel
    Ticker,           \* serve's sweep tick, which always asks for now
    Sweepers,         \* everyone who sweeps, one sweep at a time; an operator may ask for the past
    MaxEvents,        \* bound: no verb or drive decides on a longer stream
    MaxTime,          \* bound: the last instant
    MaxQuiet          \* bound: refused claims and sweeps that found nothing

ASSUME NodesAssumption == Declared \subseteq Nodes /\ Sufficient \subseteq Bundles
ASSUME BudgetAssumption == WaitWithin \in Nat /\ ClearanceWithin \in Nat
ASSUME BoundAssumption == MaxEvents \in Nat /\ MaxTime \in Nat /\ MaxQuiet \in Nat

VARIABLES
    stream,  \* the execution's events after ExecutionStarted
    proj,    \* their fold
    now,     \* the store's clock
    drv,     \* [Drives -> Nodes -> the step of write_outcome]
    call,    \* [Callers -> the verb in progress]
    swp,     \* [Sweepers -> the sweep in progress]
    quiet    \* how many decisions there were to append an event without effect

vars == <<stream, proj, now, drv, call, swp, quiet>>

-----------------------------------------------------------------------------
(* Events and their fold *)

NodeState == {"Running", "WaitingInput", "Succeeded", "Cancelled"}
Unnamed == 0

\* A deadline is a set of at most one instant.
Never == {}
Lapsed(deadline, asOf) == \E t \in deadline : t <= asOf

is_terminal(s) == s \in {"Succeeded", "Cancelled"}

OutcomeRecorded(n, s) == [kind |-> "outcome", node |-> n, next |-> s]
CompletionClaimed(n, w, b) == [kind |-> "claimed", node |-> n, wait |-> w, bundle |-> b]
CompletionRefused == [kind |-> "refused"]
CompletionCleared(c, b) == [kind |-> "cleared", claim |-> c, digest |-> b]
SweepPerformed(s, S) == [kind |-> "swept", caller |-> s, overdue |-> S]
ExecutionCompleted == [kind |-> "completed"]

\* The head of the stream is its length: sequences count from 1.
head == Len(stream)

VerbEvents(to) ==
    [kind : {"outcome"}, node : Nodes, next : {"WaitingInput", "Cancelled"}]
    \cup [kind : {"claimed"}, node : Nodes, wait : 1 .. to, bundle : Bundles]
    \cup [kind : {"cleared"}, claim : 1 .. to, digest : Bundles]
    \cup {CompletionRefused, ExecutionCompleted}
SweepEvents(to) == [kind : {"swept"}, caller : Sweepers, overdue : SUBSET (1 .. to)]

\* The instant plus the declared budget; a node without a customs block has no deadline.
stage_deadline(n, at, budget) == IF n \in Declared THEN {at + budget} ELSE Never

NoWait == [at |-> 0, deadline |-> Never]

\* A park mints a wait named by its own sequence and supersedes the one before; any other
\* outcome closes the wait.
apply_outcome(p, seq, at, e) ==
    [p EXCEPT
        !.states[e.node] = e.next,
        !.waits[e.node] = IF e.next = "WaitingInput"
                          THEN [at |-> seq, deadline |-> stage_deadline(e.node, at, WaitWithin)]
                          ELSE NoWait]

\* A claim opens only on the node's open wait; otherwise it is spent testimony.  No node
\* changes its state.
apply_claimed(p, seq, at, e) ==
    IF p.waits[e.node].at # e.wait THEN p
    ELSE [p EXCEPT !.claims = @ \cup
            {[seq |-> seq, node |-> e.node, wait |-> e.wait, bundle |-> e.bundle,
              deadline |-> stage_deadline(e.node, at, ClearanceWithin)]}]

\* The clearance must present the digest of the claim's own evidence.
verdict(c, e) == c.bundle = e.digest

\* Mutant of release: the wait survives the release.
release_WaitKept(p, n) == [p EXCEPT !.states[n] = "Succeeded"]
\* The transition a clearance performs.
release(p, n) == [p EXCEPT !.states[n] = "Succeeded", !.waits[n] = NoWait]

\* A clearance spends its claim whichever way it goes; with no open claim under it the
\* stream no longer replays.
apply_cleared(p, e) ==
    LET under == {c \in p.claims : c.seq = e.claim}
        spent == [p EXCEPT !.claims = @ \ under]
    IN  IF under = {} THEN [p EXCEPT !.corrupt = TRUE]
        ELSE LET c == CHOOSE x \in under : TRUE
             IN  IF verdict(c, e) THEN release(spent, c.node) ELSE spent

apply_projection_event(p, seq, at, e) ==
    CASE e.kind = "outcome"   -> apply_outcome(p, seq, at, e)
      [] e.kind = "claimed"   -> apply_claimed(p, seq, at, e)
      [] e.kind = "cleared"   -> apply_cleared(p, e)
      [] e.kind = "swept"     -> [p EXCEPT !.marked = @ \cup e.overdue]
      [] e.kind = "completed" -> [p EXCEPT !.completed = TRUE]
      [] OTHER                -> p

\* One atomic append of one event.
Append1(e) ==
    /\ stream' = Append(stream, e)
    /\ proj' = apply_projection_event(proj, head + 1, now, e)

\* The bound on events without effect.
CountQuiet(ineffective) ==
    /\ ineffective => quiet < MaxQuiet
    /\ quiet' = IF ineffective THEN quiet + 1 ELSE quiet

\* The replay fails on a corrupt stream, and with it every command.
Readable == ~proj.corrupt
-----------------------------------------------------------------------------
(* The drive *)

\* write_outcome reads the node's state: NeedsInput is legal from Running and WaitingInput
\* and refused elsewhere, which ends the drive.
DriveDecide(d, n) ==
    /\ drv[d][n] = "executed"
    /\ Readable /\ head < MaxEvents
    /\ drv' = [drv EXCEPT ![d][n] =
                 IF is_terminal(proj.states[n]) THEN "done" ELSE "decided"]
    /\ UNCHANGED <<stream, proj, now, call, swp, quiet>>

\* ... and appends at whatever the head is by then.
DrivePark(d, n) ==
    /\ drv[d][n] = "decided"
    /\ Append1(OutcomeRecorded(n, "WaitingInput"))
    /\ drv' = [drv EXCEPT ![d][n] = "done"]
    /\ UNCHANGED <<now, call, swp, quiet>>

\* A conflict at the append, or the end of the process.
DriveLost(d, n) ==
    /\ drv[d][n] = "decided"
    /\ drv' = [drv EXCEPT ![d][n] = "done"]
    /\ UNCHANGED <<stream, proj, now, call, swp, quiet>>
-----------------------------------------------------------------------------
(* The verbs of a caller *)

Idle == [pc |-> "idle", todo |-> {}, at |-> 0, pending |-> <<>>]

\* What a verb keeps between its decision and its append: the event and its sequence.
Decided(pc, todo, e) == [pc |-> pc, todo |-> todo, at |-> head + 1, pending |-> <<e>>]

\* The decision table of claim.  Its refusals (not_waiting, stale_rendezvous, unknown_wait,
\* duplicate_completion, evidence_budget_unmet) are journalled too, and differ in their code.
decide_claim(n, named, b) ==
    LET open == proj.waits[n].at
    IN  IF /\ proj.states[n] = "WaitingInput"
           /\ named \in {Unnamed, open}
           /\ ~\E c \in proj.claims : c.node = n
           /\ n \in Declared => b \in Sufficient
        THEN CompletionClaimed(n, open, b)
        ELSE CompletionRefused

Claim(p) ==
    /\ call[p].pc = "idle"
    /\ Readable /\ head < MaxEvents
    /\ \E n \in Nodes, named \in 0 .. head, b \in Bundles :
          LET e == decide_claim(n, named, b)
          IN  /\ CountQuiet(e = CompletionRefused)
              /\ call' = [call EXCEPT ![p] = Decided("claim", {}, e)]
    /\ UNCHANGED <<stream, proj, now, drv, swp>>

\* Anything but an open claim is refused without an append, so nothing happens then.
Clear(p) ==
    /\ call[p].pc = "idle"
    /\ Readable /\ head < MaxEvents
    /\ \E c \in proj.claims, b \in Bundles :
          call' = [call EXCEPT ![p] = Decided("clear", {}, CompletionCleared(c.seq, b))]
    /\ UNCHANGED <<stream, proj, now, drv, swp, quiet>>

Cancel(p) ==
    /\ call[p].pc = "idle"
    /\ Readable /\ head < MaxEvents /\ ~proj.completed
    /\ call' = [call EXCEPT ![p] =
                  [Idle EXCEPT !.pc = "cancelling",
                               !.todo = {n \in Nodes : ~is_terminal(proj.states[n])}]]
    /\ UNCHANGED <<stream, proj, now, drv, swp, quiet>>

\* record_outcome reads again for each node, in any order the names give; a node that became
\* terminal meanwhile ends the command.
CancelNode(p) ==
    /\ call[p].pc = "cancelling" /\ Readable
    /\ \E n \in call[p].todo :
          call' = [call EXCEPT ![p] =
                     IF is_terminal(proj.states[n]) THEN Idle
                     ELSE Decided("cancel", @.todo \ {n}, OutcomeRecorded(n, "Cancelled"))]
    /\ UNCHANGED <<stream, proj, now, drv, swp, quiet>>

\* After the nodes the status is read once more.
CancelSettle(p) ==
    /\ call[p].pc = "cancelling" /\ call[p].todo = {} /\ Readable
    /\ call' = [call EXCEPT ![p] = IF proj.completed THEN Idle
                                   ELSE Decided("complete", {}, ExecutionCompleted)]
    /\ UNCHANGED <<stream, proj, now, drv, swp, quiet>>

\* Where a verb stands once its append is durable.
AfterAppend(c) == IF c.pc = "cancel" THEN [Idle EXCEPT !.pc = "cancelling", !.todo = c.todo]
                  ELSE Idle

\* Mutant of CallAppend: the sequence is read from the store at the append.
CallAppend_AtHead(p) ==
    /\ call[p].pending # <<>>
    /\ Append1(call[p].pending[1])
    /\ call' = [call EXCEPT ![p] = AfterAppend(@)]
    /\ UNCHANGED <<now, drv, swp, quiet>>
\* The append carries the sequence its decision read ...
CallAppend(p) ==
    /\ call[p].pending # <<>> /\ call[p].at = head + 1
    /\ Append1(call[p].pending[1])
    /\ call' = [call EXCEPT ![p] = AfterAppend(@)]
    /\ UNCHANGED <<now, drv, swp, quiet>>

\* ... and is refused with SequenceConflict when the stream has moved, which ends the verb;
\* so does the death of its process before any touch.
CallLost(p) ==
    /\ call[p] # Idle
    /\ call' = [call EXCEPT ![p] = Idle]
    /\ UNCHANGED <<stream, proj, now, drv, swp, quiet>>
-----------------------------------------------------------------------------
(* The sweep *)

Unswept == [pc |-> "idle", at |-> 0, overdue |-> {}]
Sweeps(to) == [pc : {"idle", "read", "placed"}, at : 0 .. to, overdue : SUBSET (1 .. to)]

\* Mutant of overdue_at: a claimed stage is looked up under the wait it answers.
overdue_at_WaitMark(asOf) ==
    LET claimed == {c.wait : c \in proj.claims}
    IN  ({proj.waits[n].at : n \in {m \in Nodes : Lapsed(proj.waits[m].deadline, asOf)}}
         \ (claimed \cup proj.marked))
        \cup {c.seq : c \in {x \in proj.claims : /\ Lapsed(x.deadline, asOf)
                                              /\ {x.seq, x.wait} \cap proj.marked = {}}}
\* The episodes overdue at an instant: open waits nobody claimed and open claims, each at its
\* own deadline, without those that raised their exception already.
overdue_at(asOf) ==
    LET claimed == {c.wait : c \in proj.claims}
        waits == {proj.waits[n].at : n \in {m \in Nodes : Lapsed(proj.waits[m].deadline, asOf)}}
        claims == {c.seq : c \in {x \in proj.claims : Lapsed(x.deadline, asOf)}}
    IN  ((waits \ claimed) \cup claims) \ proj.marked

\* Only the past is askable.
SweepRead(s) ==
    /\ swp[s].pc = "idle" /\ Readable
    /\ \E asOf \in 0 .. now :
          /\ s = Ticker => asOf = now
          /\ CountQuiet(overdue_at(asOf) = {})
          /\ swp' = [swp EXCEPT ![s] = [pc |-> "read", at |-> 0, overdue |-> overdue_at(asOf)]]
    /\ UNCHANGED <<stream, proj, now, drv, call>>

\* next_sequence is a touch of its own.
SweepPlace(s) ==
    /\ swp[s].pc = "read"
    /\ swp' = [swp EXCEPT ![s].pc = "placed", ![s].at = head + 1]
    /\ UNCHANGED <<stream, proj, now, drv, call, quiet>>

\* The batch lands whole, or conflicts and is dropped until the next sweep.
SweepAppend(s) ==
    /\ swp[s].pc = "placed"
    /\ IF swp[s].at = head + 1 THEN Append1(SweepPerformed(s, swp[s].overdue))
       ELSE UNCHANGED <<stream, proj>>
    /\ swp' = [swp EXCEPT ![s] = Unswept]
    /\ UNCHANGED <<now, drv, call, quiet>>

\* The store's clock moves.
ClockTick ==
    /\ now < MaxTime
    /\ now' = now + 1
    /\ UNCHANGED <<stream, proj, drv, call, swp, quiet>>
-----------------------------------------------------------------------------
Init ==
    /\ stream = <<>>
    /\ proj = [states |-> [n \in Nodes |-> "Running"], waits |-> [n \in Nodes |-> NoWait],
               claims |-> {}, marked |-> {}, completed |-> FALSE, corrupt |-> FALSE]
    /\ now = 0
    /\ drv = [d \in Drives |-> [n \in Nodes |-> "executed"]]
    /\ call = [p \in Callers |-> Idle]
    /\ swp = [s \in Sweepers |-> Unswept]
    /\ quiet = 0

CallerStep(p) ==
    \/ Claim(p) \/ Clear(p) \/ Cancel(p) \/ CancelNode(p) \/ CancelSettle(p)
    \/ CallAppend(p) \/ CallLost(p)

SweeperStep(s) == SweepRead(s) \/ SweepPlace(s) \/ SweepAppend(s)

Next ==
    \/ \E d \in Drives, n \in Nodes : DriveDecide(d, n) \/ DrivePark(d, n) \/ DriveLost(d, n)
    \/ \E p \in Callers : CallerStep(p)
    \/ \E s \in Sweepers : SweeperStep(s)
    \/ ClockTick

Spec == Init /\ [][Next]_vars

\* Serve's tick sleeps, sweeps and sleeps again for as long as the server runs.
FairSpec == Spec /\ WF_vars(SweeperStep(Ticker))
-----------------------------------------------------------------------------
(* Properties *)

\* The state is well formed; a node waits exactly while its wait is open, a wait is named by
\* a park of its node, and every open claim by its own event (projection.rs, the arms of
\* NodeOutcomeRecorded and CompletionCleared, which write states and waits side by side).
TypeOK ==
    /\ \A i \in 1 .. head : stream[i] \in VerbEvents(i - 1) \cup SweepEvents(i - 1)
    /\ proj.states \in [Nodes -> NodeState]
    /\ proj.marked \subseteq 1 .. head
    /\ \A n \in Nodes :
          /\ \/ proj.waits[n] = NoWait
             \/ stream[proj.waits[n].at] = OutcomeRecorded(n, "WaitingInput")
          /\ proj.states[n] = "WaitingInput" <=> proj.waits[n].at # 0
    /\ \A c \in proj.claims : stream[c.seq] = CompletionClaimed(c.node, c.wait, c.bundle)
    /\ now \in 0 .. MaxTime /\ quiet \in 0 .. MaxQuiet
    /\ \A d \in Drives, n \in Nodes : drv[d][n] \in {"executed", "decided", "done"}
    /\ \A p \in Callers :
          /\ call[p].pc \in {"idle", "claim", "clear", "cancelling", "cancel", "complete"}
          /\ call[p].at \in 0 .. head + 1 /\ call[p].todo \subseteq Nodes
          /\ call[p].pending = <<>> \/ call[p].pending[1] \in VerbEvents(call[p].at - 1)
          /\ call[p].pending = <<>> <=> call[p].pc \in {"idle", "cancelling"}
    /\ swp \in [Sweepers -> Sweeps(head + 1)]

\* A gated node succeeds only on testimony for its own park, with every declared proof kind,
\* under a clearance that presents the digest of that testimony, in this order (#161); nothing
\* else was recorded of the node between the park and the testimony, a cancel least of all.
\* Whatever callers decide at the same time, no two claims of one node are open together and no
\* clearance lacks its claim, which would make the stream unreadable (customs.rs next_after).
ClearanceSound ==
    /\ Readable
    /\ \A c, d \in proj.claims : c.node = d.node => c = d
    /\ \A n \in Nodes : proj.states[n] = "Succeeded" =>
          \E w, c, k \in 1 .. head :
             /\ w < c /\ c < k
             /\ \A i \in w + 1 .. c - 1 :
                   ~(stream[i].kind = "outcome" /\ stream[i].node = n)
             /\ stream[w] = OutcomeRecorded(n, "WaitingInput")
             /\ stream[k].kind = "cleared" /\ stream[k].claim = c
             /\ stream[c] = CompletionClaimed(n, w, stream[k].digest)
             /\ n \in Declared => stream[k].digest \in Sufficient

\* Two batches of sweeps raise an exception for the same episode.
RaisedAgain(i, j) ==
    /\ i # j /\ stream[i].kind = "swept" /\ stream[j].kind = "swept"
    /\ stream[i].overdue \cap stream[j].overdue # {}

\* What projection.rs says of exception_marked: "ONE exception per episode, ever".
OneExceptionPerEpisode == \A i, j \in 1 .. head : ~RaisedAgain(i, j)

\* What exception_marked does keep, whoever sweeps at the same time: nobody raises an episode that a
\* sweep of its own has raised, at whatever instant it asks again and whatever a rival's batch put
\* between its read and its append.  So an episode has at most one exception per sweeper.
RaisedOncePerSweeper ==
    \A i, j \in 1 .. head : RaisedAgain(i, j) => stream[i].caller # stream[j].caller

\* The stage entered at e is open and past its deadline.
StageLapsed(e) ==
    \/ \E n \in Nodes : /\ proj.waits[n].at = e /\ Lapsed(proj.waits[n].deadline, now)
                        /\ ~\E c \in proj.claims : c.wait = e
    \/ \E c \in proj.claims : c.seq = e /\ Lapsed(c.deadline, now)

\* A stage that outlives its deadline is raised, or ends, although a sweep whose sequence was
\* taken by somebody else is dropped without a word and although the wait before the claim
\* may have raised its own exception (serve/mod.rs sweep_tick; projection.rs overdue_at).
LapseRaised == []<>(\A e \in 1 .. head : StageLapsed(e) => e \in proj.marked)
=============================================================================
