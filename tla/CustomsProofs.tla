--------------------------- MODULE CustomsProofs ---------------------------
(* What customs guarantees for every set of nodes, drives, callers and sweepers and for every   *)
(* bound, proved with TLAPS.                                                                    *)
EXTENDS Customs, TLAPS

-----------------------------------------------------------------------------
(* The shape of the state *)

VerbEvent ==
    [kind : {"outcome"}, node : Nodes, next : {"WaitingInput", "Cancelled"}]
    \cup [kind : {"claimed"}, node : Nodes, wait : Nat, bundle : Bundles]
    \cup [kind : {"cleared"}, claim : Nat, digest : Bundles]
    \cup {CompletionRefused, ExecutionCompleted}
Event == VerbEvent \cup [kind : {"swept"}, caller : Sweepers, overdue : SUBSET Nat]

Wait == [at : Nat, deadline : SUBSET Nat]
OpenClaim == [seq : Nat, node : Nodes, wait : Nat, bundle : Bundles, deadline : SUBSET Nat]

Projection ==
    [states : [Nodes -> NodeState], waits : [Nodes -> Wait], claims : SUBSET OpenClaim,
     marked : SUBSET Nat, completed : BOOLEAN, corrupt : BOOLEAN]

Call ==
    [pc : {"idle", "claim", "clear", "cancelling", "cancel", "complete"}, todo : SUBSET Nodes,
     at : Nat, pending : {<<>>} \cup {<<e>> : e \in VerbEvent}]

-----------------------------------------------------------------------------
(* The inductive invariant *)

\* The event at i is no outcome of node n.
Silent(n, i) == ~(stream[i].kind = "outcome" /\ stream[i].node = n)

\* The open wait of a node is its last outcome.
WaitNamed(n) ==
    /\ proj.states[n] = "WaitingInput" <=> proj.waits[n].at # 0
    /\ \/ proj.waits[n] = NoWait
       \/ /\ proj.waits[n].at \in 1 .. head
          /\ stream[proj.waits[n].at] = OutcomeRecorded(n, "WaitingInput")
          /\ \A i \in proj.waits[n].at + 1 .. head : Silent(n, i)

\* The claim at c answers the park at w of its node with the bundle b, the last outcome before it.
Testimony(n, w, c, b) ==
    /\ w \in 1 .. head /\ c \in 1 .. head /\ w < c
    /\ stream[w] = OutcomeRecorded(n, "WaitingInput")
    /\ stream[c] = CompletionClaimed(n, w, b)
    /\ \A i \in w + 1 .. c - 1 : Silent(n, i)
    /\ n \in Declared => b \in Sufficient

ClaimsGrounded ==
    /\ \A c \in proj.claims : Testimony(c.node, c.wait, c.seq, c.bundle)
    /\ \A c, d \in proj.claims : c.node = d.node => c = d

\* Every success has its testimony and, later, the clearance that presents the same evidence.
Released(n) ==
    proj.states[n] = "Succeeded" =>
        \E w, c, k \in 1 .. head :
            /\ c < k
            /\ stream[k].kind = "cleared" /\ stream[k].claim = c
            /\ Testimony(n, w, c, stream[k].digest)

\* What a verb decided still holds as long as nothing was appended since.
FreshVerb(p) ==
    call[p].pending # <<>> /\ call[p].at = head + 1 =>
        LET e == call[p].pending[1]
        IN  /\ e.kind = "claimed" =>
                  /\ proj.states[e.node] = "WaitingInput"
                  /\ e.wait = proj.waits[e.node].at
                  /\ \A c \in proj.claims : c.node # e.node
                  /\ e.node \in Declared => e.bundle \in Sufficient
            /\ e.kind = "cleared" => \E c \in proj.claims : c.seq = e.claim

\* The stream and its fold ...
StreamInv ==
    /\ stream \in Seq(Event)
    /\ \A i \in 1 .. head : stream[i] \in VerbEvents(i - 1) \cup SweepEvents(i - 1)
    /\ proj \in Projection
    /\ proj.marked \subseteq 1 .. head
    /\ ~proj.corrupt
    /\ \A n \in Nodes : WaitNamed(n)
    /\ ClaimsGrounded
    /\ \A n \in Nodes : Released(n)

\* ... and those who append to it.
CallerInv(p) ==
    /\ call[p].at \in 0 .. head + 1
    /\ call[p].pending = <<>> \/ call[p].pending[1] \in VerbEvents(call[p].at - 1)
    /\ call[p].pending = <<>> <=> call[p].pc \in {"idle", "cancelling"}
    /\ FreshVerb(p)

\* A sweep raises only what the stream held when it looked.
Sweeping(to) == [pc : {"idle", "read", "placed"}, at : 0 .. to + 1, overdue : SUBSET (1 .. to)]

ActorInv ==
    /\ now \in 0 .. MaxTime /\ quiet \in 0 .. MaxQuiet
    /\ drv \in [Drives -> [Nodes -> {"executed", "decided", "done"}]]
    /\ call \in [Callers -> Call]
    /\ \A p \in Callers : CallerInv(p)
    /\ swp \in [Sweepers -> Sweeping(head)]

CustomsInv == StreamInv /\ ActorInv

-----------------------------------------------------------------------------
(* The fold of one event *)

LEMMA EventTypes ==
    /\ \A n \in Nodes, s \in {"WaitingInput", "Cancelled"} : OutcomeRecorded(n, s) \in VerbEvent
    /\ \A n \in Nodes, w \in Nat, b \in Bundles : CompletionClaimed(n, w, b) \in VerbEvent
    /\ \A c \in Nat, b \in Bundles : CompletionCleared(c, b) \in VerbEvent
    /\ \A s \in Sweepers, S \in SUBSET Nat : SweepPerformed(s, S) \in Event
    /\ CompletionRefused \in VerbEvent /\ ExecutionCompleted \in VerbEvent
    /\ VerbEvent \subseteq Event
BY DEF VerbEvent, Event, OutcomeRecorded, CompletionClaimed, CompletionCleared, SweepPerformed

\* An append leaves what was there and adds one event at the next sequence.
LEMMA Appended ==
    ASSUME stream \in Seq(Event), NEW e \in Event, Append1(e)
    PROVE  /\ stream' \in Seq(Event)
           /\ head \in Nat
           /\ head' = head + 1
           /\ stream'[head + 1] = e
           /\ \A i \in 1 .. head : stream'[i] = stream[i]
           /\ proj' = apply_projection_event(proj, head + 1, now, e)
BY DEF Append1, head

\* Testimony is about a past that no append changes.
LEMMA TestimonyKept ==
    ASSUME stream \in Seq(Event), NEW e \in Event, Append1(e),
           NEW n, NEW w, NEW c, NEW b, Testimony(n, w, c, b)
    PROVE  Testimony(n, w, c, b)'
<1>1. /\ head \in Nat /\ head' = head + 1
      /\ \A i \in 1 .. head : stream'[i] = stream[i]
  BY Appended
<1> QED BY <1>1 DEF Testimony, Silent

LEMMA DeadlineType ==
    ASSUME NEW n \in Nodes, NEW at \in Nat, NEW budget \in Nat
    PROVE  stage_deadline(n, at, budget) \in SUBSET Nat
BY DEF stage_deadline, Never

LEMMA NoWaitType == NoWait \in Wait /\ NoWait.at = 0
BY DEF NoWait, Wait, Never

\* A drive parks a node or the owner cancels it: the fold.
LEMMA OutcomeFold ==
    ASSUME StreamInv, now \in Nat, NEW n \in Nodes, NEW s \in {"WaitingInput", "Cancelled"},
           Append1(OutcomeRecorded(n, s))
    PROVE  /\ proj' \in Projection
           /\ proj'.states = [proj.states EXCEPT ![n] = s]
           /\ \A m \in Nodes : m # n => proj'.waits[m] = proj.waits[m]
           /\ proj'.waits[n] = NoWait \/ proj'.waits[n].at = head + 1
           /\ s = "WaitingInput" <=> proj'.waits[n].at # 0
           /\ UNCHANGED <<proj.claims, proj.marked, proj.corrupt>>
<1> DEFINE e == OutcomeRecorded(n, s)
           w == IF s = "WaitingInput"
                THEN [at |-> head + 1, deadline |-> stage_deadline(n, now, WaitWithin)]
                ELSE NoWait
<1>1. e \in Event /\ e.kind = "outcome" /\ e.node = n /\ e.next = s
  BY EventTypes DEF OutcomeRecorded
<1>2. head \in Nat /\ proj' = apply_projection_event(proj, head + 1, now, e)
  BY <1>1, Appended DEF StreamInv
<1>3. proj' = [proj EXCEPT !.states[n] = s, !.waits[n] = w]
  BY <1>1, <1>2 DEF apply_projection_event, apply_outcome
<1>4. stage_deadline(n, now, WaitWithin) \in SUBSET Nat
  BY BudgetAssumption, DeadlineType
<1>5. w \in Wait /\ (s = "WaitingInput" <=> w.at # 0) /\ (w = NoWait \/ w.at = head + 1)
  BY <1>2, <1>4, NoWaitType DEF Wait
<1> HIDE DEF w
<1>6. proj \in Projection /\ s \in NodeState
  BY DEF StreamInv, NodeState
<1> QED BY <1>3, <1>5, <1>6 DEF Projection

\* A claim that opens adds one open claim under its own sequence.
LEMMA ClaimFold ==
    ASSUME StreamInv, now \in Nat, NEW n \in Nodes, NEW w \in Nat, NEW b \in Bundles,
           w = proj.waits[n].at, Append1(CompletionClaimed(n, w, b))
    PROVE  \E c \in OpenClaim :
              /\ c.seq = head + 1 /\ c.node = n /\ c.wait = w /\ c.bundle = b
              /\ proj' = [proj EXCEPT !.claims = proj.claims \cup {c}]
<1> DEFINE e == CompletionClaimed(n, w, b)
           c == [seq |-> head + 1, node |-> n, wait |-> w, bundle |-> b,
                 deadline |-> stage_deadline(n, now, ClearanceWithin)]
<1>1. /\ e \in Event /\ e.kind = "claimed" /\ e.node = n /\ e.wait = w /\ e.bundle = b
  BY EventTypes DEF CompletionClaimed
<1>2. head \in Nat /\ proj' = apply_projection_event(proj, head + 1, now, e)
  BY <1>1, Appended DEF StreamInv
<1>3. proj' = [proj EXCEPT !.claims = proj.claims \cup {c}]
  BY <1>1, <1>2 DEF apply_projection_event, apply_claimed
<1>4. stage_deadline(n, now, ClearanceWithin) \in SUBSET Nat
  BY BudgetAssumption, DeadlineType
<1>5. c \in OpenClaim
  BY <1>2, <1>4 DEF OpenClaim
<1> QED BY <1>3, <1>5

\* A clearance spends the one open claim it names, and releases its node when the digests agree.
LEMMA ClearedFold ==
    ASSUME StreamInv, now \in Nat, NEW seq \in Nat, NEW b \in Bundles,
           \E c \in proj.claims : c.seq = seq, Append1(CompletionCleared(seq, b))
    PROVE  \E c \in proj.claims :
              /\ c.seq = seq
              /\ \/ proj' = [proj EXCEPT !.claims = proj.claims \ {c}]
                 \/ /\ c.bundle = b
                    /\ proj' = [proj EXCEPT !.claims = proj.claims \ {c},
                                            !.states[c.node] = "Succeeded",
                                            !.waits[c.node] = NoWait]
<1> DEFINE e == CompletionCleared(seq, b)
           under == {c \in proj.claims : c.seq = e.claim}
           first == CHOOSE x \in under : TRUE
<1>1. e \in Event /\ e.kind = "cleared" /\ e.claim = seq /\ e.digest = b
  BY EventTypes DEF CompletionCleared
<1>2. proj' = apply_projection_event(proj, head + 1, now, e)
  BY <1>1, Appended DEF StreamInv
<1>3. PICK c \in proj.claims : c.seq = seq
  OBVIOUS
<1>4. ASSUME NEW d \in proj.claims, d.seq = seq
      PROVE  d = c
  <2>1. /\ stream[seq] = CompletionClaimed(c.node, c.wait, c.bundle)
        /\ stream[seq] = CompletionClaimed(d.node, d.wait, d.bundle)
    BY <1>3, <1>4 DEF StreamInv, ClaimsGrounded, Testimony
  <2>2. c.node = d.node
    BY <2>1 DEF CompletionClaimed
  <2> QED BY <2>2 DEF StreamInv, ClaimsGrounded
<1>5. under = {c}
  BY <1>1, <1>3, <1>4
<1>6. first = c
  BY <1>5
<1>7. proj' = apply_cleared(proj, e)
  BY <1>1, <1>2 DEF apply_projection_event
<1> DEFINE spent == [proj EXCEPT !.claims = proj.claims \ {c}]
<1>8. proj' = IF c.bundle = b THEN release(spent, c.node) ELSE spent
  <2>1. apply_cleared(proj, e) =
            IF under = {} THEN [proj EXCEPT !.corrupt = TRUE]
            ELSE IF first.bundle = e.digest
                 THEN release([proj EXCEPT !.claims = @ \ under], first.node)
                 ELSE [proj EXCEPT !.claims = @ \ under]
    BY DEF apply_cleared, verdict
  <2> HIDE DEF under, first
  <2> QED BY <1>1, <1>5, <1>6, <1>7, <2>1
<1>9. release(spent, c.node) = [proj EXCEPT !.claims = proj.claims \ {c},
                                            !.states[c.node] = "Succeeded",
                                            !.waits[c.node] = NoWait]
  BY DEF release, StreamInv, Projection
<1> QED BY <1>3, <1>8, <1>9

-----------------------------------------------------------------------------
(* The stream and its fold: one lemma per event *)

\* What holds of any append of an event that refers to the past only.
LEMMA AppendedBounds ==
    ASSUME StreamInv, NEW e \in VerbEvents(head) \cup SweepEvents(head), e \in Event, Append1(e)
    PROVE  /\ stream' \in Seq(Event)
           /\ \A i \in 1 .. head' : stream'[i] \in VerbEvents(i - 1) \cup SweepEvents(i - 1)
<1>1. /\ stream' \in Seq(Event) /\ head \in Nat /\ head' = head + 1 /\ stream'[head + 1] = e
      /\ \A i \in 1 .. head : stream'[i] = stream[i]
  BY Appended DEF StreamInv
<1>2. ASSUME NEW i \in 1 .. head'
      PROVE  stream'[i] \in VerbEvents(i - 1) \cup SweepEvents(i - 1)
  <2>1. CASE i = head + 1
    <3>1. i - 1 = head
      BY <1>1, <2>1
    <3> QED BY <1>1, <2>1, <3>1
  <2>2. CASE i # head + 1
    <3>1. i \in 1 .. head
      BY <1>1, <1>2, <2>2
    <3> QED BY <1>1, <3>1 DEF StreamInv
  <2> QED BY <2>1, <2>2
<1> QED BY <1>1, <1>2

\* The successes of an earlier stream keep their evidence.
LEMMA ReleasedKept ==
    ASSUME StreamInv, NEW e \in Event, Append1(e), NEW n \in Nodes,
           proj'.states[n] = "Succeeded" => proj.states[n] = "Succeeded"
    PROVE  Released(n)'
<1> SUFFICES ASSUME proj.states[n] = "Succeeded"
             PROVE  \E w, c, k \in 1 .. head' :
                       /\ c < k
                       /\ stream'[k].kind = "cleared" /\ stream'[k].claim = c
                       /\ Testimony(n, w, c, stream[k].digest)'
  BY DEF Released
<1>1. /\ head \in Nat /\ head' = head + 1 /\ \A i \in 1 .. head : stream'[i] = stream[i]
  BY Appended DEF StreamInv
<1>2. PICK w \in 1 .. head, c \in 1 .. head, k \in 1 .. head :
          /\ c < k
          /\ stream[k].kind = "cleared" /\ stream[k].claim = c
          /\ Testimony(n, w, c, stream[k].digest)
  BY DEF StreamInv, Released
<1>3. stream'[k] = stream[k]
  BY <1>1
<1>4. PICK b : b = stream[k].digest
  OBVIOUS
<1>5. Testimony(n, w, c, b)'
  BY <1>2, <1>4, TestimonyKept DEF StreamInv
<1>6. Testimony(n, w, c, stream[k].digest)'
  BY <1>3, <1>4, <1>5 DEF Testimony
<1>7. w \in 1 .. head' /\ c \in 1 .. head' /\ k \in 1 .. head'
  BY <1>1
<1> QED BY <1>2, <1>3, <1>6, <1>7

\* An event that is no outcome of a node leaves its wait the node's last outcome.
LEMMA WaitKept ==
    ASSUME StreamInv, NEW e \in Event, Append1(e), NEW n \in Nodes,
           ~(e.kind = "outcome" /\ e.node = n),
           proj'.states[n] = proj.states[n], proj'.waits[n] = proj.waits[n]
    PROVE  WaitNamed(n)'
<1>1. /\ head \in Nat /\ head' = head + 1 /\ stream'[head + 1] = e
      /\ \A i \in 1 .. head : stream'[i] = stream[i]
  BY Appended DEF StreamInv
<1>2. ASSUME NEW i \in 1 .. head', i = head + 1 \/ Silent(n, i)
      PROVE  Silent(n, i)'
  BY <1>1, <1>2 DEF Silent
<1>3. proj.waits[n].at \in Nat
  BY DEF StreamInv, Projection, Wait
<1>4. WaitNamed(n)
  BY DEF StreamInv
<1> QED BY <1>1, <1>2, <1>3, <1>4 DEF WaitNamed

\* A park or a cancellation.
LEMMA OutcomeStream ==
    ASSUME StreamInv, now \in Nat, NEW n \in Nodes, NEW s \in {"WaitingInput", "Cancelled"},
           Append1(OutcomeRecorded(n, s))
    PROVE  StreamInv'
<1> DEFINE e == OutcomeRecorded(n, s)
<1>1. /\ e \in Event /\ e \in VerbEvents(head)
      /\ e.kind = "outcome" /\ e.node = n /\ e.next = s
  BY EventTypes DEF OutcomeRecorded, VerbEvents
<1>2. /\ head \in Nat /\ head' = head + 1 /\ stream'[head + 1] = e
  BY <1>1, Appended DEF StreamInv
<1>3. /\ stream' \in Seq(Event)
      /\ \A i \in 1 .. head' : stream'[i] \in VerbEvents(i - 1) \cup SweepEvents(i - 1)
  BY <1>1, AppendedBounds
<1>4. /\ proj' \in Projection
      /\ proj'.states = [proj.states EXCEPT ![n] = s]
      /\ \A m \in Nodes : m # n => proj'.waits[m] = proj.waits[m]
      /\ proj'.waits[n] = NoWait \/ proj'.waits[n].at = head + 1
      /\ s = "WaitingInput" <=> proj'.waits[n].at # 0
      /\ UNCHANGED <<proj.claims, proj.marked, proj.corrupt>>
  BY OutcomeFold
<1>5. proj.states \in [Nodes -> NodeState]
  BY DEF StreamInv, Projection
<1>6. ASSUME NEW m \in Nodes
      PROVE  WaitNamed(m)'
  <2>1. CASE m = n
    <3>1. proj'.states[m] = s
      BY <1>4, <1>5, <2>1
    <3>2. ASSUME proj'.waits[m] # NoWait
          PROVE  /\ proj'.waits[m].at = head + 1
                 /\ stream'[head + 1] = OutcomeRecorded(m, "WaitingInput")
      BY <1>2, <1>4, <2>1, <3>2
    <3>3. \A i \in head + 1 + 1 .. head' : FALSE
      BY <1>2
    <3> QED BY <1>2, <1>4, <2>1, <3>1, <3>2, <3>3 DEF WaitNamed
  <2>2. CASE m # n
    <3>1. proj'.states[m] = proj.states[m] /\ proj'.waits[m] = proj.waits[m]
      BY <1>4, <1>5, <2>2
    <3> QED BY <1>1, <2>2, <3>1, WaitKept
  <2> QED BY <2>1, <2>2
<1>7. ClaimsGrounded'
  BY <1>1, <1>4, TestimonyKept DEF StreamInv, ClaimsGrounded
<1>8. ASSUME NEW m \in Nodes
      PROVE  Released(m)'
  BY <1>1, <1>4, <1>5, ReleasedKept
<1>9. proj'.marked \subseteq 1 .. head' /\ ~proj'.corrupt
  BY <1>2, <1>4 DEF StreamInv
<1> QED BY <1>3, <1>4, <1>6, <1>7, <1>8, <1>9 DEF StreamInv

\* A claim decided on the stream it is appended to.
LEMMA ClaimStream ==
    ASSUME StreamInv, now \in Nat, NEW n \in Nodes, NEW b \in Bundles,
           NEW w \in Nat, w = proj.waits[n].at, proj.states[n] = "WaitingInput",
           \A c \in proj.claims : c.node # n,
           n \in Declared => b \in Sufficient,
           Append1(CompletionClaimed(n, w, b))
    PROVE  StreamInv'
<1> DEFINE e == CompletionClaimed(n, w, b)
<1>0. /\ w \in 1 .. head /\ stream[w] = OutcomeRecorded(n, "WaitingInput")
      /\ \A i \in w + 1 .. head : Silent(n, i)
  <2>1. WaitNamed(n)
    BY DEF StreamInv
  <2> QED BY <2>1, NoWaitType DEF WaitNamed
<1>1. e \in Event /\ e \in VerbEvents(head) /\ e.kind = "claimed"
  BY <1>0, EventTypes DEF CompletionClaimed, VerbEvents
<1>2. /\ head \in Nat /\ head' = head + 1 /\ stream'[head + 1] = e
      /\ \A i \in 1 .. head : stream'[i] = stream[i]
  BY <1>1, Appended DEF StreamInv
<1>3. /\ stream' \in Seq(Event)
      /\ \A i \in 1 .. head' : stream'[i] \in VerbEvents(i - 1) \cup SweepEvents(i - 1)
  BY <1>1, AppendedBounds
<1>4. PICK c \in OpenClaim :
          /\ c.seq = head + 1 /\ c.node = n /\ c.wait = w /\ c.bundle = b
          /\ proj' = [proj EXCEPT !.claims = proj.claims \cup {c}]
  BY ClaimFold
<1>5. /\ proj' \in Projection /\ proj'.claims = proj.claims \cup {c}
      /\ UNCHANGED <<proj.states, proj.waits, proj.marked, proj.corrupt>>
  BY <1>4 DEF StreamInv, Projection
<1>6. ASSUME NEW m \in Nodes
      PROVE  WaitNamed(m)' /\ Released(m)'
  BY <1>1, <1>5, WaitKept, ReleasedKept
<1>7. ClaimsGrounded'
  <2>1. Testimony(n, w, c.seq, b)'
    <3>1. c.seq \in 1 .. head' /\ w \in 1 .. head' /\ w < c.seq
      BY <1>0, <1>2, <1>4
    <3>2. \A i \in w + 1 .. c.seq - 1 : Silent(n, i)'
      BY <1>0, <1>2, <1>4 DEF Silent
    <3> QED BY <1>0, <1>2, <1>4, <3>1, <3>2 DEF Testimony
  <2>2. \A d \in proj.claims : Testimony(d.node, d.wait, d.seq, d.bundle)'
    BY <1>1, TestimonyKept DEF StreamInv, ClaimsGrounded
  <2>3. \A d \in proj.claims : d.node # c.node
    BY <1>4
  <2> QED BY <1>4, <1>5, <2>1, <2>2, <2>3 DEF StreamInv, ClaimsGrounded
<1>8. proj'.marked \subseteq 1 .. head' /\ ~proj'.corrupt
  BY <1>2, <1>5 DEF StreamInv
<1> QED BY <1>3, <1>5, <1>6, <1>7, <1>8 DEF StreamInv

\* A clearance of a claim that is still open.
LEMMA ClearedStream ==
    ASSUME StreamInv, now \in Nat, NEW seq \in Nat, NEW b \in Bundles,
           \E c \in proj.claims : c.seq = seq, Append1(CompletionCleared(seq, b))
    PROVE  StreamInv'
<1> DEFINE e == CompletionCleared(seq, b)
<1>0. PICK c \in proj.claims :
          /\ c.seq = seq
          /\ \/ proj' = [proj EXCEPT !.claims = proj.claims \ {c}]
             \/ /\ c.bundle = b
                /\ proj' = [proj EXCEPT !.claims = proj.claims \ {c},
                                        !.states[c.node] = "Succeeded",
                                        !.waits[c.node] = NoWait]
  BY ClearedFold
<1>1. c \in OpenClaim /\ c.node \in Nodes /\ Testimony(c.node, c.wait, seq, c.bundle)
  BY <1>0 DEF StreamInv, Projection, OpenClaim, ClaimsGrounded
<1>2. /\ e \in Event /\ e \in VerbEvents(head)
      /\ e.kind = "cleared" /\ e.claim = seq /\ e.digest = b
  BY <1>1, EventTypes DEF CompletionCleared, VerbEvents, Testimony
<1>3. /\ head \in Nat /\ head' = head + 1 /\ stream'[head + 1] = e
  BY <1>2, Appended DEF StreamInv
<1>4. /\ stream' \in Seq(Event)
      /\ \A i \in 1 .. head' : stream'[i] \in VerbEvents(i - 1) \cup SweepEvents(i - 1)
  BY <1>2, AppendedBounds
<1>5. /\ proj' \in Projection /\ proj'.claims = proj.claims \ {c}
      /\ UNCHANGED <<proj.marked, proj.corrupt>>
      /\ \A m \in Nodes : \/ proj'.states[m] = proj.states[m] /\ proj'.waits[m] = proj.waits[m]
                          \/ /\ m = c.node /\ c.bundle = b
                             /\ proj'.states[m] = "Succeeded" /\ proj'.waits[m] = NoWait
  <2>1. /\ proj \in Projection /\ NoWait \in Wait /\ "Succeeded" \in NodeState
        /\ c.node \in Nodes
    BY <1>1, NoWaitType DEF StreamInv, NodeState
  <2>2. CASE proj' = [proj EXCEPT !.claims = proj.claims \ {c}]
    BY <2>1, <2>2 DEF Projection
  <2>3. CASE /\ c.bundle = b
             /\ proj' = [proj EXCEPT !.claims = proj.claims \ {c},
                                     !.states[c.node] = "Succeeded",
                                     !.waits[c.node] = NoWait]
    BY <2>1, <2>3 DEF Projection
  <2> QED BY <1>0, <2>2, <2>3
<1>6. ASSUME NEW m \in Nodes
      PROVE  WaitNamed(m)'
  <2>1. CASE proj'.states[m] = proj.states[m] /\ proj'.waits[m] = proj.waits[m]
    BY <1>2, <2>1, WaitKept
  <2>2. CASE proj'.states[m] = "Succeeded" /\ proj'.waits[m] = NoWait
    BY <2>2, NoWaitType DEF WaitNamed
  <2> QED BY <1>5, <2>1, <2>2
<1>7. ClaimsGrounded'
  BY <1>2, <1>5, TestimonyKept DEF StreamInv, ClaimsGrounded
<1>8. ASSUME NEW m \in Nodes
      PROVE  Released(m)'
  <2>1. CASE proj'.states[m] = "Succeeded" => proj.states[m] = "Succeeded"
    BY <1>2, <2>1, ReleasedKept
  <2>2. CASE m = c.node /\ c.bundle = b
    <3>1. Testimony(m, c.wait, seq, b)'
      BY <1>1, <1>2, <2>2, TestimonyKept DEF StreamInv
    <3>2. PICK k : k = head + 1
      OBVIOUS
    <3>3. stream'[k] = e /\ k \in 1 .. head'
      BY <1>3, <3>2
    <3>4. seq < k /\ seq \in 1 .. head' /\ c.wait \in 1 .. head'
      BY <1>1, <1>3, <3>2 DEF Testimony
    <3>5. Testimony(m, c.wait, seq, stream[k].digest)'
      BY <1>2, <3>1, <3>3 DEF Testimony
    <3>6. stream'[k].kind = "cleared" /\ stream'[k].claim = seq
      BY <1>2, <3>3
    <3> QED BY <3>3, <3>4, <3>5, <3>6 DEF Released
  <2> QED BY <1>5, <2>1, <2>2
<1>9. proj'.marked \subseteq 1 .. head' /\ ~proj'.corrupt
  BY <1>3, <1>5 DEF StreamInv
<1> QED BY <1>4, <1>5, <1>6, <1>7, <1>8, <1>9 DEF StreamInv

\* Every other event touches neither states nor waits nor claims.
LEMMA OtherStream ==
    ASSUME StreamInv, now \in Nat,
           NEW e \in {CompletionRefused, ExecutionCompleted} \cup SweepEvents(head), Append1(e)
    PROVE  StreamInv'
<1>1. /\ e \in Event /\ e \in VerbEvents(head) \cup SweepEvents(head)
      /\ e.kind \in {"refused", "completed", "swept"}
      /\ e.kind = "swept" => e.overdue \subseteq 1 .. head
  BY EventTypes DEF VerbEvents, SweepEvents, CompletionRefused, ExecutionCompleted, Event, StreamInv,
     head
<1>2. /\ head \in Nat /\ head' = head + 1
      /\ proj' = apply_projection_event(proj, head + 1, now, e)
  BY <1>1, Appended DEF StreamInv
<1>3. /\ stream' \in Seq(Event)
      /\ \A i \in 1 .. head' : stream'[i] \in VerbEvents(i - 1) \cup SweepEvents(i - 1)
  BY <1>1, AppendedBounds
<1>4. \/ proj' = [proj EXCEPT !.marked = @ \cup e.overdue] /\ e.kind = "swept"
      \/ proj' = [proj EXCEPT !.completed = TRUE]
      \/ proj' = proj
  BY <1>1, <1>2 DEF apply_projection_event
<1>5. /\ proj' \in Projection /\ proj'.marked \subseteq 1 .. head'
      /\ UNCHANGED <<proj.states, proj.waits, proj.claims, proj.corrupt>>
  <2>1. proj \in Projection /\ proj.marked \subseteq 1 .. head
    BY DEF StreamInv
  <2>2. CASE proj' = [proj EXCEPT !.marked = @ \cup e.overdue] /\ e.kind = "swept"
    BY <1>1, <1>2, <2>1, <2>2 DEF Projection
  <2>3. CASE proj' = [proj EXCEPT !.completed = TRUE]
    <3>1. PICK done \in BOOLEAN : proj' = [proj EXCEPT !.completed = done]
      BY <2>3, Zenon
    <3> QED BY <1>2, <2>1, <3>1 DEF Projection
  <2>4. CASE proj' = proj
    BY <1>2, <2>1, <2>4
  <2> QED BY <1>4, <2>2, <2>3, <2>4
<1>6. ASSUME NEW m \in Nodes
      PROVE  WaitNamed(m)' /\ Released(m)'
  BY <1>1, <1>5, WaitKept, ReleasedKept
<1>7. ClaimsGrounded'
  BY <1>1, <1>5, TestimonyKept DEF StreamInv, ClaimsGrounded
<1> QED BY <1>3, <1>5, <1>6, <1>7 DEF StreamInv

LEMMA StreamUnchanged ==
    ASSUME StreamInv, UNCHANGED <<stream, proj>>
    PROVE  StreamInv'
BY DEF StreamInv, WaitNamed, ClaimsGrounded, Released, Testimony, Silent, head

-----------------------------------------------------------------------------
(* The actors *)

LEMMA HeadType == StreamInv => head \in Nat
BY DEF StreamInv, head

LEMMA VerbEventsType == \A to \in Nat : VerbEvents(to) \subseteq VerbEvent
BY DEF VerbEvents, VerbEvent

LEMMA SweepsGrow ==
    ASSUME NEW a \in Nat, NEW b \in Nat, a <= b
    PROVE  Sweeping(a) \subseteq Sweeping(b)
<1>1. 0 .. a + 1 \subseteq 0 .. b + 1 /\ SUBSET (1 .. a) \subseteq SUBSET (1 .. b)
  OBVIOUS
<1> QED BY <1>1 DEF Sweeping

\* Whoever does not move is not disturbed: a decision that another append overtook is stale.
LEMMA CallerKept ==
    ASSUME StreamInv, NEW p \in Callers, CallerInv(p), call'[p] = call[p],
           \/ UNCHANGED <<stream, proj>>
           \/ \E e \in Event : Append1(e)
    PROVE  CallerInv(p)'
<1>1. CASE UNCHANGED <<stream, proj>>
  BY <1>1 DEF CallerInv, FreshVerb, head
<1>2. CASE \E e \in Event : Append1(e)
  <2>1. head \in Nat /\ head' = head + 1
    BY <1>2, Appended DEF StreamInv
  <2>2. call[p].at \in 0 .. head' + 1 /\ call[p].at # head' + 1
    BY <2>1 DEF CallerInv
  <2> QED BY <2>2 DEF CallerInv, FreshVerb
<1> QED BY <1>1, <1>2

LEMMA IdleType ==
    /\ Idle \in Call
    /\ \A c \in Call : AfterAppend(c) \in Call /\ AfterAppend(c).pending = <<>>
                       /\ AfterAppend(c).at = 0 /\ AfterAppend(c).pc \in {"idle", "cancelling"}
BY DEF Idle, Call, AfterAppend

\* A verb that has nothing pending.
LEMMA CallerRests ==
    ASSUME NEW p \in Callers, head' \in Nat, call'[p].pending = <<>>, call'[p].at = 0,
           call'[p].pc \in {"idle", "cancelling"}
    PROVE  CallerInv(p)'
<1>1. 0 \in 0 .. head' + 1
  OBVIOUS
<1>2. call'[p].at \in 0 .. head' + 1
  BY <1>1
<1>3. FreshVerb(p)'
  BY DEF FreshVerb
<1>4. call'[p].pending = <<>> <=> call'[p].pc \in {"idle", "cancelling"}
  OBVIOUS
<1> QED BY <1>2, <1>3, <1>4 DEF CallerInv

LEMMA DecidedType ==
    ASSUME StreamInv, NEW pc \in {"claim", "clear", "cancel", "complete"}, NEW todo \in SUBSET Nodes,
           NEW e \in VerbEvents(head)
    PROVE  /\ Decided(pc, todo, e) \in Call
           /\ Decided(pc, todo, e).pending = <<e>>
           /\ Decided(pc, todo, e).at = head + 1
           /\ Decided(pc, todo, e).pc = pc
<1>1. head \in Nat
  BY HeadType
<1>2. e \in VerbEvent
  BY <1>1, VerbEventsType
<1> QED BY <1>1, <1>2 DEF Decided, Call

\* A verb that has just decided.
LEMMA CallerDecides ==
    ASSUME StreamInv, UNCHANGED <<stream, proj>>, NEW p \in Callers,
           NEW pc \in {"claim", "clear", "cancel", "complete"}, NEW todo \in SUBSET Nodes,
           NEW e \in VerbEvents(head), call'[p] = Decided(pc, todo, e),
           e.kind = "claimed" => /\ proj.states[e.node] = "WaitingInput"
                                 /\ e.wait = proj.waits[e.node].at
                                 /\ \A c \in proj.claims : c.node # e.node
                                 /\ e.node \in Declared => e.bundle \in Sufficient,
           e.kind = "cleared" => \E c \in proj.claims : c.seq = e.claim
    PROVE  CallerInv(p)'
<1>1. head \in Nat /\ head' = head
  BY HeadType DEF head
<1>2. /\ Decided(pc, todo, e).pending = <<e>>
      /\ Decided(pc, todo, e).at = head + 1
      /\ Decided(pc, todo, e).pc = pc
  BY DecidedType
<1>3. /\ call'[p].pending = <<e>> /\ call'[p].at = head + 1 /\ call'[p].pc = pc
  BY <1>2
<1>4. call'[p].pending # <<>> /\ call'[p].pending[1] = e
  BY <1>3
<1>5. call'[p].at - 1 = head
  BY <1>1, <1>3
<1>6. FreshVerb(p)'
  BY <1>1, <1>3, <1>4 DEF FreshVerb
<1>7. call'[p].pending[1] \in VerbEvents(call'[p].at - 1)
  BY <1>4, <1>5, Zenon
<1> QED BY <1>1, <1>3, <1>4, <1>6, <1>7 DEF CallerInv

\* The stream stays, or grows by one event.
Grows == UNCHANGED <<stream, proj>> \/ \E e \in Event : Append1(e)

LEMMA SweepsKept ==
    ASSUME StreamInv, Grows, NEW t \in [Sweepers -> Sweeping(head)]
    PROVE  t \in [Sweepers -> Sweeping(head')]
<1>1. head \in Nat /\ head' \in {head, head + 1}
  BY HeadType, Appended DEF Grows, StreamInv, head
<1>2. Sweeping(head) \subseteq Sweeping(head')
  BY <1>1, SweepsGrow
<1> QED BY <1>2

\* A step of one caller.
LEMMA CallerMoves ==
    ASSUME StreamInv, ActorInv, Grows, NEW p \in Callers, NEW c \in Call,
           call' = [call EXCEPT ![p] = c], CallerInv(p)', quiet' \in 0 .. MaxQuiet,
           UNCHANGED <<now, drv, swp>>
    PROVE  ActorInv'
<1>1. ASSUME NEW q \in Callers
      PROVE  CallerInv(q)'
  <2>1. CASE q = p
    BY <2>1
  <2>2. CASE q # p
    <3>1. call'[q] = call[q] /\ CallerInv(q)
      BY <2>2 DEF ActorInv
    <3> QED BY <3>1, CallerKept DEF Grows
  <2> QED BY <2>1, <2>2
<1>2. call' \in [Callers -> Call]
  BY DEF ActorInv
<1>3. swp' \in [Sweepers -> Sweeping(head')]
  BY SweepsKept DEF ActorInv
<1> QED BY <1>1, <1>2, <1>3 DEF ActorInv

\* A step of a drive, a sweeper or the clock.
LEMMA CallersStay ==
    ASSUME StreamInv, ActorInv, Grows, UNCHANGED call,
           now' \in 0 .. MaxTime, quiet' \in 0 .. MaxQuiet,
           drv' \in [Drives -> [Nodes -> {"executed", "decided", "done"}]],
           swp' \in [Sweepers -> Sweeping(head)]
    PROVE  ActorInv'
<1>1. ASSUME NEW q \in Callers
      PROVE  CallerInv(q)'
  BY CallerKept DEF ActorInv, Grows
<1>2. swp' \in [Sweepers -> Sweeping(head')]
  <2>1. PICK t \in [Sweepers -> Sweeping(head)] : t = swp'
    OBVIOUS
  <2> QED BY <2>1, SweepsKept
<1> QED BY <1>1, <1>2 DEF ActorInv

-----------------------------------------------------------------------------
(* One step per action *)

LEMMA DriveInv ==
    ASSUME CustomsInv, NEW d \in Drives, NEW n \in Nodes,
           DriveDecide(d, n) \/ DrivePark(d, n) \/ DriveLost(d, n)
    PROVE  CustomsInv'
<1>1. drv' \in [Drives -> [Nodes -> {"executed", "decided", "done"}]]
  BY DEF DriveDecide, DrivePark, DriveLost, CustomsInv, ActorInv
<1>2. /\ StreamInv /\ ActorInv /\ now' = now /\ now \in 0 .. MaxTime /\ now \in Nat
      /\ quiet' \in 0 .. MaxQuiet /\ UNCHANGED <<call, swp>>
      /\ swp' \in [Sweepers -> Sweeping(head)]
  BY BoundAssumption DEF DriveDecide, DrivePark, DriveLost, CustomsInv, ActorInv
<1>3. CASE DrivePark(d, n)
  <2>1. Append1(OutcomeRecorded(n, "WaitingInput"))
    BY <1>3 DEF DrivePark
  <2>2. Grows
    BY <2>1, EventTypes DEF Grows
  <2> QED BY <1>1, <1>2, <2>1, <2>2, OutcomeStream, CallersStay DEF CustomsInv
<1>4. CASE DriveDecide(d, n) \/ DriveLost(d, n)
  <2>1. UNCHANGED <<stream, proj>>
    BY <1>4 DEF DriveDecide, DriveLost
  <2> QED BY <1>1, <1>2, <2>1, StreamUnchanged, CallersStay DEF CustomsInv, Grows
<1> QED BY <1>3, <1>4

LEMMA OverdueType ==
    ASSUME StreamInv, NEW asOf \in Nat
    PROVE  overdue_at(asOf) \subseteq 1 .. head
<1>1. ASSUME NEW n \in Nodes, Lapsed(proj.waits[n].deadline, asOf)
      PROVE  proj.waits[n].at \in 1 .. head
  <2>1. proj.waits[n] # NoWait
    BY <1>1 DEF Lapsed, NoWait, Never
  <2> QED BY <2>1 DEF StreamInv, WaitNamed
<1>2. ASSUME NEW c \in proj.claims
      PROVE  c.seq \in 1 .. head
  BY DEF StreamInv, ClaimsGrounded, Testimony
<1> QED BY <1>1, <1>2 DEF overdue_at

LEMMA SweeperInv ==
    ASSUME CustomsInv, NEW s \in Sweepers, SweeperStep(s)
    PROVE  CustomsInv'
<1>0. /\ StreamInv /\ ActorInv /\ UNCHANGED <<now, drv, call>>
      /\ now' \in 0 .. MaxTime /\ now \in Nat
      /\ drv' \in [Drives -> [Nodes -> {"executed", "decided", "done"}]]
      /\ swp \in [Sweepers -> Sweeping(head)] /\ head \in Nat
  BY BoundAssumption, HeadType DEF CustomsInv, ActorInv, SweeperStep, SweepRead, SweepPlace,
     SweepAppend
<1>1. CASE SweepRead(s)
  <2>1. PICK asOf \in 0 .. now :
            /\ CountQuiet(overdue_at(asOf) = {})
            /\ swp' = [swp EXCEPT ![s] = [pc |-> "read", at |-> 0, overdue |-> overdue_at(asOf)]]
    BY <1>1 DEF SweepRead
  <2>2. overdue_at(asOf) \subseteq 1 .. head
    BY <1>0, OverdueType
  <2>3. [pc |-> "read", at |-> 0, overdue |-> overdue_at(asOf)] \in Sweeping(head)
    BY <1>0, <2>2 DEF Sweeping
  <2>4. swp' \in [Sweepers -> Sweeping(head)]
    BY <1>0, <2>1, <2>3
  <2>5. quiet' \in 0 .. MaxQuiet
    BY <1>0, <2>1, BoundAssumption DEF CountQuiet, ActorInv
  <2>6. UNCHANGED <<stream, proj>>
    BY <1>1 DEF SweepRead
  <2> QED BY <1>0, <2>4, <2>5, <2>6, StreamUnchanged, CallersStay DEF CustomsInv, Grows
<1>2. CASE SweepPlace(s)
  <2>1. swp' \in [Sweepers -> Sweeping(head)]
    <3>1. swp' = [swp EXCEPT ![s] = [swp[s] EXCEPT !.pc = "placed", !.at = head + 1]]
      BY <1>0, <1>2 DEF SweepPlace
    <3>2. [swp[s] EXCEPT !.pc = "placed", !.at = head + 1] \in Sweeping(head)
      <4>1. swp[s] \in Sweeping(head) /\ head + 1 \in 0 .. head + 1
        BY <1>0
      <4> QED BY <4>1 DEF Sweeping
    <3> QED BY <1>0, <3>1, <3>2
  <2>2. UNCHANGED <<stream, proj>> /\ quiet' \in 0 .. MaxQuiet
    BY <1>0, <1>2 DEF SweepPlace, ActorInv
  <2> QED BY <1>0, <2>1, <2>2, StreamUnchanged, CallersStay DEF CustomsInv, Grows
<1>3. CASE SweepAppend(s)
  <2>1. swp' \in [Sweepers -> Sweeping(head)]
    BY <1>0, <1>3 DEF SweepAppend, Sweeping, Unswept
  <2>2. quiet' \in 0 .. MaxQuiet
    BY <1>0, <1>3 DEF SweepAppend, ActorInv
  <2>3. CASE UNCHANGED <<stream, proj>>
    BY <1>0, <2>1, <2>2, <2>3, StreamUnchanged, CallersStay DEF CustomsInv, Grows
  <2>4. CASE Append1(SweepPerformed(s, swp[s].overdue)) /\ swp[s].pc = "placed"
    <3>1. swp[s].overdue \subseteq 1 .. head
      BY <1>0 DEF Sweeping
    <3>2. SweepPerformed(s, swp[s].overdue) \in SweepEvents(head)
      BY <3>1 DEF SweepPerformed, SweepEvents
    <3>3. SweepPerformed(s, swp[s].overdue) \in Event
      BY <1>0, <3>1, EventTypes
    <3>4. PICK e : e = SweepPerformed(s, swp[s].overdue)
      OBVIOUS
    <3>5. e \in Event /\ e \in SweepEvents(head) /\ Append1(e)
      BY <2>4, <3>2, <3>3, <3>4
    <3>6. StreamInv'
      BY <1>0, <3>5, OtherStream
    <3> QED BY <1>0, <2>1, <2>2, <3>5, <3>6, CallersStay DEF CustomsInv, Grows
  <2> QED BY <1>3, <2>3, <2>4 DEF SweepAppend
<1> QED BY <1>1, <1>2, <1>3 DEF SweeperStep

\* The append of a verb: its decision is fresh, or the store refuses it.
LEMMA CallAppendInv ==
    ASSUME CustomsInv, NEW p \in Callers, CallAppend(p)
    PROVE  CustomsInv'
<1>0. /\ StreamInv /\ ActorInv /\ now \in Nat /\ head \in Nat
      /\ call[p] \in Call /\ CallerInv(p) /\ call \in [Callers -> Call]
  BY BoundAssumption, HeadType DEF CustomsInv, ActorInv
<1>1. PICK e : e = call[p].pending[1]
  OBVIOUS
<1>2. /\ call[p].pending # <<>> /\ call[p].at = head + 1 /\ Append1(e)
      /\ call' = [call EXCEPT ![p] = AfterAppend(call[p])]
      /\ UNCHANGED <<now, drv, swp, quiet>>
  BY <1>1 DEF CallAppend
<1>3. call[p].at - 1 = head
  BY <1>0, <1>2
<1>4. e \in VerbEvents(head)
  BY <1>0, <1>1, <1>2, <1>3, Zenon DEF CallerInv
<1>5. e \in Event
  BY <1>0, <1>4, VerbEventsType, EventTypes
<1>6. /\ e.kind = "claimed" => /\ proj.states[e.node] = "WaitingInput"
                               /\ e.wait = proj.waits[e.node].at
                               /\ \A c \in proj.claims : c.node # e.node
                               /\ e.node \in Declared => e.bundle \in Sufficient
      /\ e.kind = "cleared" => \E c \in proj.claims : c.seq = e.claim
  BY <1>0, <1>1, <1>2 DEF CallerInv, FreshVerb
<1>7. StreamInv'
  <2>1. CASE \E n \in Nodes, t \in {"WaitingInput", "Cancelled"} : e = OutcomeRecorded(n, t)
    BY <1>0, <1>2, <2>1, OutcomeStream
  <2>2. CASE \E n \in Nodes, w \in Nat, b \in Bundles : e = CompletionClaimed(n, w, b)
    <3>1. PICK n \in Nodes, w \in Nat, b \in Bundles : e = CompletionClaimed(n, w, b)
      BY <2>2
    <3>2. e.kind = "claimed" /\ e.node = n /\ e.wait = w /\ e.bundle = b
      BY <3>1 DEF CompletionClaimed
    <3>3. /\ proj.states[n] = "WaitingInput" /\ w = proj.waits[n].at
          /\ \A c \in proj.claims : c.node # n
          /\ n \in Declared => b \in Sufficient
      BY <1>6, <3>2
    <3>4. Append1(CompletionClaimed(n, w, b))
      BY <1>2, <3>1
    <3> QED BY <1>0, <3>3, <3>4, ClaimStream
  <2>3. CASE \E c \in Nat, b \in Bundles : e = CompletionCleared(c, b)
    <3>1. PICK c \in Nat, b \in Bundles : e = CompletionCleared(c, b)
      BY <2>3
    <3>2. e.kind = "cleared" /\ e.claim = c
      BY <3>1 DEF CompletionCleared
    <3>3. (\E d \in proj.claims : d.seq = c) /\ Append1(CompletionCleared(c, b))
      BY <1>2, <1>6, <3>1, <3>2
    <3> QED BY <1>0, <3>3, ClearedStream
  <2>4. CASE e \in {CompletionRefused, ExecutionCompleted}
    BY <1>0, <1>2, <2>4, OtherStream
  <2> QED BY <1>0, <1>4, <2>1, <2>2, <2>3, <2>4
          DEF VerbEvents, OutcomeRecorded, CompletionClaimed, CompletionCleared
<1>8. Grows
  BY <1>2, <1>5 DEF Grows
<1>9. ActorInv'
  <2>1. PICK c : c = AfterAppend(call[p])
    OBVIOUS
  <2>2. /\ c \in Call /\ c.pending = <<>> /\ c.at = 0 /\ c.pc \in {"idle", "cancelling"}
    BY <1>0, <2>1, IdleType
  <2>3. call' = [call EXCEPT ![p] = c] /\ call'[p] = c
    BY <1>0, <1>2, <2>1
  <2>4. head' \in Nat
    BY <1>0, <1>2, <1>5, Appended DEF StreamInv
  <2>5. CallerInv(p)'
    BY <2>2, <2>3, <2>4, CallerRests
  <2>6. quiet' \in 0 .. MaxQuiet
    BY <1>0, <1>2 DEF ActorInv
  <2> QED BY <1>0, <1>2, <1>8, <2>2, <2>3, <2>5, <2>6, CallerMoves
<1> QED BY <1>7, <1>9 DEF CustomsInv

LEMMA CallerStepInv ==
    ASSUME CustomsInv, NEW p \in Callers, CallerStep(p)
    PROVE  CustomsInv'
<1>0. /\ StreamInv /\ ActorInv /\ head \in Nat /\ quiet \in 0 .. MaxQuiet
      /\ call[p] \in Call /\ CallerInv(p) /\ call \in [Callers -> Call]
  BY HeadType DEF CustomsInv, ActorInv
\* A decision: nothing is appended, and what was decided is fresh.
<1>1. ASSUME UNCHANGED <<stream, proj, now, drv, swp>>, quiet' \in 0 .. MaxQuiet,
             NEW c \in Call, call' = [call EXCEPT ![p] = c],
             call'[p] = c => CallerInv(p)'
      PROVE  CustomsInv'
  <2>1. StreamInv'
    BY <1>0, <1>1, StreamUnchanged
  <2>2. CallerInv(p)'
    BY <1>0, <1>1
  <2>3. ActorInv'
    BY <1>0, <1>1, <2>2, CallerMoves DEF Grows
  <2> QED BY <2>1, <2>3 DEF CustomsInv
<1>2. ASSUME NEW c \in Call, c.pending = <<>>, c.at = 0, c.pc \in {"idle", "cancelling"},
             UNCHANGED <<stream, proj>>, call'[p] = c
      PROVE  CallerInv(p)'
  <2>1. head' \in Nat
    BY <1>0, <1>2 DEF head
  <2> QED BY <1>2, <2>1, CallerRests
<1>3. CASE Claim(p)
  <2>1. PICK n \in Nodes, name \in 0 .. head, b \in Bundles :
            LET e == decide_claim(n, name, b)
            IN  /\ CountQuiet(e = CompletionRefused)
                /\ call' = [call EXCEPT ![p] = Decided("claim", {}, e)]
    BY <1>3 DEF Claim
  <2>2. PICK e : e = decide_claim(n, name, b)
    OBVIOUS
  <2>3. quiet' \in 0 .. MaxQuiet /\ UNCHANGED <<stream, proj, now, drv, swp>>
    BY <1>0, <1>3, <2>1, BoundAssumption DEF CountQuiet, Claim
  <2>4. PICK c : c = Decided("claim", {}, e)
    OBVIOUS
  <2>5. call' = [call EXCEPT ![p] = c]
    BY <2>1, <2>2, <2>4
  <2>6. CASE e = CompletionRefused
    <3>1. e \in VerbEvents(head) /\ e.kind = "refused"
      BY <2>6 DEF VerbEvents, CompletionRefused
    <3>2. c \in Call
      BY <1>0, <2>4, <3>1, DecidedType
    <3>3. call'[p] = c => CallerInv(p)'
      BY <1>0, <2>3, <2>4, <3>1, CallerDecides
    <3> QED BY <1>1, <2>3, <2>5, <3>2, <3>3
  <2>7. CASE e # CompletionRefused
    <3>1. /\ proj.states[n] = "WaitingInput"
          /\ \A d \in proj.claims : d.node # n
          /\ n \in Declared => b \in Sufficient
          /\ e = CompletionClaimed(n, proj.waits[n].at, b)
      BY <2>2, <2>7 DEF decide_claim
    <3>2. proj.waits[n].at \in 1 .. head
      BY <1>0, <3>1, NoWaitType DEF StreamInv, WaitNamed
    <3>3. /\ e \in VerbEvents(head) /\ e.kind = "claimed" /\ e.node = n
          /\ e.wait = proj.waits[n].at /\ e.bundle = b
      BY <3>1, <3>2 DEF VerbEvents, CompletionClaimed
    <3>4. c \in Call
      BY <1>0, <2>4, <3>3, DecidedType
    <3>5. call'[p] = c => CallerInv(p)'
      BY <1>0, <2>3, <2>4, <3>1, <3>3, CallerDecides
    <3> QED BY <1>1, <2>3, <2>5, <3>4, <3>5
  <2> QED BY <2>6, <2>7
<1>4. CASE Clear(p)
  <2>1. PICK d \in proj.claims, b \in Bundles :
            call' = [call EXCEPT ![p] = Decided("clear", {}, CompletionCleared(d.seq, b))]
    BY <1>4 DEF Clear
  <2>2. PICK e : e = CompletionCleared(d.seq, b)
    OBVIOUS
  <2>3. d.seq \in 1 .. head
    BY <1>0 DEF StreamInv, ClaimsGrounded, Testimony
  <2>4. e \in VerbEvents(head) /\ e.kind = "cleared" /\ e.claim = d.seq
    BY <2>2, <2>3 DEF VerbEvents, CompletionCleared
  <2>5. PICK c : c = Decided("clear", {}, e)
    OBVIOUS
  <2>6. c \in Call
    BY <1>0, <2>4, <2>5, DecidedType
  <2>7. UNCHANGED <<stream, proj, now, drv, swp, quiet>> /\ call' = [call EXCEPT ![p] = c]
    BY <1>4, <2>1, <2>2, <2>5 DEF Clear
  <2>8. call'[p] = c => CallerInv(p)'
    BY <1>0, <2>4, <2>5, <2>7, CallerDecides
  <2> QED BY <1>0, <1>1, <2>6, <2>7, <2>8
<1>5. CASE Cancel(p)
  <2>1. PICK c : c = [Idle EXCEPT !.pc = "cancelling",
                                  !.todo = {n \in Nodes : ~is_terminal(proj.states[n])}]
    OBVIOUS
  <2>2. c \in Call /\ c.pending = <<>> /\ c.at = 0 /\ c.pc = "cancelling"
    BY <2>1 DEF Idle, Call
  <2>3. UNCHANGED <<stream, proj, now, drv, swp, quiet>> /\ call' = [call EXCEPT ![p] = c]
    BY <1>5, <2>1 DEF Cancel
  <2> QED BY <1>0, <1>1, <1>2, <2>2, <2>3
<1>6. CASE CancelNode(p)
  <2>1. PICK n \in call[p].todo :
            call' = [call EXCEPT ![p] =
                       IF is_terminal(proj.states[n]) THEN Idle
                       ELSE Decided("cancel", @.todo \ {n}, OutcomeRecorded(n, "Cancelled"))]
    BY <1>6 DEF CancelNode
  <2>2. UNCHANGED <<stream, proj, now, drv, swp, quiet>>
    BY <1>6 DEF CancelNode
  <2>3. n \in Nodes /\ call[p].todo \ {n} \in SUBSET Nodes
    BY <1>0 DEF Call
  <2>4. CASE call' = [call EXCEPT ![p] = Idle]
    BY <1>0, <1>1, <1>2, <2>2, <2>4, IdleType DEF Idle
  <2>5. PICK e : e = OutcomeRecorded(n, "Cancelled")
    OBVIOUS
  <2>6. e \in VerbEvents(head) /\ e.kind = "outcome"
    BY <2>3, <2>5 DEF VerbEvents, OutcomeRecorded
  <2>7. PICK c : c = Decided("cancel", call[p].todo \ {n}, e)
    OBVIOUS
  <2>8. c \in Call
    BY <1>0, <2>3, <2>6, <2>7, DecidedType
  <2>9. CASE call' = [call EXCEPT ![p] = c]
    <3>1. call'[p] = c => CallerInv(p)'
      BY <1>0, <2>2, <2>3, <2>6, <2>7, CallerDecides
    <3> QED BY <1>0, <1>1, <2>2, <2>8, <2>9, <3>1
  <2> QED BY <2>1, <2>4, <2>5, <2>7, <2>9
<1>7. CASE CancelSettle(p)
  <2>1. UNCHANGED <<stream, proj, now, drv, swp, quiet>>
    BY <1>7 DEF CancelSettle
  <2>2. CASE call' = [call EXCEPT ![p] = Idle]
    BY <1>0, <1>1, <1>2, <2>1, <2>2, IdleType DEF Idle
  <2>3. ExecutionCompleted \in VerbEvents(head) /\ ExecutionCompleted.kind = "completed"
    BY DEF VerbEvents, ExecutionCompleted
  <2>4. PICK c : c = Decided("complete", {}, ExecutionCompleted)
    OBVIOUS
  <2>5. c \in Call
    BY <1>0, <2>3, <2>4, DecidedType
  <2>6. CASE call' = [call EXCEPT ![p] = c]
    <3>1. call'[p] = c => CallerInv(p)'
      BY <1>0, <2>1, <2>3, <2>4, CallerDecides
    <3> QED BY <1>0, <1>1, <2>1, <2>5, <2>6, <3>1
  <2> QED BY <1>7, <2>2, <2>4, <2>6 DEF CancelSettle
<1>8. CASE CallLost(p)
  <2>1. UNCHANGED <<stream, proj, now, drv, swp, quiet>> /\ call' = [call EXCEPT ![p] = Idle]
    BY <1>8 DEF CallLost
  <2> QED BY <1>0, <1>1, <1>2, <2>1, IdleType DEF Idle
<1> QED BY <1>3, <1>4, <1>5, <1>6, <1>7, <1>8, CallAppendInv DEF CallerStep

LEMMA CustomsInit == Init => CustomsInv
<1> SUFFICES ASSUME Init PROVE CustomsInv
  OBVIOUS
<1>1. stream = <<>> /\ head = 0 /\ stream \in Seq(Event)
  BY DEF Init, head
<1>2. /\ proj \in Projection /\ proj.claims = {} /\ proj.marked = {} /\ ~proj.corrupt
      /\ \A n \in Nodes : proj.states[n] = "Running" /\ proj.waits[n] = NoWait
  <2>1. PICK f \in BOOLEAN :
            /\ ~f
            /\ proj = [states |-> [n \in Nodes |-> "Running"],
                       waits |-> [n \in Nodes |-> NoWait],
                       claims |-> {}, marked |-> {}, completed |-> f, corrupt |-> f]
    BY Zenon DEF Init
  <2>2. [n \in Nodes |-> "Running"] \in [Nodes -> NodeState]
    BY DEF NodeState
  <2>3. [n \in Nodes |-> NoWait] \in [Nodes -> Wait]
    BY NoWaitType
  <2> QED BY <2>1, <2>2, <2>3 DEF Projection
<1>3. StreamInv
  BY <1>1, <1>2, NoWaitType DEF StreamInv, WaitNamed, ClaimsGrounded, Released
<1>4. ASSUME NEW p \in Callers
      PROVE  CallerInv(p)
  BY <1>1 DEF Init, Idle, CallerInv, FreshVerb
<1>5. call \in [Callers -> Call]
  BY IdleType DEF Init
<1>6. swp \in [Sweepers -> Sweeping(head)]
  BY <1>1 DEF Init, Unswept, Sweeping
<1>7. /\ drv \in [Drives -> [Nodes -> {"executed", "decided", "done"}]]
      /\ now \in 0 .. MaxTime /\ quiet \in 0 .. MaxQuiet
  BY BoundAssumption DEF Init
<1> QED BY <1>3, <1>4, <1>5, <1>6, <1>7 DEF CustomsInv, ActorInv

LEMMA CustomsNext == CustomsInv /\ [Next]_vars => CustomsInv'
<1> SUFFICES ASSUME CustomsInv, [Next]_vars PROVE CustomsInv'
  OBVIOUS
<1>1. CASE ClockTick
  <2>1. /\ StreamInv /\ ActorInv /\ UNCHANGED <<stream, proj, drv, call, swp, quiet>>
        /\ now' \in 0 .. MaxTime
    BY <1>1, BoundAssumption DEF ClockTick, CustomsInv, ActorInv
  <2>2. /\ drv' \in [Drives -> [Nodes -> {"executed", "decided", "done"}]]
        /\ quiet' \in 0 .. MaxQuiet /\ swp' \in [Sweepers -> Sweeping(head)]
    BY <2>1 DEF ActorInv
  <2> QED BY <2>1, <2>2, StreamUnchanged, CallersStay DEF CustomsInv, Grows
<1>2. CASE UNCHANGED vars
  <2>1. /\ StreamInv /\ ActorInv /\ UNCHANGED <<stream, proj, drv, call, swp, quiet, now>>
    BY <1>2 DEF vars, CustomsInv
  <2>2. /\ drv' \in [Drives -> [Nodes -> {"executed", "decided", "done"}]]
        /\ quiet' \in 0 .. MaxQuiet /\ swp' \in [Sweepers -> Sweeping(head)]
        /\ now' \in 0 .. MaxTime
    BY <2>1 DEF ActorInv
  <2> QED BY <2>1, <2>2, StreamUnchanged, CallersStay DEF CustomsInv, Grows
<1> QED BY <1>1, <1>2, DriveInv, CallerStepInv, SweeperInv DEF Next

\* Every wait, claim, success and decision in progress has its ground in the stream.
THEOREM CustomsInvariant == Spec => []CustomsInv
BY CustomsInit, CustomsNext, PTL DEF Spec

\* The events, their fold and the verbs in progress are well formed, and waits and claims are
\* named by the events that opened them (projection.rs).
THEOREM TypeInvariant == Spec => []TypeOK
<1>1. CustomsInv => TypeOK
  <2> SUFFICES ASSUME CustomsInv PROVE TypeOK
    OBVIOUS
  <2>0. StreamInv /\ ActorInv /\ head \in Nat
    BY HeadType DEF CustomsInv
  <2>1. /\ \A i \in 1 .. head : stream[i] \in VerbEvents(i - 1) \cup SweepEvents(i - 1)
        /\ proj.states \in [Nodes -> NodeState]
        /\ proj.marked \subseteq 1 .. head
    BY <2>0 DEF StreamInv, Projection
  <2>2. \A n \in Nodes :
            /\ \/ proj.waits[n] = NoWait
               \/ stream[proj.waits[n].at] = OutcomeRecorded(n, "WaitingInput")
            /\ proj.states[n] = "WaitingInput" <=> proj.waits[n].at # 0
    BY <2>0 DEF StreamInv, WaitNamed
  <2>3. \A c \in proj.claims : stream[c.seq] = CompletionClaimed(c.node, c.wait, c.bundle)
    BY <2>0 DEF StreamInv, ClaimsGrounded, Testimony
  <2>4. /\ now \in 0 .. MaxTime /\ quiet \in 0 .. MaxQuiet
        /\ \A d \in Drives, n \in Nodes : drv[d][n] \in {"executed", "decided", "done"}
    BY <2>0 DEF ActorInv
  <2>5. ASSUME NEW p \in Callers
        PROVE  /\ call[p].pc \in {"idle", "claim", "clear", "cancelling", "cancel", "complete"}
               /\ call[p].at \in 0 .. head + 1 /\ call[p].todo \subseteq Nodes
               /\ call[p].pending = <<>> \/ call[p].pending[1] \in VerbEvents(call[p].at - 1)
               /\ call[p].pending = <<>> <=> call[p].pc \in {"idle", "cancelling"}
    <3>1. call[p] \in Call /\ CallerInv(p)
      BY <2>0 DEF ActorInv
    <3>2. /\ call[p].pc \in {"idle", "claim", "clear", "cancelling", "cancel", "complete"}
          /\ call[p].todo \subseteq Nodes
      BY <3>1 DEF Call
    <3> QED BY <3>1, <3>2 DEF CallerInv
  <2>6. swp \in [Sweepers -> Sweeps(head + 1)]
    <3>1. SUBSET (1 .. head) \subseteq SUBSET (1 .. head + 1)
      BY <2>0
    <3>2. Sweeping(head) \subseteq Sweeps(head + 1)
      BY <2>0, <3>1 DEF Sweeping, Sweeps
    <3> QED BY <2>0, <3>2 DEF ActorInv
  <2> QED BY <2>1, <2>2, <2>3, <2>4, <2>5, <2>6 DEF TypeOK
<1> QED BY <1>1, CustomsInvariant, PTL

\* A gated node succeeds only on testimony for its own park, with the declared proof, under a
\* clearance that presents its digest; no node has two open claims, and the stream always
\* replays: whatever drives, callers and sweeps do at the same time (customs.rs, projection.rs).
THEOREM ClearanceSoundAlways == Spec => []ClearanceSound
<1>1. CustomsInv => ClearanceSound
  <2> SUFFICES ASSUME CustomsInv PROVE ClearanceSound
    OBVIOUS
  <2>1. Readable /\ \A c, d \in proj.claims : c.node = d.node => c = d
    BY DEF CustomsInv, StreamInv, ClaimsGrounded, Readable
  <2>2. ASSUME NEW n \in Nodes, proj.states[n] = "Succeeded"
        PROVE  \E w, c, k \in 1 .. head :
                   /\ w < c /\ c < k
                   /\ \A i \in w + 1 .. c - 1 :
                         ~(stream[i].kind = "outcome" /\ stream[i].node = n)
                   /\ stream[w] = OutcomeRecorded(n, "WaitingInput")
                   /\ stream[k].kind = "cleared" /\ stream[k].claim = c
                   /\ stream[c] = CompletionClaimed(n, w, stream[k].digest)
                   /\ n \in Declared => stream[k].digest \in Sufficient
    <3>1. PICK w \in 1 .. head, c \in 1 .. head, k \in 1 .. head :
              /\ c < k
              /\ stream[k].kind = "cleared" /\ stream[k].claim = c
              /\ Testimony(n, w, c, stream[k].digest)
      BY <2>2 DEF CustomsInv, StreamInv, Released
    <3> QED BY <3>1 DEF Testimony, Silent
  <2> QED BY <2>1, <2>2 DEF ClearanceSound
<1> QED BY <1>1, CustomsInvariant, PTL

-----------------------------------------------------------------------------
(* Exceptions *)

\* What was raised is marked.  A sweep under way may hold what a rival has marked since its read,
\* and nothing that its own sweeper has raised.
MarkInv ==
    /\ \A i \in 1 .. head : stream[i].kind = "swept" => stream[i].overdue \subseteq proj.marked
    /\ RaisedOncePerSweeper
    /\ \A i \in 1 .. head : stream[i].kind = "swept"
          => stream[i].overdue \cap swp[stream[i].caller].overdue = {}

\* Only a sweep marks.
LEMMA MarkedByVerb ==
    ASSUME StreamInv, NEW e \in VerbEvent, Append1(e)
    PROVE  proj'.marked = proj.marked /\ e.kind # "swept"
<1>1. e \in Event /\ e.kind \in {"outcome", "claimed", "cleared", "refused", "completed"}
  BY DEF VerbEvent, Event, CompletionRefused, ExecutionCompleted
<1>2. proj' = apply_projection_event(proj, head + 1, now, e)
  BY <1>1, Appended DEF StreamInv
<1>3. \A p \in Projection : \A n : release(p, n).marked = p.marked
  BY DEF release, Projection
<1>4. apply_outcome(proj, head + 1, now, e).marked = proj.marked
  BY DEF apply_outcome, StreamInv, Projection
<1>5. apply_claimed(proj, head + 1, now, e).marked = proj.marked
  BY DEF apply_claimed, StreamInv, Projection
<1>6. apply_cleared(proj, e).marked = proj.marked
  <2> DEFINE under == {c \in proj.claims : c.seq = e.claim}
             spent == [proj EXCEPT !.claims = @ \ under]
             c == CHOOSE x \in under : TRUE
  <2>1. apply_cleared(proj, e) = IF under = {} THEN [proj EXCEPT !.corrupt = TRUE]
                                 ELSE IF verdict(c, e) THEN release(spent, c.node) ELSE spent
    BY DEF apply_cleared
  <2>2. spent \in Projection /\ spent.marked = proj.marked
    BY DEF StreamInv, Projection
  <2>3. [proj EXCEPT !.corrupt = TRUE].marked = proj.marked
    BY DEF StreamInv, Projection
  <2> HIDE DEF under, spent, c
  <2> QED BY <1>3, <2>1, <2>2, <2>3
<1>7. [proj EXCEPT !.completed = TRUE].marked = proj.marked
  BY DEF StreamInv, Projection
<1> QED BY <1>1, <1>2, <1>4, <1>5, <1>6, <1>7 DEF apply_projection_event

LEMMA MarkKept ==
    ASSUME StreamInv, MarkInv, UNCHANGED swp,
           UNCHANGED <<stream, proj>> \/ \E e \in VerbEvent : Append1(e)
    PROVE  MarkInv'
<1>1. CASE UNCHANGED <<stream, proj>>
  BY <1>1 DEF MarkInv, RaisedOncePerSweeper, RaisedAgain, head
<1>2. ASSUME NEW e \in VerbEvent, Append1(e)
      PROVE  MarkInv'
  <2>1. /\ head \in Nat /\ head' = head + 1 /\ stream'[head + 1] = e
        /\ \A i \in 1 .. head : stream'[i] = stream[i]
    BY <1>2, EventTypes, Appended DEF StreamInv
  <2>2. proj'.marked = proj.marked /\ e.kind # "swept"
    BY <1>2, MarkedByVerb
  <2>3. ASSUME NEW i \in 1 .. head', stream'[i].kind = "swept"
        PROVE  i \in 1 .. head /\ stream'[i] = stream[i]
    BY <2>1, <2>2, <2>3
  <2> QED BY <2>2, <2>3 DEF MarkInv, RaisedOncePerSweeper, RaisedAgain
<1> QED BY <1>1, <1>2

\* Whoever is not a sweeper appends events of verbs only.
LEMMA VerbsAppend ==
    ASSUME CustomsInv, [Next]_vars, ~\E s \in Sweepers : SweeperStep(s)
    PROVE  /\ UNCHANGED swp
           /\ UNCHANGED <<stream, proj>> \/ \E e \in VerbEvent : Append1(e)
<1>1. ASSUME NEW d \in Drives, NEW n \in Nodes,
             DriveDecide(d, n) \/ DrivePark(d, n) \/ DriveLost(d, n)
      PROVE  /\ UNCHANGED swp
             /\ UNCHANGED <<stream, proj>> \/ \E e \in VerbEvent : Append1(e)
  BY <1>1, EventTypes DEF DriveDecide, DrivePark, DriveLost
<1>2. ASSUME NEW p \in Callers, CallAppend(p)
      PROVE  UNCHANGED swp /\ \E e \in VerbEvent : Append1(e)
  <2>1. call[p] \in Call /\ call[p].pending # <<>>
    BY <1>2 DEF CallAppend, CustomsInv, ActorInv
  <2>2. call[p].pending[1] \in VerbEvent
    BY <2>1 DEF Call
  <2> QED BY <1>2, <2>2 DEF CallAppend
<1>3. ASSUME NEW p \in Callers, CallerStep(p), ~CallAppend(p)
      PROVE  UNCHANGED <<swp, stream, proj>>
  BY <1>3 DEF CallerStep, Claim, Clear, Cancel, CancelNode, CancelSettle, CallLost
<1>4. CASE ClockTick \/ UNCHANGED vars
  BY <1>4 DEF ClockTick, vars
<1> QED BY <1>1, <1>2, <1>3, <1>4 DEF Next

LEMMA MarkSweep ==
    ASSUME CustomsInv, MarkInv, NEW s \in Sweepers, SweeperStep(s)
    PROVE  MarkInv'
<1>0. StreamInv /\ swp \in [Sweepers -> Sweeping(head)] /\ head \in Nat
  BY HeadType DEF CustomsInv, ActorInv
<1>1. \A i \in 1 .. head : stream[i].kind = "swept" => stream[i].caller \in Sweepers
  BY <1>0 DEF StreamInv, VerbEvents, SweepEvents, CompletionRefused, ExecutionCompleted
<1>2. \A r \in Sweepers : r # s => swp'[r] = swp[r]
  BY <1>0 DEF SweeperStep, SweepRead, SweepPlace, SweepAppend
<1>3. CASE SweepRead(s)
  <2>1. PICK asOf \in 0 .. now :
            swp' = [swp EXCEPT ![s] = [pc |-> "read", at |-> 0, overdue |-> overdue_at(asOf)]]
    BY <1>3 DEF SweepRead
  <2>2. swp'[s].overdue = overdue_at(asOf) /\ UNCHANGED <<stream, proj>>
    BY <1>0, <1>3, <2>1 DEF SweepRead
  <2>3. overdue_at(asOf) \cap proj.marked = {}
    BY DEF overdue_at
  <2>4. ASSUME NEW i \in 1 .. head, stream[i].kind = "swept"
        PROVE  stream[i].overdue \cap swp'[stream[i].caller].overdue = {}
    <3>1. CASE stream[i].caller = s
      BY <2>2, <2>3, <2>4, <3>1 DEF MarkInv
    <3>2. CASE stream[i].caller # s
      BY <1>1, <1>2, <2>4, <3>2 DEF MarkInv
    <3> QED BY <3>1, <3>2
  <2> QED BY <2>2, <2>4 DEF MarkInv, RaisedOncePerSweeper, RaisedAgain, head
<1>4. CASE SweepPlace(s)
  <2>1. UNCHANGED <<stream, proj>> /\ \A r \in Sweepers : swp'[r].overdue = swp[r].overdue
    BY <1>0, <1>4 DEF SweepPlace, Sweeping
  <2> QED BY <1>1, <2>1 DEF MarkInv, RaisedOncePerSweeper, RaisedAgain, head
<1>5. CASE SweepAppend(s)
  <2>1. swp'[s].overdue = {}
    BY <1>0, <1>5 DEF SweepAppend, Unswept
  <2>2. ASSUME NEW i \in 1 .. head, stream[i].kind = "swept"
        PROVE  stream[i].overdue \cap swp'[stream[i].caller].overdue = {}
    BY <1>1, <1>2, <2>1, <2>2 DEF MarkInv
  <2>3. CASE UNCHANGED <<stream, proj>>
    BY <2>2, <2>3 DEF MarkInv, RaisedOncePerSweeper, RaisedAgain, head
  <2>4. CASE Append1(SweepPerformed(s, swp[s].overdue))
    <3>1. PICK e : e = SweepPerformed(s, swp[s].overdue)
      OBVIOUS
    <3>2. /\ e \in Event /\ e.kind = "swept" /\ e.caller = s /\ e.overdue = swp[s].overdue
          /\ Append1(e)
      <4>1. swp[s].overdue \in SUBSET Nat
        BY <1>0 DEF Sweeping
      <4> QED BY <2>4, <3>1, <4>1, EventTypes DEF SweepPerformed
    <3>3. /\ head' = head + 1 /\ stream'[head + 1] = e
          /\ \A i \in 1 .. head : stream'[i] = stream[i]
          /\ proj' = apply_projection_event(proj, head + 1, now, e)
      BY <1>0, <3>2, Appended DEF StreamInv
    <3>4. proj'.marked = proj.marked \cup e.overdue
      BY <1>0, <3>2, <3>3 DEF apply_projection_event, StreamInv, Projection
    <3>5. \A i \in 1 .. head : stream[i].kind = "swept" /\ stream[i].caller = s
              => stream[i].overdue \cap e.overdue = {}
      BY <3>2 DEF MarkInv
    <3>6. ASSUME NEW i \in 1 .. head', NEW j \in 1 .. head', RaisedAgain(i, j)'
          PROVE  stream'[i].caller # stream'[j].caller
      <4>0. /\ i # j /\ stream'[i].kind = "swept" /\ stream'[j].kind = "swept"
            /\ stream'[i].overdue \cap stream'[j].overdue # {}
        BY <3>6 DEF RaisedAgain
      <4>1. CASE i = head + 1
        <5>1. j \in 1 .. head
          BY <1>0, <3>3, <4>0, <4>1
        <5> QED BY <3>2, <3>3, <3>5, <4>0, <4>1, <5>1
      <4>2. CASE j = head + 1
        <5>1. i \in 1 .. head
          BY <1>0, <3>3, <4>0, <4>2
        <5> QED BY <3>2, <3>3, <3>5, <4>0, <4>2, <5>1
      <4>3. CASE i # head + 1 /\ j # head + 1
        <5>1. i \in 1 .. head /\ j \in 1 .. head
          BY <1>0, <3>3, <4>3
        <5> QED BY <3>3, <4>0, <5>1 DEF MarkInv, RaisedOncePerSweeper, RaisedAgain
      <4> QED BY <4>1, <4>2, <4>3
    <3>7. ASSUME NEW i \in 1 .. head', stream'[i].kind = "swept"
          PROVE  /\ stream'[i].overdue \subseteq proj'.marked
                 /\ stream'[i].overdue \cap swp'[stream'[i].caller].overdue = {}
      <4>1. CASE i = head + 1
        BY <2>1, <3>2, <3>3, <3>4, <4>1
      <4>2. CASE i # head + 1
        <5>1. i \in 1 .. head
          BY <1>0, <3>3, <4>2
        <5> QED BY <2>2, <3>3, <3>4, <3>7, <5>1 DEF MarkInv
      <4> QED BY <4>1, <4>2
    <3> QED BY <3>6, <3>7 DEF MarkInv, RaisedOncePerSweeper
  <2> QED BY <1>5, <2>3, <2>4 DEF SweepAppend
<1> QED BY <1>3, <1>4, <1>5 DEF SweeperStep

\* For any number of sweepers, an episode that has two exceptions has them from two different ones:
\* nobody raises what it has raised, although the sweep reads, places and appends in three touches of
\* the store (sweep.rs, exception_marked).
THEOREM RaisedOncePerSweeperAlways == Spec => []RaisedOncePerSweeper
<1>1. Init => MarkInv
  <2> SUFFICES ASSUME Init PROVE MarkInv
    OBVIOUS
  <2>1. head = 0
    BY DEF Init, head
  <2> QED BY <2>1 DEF MarkInv, RaisedOncePerSweeper
<1>2. CustomsInv /\ MarkInv /\ [Next]_vars => MarkInv'
  <2> SUFFICES ASSUME CustomsInv, MarkInv, [Next]_vars PROVE MarkInv'
    OBVIOUS
  <2>1. CASE \E s \in Sweepers : SweeperStep(s)
    BY <2>1, MarkSweep
  <2>2. CASE ~\E s \in Sweepers : SweeperStep(s)
    BY <2>2, VerbsAppend, MarkKept DEF CustomsInv
  <2> QED BY <2>1, <2>2
<1>3. MarkInv => RaisedOncePerSweeper
  BY DEF MarkInv
<1> QED BY <1>1, <1>2, <1>3, CustomsInvariant, PTL DEF Spec
=============================================================================
