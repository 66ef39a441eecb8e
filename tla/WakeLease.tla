----------------------------- MODULE WakeLease -----------------------------
(* The wake doorbell: sleepers that arm a lease in the execution's stream and block on a      *)
(* rendezvous (execution/wake.rs, wake_wait.rs), and the sweeps serve starts after each       *)
(* mutation (serve/wake.rs), which ring every due lease and then record its consumption.      *)
(* An append is a compare-and-set on the stream's head; no lock spans a read and an append.   *)
EXTENDS Naturals, Sequences, FiniteSets

CONSTANTS
    Sessions,     \* sleepers; each has one fixed rendezvous
    Sweeps,       \* slots for sweep tasks: how many can be under way at once
    Audiences,    \* the sets of sessions an append is content for; {} is lane bookkeeping
    MaxContent,   \* bound: content events in the stream
    MaxArmings,   \* bound: armings in the stream
    MaxAttempts,  \* ARM_APPEND_ATTEMPTS
    MaxCrashes    \* bound: crashes of serve and kills of waiters

ASSUME AudiencesAssumption == Audiences \subseteq SUBSET Sessions
ASSUME BoundsAssumption ==
    MaxContent \in Nat /\ MaxArmings \in Nat /\ MaxAttempts \in Nat \ {0} /\ MaxCrashes \in Nat

VARIABLES
    log,      \* the execution's stream
    sleeper,  \* per session: the host's loop and its waiter process
    sweep,    \* per slot: one sweep task
    crashes

vars == <<log, sleeper, sweep, crashes>>

Content(to)            == [kind |-> "content",  to |-> to,  at |-> 0, reason |-> "none"]
Lease(s, cursor)       == [kind |-> "lease",    to |-> {s}, at |-> cursor, reason |-> "none"]
Consumed(s, arming, r) == [kind |-> "consumed", to |-> {s}, at |-> arming, reason |-> r]

Events == [kind: {"content", "lease", "consumed"}, to: SUBSET Sessions, at: Nat,
           reason: {"none", "rung", "stale_rendezvous"}]

ArmPcs  == {"armHead", "armAppend"}
WaitPcs == {"armed", "bind", "validate", "receipt", "wait", "matured"}

\* arming 0: the answer is about no lease, or there is none yet.
NoAnswer == [arming |-> 0, result |-> "none", head |-> 0]

Sleepers ==
    [pc: {"awake", "read"} \cup ArmPcs \cup WaitPcs, seen: Nat, cursor: Nat, next: Nat,
     attempts: 0 .. MaxAttempts, arming: Nat, byte: BOOLEAN,
     answer: [arming: Nat, result: {"none", "rung", "missed", "silent", "refused"}, head: Nat]]

Awake == [pc |-> "awake", seen |-> 0, cursor |-> 0, next |-> 0, attempts |-> 0,
          arming |-> 0, byte |-> FALSE, answer |-> NoAnswer]

Captures == [session: Sessions, arming: Nat]

IdleSweep == [pc |-> "idle", todo |-> {}, done |-> {}, next |-> 0]

Init ==
    /\ log = <<>>
    /\ sleeper = [s \in Sessions |-> Awake]
    /\ sweep = [t \in Sweeps |-> IdleSweep]
    /\ crashes = 0

(* The fold of the projection *)

\* After n events the lease armed at sequence a is the session's live one: a re-arm replaces it,
\* a consumption removes whichever lease is live.
LiveAfter(h, n, s, a) ==
    /\ a \in 1 .. n /\ h[a].kind = "lease" /\ s \in h[a].to
    /\ \A j \in a + 1 .. n : h[j].kind # "content" => s \notin h[j].to

Live(h, s, a) == LiveAfter(h, Len(h), s, a)

\* The stream replays: history cannot burn a lease that was never armed.
Replays(h) ==
    \A i \in DOMAIN h : h[i].kind = "consumed"
        => \A s \in h[i].to : \E a \in 1 .. i - 1 : LiveAfter(h, i - 1, s, a)

\* The consumption at i burned the lease armed at a.
Burns(h, s, a, i) ==
    h[i].kind = "consumed" /\ s \in h[i].to /\ LiveAfter(h, i - 1, s, a)

----------------------------------------------------------------------------
\* How many events of a kind the stream holds.
Count(kind) == Cardinality({i \in DOMAIN log : log[i].kind = kind})

(* The sleeper: read, arm, wait, answer *)

Set(s, state) == sleeper' = [sleeper EXCEPT ![s] = state]

\* What the session keeps between two calls: how far it has read.
Rested(s) == [Awake EXCEPT !.seen = sleeper[s].seen]

\* The host reads the stream through its head before it arms.
HostRead(s) ==
    /\ sleeper[s].pc = "awake" \/ (sleeper[s].pc = "read" /\ sleeper[s].seen < Len(log))
    /\ Set(s, [sleeper[s] EXCEPT !.pc = "read", !.seen = Len(log), !.answer = NoAnswer])
    /\ UNCHANGED <<log, sweep, crashes>>

\* arm, its first read: the cursor is the caller's, or the head of this history, and stays fixed.
ArmRead(s) ==
    /\ sleeper[s].pc = "read"
    /\ Count("lease") < MaxArmings
    /\ Replays(log)
    /\ \E cursor \in {sleeper[s].seen, Len(log)} :
          Set(s, [sleeper[s] EXCEPT !.pc = "armHead", !.cursor = cursor])
    /\ UNCHANGED <<log, sweep, crashes>>

\* append_record_at_head: the sequence is asked for on each attempt.
ArmHead(s) ==
    /\ sleeper[s].pc = "armHead"
    /\ Set(s, [sleeper[s] EXCEPT !.pc = "armAppend", !.next = Len(log) + 1, !.attempts = @ + 1])
    /\ UNCHANGED <<log, sweep, crashes>>

\* A route whose append is durable starts a sweep and does not wait for it.
Spawn ==
    LET idle == {t \in Sweeps : sweep[t].pc = "idle"}
    IN  idle # {} /\ sweep' = [sweep EXCEPT ![CHOOSE t \in idle : TRUE].pc = "due"]

ArmAppend(s) ==
    /\ sleeper[s].pc = "armAppend"
    /\ sleeper[s].next = Len(log) + 1
    /\ log' = Append(log, Lease(s, sleeper[s].cursor))
    /\ Set(s, [Rested(s) EXCEPT !.pc = "armed"])
    /\ Spawn
    /\ UNCHANGED crashes

\* Mutant of ArmConflict: the bound is tested after the next attempt instead of before it.
ArmConflict_Late(s) ==
    /\ sleeper[s].pc = "armAppend"
    /\ sleeper[s].next # Len(log) + 1
    /\ Set(s, IF sleeper[s].attempts <= MaxAttempts
              THEN [sleeper[s] EXCEPT !.pc = "armHead", !.next = 0] ELSE Rested(s))
    /\ UNCHANGED <<log, sweep, crashes>>

\* A lost race re-reads the head and appends again; the last loss is reported.
ArmConflict(s) ==
    /\ sleeper[s].pc = "armAppend"
    /\ sleeper[s].next # Len(log) + 1
    /\ Set(s, IF sleeper[s].attempts < MaxAttempts
              THEN [sleeper[s] EXCEPT !.pc = "armHead", !.next = 0] ELSE Rested(s))
    /\ UNCHANGED <<log, sweep, crashes>>

\* wake-wait ends and the host learns the result; the next turn of the loop is another arming.
Answered(s, arming, result) ==
    Set(s, [Rested(s) EXCEPT
              !.answer = [arming |-> arming, result |-> result, head |-> Len(log)]])

\* run: the first read. No live lease refuses; a horizon already past answers at once.
ReadOwnLease(s) ==
    /\ sleeper[s].pc = "armed"
    /\ \/ \E a \in DOMAIN log, pc \in {"bind", "matured"} :
             /\ Replays(log) /\ Live(log, s, a)
             /\ Set(s, [sleeper[s] EXCEPT !.pc = pc, !.arming = a])
       \/ /\ ~Replays(log) \/ \A a \in DOMAIN log : ~Live(log, s, a)
          /\ Answered(s, 0, "refused")
    /\ UNCHANGED <<log, sweep, crashes>>

\* wait_validated creates the rendezvous; from here a ring can reach it.
Bind(s) ==
    /\ sleeper[s].pc = "bind"
    /\ Set(s, [sleeper[s] EXCEPT !.pc = "validate"])
    /\ UNCHANGED <<log, sweep, crashes>>

\* validate_same_lease, its second read: still the captured arming, or ask the receipt why not.
Validate(s) ==
    /\ sleeper[s].pc = "validate"
    /\ Set(s, [sleeper[s] EXCEPT
                 !.pc = IF Replays(log) /\ Live(log, s, sleeper[s].arming)
                        THEN "wait" ELSE "receipt"])
    /\ UNCHANGED <<log, sweep, crashes>>

\* Mutant of missed_ring: the session's newest receipt (wake_last_consumed) instead of the log.
missed_ring_Newest(h, s, a) ==
    \E i \in DOMAIN h : /\ h[i].kind = "consumed" /\ s \in h[i].to /\ h[i].reason = "rung"
                        /\ \A j \in DOMAIN h : j > i /\ h[j].kind = "consumed" => s \notin h[j].to

\* receipt_at_deadline walks the log: this arming was burned as rung by a burn aimed at it.
missed_ring(h, s, a) ==
    /\ Replays(h) /\ Len(h) >= a
    /\ \E i \in DOMAIN h : Burns(h, s, a, i) /\ h[i].reason = "rung" /\ h[i].at = a

\* The startup answer and the deadline answer each come from one read of the receipt.
ReadReceipt(s) ==
    /\ sleeper[s].pc \in {"receipt", "matured"}
    /\ LET rung == missed_ring(log, s, sleeper[s].arming)
       IN  Answered(s, sleeper[s].arming,
                    IF sleeper[s].pc = "receipt" THEN IF rung THEN "rung" ELSE "refused"
                    ELSE IF rung THEN "missed" ELSE "silent")
    /\ UNCHANGED <<log, sweep, crashes>>

\* A connection with its byte ends the wait.
Accept(s) ==
    /\ sleeper[s].pc = "wait" /\ sleeper[s].byte
    /\ Answered(s, sleeper[s].arming, "rung")
    /\ UNCHANGED <<log, sweep, crashes>>

\* Mutant of Deadline: the timeout waits for a receipt to report.
Deadline_OnReceipt(s) ==
    /\ sleeper[s].pc = "wait"
    /\ missed_ring(log, s, sleeper[s].arming)
    /\ Set(s, [sleeper[s] EXCEPT !.pc = "matured"])
    /\ UNCHANGED <<log, sweep, crashes>>

\* The dead-man timer. A byte that arrived after the last accept is lost with the listener.
Deadline(s) ==
    /\ sleeper[s].pc = "wait"
    /\ Set(s, [sleeper[s] EXCEPT !.pc = "matured", !.byte = FALSE])
    /\ UNCHANGED <<log, sweep, crashes>>

\* The waiter process is killed; what its host does next is the next turn of the loop.
Kill(s) ==
    /\ sleeper[s].pc \in WaitPcs
    /\ crashes < MaxCrashes /\ crashes' = crashes + 1
    /\ Set(s, Rested(s))
    /\ UNCHANGED <<log, sweep>>

Listening(s) == sleeper[s].pc \in {"validate", "receipt", "wait"}

----------------------------------------------------------------------------
(* The sweep *)

\* A mutation route: its append, then a sweep.
Mutate(to) ==
    /\ Count("content") < MaxContent
    /\ log' = Append(log, Content(to))
    /\ Spawn
    /\ UNCHANGED <<sleeper, crashes>>

\* An append that no mutation route made, such as a drive's: nothing sweeps after it.
DriveAppend(to) ==
    /\ Count("content") < MaxContent
    /\ log' = Append(log, Content(to))
    /\ UNCHANGED <<sleeper, sweep, crashes>>

\* The live leases whose cursor lies before content for their session.
due_leases(h) ==
    {c \in [session: Sessions, arming: DOMAIN h] :
        /\ Replays(h) /\ Live(h, c.session, c.arming)
        /\ \E i \in DOMAIN h :
              i > h[c.arming].at /\ h[i].kind = "content" /\ c.session \in h[i].to}

\* Phase 1: what is due.
Capture(t) ==
    /\ sweep[t].pc = "due"
    /\ LET due == due_leases(log)
       IN  sweep' = [sweep EXCEPT ![t] = IF due = {} THEN IdleSweep
                                         ELSE [IdleSweep EXCEPT !.pc = "ring", !.todo = due]]
    /\ UNCHANGED <<log, sleeper, crashes>>

\* The ring of c returned: join_next collects its reason.
Joined(t, c, reason) ==
    sweep' = [sweep EXCEPT ![t].todo = @ \ {c},
                           ![t].pc = IF sweep[t].todo = {c} THEN "record" ELSE "ring",
                           ![t].done = @ \cup {Consumed(c.session, c.arming, reason)}]

\* Phase 2: one content-free byte to whoever listens on the session's rendezvous.
Ring(t, c) ==
    /\ sweep[t].pc = "ring" /\ Listening(c.session)
    /\ Set(c.session, [sleeper[c.session] EXCEPT !.byte = TRUE])
    /\ Joined(t, c, "rung")
    /\ UNCHANGED <<log, crashes>>

\* Nobody listens and RENDEZVOUS_GRACE is over, or the sleeper left before the byte was written.
GiveUp(t, c) ==
    /\ sweep[t].pc = "ring" /\ ~Listening(c.session)
    /\ Joined(t, c, "stale_rendezvous")
    /\ UNCHANGED <<log, sleeper, crashes>>

\* Mutant of still_live: the session, whose rendezvous never changes, instead of the arming.
still_live_BySession(h, done) ==
    {e \in done : \E s \in e.to, a \in DOMAIN h : Live(h, s, a)}

\* Blade one: the lease is live and is still the same arming.
still_live(h, done) == {e \in done : \E s \in e.to : Live(h, s, e.at)}

\* Phase 3, the read: the batch is decided and its sequence pinned on one history.
Record(t) ==
    /\ sweep[t].pc = "record"
    /\ LET batch == IF Replays(log) THEN still_live(log, sweep[t].done) ELSE {}
       IN  sweep' = [sweep EXCEPT ![t] = IF batch = {} THEN IdleSweep
                                         ELSE [pc |-> "append", todo |-> {}, done |-> batch,
                                               next |-> Len(log) + 1]]
    /\ UNCHANGED <<log, sleeper, crashes>>

\* A batch is written in the order its rings joined, which is any.
Orders(S) == {q \in [1 .. Cardinality(S) -> S] : \A i, j \in DOMAIN q : i # j => q[i] # q[j]}

\* Mutant of RecordAppend: the next sequence is asked for when the batch is appended.
RecordAppend_AtHead(t) ==
    /\ sweep[t].pc = "append"
    /\ \E batch \in Orders(sweep[t].done) : log' = log \o batch
    /\ sweep' = [sweep EXCEPT ![t] = IdleSweep]
    /\ UNCHANGED <<sleeper, crashes>>

\* Blade two: the store refuses a pin that went stale, and the sweep ends without a retry.
RecordAppend(t) ==
    /\ sweep[t].pc = "append"
    /\ IF sweep[t].next = Len(log) + 1
       THEN \E batch \in Orders(sweep[t].done) : log' = log \o batch
       ELSE UNCHANGED log
    /\ sweep' = [sweep EXCEPT ![t] = IdleSweep]
    /\ UNCHANGED <<sleeper, crashes>>

\* Serve dies: its sweeps are gone and the armings it was serving fail.
ServeCrash ==
    /\ crashes < MaxCrashes /\ crashes' = crashes + 1
    /\ sweep' = [t \in Sweeps |-> IdleSweep]
    /\ sleeper' = [s \in Sessions |->
                     IF sleeper[s].pc \in ArmPcs THEN Rested(s) ELSE sleeper[s]]
    /\ UNCHANGED log

----------------------------------------------------------------------------

SleeperStep(s) ==
    \/ HostRead(s) \/ ArmHead(s) \/ ArmAppend(s) \/ ArmConflict(s) \/ ReadOwnLease(s)
    \/ Bind(s) \/ Validate(s) \/ ReadReceipt(s) \/ Accept(s) \/ Deadline(s)

SweepStep(t) ==
    \/ Capture(t)
    \/ \E c \in sweep[t].todo : Ring(t, c) \/ GiveUp(t, c)
    \/ Record(t)
    \/ RecordAppend(t)

Next ==
    \/ \E s \in Sessions : SleeperStep(s) \/ ArmRead(s) \/ Kill(s)
    \/ \E t \in Sweeps : SweepStep(t)
    \/ \E to \in Audiences : Mutate(to) \/ DriveAppend(to)
    \/ ServeCrash

Spec == Init /\ [][Next]_vars

\* A host works through its loop, a deadline comes, and the tasks of a live serve make progress.
FairSpec ==
    /\ Spec
    /\ \A s \in Sessions : WF_vars(SleeperStep(s))
    /\ WF_vars(\E t \in Sweeps : SweepStep(t))

----------------------------------------------------------------------------

TypeOK ==
    /\ log \in Seq(Events)
    /\ sleeper \in [Sessions -> Sleepers]
    /\ \A t \in Sweeps :
          /\ sweep[t].pc \in {"idle", "due", "ring", "record", "append"}
          /\ sweep[t].todo \subseteq Captures
          /\ sweep[t].done \subseteq Events
          /\ sweep[t].next \in Nat
    /\ crashes \in 0 .. MaxCrashes

\* The stream always replays: no two racing sweeps, and no sweep racing a re-arm, leave a
\* consumption that burns a lease which is not there (the double consume of hotfix #55).
Replayable == Replays(log)

\* A consumption burns the arming its sweep captured, never the one a woken sleeper put in its
\* place on the same rendezvous (armed_at_sequence in record_consumptions), and only for content
\* past that arming's cursor: neither armings, nor consumptions, nor lane bookkeeping ring
\* (due_leases), so a sleeper that re-arms does not ring itself again.
BurnsAsCaptured ==
    \A i \in DOMAIN log, s \in Sessions :
        \A a \in 1 .. i - 1 : Burns(log, s, a, i) =>
            /\ log[i].at = a
            /\ \E j \in log[a].at + 1 .. i - 1 : log[j].kind = "content" /\ s \in log[j].to

\* What wake-wait answers agrees with what the stream held when it looked: a timeout or a refusal
\* never hides that its own arming was rung (#88, #2283), and a missed ring is never a leftover of
\* an earlier arming of the session.  A waiter that still blocks on an arming recorded as rung has
\* the byte in front of it, so that it will not answer a timeout either.
HonestAnswers ==
    \A s \in Sessions :
        LET answer == sleeper[s].answer
            rung(a, to) == \E i \in 1 .. to : log[i] = Consumed(s, a, "rung")
        IN  /\ answer.result \in {"silent", "refused"} => ~rung(answer.arming, answer.head)
            /\ answer.result = "missed" => rung(answer.arming, answer.head)
            /\ sleeper[s].pc = "wait" /\ rung(sleeper[s].arming, Len(log)) => sleeper[s].byte

\* Content for a session that its host has not read.
Unread(s) == \E i \in DOMAIN log :
                i > sleeper[s].seen /\ log[i].kind = "content" /\ s \in log[i].to

\* Content for a session is eventually read by its host, however the ring was lost: a crash, a
\* record that lost its race, a rendezvous that came too late (the dead-man timer).
NotesAreRead ==
    \A s \in Sessions : Unread(s) ~> ~Unread(s)
=============================================================================
