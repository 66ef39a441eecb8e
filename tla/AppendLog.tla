---------------------------- MODULE AppendLog ----------------------------
(***************************************************************************)
(* What the local event store promises its callers: one append-only log of *)
(* batches.  A batch enters at the end, in its stream's order and once per *)
(* idempotency key; a batch the store has answered for is never lost; a    *)
(* failure may only drop an unanswered end of the log.                     *)
(***************************************************************************)
EXTENDS Naturals, Sequences, FiniteSets

CONSTANT Requests   \* the batches callers may ask to append

VARIABLES
    log,      \* the batches of the store, oldest first
    vouched   \* the batches some answer named as committed

vars == <<log, vouched>>

Entries(l) == {l[i] : i \in DOMAIN l}

\* The idempotency keys that the log holds for a stream.
KeysOf(l, stream) == UNION {b.keys : b \in {e \in Entries(l) : e.stream = stream}}

Init ==
    /\ log = <<>>
    /\ vouched = {}

\* A batch enters whole, at the sequence its caller expected, with keys its stream has not seen.
Commit(r) ==
    /\ r.keys \cap KeysOf(log, r.stream) = {}
    /\ r.expected = Cardinality(KeysOf(log, r.stream)) + 1
    /\ log' = Append(log, r)
    /\ UNCHANGED vouched

\* An answer names batches that are in the log.
Vouch ==
    /\ \E B \in SUBSET Entries(log) : vouched' = vouched \cup B
    /\ UNCHANGED log

\* A failure drops an end of the log that no answer ever named.
Lose(n) ==
    /\ vouched \subseteq Entries(SubSeq(log, 1, n))
    /\ log' = SubSeq(log, 1, n)
    /\ UNCHANGED vouched

Next ==
    \/ \E r \in Requests : Commit(r)
    \/ Vouch
    \/ \E n \in 0 .. Len(log) : Lose(n)

Spec == Init /\ [][Next]_vars
==========================================================================
