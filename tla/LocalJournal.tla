--------------------------- MODULE LocalJournal ---------------------------
(***************************************************************************)
(* The local event store of core/events/src/local.rs: one directory that   *)
(* several processes open, with a journal of batch lines cut into sealed   *)
(* segments, the evidence blobs the lines refer to and the derived active  *)
(* markers.  Appends and recovery hold the store lock exclusively, reads   *)
(* hold it shared.  A process may be killed and the machine may lose power *)
(* between any two writes.                                                 *)
(*                                                                         *)
(* The disk is modelled twice over: what a process sees (journal, tail,    *)
(* seals, blob) and what a power loss keeps (synced, sealSynced, the       *)
(* "durable" entries of blob).                                             *)
(***************************************************************************)
EXTENDS Naturals, Sequences, FiniteSets

CONSTANTS
    Procs,      \* processes that use the store
    Runtime,    \* graphhelm serve: recovers at start-up, keeps a PrefixCache
    Readers,    \* processes that read streams
    Streams,
    Evidence,
    Requests,   \* the prepared appends that callers submit, and submit again
    RotateAt,   \* lines after which the active segment is sealed
    Unlinks,    \* TRUE where a planned delete removes the file (Windows)
    MaxCrashes  \* bound: kills and power losses

RequestShape(r) ==
    /\ DOMAIN r = {"stream", "expected", "keys", "evidence", "refs", "version"}
    /\ r.stream \in Streams
    /\ r.expected \in Nat \ {0}
    /\ IsFiniteSet(r.keys) /\ r.keys # {}
    /\ r.evidence \subseteq r.refs
    /\ r.refs \subseteq Evidence
    /\ r.version \in Nat   \* 0: the batch publishes no graph version

ASSUME ProcsAssumption == Runtime \in Procs /\ Readers \subseteq Procs
ASSUME RequestsAssumption == Requests # {} /\ \A r \in Requests : RequestShape(r)
ASSUME RotateAssumption == RotateAt \in Nat \ {0}
ASSUME PlatformAssumption == Unlinks \in BOOLEAN
ASSUME CrashAssumption == MaxCrashes \in Nat

VARIABLES
    journal,     \* the whole lines of segment 0, then 1, ...: a sequence of requests
    synced,      \* how many of those lines a power loss keeps
    tail,        \* bytes after the last newline: "clean", "torn", or "cut" (truncated, unsynced)
    seals,       \* the seal chain: which lines each seal closes, and the state it records
    sealSynced,  \* how many seals a power loss keeps
    states,      \* the segment indexes whose seal-state file is durable
    blob,        \* [Evidence -> directory entry and bytes of blobs/<id>.json]
    markers,     \* the publications whose active marker is on disk
    writer,      \* the process holding the exclusive lock, if any
    pc,          \* where each process is
    recover,     \* whether the open in progress may trim a torn tail
    req,         \* the request each process is appending
    temp,        \* the bytes of the process's staged evidence
    verified,    \* the journal prefix each process has verified
    watermark,   \* how far a sync of this process covered the active segment
    vouched,     \* batches some append or look-up answered with
    crashes

disk == <<journal, synced, tail, seals, sealSynced, states, blob, markers>>
vars == <<journal, synced, tail, seals, sealSynced, states, blob, markers, writer, pc, recover,
          req, temp, verified, watermark, vouched, crashes>>

----------------------------------------------------------------------------
(* The verifier's state and the journal walk *)

Entries(lines) == {lines[i] : i \in DOMAIN lines}

genesis ==
    [next |-> [s \in Streams |-> 1], keys |-> {}, evidence |-> {},
     version |-> [s \in Streams |-> 0]]

Identities(b) == {<<b.stream, k>> : k \in b.keys}

\* The evidence whose blob reads back whole.
Readable == {e \in Evidence : blob[e].entry # "none" /\ blob[e].bytes # "lost"}

\* One line passes the checks of the walk against the state before it.
line_verifies(st, b) ==
    /\ b.expected = st.next[b.stream]
    /\ Identities(b) \cap st.keys = {}
    /\ b.refs \subseteq Readable \cap (b.evidence \cup st.evidence)
    /\ b.version # 0 => b.version = st.version[b.stream] + 1

after_line(st, b) ==
    [next |-> [st.next EXCEPT ![b.stream] = @ + Cardinality(b.keys)],
     keys |-> st.keys \cup Identities(b),
     evidence |-> st.evidence \cup b.refs,
     version |-> IF b.version = 0 THEN st.version
                 ELSE [st.version EXCEPT ![b.stream] = b.version]]

\* The state after the first i lines.
walked(seed, lines) ==
    LET st[i \in 0 .. Len(lines)] ==
            IF i = 0 THEN seed ELSE after_line(st[i - 1], lines[i])
    IN  st

verify_lines(seed, lines) ==
    \A i \in 1 .. Len(lines) : line_verifies(walked(seed, lines)[i - 1], lines[i])

\* A LoadedState: the segment it is of, the last seal's state, the active segment's batches.
Summary(state) == walked(state.seed, state.batches)[Len(state.batches)]

NoPrefix == [seg |-> 0, seed |-> genesis, batches |-> <<>>]

SealedLines == IF seals = <<>> THEN 0 ELSE seals[Len(seals)].upto
ActiveLines == SubSeq(journal, SealedLines + 1, Len(journal))

\* The verifier context a walk of the active segment starts from.
seeded_ctx ==
    [seg |-> Len(seals),
     seed |-> IF seals = <<>> THEN genesis ELSE seals[Len(seals)].state,
     batches |-> <<>>]

seal_chain_reads == seals # <<>> => Len(seals) - 1 \in states

\* The verified prefix is reused for the same segment file when the file has not shrunk.
reusable(prefix) == prefix.seg = Len(seals) /\ Len(prefix.batches) <= Len(ActiveLines)

start_of(prefix) == IF reusable(prefix) THEN prefix ELSE seeded_ctx

\* The lines past a verified prefix.
suffix_of(prefix) == SubSeq(ActiveLines, Len(start_of(prefix).batches) + 1, Len(ActiveLines))

load_ok(prefix) ==
    /\ tail # "torn"
    /\ seal_chain_reads
    /\ verify_lines(Summary(start_of(prefix)), suffix_of(prefix))

load_state(prefix) ==
    LET start == start_of(prefix)
    IN  [start EXCEPT !.batches = @ \o suffix_of(prefix)]

\* The whole history a loaded state answers from: sealed segments on disk, then its batches.
history(state) == SubSeq(journal, 1, SealedLines) \o state.batches

\* Mutant: the sealed segments' publications are forgotten.
publications_active_only(state) == {b \in Entries(state.batches) : b.version # 0}

publications(state) == {b \in Entries(history(state)) : b.version # 0}

----------------------------------------------------------------------------
(* Durability *)

\* fsync of the active segment: every byte it holds now survives a power loss.
sync_data ==
    /\ synced' = Len(journal)
    /\ tail' = IF tail = "cut" THEN "clean" ELSE tail

\* Mutant: what an earlier writer left unsynced stays so.
sync_loaded_journal_skipped(state) == UNCHANGED <<synced, tail>>

\* The sync of an open, an append and a look-up: skipped when the active segment is empty.
sync_loaded_journal(state) ==
    IF state.batches = <<>> THEN UNCHANGED <<synced, tail>> ELSE sync_data

Mark(state) == [seg |-> state.seg, lines |-> Len(state.batches)]

NoMark == [seg |-> 0, lines |-> 0]

raise_watermark(mark, extent) ==
    IF mark.seg = extent.seg /\ mark.lines >= extent.lines THEN mark ELSE extent

----------------------------------------------------------------------------
(* Opening the store *)

\* Where a process is once its handle is dropped: serve stays up, a one-shot command exits.
Shut(p) == IF p = Runtime THEN "closed" ELSE "down"

\* The start-up open has no PrefixCache, and neither has a one-shot process.
Caches(p) == p = Runtime /\ ~recover[p]

kept(p) == IF Caches(p) THEN verified[p] ELSE NoPrefix

\* The value of req while no append is in progress.
no_request == CHOOSE r \in Requests : TRUE

Init ==
    /\ journal = <<>> /\ synced = 0 /\ tail = "clean"
    /\ seals = <<>> /\ sealSynced = 0 /\ states = {}
    /\ blob = [e \in Evidence |-> [entry |-> "none", bytes |-> "cached"]]
    /\ markers = {}
    /\ writer = {}
    /\ pc = [p \in Procs |-> "down"]
    /\ recover = [p \in Procs |-> FALSE]
    /\ req = [p \in Procs |-> no_request]
    /\ temp = [p \in Procs |-> "none"]
    /\ verified = [p \in Procs |-> NoPrefix]
    /\ watermark = [p \in Procs |-> NoMark]
    /\ vouched = {}
    /\ crashes = 0

\* Mutant: a segmented journal is walked from genesis too.
walk_before_lock_segmented(p) ==
    /\ pc[p] \in {"down", "closed"}
    /\ recover' = [recover EXCEPT ![p] = p = Runtime /\ pc[p] = "down"]
    /\ verified' = [verified EXCEPT ![p] =
           IF @ = NoPrefix /\ verify_lines(genesis, journal)
           THEN [seg |-> 0, seed |-> genesis, batches |-> journal] ELSE @]
    /\ pc' = [pc EXCEPT ![p] = "walked"]
    /\ UNCHANGED <<disk, writer, req, temp, watermark, vouched, crashes>>

\* The walk from genesis of the whole lines of an unsegmented journal, without the store lock:
\* a writer may be in the middle of an append.  The segments directory is made by a rotation,
\* before its state file.
walk_before_lock(p) ==
    /\ pc[p] \in {"down", "closed"}
    /\ recover' = [recover EXCEPT ![p] = p = Runtime /\ pc[p] = "down"]
    /\ verified' = [verified EXCEPT ![p] =
           IF @ = NoPrefix /\ states = {} /\ verify_lines(genesis, journal)
           THEN [seg |-> 0, seed |-> genesis, batches |-> journal] ELSE @]
    /\ pc' = [pc EXCEPT ![p] = "walked"]
    /\ UNCHANGED <<disk, writer, req, temp, watermark, vouched, crashes>>

\* Mutant: evidence of sealed segments counts as unreferenced.
orphans_active_only(state) ==
    {e \in Evidence : blob[e].entry # "none"} \ UNION {b.refs : b \in Entries(state.batches)}

\* Blobs that no line refers to.
orphans(state) == {e \in Evidence : blob[e].entry # "none"} \ Summary(state).evidence

\* The scan plans nothing to remove (always so where a planned delete keeps the file).
is_noop(state) == ~Unlinks \/ orphans(state) = {}

active_markers_clean(state) == publications(state) \subseteq markers

\* The sync of a shared open, skipped when an earlier one covered exactly the extent observed.
\* A longer mark of the same segment is forgotten first, so the new mark is always that extent.
sync_journal_beyond_watermark(p, state) ==
    IF Caches(p) /\ watermark[p] = Mark(state)
    THEN UNCHANGED <<synced, tail, watermark>>
    ELSE /\ sync_loaded_journal(state)
         /\ watermark' = IF Caches(p) THEN [watermark EXCEPT ![p] = Mark(state)] ELSE watermark

\* The shared fast path: a clean store opens without writing anything but a sync.
open_shared_clean(p) ==
    LET state == load_state(verified[p])
    IN  /\ pc[p] = "walked" /\ writer = {}
        /\ load_ok(verified[p]) /\ is_noop(state) /\ active_markers_clean(state)
        /\ sync_journal_beyond_watermark(p, state)
        /\ sealSynced' = Len(seals)
        /\ verified' = [verified EXCEPT ![p] = IF recover[p] THEN NoPrefix ELSE state]
        /\ pc' = [pc EXCEPT ![p] = IF recover[p] THEN "closed" ELSE "open"]
        /\ UNCHANGED <<journal, seals, states, blob, markers, writer, recover, req, temp,
                       vouched, crashes>>

\* Something to recover: the shared lock is released and the exclusive one queued for.
open_shared_dirty(p) ==
    LET state == load_state(verified[p])
    IN  /\ pc[p] = "walked" /\ writer = {}
        /\ \/ tail = "torn" /\ recover[p]
           \/ load_ok(verified[p]) /\ ~(is_noop(state) /\ active_markers_clean(state))
        /\ sealSynced' = Len(seals)
        /\ verified' = [verified EXCEPT ![p] = NoPrefix]
        /\ pc' = [pc EXCEPT ![p] = "upgrade"]
        /\ UNCHANGED <<journal, synced, tail, seals, states, blob, markers, writer, recover, req,
                       temp, watermark, vouched, crashes>>

\* Every other open refuses a torn tail, on either path, and any open a line that fails.
open_refused(p) ==
    /\ pc[p] \in {"walked", "upgrade"} /\ writer = {}
    /\ ~load_ok(NoPrefix)
    /\ ~(tail = "torn" /\ recover[p])
    /\ sealSynced' = Len(seals)
    /\ verified' = [verified EXCEPT ![p] = NoPrefix]
    /\ pc' = [pc EXCEPT ![p] = Shut(p)]
    /\ UNCHANGED <<journal, synced, tail, seals, states, blob, markers, writer, recover, req,
                   temp, watermark, vouched, crashes>>

\* The redo from scratch under the exclusive lock.
open_upgrade(p) ==
    /\ pc[p] = "upgrade" /\ writer = {}
    /\ \/ /\ load_ok(NoPrefix)
          /\ verified' = [verified EXCEPT ![p] = load_state(NoPrefix)]
          /\ pc' = [pc EXCEPT ![p] = "resync"]
       \/ /\ tail = "torn" /\ recover[p]
          /\ verify_lines(seeded_ctx.seed, ActiveLines)
          /\ pc' = [pc EXCEPT ![p] = "trim"]
          /\ UNCHANGED verified
    /\ writer' = {p}
    /\ sealSynced' = Len(seals)
    /\ UNCHANGED <<journal, synced, tail, seals, states, blob, markers, recover, req, temp,
                   watermark, vouched, crashes>>

\* Mutant: the cut falls one newline too early.
trim_torn_tail_one_line_more(p) ==
    /\ pc[p] = "trim"
    /\ tail' = "cut"
    /\ journal' = SubSeq(journal, 1, Len(journal) - 1)
    /\ pc' = [pc EXCEPT ![p] = "trimsync"]
    /\ UNCHANGED <<synced, seals, sealSynced, states, blob, markers, writer, recover,
                   req, temp, verified, watermark, vouched, crashes>>

\* The torn bytes are in quarantine; the journal is cut at its last newline ...
trim_torn_tail(p) ==
    /\ pc[p] = "trim"
    /\ tail' = "cut"
    /\ pc' = [pc EXCEPT ![p] = "trimsync"]
    /\ UNCHANGED <<journal, synced, seals, sealSynced, states, blob, markers, writer, recover,
                   req, temp, verified, watermark, vouched, crashes>>

\* ... then synced, and loaded again.
trim_sync(p) ==
    /\ pc[p] = "trimsync"
    /\ sync_data
    /\ verified' = [verified EXCEPT ![p] = load_state(NoPrefix)]
    /\ pc' = [pc EXCEPT ![p] = "resync"]
    /\ UNCHANGED <<journal, seals, sealSynced, states, blob, markers, writer, recover, req, temp,
                   watermark, vouched, crashes>>

open_resync(p) ==
    /\ pc[p] = "resync"
    /\ sync_loaded_journal(verified[p])
    /\ pc' = [pc EXCEPT ![p] = "reconcile"]
    /\ UNCHANGED <<journal, seals, sealSynced, states, blob, markers, writer, recover, req, temp,
                   verified, watermark, vouched, crashes>>

\* One planned delete: a blob that no line of the loaded history refers to.
reconcile_orphans(p) ==
    /\ pc[p] = "reconcile" /\ Unlinks
    /\ \E e \in orphans(verified[p]) :
          blob' = [blob EXCEPT ![e] = [entry |-> "none", bytes |-> "cached"]]
    /\ UNCHANGED <<journal, synced, tail, seals, sealSynced, states, markers, writer, pc, recover,
                   req, temp, verified, watermark, vouched, crashes>>

\* Missing markers are published again; the open returns and the lock is released.
open_done(p) ==
    /\ pc[p] = "reconcile" /\ is_noop(verified[p])
    /\ markers' = markers \cup publications(verified[p])
    /\ writer' = {}
    /\ verified' = [verified EXCEPT ![p] = IF recover[p] THEN NoPrefix ELSE @]
    /\ pc' = [pc EXCEPT ![p] = IF recover[p] THEN "closed" ELSE "open"]
    /\ UNCHANGED <<journal, synced, tail, seals, sealSynced, states, blob, recover, req, temp,
                   watermark, vouched, crashes>>

close(p) ==
    /\ pc[p] = "open"
    /\ verified' = [verified EXCEPT ![p] = kept(p)]
    /\ pc' = [pc EXCEPT ![p] = Shut(p)]
    /\ UNCHANGED <<disk, writer, recover, req, temp, watermark, vouched, crashes>>

----------------------------------------------------------------------------
(* Appending a batch *)

should_rotate(state) == Len(state.batches) >= RotateAt

\* The exclusive lock, the load, the sync of what an earlier writer may have left unsynced.
append_load(p, r) ==
    LET state == load_state(verified[p])
    IN  /\ pc[p] = "open" /\ writer = {}
        /\ load_ok(verified[p])
        /\ writer' = {p}
        /\ req' = [req EXCEPT ![p] = r]
        /\ sync_loaded_journal(state)
        /\ sealSynced' = Len(seals)
        /\ verified' = [verified EXCEPT ![p] = state]
        /\ pc' = [pc EXCEPT ![p] = IF should_rotate(state) THEN "rotate" ELSE "validate"]
        /\ UNCHANGED <<journal, seals, states, blob, markers, recover, temp, watermark, vouched,
                       crashes>>

\* A load that refuses: the verified prefix was taken out of its slot and is not put back.
load_refused(p) ==
    /\ pc[p] = "open" /\ writer = {}
    /\ ~load_ok(verified[p])
    /\ sealSynced' = Len(seals)
    /\ verified' = [verified EXCEPT ![p] = NoPrefix]
    /\ UNCHANGED <<journal, synced, tail, seals, states, blob, markers, writer, pc, recover, req,
                   temp, watermark, vouched, crashes>>

\* Mutant: the seal is published without its state file.
rotate_state_missing(p) ==
    /\ pc[p] = "rotate"
    /\ sync_data
    /\ pc' = [pc EXCEPT ![p] = "seal"]
    /\ UNCHANGED <<journal, seals, sealSynced, states, blob, markers, writer, recover, req, temp,
                   verified, watermark, vouched, crashes>>

\* Rotation, each step durable before the next: the state file, the seal, the next segment.
rotate_state(p) ==
    /\ pc[p] = "rotate"
    /\ sync_data
    /\ states' = states \cup {Len(seals)}
    /\ pc' = [pc EXCEPT ![p] = "seal"]
    /\ UNCHANGED <<journal, seals, sealSynced, blob, markers, writer, recover, req, temp,
                   verified, watermark, vouched, crashes>>

rotate_seal(p) ==
    /\ pc[p] = "seal"
    /\ seals' = Append(seals, [upto |-> Len(journal), state |-> Summary(verified[p])])
    /\ pc' = [pc EXCEPT ![p] = "next"]
    /\ UNCHANGED <<journal, synced, tail, sealSynced, states, blob, markers, writer, recover, req,
                   temp, verified, watermark, vouched, crashes>>

rotate_next(p) ==
    /\ pc[p] = "next"
    /\ sealSynced' = Len(seals)
    /\ verified' = [verified EXCEPT ![p] = load_state(NoPrefix)]
    /\ pc' = [pc EXCEPT ![p] = "validate"]
    /\ UNCHANGED <<journal, synced, tail, seals, states, blob, markers, writer, recover, req,
                   temp, watermark, vouched, crashes>>

\* The batch of the request's stream that holds one of its keys: at most one does.
batch_holding_keys(state, r) ==
    IF Identities(r) \cap Summary(state).keys = {} THEN {}
    ELSE {b \in Entries(history(state)) : Identities(b) \cap Identities(r) # {}}

references_available(state, r) ==
    r.refs \subseteq r.evidence \cup (Summary(state).evidence \cap Readable)

graph_successor(state, r) ==
    r.version # 0 => r.version = Summary(state).version[r.stream] + 1

sequence_matches(state, r) == r.expected = Summary(state).next[r.stream]

\* A retry of a committed request: its marker is published if missing, its batch is the answer.
append_recorded(p) ==
    /\ pc[p] = "validate"
    /\ references_available(verified[p], req[p])
    /\ batch_holding_keys(verified[p], req[p]) = {req[p]}
    /\ markers' = markers \cup {b \in {req[p]} : b.version # 0}
    /\ vouched' = vouched \cup {req[p]}
    /\ writer' = {}
    /\ req' = [req EXCEPT ![p] = no_request]
    /\ pc' = [pc EXCEPT ![p] = "open"]
    /\ UNCHANGED <<journal, synced, tail, seals, sealSynced, states, blob, recover, temp,
                   verified, watermark, crashes>>

admissible(state, r) ==
    /\ references_available(state, r)
    /\ batch_holding_keys(state, r) = {}
    /\ graph_successor(state, r)
    /\ sequence_matches(state, r)

\* Mutant: the early return keeps the lock.
append_refused_locked(p) ==
    /\ pc[p] = "validate"
    /\ ~admissible(verified[p], req[p])
    /\ ~(/\ references_available(verified[p], req[p])
         /\ batch_holding_keys(verified[p], req[p]) = {req[p]})
    /\ req' = [req EXCEPT ![p] = no_request]
    /\ pc' = [pc EXCEPT ![p] = "open"]
    /\ UNCHANGED <<disk, writer, recover, temp, verified, watermark, vouched, crashes>>

\* Invalid, IdempotencyConflict or SequenceConflict: nothing was written.
append_refused(p) ==
    /\ pc[p] = "validate"
    /\ ~admissible(verified[p], req[p])
    /\ ~(/\ references_available(verified[p], req[p])
         /\ batch_holding_keys(verified[p], req[p]) = {req[p]})
    /\ writer' = {}
    /\ req' = [req EXCEPT ![p] = no_request]
    /\ pc' = [pc EXCEPT ![p] = "open"]
    /\ UNCHANGED <<disk, recover, temp, verified, watermark, vouched, crashes>>

stage_evidence(p) ==
    /\ pc[p] = "validate"
    /\ admissible(verified[p], req[p])
    /\ temp' = [temp EXCEPT ![p] = "cached"]
    /\ pc' = [pc EXCEPT ![p] = "staged"]
    /\ UNCHANGED <<disk, writer, recover, req, verified, watermark, vouched, crashes>>

sync_staged(p) ==
    /\ pc[p] = "staged"
    /\ temp' = [temp EXCEPT ![p] = "synced"]
    /\ pc' = [pc EXCEPT ![p] = "publish"]
    /\ UNCHANGED <<disk, writer, recover, req, verified, watermark, vouched, crashes>>

\* One staged blob is linked to its name; a name already there holds the same bytes.
publish_link(p) ==
    /\ pc[p] = "publish"
    /\ \E e \in req[p].evidence :
          /\ blob[e].entry = "none"
          /\ blob' = [blob EXCEPT ![e] = [entry |-> "linked", bytes |-> temp[p]]]
    /\ UNCHANGED <<journal, synced, tail, seals, sealSynced, states, markers, writer, pc, recover,
                   req, temp, verified, watermark, vouched, crashes>>

\* The blobs directory is synced: every name in it survives a power loss.
publish_staged(p) ==
    /\ pc[p] = "publish"
    /\ \A e \in req[p].evidence : blob[e].entry # "none"
    /\ blob' = [e \in Evidence |->
                  IF blob[e].entry = "linked" THEN [blob[e] EXCEPT !.entry = "durable"]
                  ELSE blob[e]]
    /\ temp' = [temp EXCEPT ![p] = "none"]
    /\ pc' = [pc EXCEPT ![p] = "write"]
    /\ UNCHANGED <<journal, synced, tail, seals, sealSynced, states, markers, writer, recover,
                   req, verified, watermark, vouched, crashes>>

write_line(p) ==
    /\ pc[p] = "write"
    /\ journal' = Append(journal, req[p])
    /\ pc' = [pc EXCEPT ![p] = "written"]
    /\ UNCHANGED <<synced, tail, seals, sealSynced, states, blob, markers, writer, recover, req,
                   temp, verified, watermark, vouched, crashes>>

\* The write stops half way, by an error or because the process is about to die.
write_half_line(p) ==
    /\ pc[p] = "write"
    /\ tail' = "torn"
    /\ writer' = {}
    /\ req' = [req EXCEPT ![p] = no_request]
    /\ pc' = [pc EXCEPT ![p] = "open"]
    /\ UNCHANGED <<journal, synced, seals, sealSynced, states, blob, markers, recover, temp,
                   verified, watermark, vouched, crashes>>

sync_line(p) ==
    /\ pc[p] = "written"
    /\ sync_data
    /\ watermark' = IF Caches(p)
                    THEN [watermark EXCEPT ![p] =
                            raise_watermark(@, [seg |-> Len(seals), lines |-> Len(ActiveLines)])]
                    ELSE watermark
    /\ pc' = [pc EXCEPT ![p] = "mark"]
    /\ UNCHANGED <<journal, seals, sealSynced, states, blob, markers, writer, recover, req, temp,
                   verified, vouched, crashes>>

\* The active marker is published and the envelopes are returned.
append_done(p) ==
    /\ pc[p] = "mark"
    /\ markers' = markers \cup {b \in {req[p]} : b.version # 0}
    /\ vouched' = vouched \cup {req[p]}
    /\ writer' = {}
    /\ req' = [req EXCEPT ![p] = no_request]
    /\ pc' = [pc EXCEPT ![p] = "open"]
    /\ UNCHANGED <<journal, synced, tail, seals, sealSynced, states, blob, recover, temp,
                   verified, watermark, crashes>>

----------------------------------------------------------------------------
(* Reads *)

\* read_stream, read_stream_page, read_replay_stream, scan_replay_stream: the load, no sync.
read_stream(p) ==
    LET state == load_state(verified[p])
    IN  /\ p \in Readers /\ pc[p] = "open" /\ writer = {}
        /\ load_ok(verified[p])
        /\ sealSynced' = Len(seals)
        /\ verified' = [verified EXCEPT ![p] = state]
        /\ UNCHANGED <<journal, synced, tail, seals, states, blob, markers, writer, pc, recover,
                       req, temp, watermark, vouched, crashes>>

\* The idempotency look-up answers "this was committed", so it syncs what it loaded first.
\* It asks for one key of one stream.
committed_events_for_idempotency(p, r, k) ==
    LET state == load_state(verified[p])
    IN  /\ pc[p] = "open" /\ writer = {}
        /\ load_ok(verified[p])
        /\ sync_loaded_journal(state)
        /\ sealSynced' = Len(seals)
        /\ verified' = [verified EXCEPT ![p] = state]
        /\ vouched' = vouched \cup batch_holding_keys(state, [r EXCEPT !.keys = {k}])
        /\ UNCHANGED <<journal, seals, states, blob, markers, writer, pc, recover, req, temp,
                       watermark, crashes>>

----------------------------------------------------------------------------
(* Failures *)

Opening == {"trim", "trimsync", "resync", "reconcile"}
Appending == {"rotate", "seal", "next", "validate", "staged", "publish", "write", "written",
              "mark"}

\* A file operation fails: the operation returns the error and releases the lock.
io_error(p) ==
    /\ pc[p] \in Opening \cup Appending
    /\ writer' = {}
    /\ req' = [req EXCEPT ![p] = no_request]
    /\ temp' = [temp EXCEPT ![p] = "none"]
    /\ verified' = [verified EXCEPT ![p] = IF pc[p] \in Opening THEN kept(p) ELSE @]
    /\ pc' = [pc EXCEPT ![p] = IF @ \in Opening THEN Shut(p) ELSE "open"]
    /\ UNCHANGED <<disk, recover, watermark, vouched, crashes>>

\* A process dies: the lock goes with it, what it wrote stays in the file system's cache.
kill(p) ==
    /\ crashes < MaxCrashes /\ crashes' = crashes + 1
    /\ pc[p] # "down"
    /\ pc' = [pc EXCEPT ![p] = "down"]
    /\ writer' = writer \ {p}
    /\ recover' = [recover EXCEPT ![p] = FALSE]
    /\ req' = [req EXCEPT ![p] = no_request]
    /\ temp' = [temp EXCEPT ![p] = "none"]
    /\ verified' = [verified EXCEPT ![p] = NoPrefix]
    /\ watermark' = [watermark EXCEPT ![p] = NoMark]
    /\ UNCHANGED <<disk, vouched>>

\* What is left of a blob: an unsynced name may go, unsynced bytes are lost.
blob_after_loss(b, b2) ==
    /\ b2.entry \in IF b.entry = "linked" THEN {"none", "durable"} ELSE {b.entry}
    /\ b2.bytes = IF b2.entry # "none" /\ b.bytes = "cached" THEN "lost" ELSE b.bytes

Blobs == [entry : {"none", "linked", "durable"}, bytes : {"cached", "synced", "lost"}]

\* The machine loses power: every process dies and only what was synced is sure to be kept.
power_loss ==
    /\ crashes < MaxCrashes /\ crashes' = crashes + 1
    /\ \E n \in synced .. Len(journal) :
          /\ journal' = SubSeq(journal, 1, n)
          /\ synced' = n
          /\ tail' \in {"clean"} \cup
                       (IF n < Len(journal) \/ tail # "clean" THEN {"torn"} ELSE {})
    /\ \E k \in sealSynced .. Len(seals) : seals' = SubSeq(seals, 1, k) /\ sealSynced' = k
    /\ blob' \in [Evidence -> Blobs]
    /\ \A e \in Evidence : blob_after_loss(blob[e], blob'[e])
    /\ markers' \in SUBSET markers
    /\ writer' = {}
    /\ pc' = [p \in Procs |-> "down"]
    /\ recover' = [p \in Procs |-> FALSE]
    /\ req' = [p \in Procs |-> no_request]
    /\ temp' = [p \in Procs |-> "none"]
    /\ verified' = [p \in Procs |-> NoPrefix]
    /\ watermark' = [p \in Procs |-> NoMark]
    /\ UNCHANGED <<states, vouched>>

----------------------------------------------------------------------------

OpenStep(p) ==
    \/ walk_before_lock(p) \/ open_shared_clean(p) \/ open_shared_dirty(p)
    \/ open_refused(p) \/ open_upgrade(p) \/ trim_torn_tail(p) \/ trim_sync(p)
    \/ open_resync(p) \/ reconcile_orphans(p) \/ open_done(p) \/ close(p)

AppendStep(p) ==
    \/ \E r \in Requests : append_load(p, r)
    \/ load_refused(p)
    \/ rotate_state(p) \/ rotate_seal(p) \/ rotate_next(p)
    \/ append_recorded(p) \/ append_refused(p)
    \/ stage_evidence(p) \/ sync_staged(p) \/ publish_link(p) \/ publish_staged(p)
    \/ write_line(p) \/ write_half_line(p) \/ sync_line(p) \/ append_done(p)

ReadStep(p) ==
    \/ read_stream(p)
    \/ \E r \in Requests : \E k \in r.keys : committed_events_for_idempotency(p, r, k)

Next ==
    \/ \E p \in Procs : OpenStep(p) \/ AppendStep(p) \/ ReadStep(p) \/ io_error(p) \/ kill(p)
    \/ power_loss

Spec == Init /\ [][Next]_vars

----------------------------------------------------------------------------
(* Properties *)

PcValues == {"down", "closed", "walked", "upgrade", "open"} \cup Opening \cup Appending

\* Every variable keeps its shape; at most one process holds the exclusive lock, and it is
\* exactly the one between two steps of an append or of a recovery.
TypeOK ==
    /\ journal \in Seq(Requests)
    /\ synced \in 0 .. Len(journal)
    /\ tail \in {"clean", "torn", "cut"}
    /\ sealSynced \in 0 .. Len(seals)
    /\ states \subseteq Nat
    /\ blob \in [Evidence -> Blobs]
    /\ markers \subseteq Requests
    /\ pc \in [Procs -> PcValues]
    /\ recover \in [Procs -> BOOLEAN]
    /\ req \in [Procs -> Requests]
    /\ temp \in [Procs -> {"none", "cached", "synced"}]
    /\ vouched \subseteq Requests
    /\ crashes \in 0 .. MaxCrashes
    /\ writer = {p \in Procs : pc[p] \in Opening \cup Appending}
    /\ Cardinality(writer) <= 1

DurableLines == SubSeq(journal, 1, synced)

\* A batch that append_atomic returned, fresh or as the answer to a retry, or that an
\* idempotency look-up reported as committed, survives every later kill and power loss
\* (append_locked syncs before it returns; sync_loaded_journal before a recorded answer).
VouchedDurable == vouched \subseteq Entries(DurableLines)

\* Evidence that any line refers to is on disk and survives a power loss, whether the line
\* itself does or not, and reconcile_orphans never takes it away.
EvidenceKept ==
    \A b \in Entries(journal) : \A e \in b.refs :
        e \in Readable /\ blob[e] = [entry |-> "durable", bytes |-> "synced"]

\* No sequence of failures leaves a store that its own verifier refuses (a torn tail apart,
\* which the Runtime's start-up trims): the seal chain reads and the active segment verifies
\* from the last seal's state.
Reopens == seal_chain_reads /\ verify_lines(seeded_ctx.seed, ActiveLines)

StateAfter(n) == walked(genesis, SubSeq(journal, 1, n))[n]

\* A seal closes only durable lines, and the state an open starts from is the one a walk of
\* the whole closed history would have reached (rotate_segment, seeded_ctx).
SealsFaithful ==
    \A i \in DOMAIN seals :
        /\ seals[i].upto <= synced
        /\ seals[i].state = StateAfter(seals[i].upto)

FirstOf(seg) == IF seg = 0 THEN 0 ELSE seals[seg].upto

\* What is used unread agrees with the journal, across other processes' appends, rotations, torn
\* writes and the trim: the seals; the verified prefix of each process, which is a prefix of the
\* segment it was verified in (load_state reuses both); and its durable watermark, which covers
\* no line that a power loss could take (an open skips its sync on it).
CacheFaithful ==
    /\ SealsFaithful
    /\ \A p \in Procs :
        LET v == verified[p]
            m == FirstOf(v.seg) + Len(v.batches)
        IN  /\ v.seg <= Len(seals)
            /\ v.seed = StateAfter(FirstOf(v.seg))
            /\ m <= (IF v.seg = Len(seals) THEN Len(journal) ELSE FirstOf(v.seg + 1))
            /\ v.batches = SubSeq(journal, FirstOf(v.seg) + 1, m)
            /\ watermark[p].seg <= Len(seals)
            /\ FirstOf(watermark[p].seg) + watermark[p].lines <= synced

\* An open that returns a handle leaves every graph publication of the history with its active
\* marker on disk, on the shared fast path as after a recovery, sealed segments included
\* (active_markers_clean and publish_active_marker ask the same history).
MarkersRepaired ==
    [][\A p \in Procs :
         pc[p] \in {"walked", "reconcile"} /\ pc'[p] = "open" =>
             {b \in Entries(journal') : b.version # 0} \subseteq markers']_vars

Log == INSTANCE AppendLog WITH log <- journal

\* The store implements the append-only log of AppendLog: batches enter whole, in order and
\* once, and only an unanswered end of the history is ever dropped.
ImplementsLog == Log!Spec
==========================================================================
