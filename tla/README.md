# GraphHelm: TLA+ models and proofs

GraphHelm runs a graph of agent work: nodes with dependencies, executed by models and tools, under
an owner who may pause, cancel, resume or approve at any moment. Everything that happens is an event
in an append-only stream, and every state is the fold of that stream. Processes coordinate only
through it: they read it, decide, and append. This directory models the part of the system where
that coordination can go wrong.

## Inventory

| Part | State it keeps | Operations | What makes it correct |
|---|---|---|---|
| Scheduler rules (`core/execution`: transition, ready, dispatch, recovery) | none | `apply_transition`, `ready_set`, `dispatch_candidates`, `dispatch_plan`, `resume_preconditions` | nothing runs ahead of its edges; retries are bounded; resume only after triage |
| Projection (`core/events/src/projection.rs`) | the fold of one stream | one arm per event kind | every stream the program writes replays |
| Asynchronous drive (`core/runtime/src/driver.rs`) | tasks in flight, refused nodes, the plan of a pass | preflight, passes, release, dispatch, join, stop, quiescence | bounded parallelism, stops at a pause, returns, reports a completion that is true |
| Owner commands (`apps/cli/src/commands/execution`) | none between commands | start, pause, cancel, resume, approve | a command's effect is the one it decided, or the command is refused |
| Serve routes (`apps/cli/src/commands/serve`) | the cancel sender of each live drive | start, pause, resume, drive | one drive per execution; an immediate stop reaches it |
| Local journal (`core/events/src/local.rs`, `local/segments.rs`) | journal segments and seals, evidence blobs, active markers, the lock; per process a verified prefix and a durable watermark | open, recover, append, rotate, read, look up | all of a batch or none of it; an answer survives a power loss; a retried append is recognised; no failure makes the store unreadable |
| Synchronous drive (`apps/cli/src/commands/execution/driver.rs`) | the same passes, one node at a time | as the asynchronous drive | as the asynchronous drive |
| Store locks (`core/events/src/local.rs`) | the turnstile on `format.json`, the root directory's lock, the lock on `repository.lock`, the layout of the root | open, upgrade, operate, back up, bootstrap | a writer is alone; nobody waits for ever; a torn bootstrap is never taken for a store |
| Host adoption (`adapters/host-adoption`) | the user's configuration files, a journal per transaction, guard directories, `active.json` | apply, compensate, restore, recover | all or nothing; the user's edits survive; a crash is always recoverable |
| Wake doorbell (`execution/wake.rs`, `serve/wake.rs`, `wake_wait.rs`) | leases and their consumption in the stream; a rendezvous socket per session | arm, wait, ring, record, sweep | a record burns the lease it rang; an answer is honest; content is read in the end |
| Customs (`core/events/src/customs.rs`, `sweep.rs`) | waits, claims, clearances and exceptions in the projection | park, claim, clear, sweep | a gated node succeeds only on sufficient testimony; a sweeper raises a lapsed stage once, and no stage is forgotten |
| Tasks, autopilot, governor, graph persistence, retention | projections of further event kinds | claims of work, drafts, publication | see the plan |
| Gateway, tool host, process tree, keys, policy, schemas, studio | documents, processes, files | | not modelled: I/O, cryptography, or sequential functions of a document |

How the parts interact: `start` appends `ExecutionStarted` and hands over to a drive; the drive and
the commands append to one stream without holding a lock between their read and their append; serve
can signal a drive it registered; `resume` triages what a dead process left Running and starts a new
drive. The stream itself is kept by the local journal, which several processes open at once and any of
them may leave half written. The hard behaviours are therefore interleavings of readers and writers, decisions used after
they went stale, processes that die between two appends, and drives that overlap.

## Modules

| Module | Models |
|---|---|
| `NodeMachine` | the pure rules of `core/execution` and the execution part of the projection's fold |
| `ExecutionDrive` | one stream, the asynchronous drive, the owner's commands, serve's cancel registry, crashes and proposals |
| `MCExecutionDrive` | graphs and symmetry for the runs |
| `ExecutionDriveProofs` | theorems about `ExecutionDrive`, checked with TLAPS: types, commands, resume, replay |
| `DriveSafetyProofs` | more of them: the refused graph and the parallel budget |
| `SoloDriveProofs` | what holds of `ExecutionDrive` when one drive is live |
| `AppendLog` | what the store promises: an append-only log that loses no answered batch |
| `LocalJournal` | the store on disk: open and recovery, append, rotation, evidence, reads, under kills, I/O errors and power loss; it implements `AppendLog` |
| `MCLocalJournal` | requests and processes for the run |
| `LocalJournalProofs` | theorems about `LocalJournal`, its refinement of `AppendLog` among them |
| `StoreLock` | the locks around the store and the bootstrap of its directory |
| `HostAdoption`, `MCHostAdoption` | apply, compensation, restore and recovery of adopted configuration; its plans |
| `WakeLease`, `MCWakeLease` | sleepers, rings and their records on one stream; the audiences of its content |
| `Customs` | the completion of a gated node: parks, claims, clearances, sweeps, against a cancel |
| `StoreLockProofs`, `WakeLeaseProofs`, `CustomsProofs`, `HostAdoptionProofs` | theorems about these four modules |

`LocalJournal` takes what `StoreLock` shows (a writer is alone, a reader meets no writer) as given.
`WakeLease` and `Customs` use a stream as `AppendLog` promises it: an append is a compare-and-set on
the head. `Customs` repeats of the drive and of cancel only the steps that touch a gated node.

### State and code: the drive

* `proj` is the projection at the head of the stream: node states (an untouched node reads as Draft,
  the convention of `ready_set`), attempts, the last outcome and the length of its run, the status,
  whether the replay fails (`ReplayError::Corrupt`), one governed draft, and what the preflight finds of
  the graph that ExecutionStarted names (`clean`).
* `observed` holds the processes whose observed sequence is still the head. Appending empties it.
  An append of a process outside it is `GHE001_SEQUENCE_CONFLICT`.
* `drv[d]` is the local state of `drive_inner`: its position, the rest of the loop it is in, the
  plan, `in_flight_nodes` (`flight`), the `JoinSet` (`tasks`), `refused`, `release`, the cancel
  channel (`stop`), and the event it is about to append. `own[o]` is the same for a command.
* `cancels` is serve's map entry for the execution. `lateStarts` is a history variable.

One step of the model is one touch of the store: a read with the decision made on it, the read of
`next_sequence`, or an append. This is where the two kinds of writers differ. A command appends at
the sequence of the read its decision was made on (`append_event`, #1670), so `OwnerAppend` needs
`o \in observed` from the decision on. A drive decides in one touch and takes its sequence in a
later one (`record_outcome_cached`, `append_plain`), so `TakeSequence` is an action of its own and
anything may be appended before it.

Abstractions: context compilation, sealing, gate certification and delegation choice either succeed
or refuse (`Results`); the executor reports any outcome of `Results`; the graph does not change
during a run, so a resolved proposal only ends the pending state; all edge types but `Failure` gate
alike and are `Control`.

### State and code: the journal

* `journal` is the sequence of whole batch lines of all segments; `synced` how many of them a power
  loss keeps; `tail` what follows the last newline. `seals` is the chain of `segments/<n>.seal` with
  the verifier state each one records, `sealSynced` its durable length, `states` the durable state
  files. `blob` has, for each evidence id, the directory entry and the bytes of its file, each with
  its own durability. `markers` are the active markers.
* `writer` is the holder of the exclusive lock. A shared operation is one step that needs
  `writer = {}`, since it only reads and syncs.
* Per process: `pc`, the request in progress, the staged evidence (`temp`), the verified prefix
  (`VerifiedPrefix`: segment, state it started from, batches) and the durable watermark. `Runtime` is
  `graphhelm serve`, which recovers at start-up (`recover`), ignores an error of that recovery, keeps a
  `PrefixCache` and opens a handle per request. The other processes are one-shot commands.
* `vouched` records what was answered; nothing reads it but the properties.

An append is a sequence of steps, one for each write or sync of `append_locked` that a failure can come
between: load and sync, the three steps of a rotation, staging, its sync, each link, the directory
sync, the write, the sync, the marker. `io_error` is any of them returning early and `kill` the
process ending there. `power_loss` ends every process and keeps what was synced and any longer prefix
of the journal (a torn tail after it), any unsynced seal, name or marker, or not.

Abstractions: an evidence id stands for its bytes (they are content addressed, so two writers never
disagree on one); an event is an idempotency key; artifacts, checksums and hash chains, the schema
validator and the load limits are left out. A link is durable or not as a whole. A power loss keeps a
prefix of the unsynced bytes (blocks written out of order are outside the model). A load that finds
the next segment missing creates it and syncs the directory; where the file exists already the model
takes the seal before it to be durable. Left out: creation and repair of the layout (`StoreLock`), the read budget
and the prefix audit (they only shorten what is verified), the clean-open stamp (it only skips a scan
that would find nothing), the content of the quarantine file, stale temporary files, checkpoints.

### State and code: the store locks

* `layout` is what `classify_layout` would see; `lockFile` which file the name `repository.lock` stands
  for, since it can be replaced while handles hold locks on the old one (`lockId`).
* `turnstile`, `root` and `named` are the three locks in the order every operation takes them; `pc`
  and `want` the step and the purpose (open, upgrade, read, write, backup).

An open classifies the layout under shared locks, and upgrades to exclusive ones when there is
something to build, repair or recover: it releases, queues, locks and looks again. Kernel grants are
external: a shared request is granted whenever every holder is shared, an exclusive one has no
priority, and a dead process holds nothing. Left out: a backup of a store without a lock file.

### State and code: host adoption

* `file` is each configuration file as a document with the key adoption owns and one of the user's.
  Every edit writes a fresh value, so equal documents stand for equal bytes.
* `journal[t]` is a transaction's journal file: its state and, for each file, the documents before and
  after and the phase. `guards` are the guard directories the journal names, with what each holds.
  `active` is `active.json`; `job` the command in progress, which holds the locks of user, project and
  state directory.
* `owed` records the user's edits that the user has not overwritten.

A step is one durable write: the journal's intent, the exchange, the journal's phase, the pointer. The
user edits files between any two of them, also through a descriptor opened earlier. A crash or a
failed call ends the command at any step. Publication is the Linux exchange. Left out: packages,
ownership claims, manual checkpoints, backups, access metadata, and the detach of the Windows build.

### State and code: the wake doorbell

* `log` is the stream, with content, leases (armings) and consumption records; the fold is applied to
  it where the code replays. `sleeper[s]` is a session's host loop and its `wake-wait` process, `sweep[t]`
  one sweep task of serve.

The sleeper reads, arms at the cursor it read, binds its rendezvous, validates, looks for a receipt
and waits. A sweep captures the due leases, rings each, gives up on those nobody listens for, looks
again which captured leases are still live, and records at the head it read. The loop of the host is
the one `docs/process/LANES.md` prescribes. Abstractions: an actor is its session, with one waiter and
one Unix rendezvous; grace periods and deadlines have no length, so either may end first; at most
`Sweeps` sweeps are under way at once.

### State and code: customs

* `stream` is the execution's events, `proj` the part of their fold that customs uses: node states, the
  open wait of each node with its deadline, the open claims, the marked episodes. A sweep's batch is one
  element of the stream.
* `call[p]` is a verb between its decision and its append, with the sequence its decision read
  (`next_after`); `swp[s]` a sweep, whose decision, sequence (`next_sequence`) and append are three
  touches; `drv` the drive that reports a gated node, which decides and takes its sequence later.

Abstractions: a bundle of evidence stands for its digest and either has every declared proof kind or
not; the five refusals of a claim are one event; a clear of something that is no open claim has no
effect and is not a step. Left out: events that no code writes (dead letters, rejections,
clearance identities), idempotency keys, the drive that a clearance starts.

Two things the model shows that the code's comments deny. When the tick and an operator sweep at once, an
episode raises two exceptions (run `two_sweepers`). What the marks do keep is `RaisedOncePerSweeper`:
whoever sweeps, one sweep at a time, never raises again what it has raised itself, so that an episode has
at most one exception per sweeper. And a claim stays open when its node is cancelled: a `clear` then writes
Succeeded over Cancelled (`projection.rs:1902`), where `transition.rs:71` says "A terminal node is
immutable". `ClearanceSound` bounds this: no claim is admitted after the cancel.

## Runs

| Run | Instance | Shows |
|---|---|---|
| `commands` | chain of 2, clean or refused by the preflight, one drive, two commands in progress at once (3 in all), 1 crash | `NoCorruption`, `CommandsLinearize`, `OutcomesFinal`, `CompletionSound`, `RetryBounded`, `ResumeTriaged`, `RefusedGraphIsInert`, `TypeOK` |
| `fork` | success and failure branches, a disabled edge, immediate stop, proposal, delegation, a gated node, terminal failures, refusals and panics | `DependencyOrder`, `FailureSettled` |
| `parallel` | independent nodes, a budget below their number, fairness | `ParallelBound`, `PauseResidue`, `DriveReturns` |
| `journal` | two processes, three requests that depend on each other or clash, a rotation before each, orphaned evidence, planned deletes that remove, one crash | `VouchedDurable`, `EvidenceKept`, `Reopens`, `CacheFaithful`, `MarkersRepaired`, `ImplementsLog`, `TypeOK` |
| `store_lock` | three handles, one replacement of `repository.lock`, fairness | `WriterAlone`, `SharedRootMeetsNoWriter`, `TornRootIsEmpty`, `TurnstileMoves`, `TypeOK` |
| `adoption` | two files, two plans, two restores, an edit, two faults, fairness | `Recoverable`, `EditsKept`, `SettledContent`, `RestorePossible`, `RecoveryConverges`, `TypeOK` |
| `wake` | one sleeper, two sweeps at a time, two armings, a crash, fairness | `Replayable`, `BurnsAsCaptured`, `HonestAnswers`, `NotesAreRead`, `TypeOK` |
| `customs` | one gated node, two callers, the tick, fairness of the tick | `ClearanceSound`, `LapseRaised`, `TypeOK` |

The runs below are expected to end in a violation: the code does not do what its comment or
document says.

| Run | The source says | What happens |
|---|---|---|
| `stop_race` | the immediate stop never appends a duplicate pause | an owner's pause between its check and its append makes the stream unreadable |
| `two_drives` | a node whose effects are unknown is never resumed | two drives execute one node after pause and resume |
| `orphan_restore` | an interrupted transaction refuses a second apply until it is recovered | a restore that died before it was named in `active.json` is resumed without being named, and a second apply is admitted over half-restored files |
| `two_sweepers` | "ONE exception per episode, ever" (`projection.rs:487`); "the same episode never raises twice however many sweeps run" (`event.rs:1436`) | a sweep takes its sequence after its decision (`sweep.rs:80`): the tick and an operator both read an episode as unmarked, and the second batch lands behind the first |

Met on the way and not runs of their own: the comment on `TransitionRequest::attempts` (`transition.rs:21`) says
that it does not count the attempt being reported, but every caller passes `node_attempts`, which the
fold of that attempt's Started has already raised, so that a node has `MAX_NODE_ATTEMPTS` attempts (as
`bounds.rs:6` says) and not one more; `RetryBounded` states what the code does, and its mutant `next_state_OffByOne` is
the comment's reading; a drive's stale decision can reopen a node that was
cancelled meanwhile; a cancel does not sweep nodes that have no recorded state (`cancel.rs:87`); a
stream read serves a line that another process has written and not yet synced (`local.rs:3104`), which
is why `VouchedDurable` speaks of appends and look-ups only; and the clearance after a cancel, above.

### Bounds

Two or three nodes give a predecessor, a dependent and a sibling; `commands` has
three attempts and one identical outcome, in the order that `bounds.rs:34` asserts: a second failure in a row is blocked with an
attempt left, so the identical outcomes decide, and after an approval the third attempt's failure begins a new run, so
the attempts decide (a node needs one attempt more than `MaxIdentical` to be blocked for repeating
itself, so three and two would not tell the bounds apart; one mutant of `RetryBounded` breaks each half); three commands reach pause, resume, cancel and pause, approve,
resume; one crash lands between any two steps of any process. The counters `MaxCommands`,
`MaxCrashes` and `MaxProposals` exist only to keep the state space finite. The drive's own loops are
bounded by the retry bounds of the code.

For the journal, two processes are a writer and a rival or a reader; `RotateAt` (lines per segment, bytes
or events in the code) is 1, so every append after the first rotates; the requests depend on each
other or clash through sequence, key, evidence and graph version. `MaxCrashes` bounds kills and power
losses only: I/O errors and retries are unbounded, so a process may fail at every step any number of
times before or after the crash, and a half-written line is there for a start-up to trim without one.

Three handles are a writer, a reader and one that upgrades; one replacement makes two handles lock
different files. In adoption one plan touches both files and the other one of them, so restores have a chain to
undo; one file merges by key and the other as a whole; the 16 guard directories of the code are 2,
so that two faults reach the limit; two faults are a crash and one more in the recovery of it. In wake, two armings let a
sleeper re-arm under a sweep that captured the first; two attempts stand for the 16 of the code.
In customs no verb decides on a stream longer than 5, which is a park, a claim, a rejection, a second
claim and its clearance; two instants after the start let a wait and the claim that answers it both
lapse; one event without effect (a refusal, an empty sweep) moves the head under somebody's decision;
`two_sweepers` adds the operator's sweep to the tick's.

Deadlock is checked in `journal` and `store_lock`: a store can always be opened again. It is off in
the other runs: an execution that is settled, or that waits for an owner nobody plays any more,
rightly stops, and so do a user with no plan left and a session with nothing to hear.

### Fairness

`FairSpec` asks for weak fairness of each drive as a whole, and of each command in progress. tokio
polls a live drive until it returns, every executor is bounded by its own timeout, and a command runs
to its end. Nobody is obliged to issue a command, nothing has to crash, and a proposal may stay
unresolved for ever.

In `StoreLock` every handle that can move does (calls return); who gets a contended lock is open. In
`HostAdoption` a running command continues, and the user recovers the transaction for which every
other command is refused; nobody has to apply or restore. In `WakeLease` the host's loop and its deadline go on,
and so do the tasks of a live serve. In `Customs` only the tick is fair: `sweep_tick` sleeps and sweeps for as
long as the server runs. No claim, clearance or cancel has to happen.

## Proofs

The theorems hold for every value of the constants that the modules' `ASSUME`s admit: any number of
processes, requests, nodes and crashes, every graph and every bound. Each safety invariant that a run
checks is first checked by TLC together with the strengthening below, then proved from it. A theorem
about a reachable state has one lemma per action, or per form that a step takes, and one step per
conjunct that the action can disturb.

### The drive

`NodeMachine` and `ExecutionDrive` assume that node ids are positive naturals and finitely many, that
edges and gated nodes are over the nodes, and that drives and commands are different processes.

* `TypeInvariant`: `Spec => []TypeOK`. One lemma for each form a step takes (a local change, a
  decision, a failure, an append), then one step per action.
* `CommandsLinearizeAlways` and `ResumeTriagedAlways`, from the inductive invariant `CommandInv`.
  Neither property is inductive: an append is right because the decision behind it was right and
  nothing moved since. `CommandsFresh` says just that, for every command still in `observed`;
  `EventShapes` restricts the status events a process may have pending. Every append empties
  `observed`, so a step of somebody else can only make the invariant easier to satisfy.
* `ReplayableWithoutStop`: without immediate stops and proposals, `Spec => []NoCorruption`. Then no
  drive ever has an ExecutionPaused pending (`Quiet` in `DriveShape`), and a command's is fresh. The
  run `stop_race` shows that the hypothesis is needed.
* `RefusedGraphIsInertAlways` (`DriveSafetyProofs`): a graph the preflight refuses stays untouched. The
  invariant follows every place a drive can be in before it has seen a clean preflight; no step changes
  the verdict on the graph (`VerdictKept`), so that a later drive is refused like the first.
* `ParallelBoundAlways`: the tasks of a drive are bounded by `MaxParallel` because `BudgetKept` bounds
  what is in flight together with what is planned. `PlanFits` is the fact about `dispatch_plan` (the least
  candidates, as many as the budget leaves), from the well-ordering of the naturals.

`SoloDriveProofs` assumes `OneDrive`: any two drives are the same. `CompletionSound`,
`FailureSettled`, `RetryBounded`, `DependencyOrder`, `PauseResidue` and the action property
`OutcomesFinal` are proved under it, from one inductive invariant `SoloInv`: what a drive has decided and not
yet appended is still true of the nodes at the head, because nobody else writes Succeeded, Failed,
Running or an attempt, and what a command writes meanwhile (Cancelled, Interrupted, a triage) leaves
the decision valid. The hypothesis says that a resume finds the drive before it gone;
nothing in the code makes sure of it (run `two_drives`). It is needed: with the two drives of
`MCTwoDrives` TLC finds states that violate `DependencyOrder` and `CompletionSound`.

### The journal

`LocalJournalProofs` proves every safety property of the run `journal` for any set of requests, any
number of processes and crashes and every rotation size. `StoreInv` is inductive; its parts are

* `Shapes` and `LinesFit`: the journal is a sequence of batches each of which fits the state after
  the lines before it (the verifier would accept it);
* `BlobsWhole`, `RefsDurable`: no blob under its name has other bytes, and every blob that a line names is durable;
* `ChainInv`: a seal closes durable lines only and records the state after them;
* `CacheInv`: a process's verified prefix is part of the segment it was verified in, and its
  watermark covers durable lines only;
* `Vouched`: what was answered is durable;
* `HolderInv`: what the holder of the lock has established at each step of an open or an append (it
  has loaded the whole active segment and synced it, staged and synced its evidence, and so on).

None of `VouchedDurable`, `Reopens` and `CacheFaithful` is inductive alone: an append is right because of
what its process loaded, the load because of the caches and seals it starts from, and the seals
because of the sync in front of them. `CountUp` is the induction over the number of lines that the
argument needs (on sets, from the well-ordering of the naturals), `WalkedShift` says that a walk from a seal's state
is the walk from the start, and `LoadFull` that every load ends with the whole active segment, whatever it
could reuse. `MarkersRepairedAlways` is the action property, and `ImplementsLogAlways` the refinement: every
step is an append, a loss of an unanswered end or a stutter of `AppendLog`; `NextCounts` (a stream's next
sequence is the number of its keys plus one) is what the abstract append asks for.

### Locks, wake, customs

* `StoreLockProofs`: `WriterAlone`, `SharedRootMeetsNoWriter` and `TornRootIsEmpty`. `LockInv` ties
  each position to the locks held there (`HeldBy`), and says that the root lock excludes
  (`RootExclusion`) and so does the named one on each lock file (`NamedExclusion`): `WriterAlone` rests
  on the first alone, since `repository.lock` may have been replaced. `LayoutInv` follows the bootstrap.
* `WakeLeaseProofs`: `Replayable`, `BurnsAsCaptured` and `HonestAnswers`. `SweepInv`: while a
  sweep's pinned sequence is the head, its batch is live at the head; every captured lease was due
  content that came after its arming; a pin that went stale writes nothing. `SleeperInv` and `RungSeen` relate what a waiter
  saw to what the log held when it looked.
* `CustomsProofs`: `ClearanceSound`, for any number of callers and sweepers: `ActorInv` says that a
  verb's decision still holds while its sequence is the next one, and `StreamInv` that the projection is what the
  stream says. `RaisedOncePerSweeperAlways` holds for any number of sweepers, from `MarkInv`: what was
  raised is marked, and a sweep under way may hold what a rival has marked since its read but nothing
  that its own sweeper has raised. With one sweeper it is one exception per episode; with two it is
  what is left of it, as `two_sweepers` shows.

### Host adoption

`HostAdoptionProofs` holds for any number of files, plans, restores, edits and faults.

* `TypeInvariant` and `EditsKeptAlways`, from the inductive `AdoptInv`. `LinkInv`: what a journal or
  `active.json` names exists, and no transaction changes what the user's key holds (`TargetTypes`
  proves that of a restore target, by induction along the sources). `JobInv` says where a command
  can be and what it works on; `Prepared` that the candidate in the guard directory is still the one
  that was written and carries the user's key as the file had it. `GuardInv`: an apply finds no guard directory where it
  has not been, so that it always has room. `EditInv`: at the exchange, a quiet edit of the user's key is also in the
  candidate that takes the file's place.
* `RecoverableAlways` and `RestorePossibleAlways`, from `JourneyInv`, under `AnyRecover = FALSE`: the user
  recovers only what `active.json` names, the one transaction that a refused command tells of. The
  hypothesis is needed: with `AnyRecover = TRUE`, TLC finds states of the same instance that violate each of
  them (finding `orphan_restore` is about such a state). `HistoryInv`: a command never works on a
  finished transaction, so what is finished stays so, and every predecessor is finished. `ExplainInv`:
  while a command runs its own journal explains the files (`Explained`), and before an exchange the
  intent is in the journal (`Declared`). `ReadableWhenSettled` is the induction along the predecessors.

* `SettledContentAlways`, from `ReturnInv`, under the same hypothesis: two more layers. `ProgressInv`: which files of a
  command's transaction are already at their after-state, and which are still, or again, at their before-state, at each step
  of its way forward and back. `ContentInv`: there is a stack of transactions, linked by their
  predecessors, with the one that `active.json` names on top and none twice (`Stacked`); each
  installed plan found its files as the installed ones below it had left them (`Laid`); a running
  apply replaces what the stack left and a running restore undoes its newest sources, down to what lay below the
  oldest of them (`UnderWay`); what `active.json` does not name yet has published nothing (`Orphan`).
  `WalkStack` proves that the walk along the predecessors visits that stack and ends, and
  `RestoreUndoes` that the target which restore computes is the content below its oldest source.

The chain of transactions and a restore target are recursive functions; `WalkFunction`, `ChainsFunction` and
`UndoingFunction` prove that such a function exists, up to each length in turn, and so that it satisfies
its recursive equation.

### Only model-checked

Liveness under fairness (`DriveReturns`, `TurnstileMoves`, `RecoveryConverges`, `NotesAreRead`,
`LapseRaised`) is out of the prover's reach. Every invariant of the passing runs is proved, those of
the drive that need it under `OneDrive`, `NoCorruption` without stops and proposals, and three of host
adoption under `AnyRecover = FALSE`; the runs `two_drives`, `stop_race` and `orphan_restore` show what
happens beyond these hypotheses.

## Plan

Done: `NodeMachine`, `ExecutionDrive` and its first theorems; `AppendLog` and `LocalJournal`;
`StoreLock`; `HostAdoption`; `WakeLease`; `Customs`. Next:

1. An abstract lifecycle of one execution, and `ExecutionDrive` shown to implement it where it does.
2. Tasks and autopilot: claims of work, takeover, a late answer.
3. `Governor`: the life of a draft against an execution in flight; graph publication.

## Not modelled

See the table above. Rendering, attention and briefing are read-only functions of a projection. The
postgres store is a second implementation of the repository port whose concurrency control is the
database's. The synchronous command-line drive runs the same passes one node at a time and is covered
only in kind. Model gateway, tool host, process tree and sealed keys are behind the executor port.
