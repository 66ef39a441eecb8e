----------------------------- MODULE StoreLock -----------------------------
(***************************************************************************)
(* The locks of the local event store (core/events/src/local.rs): the      *)
(* turnstile on format.json, the root directory's lock and the named lock  *)
(* on repository.lock, taken in that order by every open, every operation  *)
(* and every backup, and the bootstrap that builds the directory.          *)
(*                                                                         *)
(* A handle is one LocalEventRepository, used by one thread.  The kernel   *)
(* grants a shared lock whenever every holder is shared, so an exclusive   *)
(* request has no priority of its own; it frees the locks of a process     *)
(* that dies.  What happens under the locks is LocalJournal's subject.     *)
(***************************************************************************)
EXTENDS Naturals

CONSTANTS
    Handles,     \* the store handles that processes open and use
    RootLocks,   \* TRUE where the root directory is lockable (Unix, not Windows)
    MaxReplaced  \* bound: how often repository.lock is replaced from outside

ASSUME RootLocksAssumption == RootLocks \in BOOLEAN
ASSUME ReplacedAssumption == MaxReplaced \in Nat

NoOne == "no one"
ASSUME NoOneAssumption == NoOne \notin Handles

VARIABLES
    layout,     \* what the root directory holds, as classify_layout would see it
    used,       \* whether the journal holds a batch
    lockFile,   \* which file repository.lock names: 0, then one more per replacement
    turnstile,  \* who holds the exclusive lock on format.json
    root,       \* [Handles -> Mode]: the root directory's lock
    named,      \* [Handles -> Mode]: the lock on the repository.lock file the handle opened
    lockId,     \* [Handles -> the repository.lock file the handle opened]
    pc,         \* where each handle is
    want,       \* what it takes the locks for
    then        \* where it goes once it has released them

vars == <<layout, used, lockFile, turnstile, root, named, lockId, pc, want, then>>

Mode == {"none", "shared", "exclusive"}

\* "empty" has no repository.lock; "partial" no format.json; "torn" a format.json without its
\* bytes; "dirless" lacks only .tmp or active.
Layout == {"empty", "partial", "torn", "dirless", "complete"}
HasFormat == layout \in {"torn", "dirless", "complete"}

Want == {"open", "upgrade", "read", "write", "backup"}
RootMode(w) == IF w \in {"open", "read"} THEN "shared" ELSE "exclusive"
NamedMode(w) == IF w \in {"open", "read", "backup"} THEN "shared" ELSE "exclusive"

PC == {"closed", "enter", "root", "named", "classify", "release", "relock", "namedx",
       "repair", "format", "inside", "unlock", "unlockRoot", "opened"}

TypeOK ==
    /\ layout \in Layout
    /\ used \in BOOLEAN
    /\ lockFile \in 0 .. MaxReplaced
    /\ turnstile \in Handles \cup {NoOne}
    /\ root \in [Handles -> Mode]
    /\ named \in [Handles -> Mode]
    /\ lockId \in [Handles -> 0 .. MaxReplaced]
    /\ pc \in [Handles -> PC]
    /\ want \in [Handles -> Want]
    /\ then \in [Handles -> {"closed", "opened", "enter"}]

\* A store may be new, left by an interrupted first open, copied without its empty directories,
\* or in use.
Init ==
    /\ layout \in Layout \ {"torn"}
    /\ used = (layout \in {"dirless", "complete"})
    /\ lockFile = 0
    /\ turnstile = NoOne
    /\ root = [h \in Handles |-> "none"]
    /\ named = [h \in Handles |-> "none"]
    /\ lockId = [h \in Handles |-> 0]
    /\ pc = [h \in Handles |-> "closed"]
    /\ want = [h \in Handles |-> "open"]
    /\ then = [h \in Handles |-> "closed"]

----------------------------------------------------------------------------
(* The kernel's locks *)

\* A lock in mode m is compatible with what another handle holds.
Compatible(m, other) == other = "none" \/ (m = "shared" /\ other = "shared")

RootGranted(h, m) ==
    /\ RootLocks => \A g \in Handles \ {h} : Compatible(m, root[g])
    /\ root' = IF RootLocks THEN [root EXCEPT ![h] = m] ELSE root

\* Handles that opened different files do not contend.
NamedGranted(h, m) ==
    /\ \A g \in Handles \ {h} : lockId[g] = lockId[h] => Compatible(m, named[g])
    /\ named' = [named EXCEPT ![h] = m]

DropTurnstile(h) == turnstile' = IF turnstile = h THEN NoOne ELSE turnstile

At(h, from, to) == pc[h] = from /\ pc' = [pc EXCEPT ![h] = to]

\* Between two calls a handle wants nothing.
Forget(h) ==
    /\ want' = [want EXCEPT ![h] = "open"]
    /\ then' = [then EXCEPT ![h] = "closed"]

\* An error return closes the handle's files, which releases all it holds.
Abandon(h) ==
    /\ pc' = [pc EXCEPT ![h] = "closed"]
    /\ root' = [root EXCEPT ![h] = "none"]
    /\ named' = [named EXCEPT ![h] = "none"]
    /\ DropTurnstile(h)
    /\ Forget(h)
    /\ lockId' = [lockId EXCEPT ![h] = 0]

----------------------------------------------------------------------------
(* Acquisition *)

Open(h) ==
    /\ At(h, "closed", "enter")
    /\ want' = [want EXCEPT ![h] = "open"]
    /\ UNCHANGED <<layout, used, lockFile, turnstile, root, named, lockId, then>>

Operation(h, w) ==
    /\ w \in {"read", "write"}
    /\ At(h, "opened", "enter")
    /\ want' = [want EXCEPT ![h] = w]
    /\ UNCHANGED <<layout, used, lockFile, turnstile, root, named, lockId, then>>

\* with_repository_read_lock: a backup holds the store still without opening it.
Backup(h) ==
    /\ layout # "empty"
    /\ At(h, "closed", "enter")
    /\ want' = [want EXCEPT ![h] = "backup"]
    /\ UNCHANGED <<layout, used, lockFile, turnstile, root, named, lockId, then>>

Close(h) ==
    /\ At(h, "opened", "closed")
    /\ lockId' = [lockId EXCEPT ![h] = 0]
    /\ UNCHANGED <<layout, used, lockFile, turnstile, root, named, want, then>>

\* Mutant: readers, whose lock is shared anyway, do not queue.
Enter_WritersOnly(h) ==
    /\ At(h, "enter", "root")
    /\ IF HasFormat /\ want[h] # "read"
       THEN turnstile = NoOne /\ turnstile' = h
       ELSE UNCHANGED turnstile
    /\ UNCHANGED <<layout, used, lockFile, root, named, lockId, want, then>>

\* Without a format.json to lock, the handle goes on without a turnstile.
Enter(h) ==
    /\ At(h, "enter", "root")
    /\ IF HasFormat
       THEN turnstile = NoOne /\ turnstile' = h
       ELSE UNCHANGED turnstile
    /\ UNCHANGED <<layout, used, lockFile, root, named, lockId, want, then>>

\* Mutant: the root is only ever held shared.
LockRoot_Shared(h) ==
    /\ pc[h] = "root"
    /\ RootGranted(h, "shared")
    /\ pc' = [pc EXCEPT ![h] = IF want[h] = "open" /\ layout = "empty"
                               THEN "release" ELSE "named"]
    /\ lockId' = [lockId EXCEPT ![h] = IF want[h] \in {"open", "backup"} THEN lockFile ELSE @]
    /\ UNCHANGED <<layout, used, lockFile, turnstile, named, want, then>>

\* The root lock, in the mode of the named lock it guards.  An open then looks for
\* repository.lock (initialize_root_shared_fast): a root that has none is bootstrapped.  An open
\* and a backup open the file now, every other call brings the one its handle opened.
LockRoot(h) ==
    /\ pc[h] = "root"
    /\ RootGranted(h, RootMode(want[h]))
    /\ pc' = [pc EXCEPT ![h] = IF want[h] = "open" /\ layout = "empty"
                               THEN "release" ELSE "named"]
    /\ lockId' = [lockId EXCEPT ![h] = IF want[h] \in {"open", "backup"} THEN lockFile ELSE @]
    /\ UNCHANGED <<layout, used, lockFile, turnstile, named, want, then>>

\* The anchors name the file the handle has locked.
AnchorsValid(h) == lockId[h] = lockFile

\* with_lock's and the upgrade's last level.  Once it is held the turnstile is dropped, and a
\* handle whose repository.lock was replaced leaves without running its operation.
LockNamed(h) ==
    /\ pc[h] = "named"
    /\ NamedGranted(h, NamedMode(want[h]))
    /\ \/ /\ want[h] = "open"
          /\ pc' = [pc EXCEPT ![h] = "classify"]
          /\ UNCHANGED <<turnstile, then>>
       \/ /\ want[h] = "upgrade"
          /\ pc' = [pc EXCEPT ![h] = "repair"]
          /\ DropTurnstile(h)
          /\ UNCHANGED then
       \/ /\ want[h] \in {"read", "write"}
          /\ pc' = [pc EXCEPT ![h] = IF AnchorsValid(h) THEN "inside" ELSE "unlock"]
          /\ then' = [then EXCEPT ![h] = "opened"]
          /\ DropTurnstile(h)
       \/ /\ want[h] = "backup"
          /\ pc' = [pc EXCEPT ![h] = "inside"]
          /\ DropTurnstile(h)
          /\ UNCHANGED then
    /\ UNCHANGED <<layout, used, lockFile, root, lockId, want>>

\* The layout is classified only under the shared lock.  Less than complete means the exclusive
\* path.
Classify(h) ==
    /\ pc[h] = "classify"
    /\ \/ /\ layout = "complete"
          /\ pc' = [pc EXCEPT ![h] = "inside"]
          /\ DropTurnstile(h)
          /\ UNCHANGED <<root, named, lockId, want, then>>
       \/ /\ layout \in {"partial", "dirless"}
          /\ pc' = [pc EXCEPT ![h] = "release"]
          /\ named' = [named EXCEPT ![h] = "none"]
          /\ UNCHANGED <<turnstile, root, lockId, want, then>>
       \/ /\ layout = "torn"
          /\ Abandon(h)
    /\ UNCHANGED <<layout, used, lockFile>>

\* relock_root_exclusive: the shared root lock is released before the exclusive one is waited
\* for.
ReleaseRoot(h) ==
    /\ At(h, "release", "relock")
    /\ root' = [root EXCEPT ![h] = "none"]
    /\ UNCHANGED <<layout, used, lockFile, turnstile, named, lockId, want, then>>

\* Mutant: the bootstrap does not escalate the root lock.
RelockRoot_Shared(h) ==
    /\ At(h, "relock", "namedx")
    /\ RootGranted(h, "shared")
    /\ layout' = IF layout = "empty" THEN "partial" ELSE layout
    /\ lockId' = [lockId EXCEPT ![h] = lockFile]
    /\ UNCHANGED <<used, lockFile, turnstile, named, want, then>>

\* Then initialize_root_locked opens repository.lock, or creates it in a root that has none.
RelockRoot(h) ==
    /\ At(h, "relock", "namedx")
    /\ RootGranted(h, "exclusive")
    /\ layout' = IF layout = "empty" THEN "partial" ELSE layout
    /\ lockId' = [lockId EXCEPT ![h] = lockFile]
    /\ UNCHANGED <<used, lockFile, turnstile, named, want, then>>

LockNamedExclusive(h) ==
    /\ At(h, "namedx", "repair")
    /\ NamedGranted(h, "exclusive")
    /\ UNCHANGED <<layout, used, lockFile, turnstile, root, lockId, want, then>>

\* Mutant: missing directories send the repair down the path that rewrites format.json.
Repair_Rewrites(h) ==
    /\ pc[h] = "repair"
    /\ \/ /\ layout = "complete"
          /\ pc' = [pc EXCEPT ![h] = "inside"]
          /\ DropTurnstile(h)
          /\ UNCHANGED <<layout, root, named, lockId, want, then>>
       \/ /\ layout \in {"partial", "dirless"}
          /\ layout' = "torn"
          /\ pc' = [pc EXCEPT ![h] = "format"]
          /\ UNCHANGED <<turnstile, root, named, lockId, want, then>>
       \/ /\ layout = "torn"
          /\ Abandon(h)
          /\ UNCHANGED layout
    /\ UNCHANGED <<used, lockFile>>

\* repair_layout_locked: missing directories are created, an unformatted root is laid out and
\* its format.json created empty, and a format.json without its bytes is refused.
Repair(h) ==
    /\ pc[h] = "repair"
    /\ \/ /\ layout \in {"dirless", "complete"}
          /\ layout' = "complete"
          /\ pc' = [pc EXCEPT ![h] = "inside"]
          /\ DropTurnstile(h)
          /\ UNCHANGED <<root, named, lockId, want, then>>
       \/ /\ layout = "partial"
          /\ layout' = "torn"
          /\ pc' = [pc EXCEPT ![h] = "format"]
          /\ UNCHANGED <<turnstile, root, named, lockId, want, then>>
       \/ /\ layout = "torn"
          /\ Abandon(h)
          /\ UNCHANGED layout
    /\ UNCHANGED <<used, lockFile>>

WriteFormat(h) ==
    /\ At(h, "format", "inside")
    /\ layout' = "complete"
    /\ DropTurnstile(h)
    /\ UNCHANGED <<used, lockFile, root, named, lockId, want, then>>

----------------------------------------------------------------------------
(* Use and release *)

\* A clean shared open, a finished recovery and every operation end with the release of both
\* levels; an open may fail.  An append that succeeds leaves a batch in the journal.
Finish(h) ==
    /\ At(h, "inside", "unlock")
    /\ \/ /\ want[h] \in {"open", "upgrade"}
          /\ \E end \in {"opened", "closed"} : then' = [then EXCEPT ![h] = end]
          /\ AnchorsValid(h) \/ then'[h] = "closed"
          /\ UNCHANGED used
       \/ /\ want[h] \in {"read", "write"}
          /\ then' = [then EXCEPT ![h] = "opened"]
          /\ used' \in {used, used \/ want[h] = "write"}
       \/ /\ want[h] = "backup"
          /\ UNCHANGED <<used, then>>
    /\ UNCHANGED <<layout, lockFile, turnstile, root, named, lockId, want>>

\* A shared open that finds something to recover gives up both levels, then asks for them
\* exclusively, from the turnstile on.
Upgrade(h) ==
    /\ At(h, "inside", "unlock")
    /\ want[h] = "open" /\ named[h] = "shared"
    /\ want' = [want EXCEPT ![h] = "upgrade"]
    /\ then' = [then EXCEPT ![h] = "enter"]
    /\ UNCHANGED <<layout, used, lockFile, turnstile, root, named, lockId>>

UnlockNamed(h) ==
    /\ At(h, "unlock", "unlockRoot")
    /\ named' = [named EXCEPT ![h] = "none"]
    /\ UNCHANGED <<layout, used, lockFile, turnstile, root, lockId, want, then>>

\* Mutant: the call resumes at what it wanted, not at what it was to do next.
UnlockRoot_Wanted(h) ==
    /\ At(h, "unlockRoot", want[h])
    /\ root' = [root EXCEPT ![h] = "none"]
    /\ lockId' = [lockId EXCEPT ![h] = IF then[h] = "closed" THEN 0 ELSE @]
    /\ IF then[h] = "enter" THEN UNCHANGED <<want, then>> ELSE Forget(h)
    /\ UNCHANGED <<layout, used, lockFile, turnstile, named>>

UnlockRoot(h) ==
    /\ At(h, "unlockRoot", then[h])
    /\ root' = [root EXCEPT ![h] = "none"]
    /\ lockId' = [lockId EXCEPT ![h] = IF then[h] = "closed" THEN 0 ELSE @]
    /\ IF then[h] = "enter" THEN UNCHANGED <<want, then>> ELSE Forget(h)
    /\ UNCHANGED <<layout, used, lockFile, turnstile, named>>

\* The process dies, between any two steps.
Crash(h) ==
    /\ pc[h] # "closed"
    /\ Abandon(h)
    /\ UNCHANGED <<layout, used, lockFile>>

\* Something outside deletes repository.lock and creates it again; Windows refuses to delete a
\* file that a handle has open.
ReplaceLockFile ==
    /\ RootLocks
    /\ layout # "empty"
    /\ lockFile < MaxReplaced
    /\ lockFile' = lockFile + 1
    /\ UNCHANGED <<layout, used, turnstile, root, named, lockId, pc, want, then>>

----------------------------------------------------------------------------
\* What a handle does once it is past the turnstile.
Step(h) ==
    \/ LockRoot(h) \/ LockNamed(h) \/ Classify(h)
    \/ ReleaseRoot(h) \/ RelockRoot(h) \/ LockNamedExclusive(h) \/ Repair(h) \/ WriteFormat(h)
    \/ Finish(h) \/ Upgrade(h) \/ UnlockNamed(h) \/ UnlockRoot(h)

Next ==
    \/ \E h \in Handles :
        \/ Open(h) \/ Backup(h) \/ Close(h) \/ Crash(h)
        \/ \E w \in {"read", "write"} : Operation(h, w)
        \/ Enter(h)
        \/ Step(h)
    \/ ReplaceLockFile

Spec == Init /\ [][Next]_vars

\* Calls return: a handle that is past the turnstile and can move does.  Nothing is assumed of
\* who gets a lock when several wait for it.
FairSpec == Spec /\ \A h \in Handles : WF_vars(Step(h))

----------------------------------------------------------------------------
(* Correctness *)

\* A handle that may be writing: the journal, the recovery of an exclusive open, or the layout.
Writing(h) ==
    \/ pc[h] \in {"repair", "format"}
    \/ pc[h] = "inside" /\ named[h] = "exclusive"

\* A writer is alone: while an append, a recovery or a bootstrap runs, no other handle runs an
\* operation, even where repository.lock was replaced under an open handle and the two hold
\* locks on different files.
WriterAlone ==
    \A g, h \in Handles :
        Writing(g) /\ g # h => ~Writing(h) /\ pc[h] \notin {"inside", "classify"}

\* The wait for the named lock under a shared root is short: whoever holds the named lock
\* exclusively also holds the root exclusively, so a handle with the root shared never finds it
\* held.
SharedRootMeetsNoWriter ==
    \A g, h \in Handles :
        root[h] = "shared" /\ named[g] = "exclusive" => lockId[g] # lockId[h]

\* A bootstrap killed between creating format.json and filling it leaves a root that every later
\* open refuses; such a root never holds a batch.
TornRootIsEmpty == layout = "torn" => ~used

\* Readers that keep arriving hold nobody up: whoever has the turnstile, be it to read, to append
\* or to recover, gets the locks it waits for and lets the next one through, although the kernel
\* would grant shared locks past a waiting writer for ever.
TurnstileMoves == turnstile # NoOne ~> turnstile = NoOne
============================================================================
