---------------------------- MODULE HostAdoption ----------------------------
(***************************************************************************)
(* Adoption of a methodology into a user's own configuration files         *)
(* (adapters/host-adoption/src: apply, restore, journal, storage/guarded): *)
(* the journaled apply of a reviewed plan, its compensation, the restore   *)
(* of a chain of installed plans, and recovery after a crash at any step.  *)
(*                                                                         *)
(* One command runs at a time: every command holds the user's, the         *)
(* project's and the state directory's lock and refuses when it cannot get *)
(* them.  The user edits the files at any moment, holding no lock.  The    *)
(* build is the Linux one, where publication is one atomic exchange.       *)
(*                                                                         *)
(* A file is its parsed document with two keys, the one adoption owns and  *)
(* one of the user's.  Every edit writes a value never written before, so  *)
(* equal documents stand for equal bytes, access bits and inode.           *)
(***************************************************************************)
EXTENDS Naturals, Sequences, FiniteSets

CONSTANTS
    NumFiles,       \* files are 1 .. NumFiles, in the order of operations and surfaces
    Structured,     \* the files that parse as JSON or TOML; the others are merged whole
    Plans,          \* the adoption plans a user may accept, each a transaction of its own
    Restores,       \* the restore plans a user may accept
    Payload,        \* [Plans -> the value the plan installs under the owned key]
    Touches,        \* [Plans -> the files the plan changes]
    MaxGuards,      \* the guard directories one journal entry may name (16 in the code)
    None,           \* no transaction, no journal
    Conflict,       \* the merge of a key that the user changed after it was installed
    AnyRecover,     \* whether the user also recovers transactions that active.json does not name
    MaxEdits,       \* bound: edits of the user
    MaxFaults       \* bound: crashes and failed system calls

Files == 1 .. NumFiles
Tx == Plans \cup Restores

ASSUME FilesAssumption == NumFiles \in Nat \ {0} /\ Structured \subseteq Files
ASSUME TxAssumption == Plans \cap Restores = {} /\ None \notin Tx /\ IsFiniteSet(Tx)
ASSUME TouchesAssumption == Touches \in [Plans -> (SUBSET Files) \ {{}}]
ASSUME BoundsAssumption ==
    MaxGuards \in Nat \ {0} /\ AnyRecover \in BOOLEAN /\ MaxEdits \in Nat /\ MaxFaults \in Nat

VARIABLES
    file,      \* [Files -> Document]: what the path names now
    journal,   \* [Tx -> its journal file, or None]
    guards,    \* [Tx -> [Files -> Seq(Guard)]]: the guard directories the journals name
    active,    \* the transaction active.json names, or None
    job,       \* the command that runs
    edits,     \* how many edits the user made
    owed,      \* the edits the user has not overwritten
    faults     \* how many crashes and failures happened

vars == <<file, journal, guards, active, job, edits, owed, faults>>

----------------------------------------------------------------------------
(* Data *)

Baseline == 0
Value == {Baseline} \cup {Payload[t] : t \in Plans} \cup 1 .. MaxEdits
Document == [own : Value, user : Value]
Keys == {"own", "user"}

Phase == {"planned", "intent", "published", "restoreIntent", "reverted"}
Entry == [before : Document, after : Document, phase : Phase]

State == {"planned", "backedUp", "applying", "installed", "restoring", "restored",
          "recoveryRequired"}

\* A guard directory and the record that names it: before the exchange it holds the candidate,
\* afterwards the file that the exchange displaced.
Guard == [expected : Document, replacement : Document, swapped : BOOLEAN, holds : Document]

\* A journal with an entry for each of the files touched.
Journal(touched) ==
    [state : State, entries : [touched -> Entry], predecessor : Tx \cup {None},
     sources : Seq(Plans)]

IsJournal(j) == \E touched \in (SUBSET Files) \ {{}} : j \in Journal(touched)

ASSUME NoneAssumption == \A touched \in SUBSET Files : None \notin Journal(touched)

PC == {"idle", "point", "backup", "begin", "intend", "publish", "exchange", "capture", "commit",
       "check", "restoring", "revert", "preflight", "forward", "settle", "finish"}

Idle == [pc |-> "idle", tx |-> None, at |-> 0]

Edit == [file : Files, key : Keys, edit : 1 .. MaxEdits, quiet : BOOLEAN]

TypeOK ==
    /\ file \in [Files -> Document]
    /\ DOMAIN journal = Tx
    /\ \A t \in Tx : journal[t] # None => IsJournal(journal[t])
    /\ guards \in [Tx -> [Files -> Seq(Guard)]]
    /\ \A t \in Tx, f \in Files : Len(guards[t][f]) <= MaxGuards
    /\ active \in Tx \cup {None}
    /\ job \in [pc : PC, tx : Tx \cup {None}, at : Nat]
    /\ job.pc # "idle" => job.tx \in Tx /\ journal[job.tx] # None
    /\ edits \in 0 .. MaxEdits
    /\ owed \subseteq Edit
    /\ faults \in 0 .. MaxFaults

Init ==
    /\ file = [f \in Files |-> [own |-> Baseline, user |-> Baseline]]
    /\ journal = [t \in Tx |-> None]
    /\ guards = [t \in Tx |-> [f \in Files |-> <<>>]]
    /\ active = None
    /\ job = Idle
    /\ edits = 0
    /\ owed = {}
    /\ faults = 0

----------------------------------------------------------------------------
(* Journals *)

Exists(t) == journal[t] # None
Touched(t) == DOMAIN journal[t].entries
Finished(t) == journal[t].state \in {"installed", "restored"}

\* Mutant: a transaction that recovery left half done no longer stops the next command.
EnsureIdle_Recovery(t) ==
    active \notin {None, t} => Finished(active) \/ journal[active].state = "recoveryRequired"

\* ensure_idle: the transaction that active.json names must be finished, unless it is the
\* candidate itself.
EnsureIdle(t) == active \notin {None, t} => Finished(active)

\* The transactions from the active one back along the predecessors, None past the oldest.
Walk ==
    LET Back[n \in 0 .. Cardinality(Tx)] ==
            IF n = 0 THEN active
            ELSE IF Back[n - 1] = None THEN None ELSE journal[Back[n - 1]].predecessor
    IN  Back

\* chain: it refuses as a whole when one of them is neither restored nor an installed plan.
ChainReadable ==
    LET walk == Walk IN
    \A n \in 0 .. Cardinality(Tx) : walk[n] # None =>
        \/ journal[walk[n]].state = "restored"
        \/ walk[n] \in Plans /\ journal[walk[n]].state = "installed"

\* What it returns: the installed ones, the newest first.
Chain ==
    LET walk == Walk
        Found[n \in 0 .. Cardinality(Tx)] ==
            LET newer == IF n = 0 THEN <<>> ELSE Found[n - 1]
                t == walk[n]
            IN  IF t # None /\ journal[t].state = "installed" THEN Append(newer, t) ELSE newer
    IN  Found[Cardinality(Tx)]

\* One journal write: the state of t, or the phase of its entry for f.
SetState(t, state) == journal' = [journal EXCEPT ![t].state = state]
SetPhase(t, f, phase) == journal' = [journal EXCEPT ![t].entries[f].phase = phase]

----------------------------------------------------------------------------
(* The order in which a command visits the entries *)

PastEnd == NumFiles + 1
Following(D, f) ==
    CHOOSE g \in (D \cup {PastEnd}) : g > f /\ \A h \in D : h > f => g <= h
Preceding(D, f) ==
    CHOOSE g \in (D \cup {0}) : g < f /\ \A h \in D : h < f => g >= h

Goto(pc, at) == job' = [job EXCEPT !.pc = pc, !.at = at]
Return == job' = Idle

\* The next entry at pc, or next when there is none left.
First(t) == Following(Touched(t), 0)
Ascend(pc, next) ==
    LET g == Following(Touched(job.tx), job.at)
    IN  IF g # PastEnd THEN Goto(pc, g)
        ELSE Goto(next, IF next = "forward" THEN First(job.tx) ELSE 1)
Descend(pc, next) ==
    LET g == Preceding(Touched(job.tx), job.at)
    IN  IF g = 0 THEN Goto(next, 1) ELSE Goto(pc, g)

\* What the command is doing with its transaction.
Resuming == job.tx \in Restores
Compensating ==
    /\ job.tx \in Plans
    /\ \/ job.pc \in {"check", "restoring", "revert"}
       \/ journal[job.tx].state = "restoring"
Applying == job.tx \in Plans /\ ~Compensating

\* What an error does.  A failed apply reads its journal again and compensates in the same
\* command; a failed compensation returns; a failed resume records that recovery is required,
\* unless it failed before its first journal write had returned.
Abandon ==
    \/ /\ Applying
       /\ Goto("check", First(job.tx))
       /\ UNCHANGED journal
    \/ /\ Compensating \/ (Resuming /\ job.pc = "point")
       /\ Return
       /\ UNCHANGED journal
    \/ /\ Resuming /\ job.pc # "point"
       /\ SetState(job.tx, "recoveryRequired")
       /\ Return

----------------------------------------------------------------------------
(* Guarded publication, shared by the three commands *)

\* GuardRecord::verify: the directory holds the candidate as written, or the very file that the
\* record expected to displace.
GuardsVerify(t, f) ==
    \A n \in DOMAIN guards[t][f] : LET g == guards[t][f][n] IN
        g.holds = IF g.swapped THEN g.expected ELSE g.replacement

\* Source::prepare and the journal write that follows it: the candidate is durable in a guard
\* directory of its own before the journal names the directory and the intent.
Prepare(t, f, expected, replacement, phase) ==
    /\ file[f] = expected
    /\ guards' = [guards EXCEPT ![t][f] =
                    Append(@, [expected |-> expected, replacement |-> replacement,
                               swapped |-> FALSE, holds |-> replacement])]
    /\ SetPhase(t, f, phase)
    /\ Goto("publish", f)

LastGuard == guards[job.tx][job.at][Len(guards[job.tx][job.at])]

\* Prepared::publish up to its last look at the source.
Validate ==
    /\ job.pc = "publish"
    /\ \/ /\ file[job.at] = LastGuard.expected
          /\ Goto("exchange", job.at)
          /\ UNCHANGED journal
       \/ /\ file[job.at] # LastGuard.expected
          /\ Abandon
    /\ UNCHANGED <<file, guards, active>>

\* Mutant: a plain rename, which destroys whatever the path holds by now.
Exchange_Rename ==
    /\ job.pc = "exchange"
    /\ file' = [file EXCEPT ![job.at] = LastGuard.holds]
    /\ guards' = [guards EXCEPT ![job.tx][job.at][Len(guards[job.tx][job.at])] =
                    [@ EXCEPT !.swapped = TRUE, !.holds = LastGuard.expected]]
    /\ Goto("capture", job.at)
    /\ UNCHANGED <<journal, active>>

\* The exchange: path and candidate swap names, whatever the path holds by now.
Exchange ==
    /\ job.pc = "exchange"
    /\ file' = [file EXCEPT ![job.at] = LastGuard.holds]
    /\ guards' = [guards EXCEPT ![job.tx][job.at][Len(guards[job.tx][job.at])] =
                    [@ EXCEPT !.swapped = TRUE, !.holds = file[job.at]]]
    /\ Goto("capture", job.at)
    /\ UNCHANGED <<journal, active>>

\* The look at both sides of the exchange, and the journal write that records the entry as done.
Capture ==
    /\ job.pc = "capture"
    /\ LET captured == LastGuard.holds = LastGuard.expected
                       /\ file[job.at] = LastGuard.replacement
       IN  \/ /\ captured
              /\ Applying
              /\ SetPhase(job.tx, job.at, "published")
              /\ Ascend("intend", "commit")
           \/ /\ captured
              /\ Compensating
              /\ SetPhase(job.tx, job.at, "reverted")
              /\ Descend("revert", "finish")
           \/ /\ captured
              /\ Resuming
              /\ SetPhase(job.tx, job.at, "reverted")
              /\ Ascend("forward", "settle")
           \/ /\ ~captured
              /\ Abandon
    /\ UNCHANGED <<file, guards, active>>

----------------------------------------------------------------------------
(* apply *)

\* apply_engine up to its first journal write: the plan's before-state is what the files hold (a
\* stale plan is refused) and has been backed up; the plan changes the owned key alone and leaves
\* out a file that already has the value.
BeginApply(t) ==
    LET replaced == {f \in Touches[t] : file[f].own # Payload[t]} IN
    /\ job = Idle
    /\ ~Exists(t)
    /\ EnsureIdle(t)
    /\ replaced # {}
    /\ journal' = [journal EXCEPT ![t] =
            [state |-> "planned",
             entries |-> [f \in replaced |->
                            [before |-> file[f],
                             after |-> [file[f] EXCEPT !.own = Payload[t]],
                             phase |-> "planned"]],
             predecessor |-> active,
             sources |-> <<>>]]
    /\ job' = [pc |-> "point", tx |-> t, at |-> 1]
    /\ UNCHANGED <<file, guards, active>>

\* sync_with_hook's second write of a first sync: active.json.
Point ==
    /\ job.pc = "point"
    /\ active' = job.tx
    /\ IF Resuming THEN Goto("preflight", First(job.tx)) ELSE Goto("backup", 1)
    /\ UNCHANGED <<file, journal, guards>>

MarkBackedUp ==
    /\ job.pc = "backup"
    /\ SetState(job.tx, "backedUp")
    /\ Goto("begin", 1)
    /\ UNCHANGED <<file, guards, active>>

MarkApplying ==
    /\ job.pc = "begin"
    /\ SetState(job.tx, "applying")
    /\ Goto("intend", First(job.tx))
    /\ UNCHANGED <<file, guards, active>>

\* Mutant: the exchange goes ahead of the journal write that declares it.
Intend_Unjournaled ==
    /\ job.pc = "intend"
    /\ LET e == journal[job.tx].entries[job.at]
       IN  \/ Prepare(job.tx, job.at, e.before, e.after, e.phase)
           \/ /\ file[job.at] # e.before
              /\ Abandon
              /\ UNCHANGED guards
    /\ UNCHANGED <<file, active>>

Intend ==
    /\ job.pc = "intend"
    /\ LET e == journal[job.tx].entries[job.at]
       IN  \/ Prepare(job.tx, job.at, e.before, e.after, "intent")
           \/ /\ file[job.at] # e.before
              /\ Abandon
              /\ UNCHANGED guards
    /\ UNCHANGED <<file, active>>

Commit ==
    /\ job.pc = "commit"
    /\ SetState(job.tx, "installed")
    /\ Return
    /\ UNCHANGED <<file, guards, active>>

----------------------------------------------------------------------------
(* compensate: a plan's transaction that is not installed goes back to its before-state *)

\* Every entry is looked at before the first one is written.  A published after-state is only
\* believed where the journal says that publication was intended.
Check ==
    /\ job.pc = "check"
    /\ LET e == journal[job.tx].entries[job.at]
           expected == file[job.at] = e.before \/ (file[job.at] = e.after /\ e.phase # "planned")
       IN  \/ /\ ~GuardsVerify(job.tx, job.at)
              /\ Abandon
           \/ /\ GuardsVerify(job.tx, job.at)
              /\ ~expected
              /\ SetState(job.tx, "recoveryRequired")
              /\ Return
           \/ /\ GuardsVerify(job.tx, job.at)
              /\ expected
              /\ Ascend("check", "restoring")
              /\ UNCHANGED journal
    /\ UNCHANGED <<file, guards, active>>

\* Mutant: the walk back starts at the first entry, so that later ones stay published.
MarkRestoring_First ==
    /\ job.pc = "restoring"
    /\ SetState(job.tx, "restoring")
    /\ Goto("revert", First(job.tx))
    /\ UNCHANGED <<file, guards, active>>

MarkRestoring ==
    /\ job.pc = "restoring"
    /\ SetState(job.tx, "restoring")
    /\ Goto("revert", Preceding(Touched(job.tx), PastEnd))
    /\ UNCHANGED <<file, guards, active>>

\* Mutant: guard directories without a limit.
Revert_Unbounded ==
    /\ job.pc = "revert"
    /\ LET e == journal[job.tx].entries[job.at]
       IN  \/ /\ e.after # e.before
              /\ Prepare(job.tx, job.at, e.after, e.before, "restoreIntent")
           \/ /\ file[job.at] = e.before
              /\ SetPhase(job.tx, job.at, "reverted")
              /\ Descend("revert", "finish")
              /\ UNCHANGED guards
           \/ /\ file[job.at] \notin {e.before, e.after}
              /\ SetState(job.tx, "recoveryRequired")
              /\ Return
              /\ UNCHANGED guards
    /\ UNCHANGED <<file, active>>

\* One entry, from the last to the first.
Revert ==
    /\ job.pc = "revert"
    /\ LET e == journal[job.tx].entries[job.at]
           n == Len(guards[job.tx][job.at])
       IN  \/ /\ file[job.at] = e.after /\ e.after # e.before
              /\ \/ n < MaxGuards /\ Prepare(job.tx, job.at, e.after, e.before, "restoreIntent")
                 \/ n >= MaxGuards /\ Abandon /\ UNCHANGED guards
           \/ /\ file[job.at] = e.before
              /\ SetPhase(job.tx, job.at, "reverted")
              /\ Descend("revert", "finish")
              /\ UNCHANGED guards
           \/ /\ file[job.at] \notin {e.before, e.after}
              /\ SetState(job.tx, "recoveryRequired")
              /\ Return
              /\ UNCHANGED guards
    /\ UNCHANGED <<file, active>>

----------------------------------------------------------------------------
(* restore *)

\* restore_keys and restore_value on one key.
RestoreValue(base, installed, current) ==
    IF base = installed THEN current
    ELSE IF current \in {installed, base} THEN base
    ELSE Conflict

\* restore_document: a file that does not parse is merged as one value.
RestoreDocument(f, base, installed, current) ==
    IF current \in {installed, base} THEN base
    ELSE IF base = installed THEN current
    ELSE IF f \notin Structured THEN Conflict
    ELSE LET merged == [k \in Keys |-> RestoreValue(base[k], installed[k], current[k])]
         IN  IF Conflict \in {merged[k] : k \in Keys} THEN Conflict
             ELSE [own |-> merged["own"], user |-> merged["user"]]

\* restore_transitions: the sources that touched f are undone from the newest to the oldest.
Target(f, sources) ==
    LET Undo[n \in 0 .. Len(sources)] ==
            IF n = 0 THEN file[f]
            ELSE IF Undo[n - 1] = Conflict \/ f \notin Touched(sources[n]) THEN Undo[n - 1]
            ELSE LET e == journal[sources[n]].entries[f]
                 IN  RestoreDocument(f, e.before, e.after, Undo[n - 1])
    IN  Undo[Len(sources)]

\* apply_restore up to its first journal write, for the plan that undoes the newest n installed
\* transactions (all of them for "original").  A conflict is reported and changes nothing.
BeginRestore(r, n) ==
    /\ job = Idle
    /\ ~Exists(r)
    /\ EnsureIdle(r)
    /\ ChainReadable
    /\ n \in DOMAIN Chain
    /\ LET sources == SubSeq(Chain, 1, n)
           owned == UNION {Touched(sources[m]) : m \in 1 .. n}
       IN  /\ \A f \in owned : Target(f, sources) # Conflict
           /\ journal' = [journal EXCEPT ![r] =
                [state |-> "restoring",
                 entries |-> [f \in owned |->
                    [before |-> file[f], after |-> Target(f, sources), phase |-> "planned"]],
                 predecessor |-> active,
                 sources |-> sources]]
    /\ job' = [pc |-> "point", tx |-> r, at |-> 1]
    /\ UNCHANGED <<file, guards, active>>

\* resume_inner's look at every destination before its first publication.
Preflight ==
    /\ job.pc = "preflight"
    /\ LET e == journal[job.tx].entries[job.at]
           sound == GuardsVerify(job.tx, job.at) /\ file[job.at] \in {e.before, e.after}
       IN  \/ /\ sound
              /\ Ascend("preflight", "forward")
              /\ UNCHANGED journal
           \/ /\ ~sound
              /\ Abandon
    /\ UNCHANGED <<file, guards, active>>

\* One entry, from the first to the last.
Forward ==
    /\ job.pc = "forward"
    /\ LET e == journal[job.tx].entries[job.at]
           n == Len(guards[job.tx][job.at])
       IN  \/ /\ file[job.at] # e.after
              /\ n < MaxGuards
              /\ Prepare(job.tx, job.at, e.before, e.after, "restoreIntent")
           \/ /\ file[job.at] # e.after
              /\ n >= MaxGuards \/ file[job.at] # e.before
              /\ Abandon
              /\ UNCHANGED guards
           \/ /\ file[job.at] = e.after
              /\ SetPhase(job.tx, job.at, "reverted")
              /\ Ascend("forward", "settle")
              /\ UNCHANGED guards
    /\ UNCHANGED <<file, active>>

\* The sources become restored one by one, the restore itself last.
Settle ==
    /\ job.pc = "settle"
    /\ LET sources == journal[job.tx].sources
       IN  /\ SetState(sources[job.at], "restored")
           /\ IF job.at = Len(sources) THEN Goto("finish", 1) ELSE Goto("settle", job.at + 1)
    /\ UNCHANGED <<file, guards, active>>

\* The last journal write of a compensation or a resume.
Finish ==
    /\ job.pc = "finish"
    /\ SetState(job.tx, "restored")
    /\ Return
    /\ UNCHANGED <<file, guards, active>>

----------------------------------------------------------------------------
(* recover *)

\* Mutant: a transaction that already asked for recovery is not taken up again.
Recover_Once(t) ==
    /\ job = Idle
    /\ Exists(t)
    /\ journal[t].state \notin {"installed", "recoveryRequired"}
    /\ t \in Restores => journal[t].state # "restored"
    /\ AnyRecover \/ (t = active /\ ~Finished(t))
    /\ job' = [pc |-> IF t \in Restores THEN "preflight" ELSE "check",
               tx |-> t, at |-> First(t)]
    /\ UNCHANGED <<file, journal, guards, active>>

\* recover_engine: a restore is resumed (apply_restore with the same plan does the same), an
\* installed plan is left alone, and so is a restore that is already restored.  A plan that is
\* already restored is compensated once more.
Recover(t) ==
    /\ job = Idle
    /\ Exists(t)
    /\ journal[t].state # "installed"
    /\ t \in Restores => journal[t].state # "restored"
    /\ AnyRecover \/ (t = active /\ ~Finished(t))
    /\ job' = [pc |-> IF t \in Restores THEN "preflight" ELSE "check",
               tx |-> t, at |-> First(t)]
    /\ UNCHANGED <<file, journal, guards, active>>

----------------------------------------------------------------------------
(* The user and the faults *)

\* The user writes a file by its name, at any moment.
UserEdit(f, key) ==
    /\ edits < MaxEdits
    /\ edits' = edits + 1
    /\ file' = [file EXCEPT ![f][key] = edits']
    /\ owed' = {e \in owed : ~(e.file = f /\ e.edit = file[f][key])}
               \cup {[file |-> f, key |-> key, edit |-> edits', quiet |-> job = Idle]}
    /\ UNCHANGED <<journal, guards, active, job, faults>>

\* An editor that opened the file before the exchange writes to the displaced inode.
LateWrite(t, f, n) ==
    /\ edits < MaxEdits
    /\ guards[t][f][n].swapped
    /\ edits' = edits + 1
    /\ guards' = [guards EXCEPT ![t][f][n].holds.user = edits']
    /\ owed' = {e \in owed : ~(e.file = f /\ e.edit = guards[t][f][n].holds.user)}
               \cup {[file |-> f, key |-> "user", edit |-> edits', quiet |-> FALSE]}
    /\ UNCHANGED <<file, journal, active, job, faults>>

\* The process dies: what it had not written is gone, and its locks are free.
Crash ==
    /\ job # Idle
    /\ faults < MaxFaults
    /\ faults' = faults + 1
    /\ Return
    /\ UNCHANGED <<file, journal, guards, active, edits, owed>>

\* A system call of the command fails.
Fail ==
    /\ job # Idle
    /\ faults < MaxFaults
    /\ faults' = faults + 1
    /\ Abandon
    /\ UNCHANGED <<file, guards, active, edits, owed>>

----------------------------------------------------------------------------
(* Specification *)

\* The next step of the command that runs.
Step ==
    /\ \/ Point \/ MarkBackedUp \/ MarkApplying \/ Intend \/ Validate \/ Exchange \/ Capture
       \/ Commit \/ Check \/ MarkRestoring \/ Revert \/ Preflight \/ Forward \/ Settle \/ Finish
    /\ UNCHANGED <<edits, owed, faults>>

Start ==
    /\ \/ \E t \in Plans : BeginApply(t)
       \/ \E r \in Restores, n \in 1 .. Cardinality(Plans) : BeginRestore(r, n)
    /\ UNCHANGED <<edits, owed, faults>>

RecoverCommand(t) == Recover(t) /\ UNCHANGED <<edits, owed, faults>>

User ==
    \/ \E f \in Files, key \in Keys : UserEdit(f, key)
    \/ \E t \in Tx, f \in Files : \E n \in DOMAIN guards[t][f] : LateWrite(t, f, n)

Next ==
    \/ Step
    \/ Start
    \/ \E t \in Tx : RecoverCommand(t)
    \/ User
    \/ Crash
    \/ Fail

Spec == Init /\ [][Next]_vars

\* A running command takes its next step, and the user recovers the transaction that every other
\* command is refused for.
FairSpec ==
    /\ Spec
    /\ WF_vars(Step)
    /\ WF_vars(active # None /\ RecoverCommand(active))

----------------------------------------------------------------------------
(* Correctness *)

\* The transaction that active.json names is not finished: every other command is refused.
Pending == active # None /\ ~Finished(active)

\* The write-ahead rule.  Without edits of the user, the journal of an unfinished active
\* transaction always explains the files: whatever step a crash or an error cut off, the checks of
\* compensate or of resume pass.
Recoverable ==
    edits = 0 /\ job = Idle /\ Pending =>
        \A f \in Touched(active) : LET e == journal[active].entries[f] IN
            /\ GuardsVerify(active, f)
            /\ \/ file[f] = e.before
               \/ file[f] = e.after /\ (active \in Plans => e.phase # "planned")

\* No edit is destroyed: what the user wrote, also between a command's last look at a file and the
\* exchange, and also through a descriptor opened before, is in the file or in a guard directory
\* until the user overwrites it; and an edit of the user's own key made while no command ran stays
\* in the file itself, through every later apply, compensation, restore and recovery.
EditsKept ==
    \A e \in owed :
        \/ file[e.file][e.key] = e.edit
        \/ /\ ~(e.quiet /\ e.key = "user")
           /\ \E t \in Tx : \E n \in DOMAIN guards[t][e.file] :
                 guards[t][e.file][n].holds[e.key] = e.edit

\* What a file's owned key should be: the value of the newest installed plan that touches it.
LiveOwn(f) ==
    LET chain == Chain
        touching == {n \in DOMAIN chain : f \in Touched(chain[n])}
    IN  IF touching = {} THEN Baseline
        ELSE Payload[chain[CHOOSE n \in touching : \A m \in touching : n <= m]]

\* All or nothing.  Without edits of the user, whenever no transaction is pending the files hold
\* what the installed plans installed and nothing of any other, whatever crashed or failed on the
\* way; with every plan restored they are as they were before the first one.
SettledContent ==
    edits = 0 /\ job = Idle /\ ~Pending =>
        \A f \in Files : file[f] = [own |-> LiveOwn(f), user |-> Baseline]

\* "graphhelm restore previews a reversible return": while no transaction is pending, an installed
\* plan can be restored, for restore can read the chain of transactions.
RestorePossible ==
    job = Idle /\ ~Pending
    /\ (\E t \in Plans : Exists(t) /\ journal[t].state = "installed")
        => ChainReadable

\* A pending transaction gets finished: once crashes and failures stop, recovering it comes to an
\* end, unless the user edited a file meanwhile or so many attempts were cut off that an entry has
\* all the guard directories it may have.
Exhausted == \E f \in Files : Len(guards[active][f]) = MaxGuards
RecoveryConverges == Pending ~> (~Pending \/ edits > 0 \/ Exhausted)

\* A transaction that was cut off after it had changed a file.
Interrupted(t) ==
    /\ Exists(t)
    /\ ~Finished(t)
    /\ \E f \in Files : \E n \in DOMAIN guards[t][f] : guards[t][f][n].swapped

\* "If interrupted, refuse a second apply until recovery reconciles observed bytes with journaled
\* before/after hashes."
InterruptedRefusesApply ==
    job = Idle /\ (\E t \in Tx : Interrupted(t)) =>
        \A t \in Plans : ~Exists(t) => ~EnsureIdle(t)
============================================================================
