-------------------------- MODULE StoreLockProofs --------------------------
(* What the store's locks guarantee for every number of handles, with and without a lockable  *)
(* root and however often repository.lock is replaced, proved with TLAPS.                     *)
EXTENDS StoreLock, TLAPS

\* Where each level is held: the root from LockRoot or RelockRoot until its release, the named
\* lock inside that, and never the named lock exclusively under a shared root.
RootPcs == {"named", "classify", "release", "namedx", "repair", "format", "inside", "unlock",
            "unlockRoot"}
NamedPcs == {"classify", "repair", "format", "inside", "unlock"}

HeldBy(h) ==
    /\ RootLocks => (root[h] # "none" <=> pc[h] \in RootPcs)
    /\ named[h] # "none" <=> pc[h] \in NamedPcs
    /\ RootLocks /\ named[h] = "exclusive" => root[h] = "exclusive"
    /\ pc[h] = "named" /\ RootLocks => root[h] = RootMode(want[h])
    /\ pc[h] = "namedx" /\ RootLocks => root[h] = "exclusive"
    /\ pc[h] \in {"repair", "format"} => named[h] = "exclusive"
    /\ pc[h] = "classify" => named[h] = "shared"

\* The kernel's promise: an exclusive lock excludes every other lock on the same file.
RootExclusion ==
    \A g, h \in Handles : g # h /\ root[g] = "exclusive" => root[h] = "none"
NamedExclusion ==
    \A g, h \in Handles :
        g # h /\ lockId[g] = lockId[h] /\ named[g] = "exclusive" => named[h] = "none"

\* Where the root is not lockable nobody holds it, and repository.lock is never replaced.
Unlockable ==
    ~RootLocks => /\ lockFile = 0
                  /\ \A h \in Handles : root[h] = "none" /\ lockId[h] = 0

LockInv ==
    /\ TypeOK
    /\ \A h \in Handles : HeldBy(h)
    /\ RootExclusion
    /\ NamedExclusion
    /\ Unlockable

\* A handle that got through an open stands for a complete layout, and only then does it write.
Formatted(h) ==
    ( \/ pc[h] = "opened" \/ then[h] = "opened"
      \/ want[h] \in {"read", "write", "upgrade"}
      \/ pc[h] = "inside" /\ want[h] = "open" )
        => layout = "complete"

LayoutInv ==
    /\ TypeOK
    /\ used => layout \in {"dirless", "complete"}
    /\ \A h \in Handles : Formatted(h)

-----------------------------------------------------------------------------
(* The types *)

LEMMA TypeInit == Init => TypeOK
BY ReplacedAssumption DEF Init, TypeOK, Layout, Mode, PC, Want

LEMMA AbandonType ==
    ASSUME TypeOK, NEW h \in Handles, Abandon(h), UNCHANGED <<layout, used, lockFile>>
    PROVE  TypeOK'
BY ReplacedAssumption DEF TypeOK, Abandon, DropTurnstile, Forget, Mode, PC, Want

LEMMA StepType ==
    ASSUME TypeOK, NEW h \in Handles, Step(h)
    PROVE  TypeOK'
<1> USE DEF TypeOK, At, DropTurnstile, Mode, PC, Want
<1>1. CASE LockRoot(h)
  BY <1>1 DEF LockRoot, RootGranted, RootMode
<1>2. CASE LockNamed(h)
  BY <1>2 DEF LockNamed, NamedGranted, NamedMode
<1>3. CASE Classify(h)
  BY <1>3, AbandonType DEF Classify
<1>4. CASE ReleaseRoot(h) \/ UnlockNamed(h)
  BY <1>4 DEF ReleaseRoot, UnlockNamed
<1>5. CASE RelockRoot(h)
  BY <1>5 DEF RelockRoot, RootGranted, Layout
<1>6. CASE LockNamedExclusive(h)
  BY <1>6 DEF LockNamedExclusive, NamedGranted
<1>7. CASE Repair(h)
  BY <1>7, AbandonType DEF Repair, Layout
<1>8. CASE WriteFormat(h)
  BY <1>8 DEF WriteFormat, Layout
<1>9. CASE Finish(h)
  <2>1. used' \in BOOLEAN
    <3>1. used' = used \/ used' = (used \/ want[h] = "write")
      BY <1>9, Zenon DEF Finish
    <3> QED BY <3>1, Zenon
  <2>2. then' \in [Handles -> {"closed", "opened", "enter"}]
    BY <1>9 DEF Finish
  <2>3. pc' \in [Handles -> PC]
    BY <1>9 DEF Finish
  <2> QED BY <1>9, <2>1, <2>2, <2>3, Zenon DEF Finish
<1>10. CASE Upgrade(h)
  BY <1>10 DEF Upgrade
<1>11. CASE UnlockRoot(h)
  BY <1>11, ReplacedAssumption DEF UnlockRoot, Forget
<1> QED BY <1>1, <1>2, <1>3, <1>4, <1>5, <1>6, <1>7, <1>8, <1>9, <1>10, <1>11 DEF Step

LEMMA TypeNext == TypeOK /\ [Next]_vars => TypeOK'
<1> SUFFICES ASSUME TypeOK, [Next]_vars PROVE TypeOK'
  OBVIOUS
<1>1. ASSUME NEW h \in Handles,
             Open(h) \/ Backup(h) \/ \E w \in {"read", "write"} : Operation(h, w)
      PROVE  TypeOK'
  BY <1>1 DEF TypeOK, At, PC, Want, Open, Backup, Operation
<1>2. ASSUME NEW h \in Handles, Close(h)
      PROVE  TypeOK'
  BY <1>2, ReplacedAssumption DEF TypeOK, At, PC, Close
<1>3. ASSUME NEW h \in Handles, Crash(h)
      PROVE  TypeOK'
  BY <1>3, AbandonType DEF Crash
<1>4. ASSUME NEW h \in Handles, Enter(h)
      PROVE  TypeOK'
  BY <1>4 DEF TypeOK, At, PC, Enter
<1>5. CASE ReplaceLockFile
  BY <1>5, ReplacedAssumption DEF TypeOK, ReplaceLockFile
<1>6. CASE UNCHANGED vars
  BY <1>6 DEF TypeOK, vars
<1> QED BY <1>1, <1>2, <1>3, <1>4, <1>5, <1>6, StepType DEF Next

\* The lock tables, the handles' counters and the layout stay well formed, whatever crashes.
THEOREM TypeInvariant == Spec => []TypeOK
BY TypeInit, TypeNext, PTL DEF Spec

-----------------------------------------------------------------------------
(* Mutual exclusion *)

LEMMA LockInit == Init => LockInv
BY TypeInit DEF Init, LockInv, HeldBy, RootExclusion, NamedExclusion, Unlockable, RootPcs,
   NamedPcs

\* Whoever gives up every lock disturbs nobody.
LEMMA AbandonLock ==
    ASSUME LockInv, NEW h \in Handles, Abandon(h), UNCHANGED <<layout, used, lockFile>>
    PROVE  LockInv'
<1>1. TypeOK'
  BY AbandonType DEF LockInv
<1> QED BY <1>1 DEF LockInv, TypeOK, Abandon, Forget, HeldBy, RootExclusion, NamedExclusion,
        Unlockable, RootPcs, NamedPcs, Mode, PC

LEMMA StepLock ==
    ASSUME LockInv, NEW h \in Handles, Step(h)
    PROVE  LockInv'
<1>0. TypeOK /\ TypeOK'
  BY StepType DEF LockInv
<1> USE DEF LockInv, TypeOK, At, HeldBy, RootExclusion, NamedExclusion, Unlockable, RootPcs,
        NamedPcs, Mode, PC, Want
<1>1. CASE LockRoot(h)
  BY <1>0, <1>1 DEF LockRoot, RootGranted, RootMode, Compatible
<1>2. CASE LockNamed(h)
  BY <1>0, <1>2 DEF LockNamed, NamedGranted, NamedMode, RootMode, Compatible
<1>3. CASE Classify(h)
  BY <1>0, <1>3, AbandonLock DEF Classify
<1>4. CASE ReleaseRoot(h) \/ UnlockNamed(h)
  BY <1>0, <1>4 DEF ReleaseRoot, UnlockNamed
<1>5. CASE RelockRoot(h)
  BY <1>0, <1>5 DEF RelockRoot, RootGranted, Compatible
<1>6. CASE LockNamedExclusive(h)
  BY <1>0, <1>6 DEF LockNamedExclusive, NamedGranted, Compatible
<1>7. CASE Repair(h)
  BY <1>0, <1>7, AbandonLock DEF Repair
<1>8. CASE WriteFormat(h)
  BY <1>0, <1>8 DEF WriteFormat
<1>9. CASE Finish(h)
  BY <1>0, <1>9 DEF Finish
<1>10. CASE Upgrade(h)
  BY <1>0, <1>10 DEF Upgrade
<1>11. CASE UnlockRoot(h)
  BY <1>0, <1>11 DEF UnlockRoot, Forget
<1> QED BY <1>1, <1>2, <1>3, <1>4, <1>5, <1>6, <1>7, <1>8, <1>9, <1>10, <1>11 DEF Step

LEMMA LockNext == LockInv /\ [Next]_vars => LockInv'
<1> SUFFICES ASSUME LockInv, [Next]_vars PROVE LockInv'
  OBVIOUS
<1>0. TypeOK /\ TypeOK'
  BY TypeNext DEF LockInv
<1> USE DEF LockInv, TypeOK, At, HeldBy, RootExclusion, NamedExclusion, Unlockable, RootPcs,
        NamedPcs, Mode, PC
<1>1. ASSUME NEW h \in Handles,
             Open(h) \/ Backup(h) \/ \E w \in {"read", "write"} : Operation(h, w)
      PROVE  LockInv'
  BY <1>0, <1>1 DEF Open, Backup, Operation
<1>2. ASSUME NEW h \in Handles, Close(h)
      PROVE  LockInv'
  BY <1>0, <1>2 DEF Close
<1>3. ASSUME NEW h \in Handles, Crash(h)
      PROVE  LockInv'
  BY <1>3, AbandonLock DEF Crash
<1>4. ASSUME NEW h \in Handles, Enter(h)
      PROVE  LockInv'
  BY <1>0, <1>4 DEF Enter
<1>5. CASE ReplaceLockFile
  BY <1>0, <1>5 DEF ReplaceLockFile
<1>6. CASE UNCHANGED vars
  BY <1>0, <1>6 DEF vars
<1> QED BY <1>1, <1>2, <1>3, <1>4, <1>5, <1>6, StepLock DEF Next

\* Who holds which level where, and that an exclusive holder is alone on its file.
THEOREM LockInvariant == Spec => []LockInv
BY LockInit, LockNext, PTL DEF Spec

\* A writer is alone (with_lock, the exclusive open, the bootstrap).  Where the root is lockable
\* the root's lock says so, which cannot be replaced; where it is not, the named lock does, for
\* nobody can replace it there.
THEOREM WriterAloneAlways == Spec => []WriterAlone
<1>1. LockInv => WriterAlone
  <2> SUFFICES ASSUME LockInv, NEW g \in Handles, NEW h \in Handles, Writing(g), g # h
               PROVE  ~Writing(h) /\ pc[h] \notin {"inside", "classify"}
    BY DEF WriterAlone
  <2>1. named[g] = "exclusive"
    BY DEF LockInv, HeldBy, Writing
  <2>2. CASE RootLocks
    <3>1. root[g] = "exclusive"
      BY <2>1, <2>2 DEF LockInv, HeldBy
    <3>2. root[h] = "none"
      BY <3>1 DEF LockInv, RootExclusion
    <3>3. pc[h] \notin RootPcs
      BY <2>2, <3>2 DEF LockInv, HeldBy
    <3> QED BY <3>3 DEF RootPcs, Writing
  <2>3. CASE ~RootLocks
    <3>1. lockId[g] = lockId[h]
      BY <2>3 DEF LockInv, Unlockable
    <3>2. named[h] = "none"
      BY <2>1, <3>1 DEF LockInv, NamedExclusion
    <3>3. pc[h] \notin NamedPcs
      BY <3>2 DEF LockInv, HeldBy
    <3> QED BY <3>3 DEF NamedPcs, Writing
  <2> QED BY <2>2, <2>3, RootLocksAssumption
<1> QED BY <1>1, LockInvariant, PTL

\* A handle that holds the root shared never waits for a named lock held exclusively on the file
\* it opened (lock_shared, initialize_root_shared_fast).
THEOREM SharedRootMeetsNoWriterAlways == Spec => []SharedRootMeetsNoWriter
<1>1. LockInv => SharedRootMeetsNoWriter
  <2> SUFFICES ASSUME LockInv, NEW g \in Handles, NEW h \in Handles,
                      root[h] = "shared", named[g] = "exclusive"
               PROVE  FALSE
    BY DEF SharedRootMeetsNoWriter
  <2>1. RootLocks
    BY RootLocksAssumption DEF LockInv, Unlockable
  <2>2. root[g] = "exclusive"
    BY <2>1 DEF LockInv, HeldBy
  <2> QED BY <2>2 DEF LockInv, RootExclusion
<1> QED BY <1>1, LockInvariant, PTL

-----------------------------------------------------------------------------
(* The layout *)

LEMMA LayoutInit == Init => LayoutInv
BY TypeInit DEF Init, LayoutInv, Formatted, Layout

LEMMA AbandonLayout ==
    ASSUME LayoutInv, NEW h \in Handles, Abandon(h), UNCHANGED <<layout, used, lockFile>>
    PROVE  LayoutInv'
<1>1. TypeOK /\ TypeOK'
  BY AbandonType DEF LayoutInv
<1> QED BY <1>1 DEF LayoutInv, TypeOK, Abandon, Forget, Formatted

LEMMA StepLayout ==
    ASSUME LayoutInv, NEW h \in Handles, Step(h)
    PROVE  LayoutInv'
<1>0. TypeOK /\ TypeOK'
  BY StepType DEF LayoutInv
<1> USE DEF LayoutInv, TypeOK, At, Formatted, Layout, PC, Want
<1>1. CASE LockRoot(h)
  BY <1>0, <1>1 DEF LockRoot
<1>2. CASE LockNamed(h)
  BY <1>0, <1>2 DEF LockNamed
<1>3. CASE Classify(h)
  BY <1>0, <1>3, AbandonLayout DEF Classify
<1>4. CASE ReleaseRoot(h) \/ UnlockNamed(h)
  BY <1>0, <1>4 DEF ReleaseRoot, UnlockNamed
<1>5. CASE RelockRoot(h)
  BY <1>0, <1>5 DEF RelockRoot
<1>6. CASE LockNamedExclusive(h)
  BY <1>0, <1>6 DEF LockNamedExclusive
<1>7. CASE Repair(h)
  BY <1>0, <1>7, AbandonLayout DEF Repair
<1>8. CASE WriteFormat(h)
  BY <1>0, <1>8 DEF WriteFormat
<1>9. CASE Finish(h)
  BY <1>0, <1>9 DEF Finish
<1>10. CASE Upgrade(h)
  BY <1>0, <1>10 DEF Upgrade
<1>11. CASE UnlockRoot(h)
  BY <1>0, <1>11 DEF UnlockRoot, Forget
<1> QED BY <1>1, <1>2, <1>3, <1>4, <1>5, <1>6, <1>7, <1>8, <1>9, <1>10, <1>11 DEF Step

LEMMA LayoutNext == LayoutInv /\ [Next]_vars => LayoutInv'
<1> SUFFICES ASSUME LayoutInv, [Next]_vars PROVE LayoutInv'
  OBVIOUS
<1>0. TypeOK /\ TypeOK'
  BY TypeNext DEF LayoutInv
<1> USE DEF LayoutInv, TypeOK, At, Formatted, PC, Want
<1>1. ASSUME NEW h \in Handles,
             Open(h) \/ Backup(h) \/ \E w \in {"read", "write"} : Operation(h, w)
      PROVE  LayoutInv'
  BY <1>0, <1>1 DEF Open, Backup, Operation
<1>2. ASSUME NEW h \in Handles, Close(h) \/ Enter(h)
      PROVE  LayoutInv'
  BY <1>0, <1>2 DEF Close, Enter
<1>3. ASSUME NEW h \in Handles, Crash(h)
      PROVE  LayoutInv'
  BY <1>3, AbandonLayout DEF Crash
<1>4. CASE ReplaceLockFile \/ UNCHANGED vars
  BY <1>0, <1>4 DEF ReplaceLockFile, vars
<1> QED BY <1>1, <1>2, <1>3, <1>4, StepLayout DEF Next

\* A root whose bootstrap was cut off inside format.json holds no batch, for a batch is appended
\* only through a handle whose open found or made a complete layout, and no layout that is
\* complete goes back (repair_layout_locked, classify_layout).
THEOREM TornRootIsEmptyAlways == Spec => []TornRootIsEmpty
<1>1. LayoutInv => TornRootIsEmpty
  BY DEF LayoutInv, TornRootIsEmpty
<1> QED BY <1>1, LayoutInit, LayoutNext, PTL DEF Spec
=============================================================================
