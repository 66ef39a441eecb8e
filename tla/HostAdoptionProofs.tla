------------------------- MODULE HostAdoptionProofs -------------------------
(* What HostAdoption guarantees for every number of files, plans, restores, edits and faults, proved  *)
(* with TLAPS.                                                                                       *)
EXTENDS HostAdoption, FiniteSetTheorems, WellFoundedInduction, TLAPS

---------------------------------------------------------------------------
(* Numbers *)

\* A set of naturals that is not empty has a least member ...
LEMMA LeastMember ==
    ASSUME NEW S \in SUBSET Nat, S # {}
    PROVE  \E n \in S : \A m \in S : n <= m
<1> DEFINE R == OpToRel(<, Nat)
<1>1. \A x, y \in Nat : x < y => <<x, y>> \in R
  BY DEF OpToRel
<1>2. IsWellFoundedOn(R, Nat)
  BY NatLessThanWellFounded
<1> HIDE DEF R
<1>3. PICK n \in S : \A m \in S : ~(<<m, n>> \in R)
  BY <1>2, WFMin
<1>4. ASSUME NEW m \in S PROVE n <= m
  <2>1. ~(m < n)
    BY <1>1, <1>3
  <2> QED BY <2>1
<1> QED BY <1>4

\* ... and a greatest one, when it is bounded.
LEMMA GreatestMember ==
    ASSUME NEW b \in Nat, NEW S \in SUBSET (0 .. b), S # {}
    PROVE  \E n \in S : \A m \in S : m <= n
<1> DEFINE D == {b - n : n \in S}
<1>1. D \in SUBSET Nat /\ D # {}
  <2>1. \A n \in S : n \in 0 .. b /\ b - n \in Nat
    OBVIOUS
  <2> QED BY <2>1
<1>2. PICK d \in D : \A e \in D : d <= e
  BY <1>1, LeastMember
<1>3. PICK n \in S : d = b - n
  OBVIOUS
<1>4. \A m \in S : b - m \in D /\ m \in 0 .. b
  OBVIOUS
<1>5. ASSUME NEW m \in S PROVE m <= n
  <2>1. d <= b - m
    BY <1>2, <1>4
  <2>2. m \in Nat /\ n \in Nat
    BY <1>4
  <2> QED BY <1>3, <2>1, <2>2
<1> QED BY <1>5

\* What holds at 0 and passes from each number below n to the next holds up to n.
LEMMA CountUp ==
    ASSUME NEW n \in Nat, NEW T, 0 \in T, \A i \in 0 .. n : i \in T /\ i < n => i + 1 \in T
    PROVE  \A i \in 0 .. n : i \in T
<1> DEFINE Bad == {i \in 0 .. n : i \notin T}
<1>1. SUFFICES ASSUME Bad # {} PROVE FALSE
  OBVIOUS
<1>0. Bad \in SUBSET Nat
  OBVIOUS
<1>2. PICK x \in Bad : \A y \in Bad : x <= y
  <2> HIDE DEF Bad
  <2> QED BY <1>0, <1>1, LeastMember
<1>3. x \in 0 .. n /\ x # 0 /\ x - 1 \in 0 .. n /\ x - 1 < x
  OBVIOUS
<1>4. x - 1 \in T
  BY <1>2, <1>3
<1> QED BY <1>3, <1>4

LEMMA FilesFacts ==
    /\ NumFiles \in Nat /\ PastEnd \in Nat /\ PastEnd = NumFiles + 1
    /\ Files \subseteq Nat /\ Files \subseteq 0 .. NumFiles
    /\ \A f \in Files : 0 < f /\ f < PastEnd
BY FilesAssumption DEF Files, PastEnd

\* The entry after f is the least one past it.
LEMMA FollowingFacts ==
    ASSUME NEW D \in SUBSET Files, NEW f \in Nat, f < PastEnd
    PROVE  LET g == Following(D, f)
           IN  /\ g \in D \cup {PastEnd}
               /\ g > f
               /\ \A h \in D : h > f => g <= h
<1> DEFINE S == {h \in D \cup {PastEnd} : h > f}
           P(g) == g > f /\ \A h \in D : h > f => g <= h
<1>1. S \in SUBSET Nat /\ PastEnd \in S
  BY FilesFacts
<1>2. PICK g \in S : \A h \in S : g <= h
  BY <1>1, LeastMember
<1>3. \E h \in (D \cup {PastEnd}) : P(h)
  BY <1>2
<1>4. Following(D, f) = CHOOSE h \in (D \cup {PastEnd}) : P(h)
  BY DEF Following
<1> HIDE DEF P
<1>5. Following(D, f) \in D \cup {PastEnd} /\ P(Following(D, f))
  BY <1>3, <1>4
<1> QED BY <1>5 DEF P

\* The entry before f is the greatest one ahead of it.
LEMMA PrecedingFacts ==
    ASSUME NEW D \in SUBSET Files, NEW f \in Nat, f > 0
    PROVE  LET g == Preceding(D, f)
           IN  /\ g \in D \cup {0}
               /\ g < f
               /\ \A h \in D : h < f => g >= h
<1> DEFINE S == {h \in D \cup {0} : h < f}
           P(g) == g < f /\ \A h \in D : h < f => g >= h
<1>1. S \in SUBSET (0 .. NumFiles) /\ 0 \in S /\ NumFiles \in Nat
  <2>1. NumFiles \in Nat /\ 0 \in 0 .. NumFiles /\ D \subseteq 0 .. NumFiles
    BY FilesFacts
  <2>2. S \subseteq 0 .. NumFiles
    BY <2>1
  <2> QED BY <2>1, <2>2
<1>2. PICK g \in S : \A h \in S : h <= g
  <2> HIDE DEF S
  <2>1. S # {}
    BY <1>1
  <2> QED BY <1>1, <2>1, GreatestMember
<1>3. \E h \in (D \cup {0}) : P(h)
  BY <1>1, <1>2
<1>4. Preceding(D, f) = CHOOSE h \in (D \cup {0}) : P(h)
  BY DEF Preceding
<1> HIDE DEF P
<1>5. Preceding(D, f) \in D \cup {0} /\ P(Preceding(D, f))
  BY <1>3, <1>4
<1> QED BY <1>5 DEF P

\* A set with a member has a first and a last entry.
LEMMA EndsFacts ==
    ASSUME NEW D \in SUBSET Files, D # {}
    PROVE  /\ Following(D, 0) \in D /\ \A h \in D : Following(D, 0) <= h
           /\ Preceding(D, PastEnd) \in D /\ \A h \in D : Preceding(D, PastEnd) >= h
<1>1. PICK h \in D : TRUE
  OBVIOUS
<1>2. 0 \in Nat /\ 0 < PastEnd /\ PastEnd > 0 /\ 0 < h /\ h < PastEnd
  BY <1>1, FilesFacts
<1>3. Following(D, 0) # PastEnd
  BY <1>1, <1>2, FollowingFacts, FilesFacts
<1>4. Preceding(D, PastEnd) # 0
  BY <1>1, <1>2, PrecedingFacts, FilesFacts
<1>5. \A g \in D : 0 < g /\ g < PastEnd
  BY FilesFacts
<1> QED BY <1>2, <1>3, <1>4, <1>5, FollowingFacts, PrecedingFacts, FilesFacts

---------------------------------------------------------------------------
(* Journals *)

\* Everything of a journal but its state and the phases of its entries.
SameBody(j, k) ==
    /\ k.predecessor = j.predecessor /\ k.sources = j.sources
    /\ DOMAIN k.entries = DOMAIN j.entries
    /\ \A f \in DOMAIN j.entries :
          k.entries[f].before = j.entries[f].before /\ k.entries[f].after = j.entries[f].after

LEMMA JournalFacts ==
    ASSUME NEW j, IsJournal(j)
    PROVE  /\ j # None
           /\ j.state \in State
           /\ DOMAIN j.entries \in SUBSET Files /\ DOMAIN j.entries # {}
           /\ \A f \in DOMAIN j.entries : j.entries[f] \in Entry
           /\ j.predecessor \in Tx \cup {None}
           /\ j.sources \in Seq(Plans)
<1>1. PICK touched \in (SUBSET Files) \ {{}} : j \in Journal(touched)
  BY DEF IsJournal
<1>2. j # None
  BY <1>1, NoneAssumption
<1>3. /\ j.state \in State /\ j.entries \in [touched -> Entry]
      /\ j.predecessor \in Tx \cup {None} /\ j.sources \in Seq(Plans)
  BY <1>1 DEF Journal
<1> QED BY <1>1, <1>2, <1>3

LEMMA StateWritten ==
    ASSUME NEW j, IsJournal(j), NEW s \in State
    PROVE  LET k == [j EXCEPT !.state = s]
           IN  /\ IsJournal(k) /\ k.state = s /\ k.entries = j.entries /\ SameBody(j, k)
<1> DEFINE k == [j EXCEPT !.state = s]
<1>1. PICK touched \in (SUBSET Files) \ {{}} : j \in Journal(touched)
  BY DEF IsJournal
<1>2. k \in Journal(touched)
  BY <1>1 DEF Journal
<1>3. k.state = s /\ k.entries = j.entries /\ k.predecessor = j.predecessor /\ k.sources = j.sources
  BY <1>1 DEF Journal
<1> HIDE DEF k
<1>4. IsJournal(k)
  BY <1>2 DEF IsJournal
<1>5. SameBody(j, k)
  BY <1>3 DEF SameBody
<1> QED BY <1>3, <1>4, <1>5 DEF k

LEMMA PhaseWritten ==
    ASSUME NEW j, IsJournal(j), NEW f \in DOMAIN j.entries, NEW p \in Phase
    PROVE  LET k == [j EXCEPT !.entries[f].phase = p]
           IN  /\ IsJournal(k) /\ k.state = j.state /\ SameBody(j, k)
               /\ \A g \in DOMAIN j.entries :
                     k.entries[g].phase = IF g = f THEN p ELSE j.entries[g].phase
<1> DEFINE k == [j EXCEPT !.entries[f].phase = p]
           es == [j.entries EXCEPT ![f] = [j.entries[f] EXCEPT !.phase = p]]
<1>1. PICK touched \in (SUBSET Files) \ {{}} : j \in Journal(touched)
  BY DEF IsJournal
<1>2. j.entries \in [touched -> Entry] /\ f \in touched
  BY <1>1 DEF Journal
<1>3. [j.entries[f] EXCEPT !.phase = p] \in Entry
  BY <1>2 DEF Entry
<1>4. es \in [touched -> Entry]
  BY <1>2, <1>3
<1>5. k = [j EXCEPT !.entries = es]
  OBVIOUS
<1>6. k \in Journal(touched)
  <2> HIDE DEF es, k
  <2> QED BY <1>1, <1>4, <1>5 DEF Journal
<1>7. /\ k.state = j.state /\ k.entries = es
      /\ k.predecessor = j.predecessor /\ k.sources = j.sources
  <2> HIDE DEF es, k
  <2> QED BY <1>1, <1>5 DEF Journal
<1>8. ASSUME NEW g \in touched
      PROVE  /\ es[g].before = j.entries[g].before /\ es[g].after = j.entries[g].after
             /\ es[g].phase = IF g = f THEN p ELSE j.entries[g].phase
  BY <1>2 DEF Entry
<1>9. DOMAIN es = DOMAIN j.entries /\ DOMAIN j.entries = touched
  BY <1>2
<1> HIDE DEF es, k
<1>10. SameBody(j, k)
  BY <1>7, <1>8, <1>9 DEF SameBody
<1>11. IsJournal(k)
  BY <1>6 DEF IsJournal
<1> QED BY <1>7, <1>8, <1>9, <1>10, <1>11 DEF k

\* What every journal write but the first one of a transaction leaves as it was.
JournalsKept ==
    /\ DOMAIN journal' = Tx
    /\ \A t \in Tx : journal[t] # None =>
          IsJournal(journal'[t]) /\ SameBody(journal[t], journal'[t])
    /\ \A t \in Tx : journal[t] = None => journal'[t] = None

LEMMA KeptSame == TypeOK /\ UNCHANGED journal => JournalsKept
BY DEF TypeOK, JournalsKept, SameBody

LEMMA KeptState ==
    ASSUME TypeOK, NEW t \in Tx, Exists(t), NEW s \in State, SetState(t, s)
    PROVE  /\ JournalsKept /\ journal'[t].state = s /\ journal'[t].entries = journal[t].entries
           /\ \A u \in Tx : u # t => journal'[u] = journal[u]
<1>1. journal' = [journal EXCEPT ![t] = [journal[t] EXCEPT !.state = s]] /\ DOMAIN journal = Tx
  BY DEF SetState, TypeOK
<1>2. journal'[t] = [journal[t] EXCEPT !.state = s] /\ DOMAIN journal' = Tx
  BY <1>1
<1>3. \A u \in Tx : u # t => journal'[u] = journal[u]
  BY <1>1
<1>4. IsJournal(journal[t]) /\ journal[t] # None
  BY DEF TypeOK, Exists
<1>5. /\ IsJournal(journal'[t]) /\ SameBody(journal[t], journal'[t])
      /\ journal'[t].state = s /\ journal'[t].entries = journal[t].entries
  BY <1>2, <1>4, StateWritten
<1>6. \A u \in Tx : journal[u] # None => IsJournal(journal[u]) /\ SameBody(journal[u], journal[u])
  BY DEF TypeOK, SameBody
<1> QED BY <1>2, <1>3, <1>4, <1>5, <1>6 DEF JournalsKept

LEMMA KeptPhase ==
    ASSUME TypeOK, NEW t \in Tx, Exists(t), NEW f \in Touched(t), NEW p \in Phase, SetPhase(t, f, p)
    PROVE  /\ JournalsKept /\ journal'[t].state = journal[t].state
           /\ \A g \in Touched(t) : journal'[t].entries[g].phase
                                      = IF g = f THEN p ELSE journal[t].entries[g].phase
           /\ \A u \in Tx : u # t => journal'[u] = journal[u]
<1>1. /\ journal' = [journal EXCEPT ![t] = [journal[t] EXCEPT !.entries[f].phase = p]]
      /\ DOMAIN journal = Tx /\ f \in DOMAIN journal[t].entries
  BY DEF SetPhase, TypeOK, Touched
<1>2. journal'[t] = [journal[t] EXCEPT !.entries[f].phase = p] /\ DOMAIN journal' = Tx
  BY <1>1
<1>3. \A u \in Tx : u # t => journal'[u] = journal[u]
  BY <1>1
<1>4. IsJournal(journal[t]) /\ journal[t] # None
  BY DEF TypeOK, Exists
<1>5. /\ IsJournal(journal'[t]) /\ SameBody(journal[t], journal'[t])
      /\ journal'[t].state = journal[t].state
      /\ \A g \in DOMAIN journal[t].entries : journal'[t].entries[g].phase
                                      = IF g = f THEN p ELSE journal[t].entries[g].phase
  BY <1>1, <1>2, <1>4, PhaseWritten
<1>6. \A u \in Tx : journal[u] # None => IsJournal(journal[u]) /\ SameBody(journal[u], journal[u])
  BY DEF TypeOK, SameBody
<1> QED BY <1>2, <1>3, <1>4, <1>5, <1>6 DEF JournalsKept, Touched

---------------------------------------------------------------------------
(* The chain of transactions, and what a restore makes of a file *)

Depth == Cardinality(Tx)

LEMMA DepthNat == Depth \in Nat
BY TxAssumption, FS_CardinalityType DEF Depth

\* The i-th transaction of a walk w, the i-th part of a chain c, and the i-th document u of the undoing
\* of sources, each from the ones before it.
Older(w, i) ==
    IF i = 0 THEN active ELSE IF w[i - 1] = None THEN None ELSE journal[w[i - 1]].predecessor
Collect(c, i) ==
    LET newer == IF i = 0 THEN <<>> ELSE c[i - 1]
    IN  IF Walk[i] # None /\ journal[Walk[i]].state = "installed" THEN Append(newer, Walk[i]) ELSE newer
Undone(f, sources, u, i) ==
    IF i = 0 THEN file[f]
    ELSE IF u[i - 1] = Conflict \/ f \notin Touched(sources[i]) THEN u[i - 1]
    ELSE RestoreDocument(f, journal[sources[i]].entries[f].before,
                         journal[sources[i]].entries[f].after, u[i - 1])

Chains == CHOOSE c : c = [i \in 0 .. Depth |-> Collect(c, i)]
Undoing(f, sources) == CHOOSE u : u = [i \in 0 .. Len(sources) |-> Undone(f, sources, u, i)]

\* Walk is the function its definition says.
LEMMA WalkFunction ==
    Walk = [i \in 0 .. Depth |-> Older(Walk, i)]
<1> DEFINE Build(r, n) == [i \in 0 .. n |-> Older(r, i)]
           T == {n \in Nat : \E r : r = Build(r, n)}
<1>0. Depth \in Nat
  BY DepthNat
<1>1. 0 \in T
  <2> DEFINE z == [i \in 0 .. 0 |-> active]
  <2>1. z = Build(z, 0)
    BY DEF Older
  <2> QED BY <2>1
<1>2. ASSUME NEW n \in Nat, n \in T PROVE n + 1 \in T
  <2>1. PICK r : r = Build(r, n)
    BY <1>2
  <2> DEFINE g == [i \in 0 .. n + 1 |-> IF i <= n THEN r[i] ELSE Older(r, n + 1)]
  <2>2. \A i \in 0 .. n : r[i] = Older(r, i)
    BY <2>1
  <2>3. \A i \in 0 .. n + 1 : g[i] = Older(g, i)
    <3> TAKE i \in 0 .. n + 1
    <3>1. CASE i <= n
      BY <2>2, <3>1 DEF Older
    <3>2. CASE i = n + 1
      BY <3>2 DEF Older
    <3> QED BY <3>1, <3>2
  <2>4. g = Build(g, n + 1) /\ n + 1 \in Nat
    BY <2>3
  <2> HIDE DEF g, Build
  <2> QED BY <2>4
<1>3. Depth \in T
  <2> HIDE DEF T
  <2>1. \A i \in 0 .. Depth : i \in T /\ i < Depth => i + 1 \in T
    BY <1>2
  <2>2. \A i \in 0 .. Depth : i \in T
    BY <1>0, <1>1, <2>1, CountUp
  <2> QED BY <1>0, <2>2
<1>4. \E r : r = Build(r, Depth)
  BY <1>3
<1>5. Walk = CHOOSE r : r = Build(r, Depth)
  BY DEF Walk, Depth, Older
<1> HIDE DEF Build
<1>6. Walk = Build(Walk, Depth)
  BY <1>4, <1>5
<1> QED BY <1>6 DEF Build

\* So are the parts of the chain ...
LEMMA ChainsFunction ==
    Chains = [i \in 0 .. Depth |-> Collect(Chains, i)]
<1> DEFINE Build(r, n) == [i \in 0 .. n |-> Collect(r, i)]
           T == {n \in Nat : \E r : r = Build(r, n)}
<1>0. Depth \in Nat
  BY DepthNat
<1>1. 0 \in T
  <2> DEFINE z == [i \in 0 .. 0 |-> Collect(<<>>, 0)]
  <2>1. z = Build(z, 0)
    BY DEF Collect
  <2> QED BY <2>1
<1>2. ASSUME NEW n \in Nat, n \in T PROVE n + 1 \in T
  <2>1. PICK r : r = Build(r, n)
    BY <1>2
  <2> DEFINE g == [i \in 0 .. n + 1 |-> IF i <= n THEN r[i] ELSE Collect(r, n + 1)]
  <2>2. \A i \in 0 .. n : r[i] = Collect(r, i)
    BY <2>1
  <2>3. \A i \in 0 .. n + 1 : g[i] = Collect(g, i)
    <3> TAKE i \in 0 .. n + 1
    <3>1. CASE i <= n
      BY <2>2, <3>1 DEF Collect
    <3>2. CASE i = n + 1
      BY <3>2 DEF Collect
    <3> QED BY <3>1, <3>2
  <2>4. g = Build(g, n + 1) /\ n + 1 \in Nat
    BY <2>3
  <2> HIDE DEF g, Build
  <2> QED BY <2>4
<1>3. Depth \in T
  <2> HIDE DEF T
  <2>1. \A i \in 0 .. Depth : i \in T /\ i < Depth => i + 1 \in T
    BY <1>2
  <2>2. \A i \in 0 .. Depth : i \in T
    BY <1>0, <1>1, <2>1, CountUp
  <2> QED BY <1>0, <2>2
<1>4. \E r : r = Build(r, Depth)
  BY <1>3
<1>5. Chains = CHOOSE r : r = Build(r, Depth)
  BY DEF Chains
<1> HIDE DEF Build
<1>6. Chains = Build(Chains, Depth)
  BY <1>4, <1>5
<1> QED BY <1>6 DEF Build

\* ... and the documents on the way to a target.
LEMMA UndoingFunction ==
    ASSUME NEW f, NEW sources, Len(sources) \in Nat
    PROVE  Undoing(f, sources) = [i \in 0 .. Len(sources) |-> Undone(f, sources, Undoing(f, sources), i)]
<1> DEFINE Build(r, n) == [i \in 0 .. n |-> Undone(f, sources, r, i)]
           T == {n \in Nat : \E r : r = Build(r, n)}
<1>0. Len(sources) \in Nat
  OBVIOUS
<1>1. 0 \in T
  <2> DEFINE z == [i \in 0 .. 0 |-> file[f]]
  <2>1. z = Build(z, 0)
    BY DEF Undone
  <2> QED BY <2>1
<1>2. ASSUME NEW n \in Nat, n \in T PROVE n + 1 \in T
  <2>1. PICK r : r = Build(r, n)
    BY <1>2
  <2> DEFINE g == [i \in 0 .. n + 1 |-> IF i <= n THEN r[i] ELSE Undone(f, sources, r, n + 1)]
  <2>2. \A i \in 0 .. n : r[i] = Undone(f, sources, r, i)
    BY <2>1
  <2>3. \A i \in 0 .. n + 1 : g[i] = Undone(f, sources, g, i)
    <3> TAKE i \in 0 .. n + 1
    <3>1. CASE i <= n
      BY <2>2, <3>1 DEF Undone
    <3>2. CASE i = n + 1
      BY <3>2 DEF Undone
    <3> QED BY <3>1, <3>2
  <2>4. g = Build(g, n + 1) /\ n + 1 \in Nat
    BY <2>3
  <2> HIDE DEF g, Build
  <2> QED BY <2>4
<1>3. Len(sources) \in T
  <2> HIDE DEF T
  <2>1. \A i \in 0 .. Len(sources) : i \in T /\ i < Len(sources) => i + 1 \in T
    BY <1>2
  <2>2. \A i \in 0 .. Len(sources) : i \in T
    BY <1>0, <1>1, <2>1, CountUp
  <2> QED BY <1>0, <2>2
<1>4. \E r : r = Build(r, Len(sources))
  BY <1>3
<1>5. Undoing(f, sources) = CHOOSE r : r = Build(r, Len(sources))
  BY DEF Undoing
<1> HIDE DEF Build
<1>6. Undoing(f, sources) = Build(Undoing(f, sources), Len(sources))
  BY <1>4, <1>5
<1> QED BY <1>6 DEF Build

LEMMA ChainIsLast == Chain = Chains[Depth]
BY DEF Chain, Chains, Depth, Collect

LEMMA TargetIsLast ==
    ASSUME NEW f, NEW sources
    PROVE  Target(f, sources) = Undoing(f, sources)[Len(sources)]
BY DEF Target, Undoing, Undone

\* Whatever a journal or active.json names is there, and no transaction means to change what the
\* user's key holds.
LinkInv ==
    /\ active # None => Exists(active)
    /\ \A t \in Tx : Exists(t) =>
          /\ journal[t].predecessor # None => Exists(journal[t].predecessor)
          /\ \A n \in 1 .. Len(journal[t].sources) : Exists(journal[t].sources[n])
          /\ t \in Restores => journal[t].sources # <<>>
          /\ \A f \in Touched(t) :
                journal[t].entries[f].before.user = journal[t].entries[f].after.user

LEMMA WalkTypes ==
    ASSUME TypeOK, LinkInv
    PROVE  \A n \in 0 .. Depth : Walk[n] # None => Walk[n] \in Tx /\ Exists(Walk[n])
<1> DEFINE T == {n \in Nat : Walk[n] # None => Walk[n] \in Tx /\ Exists(Walk[n])}
<1>0. Walk = [i \in 0 .. Depth |-> Older(Walk, i)] /\ Depth \in Nat
  BY WalkFunction, DepthNat
<1>1. Walk[0] = active
  BY <1>0 DEF Older
<1>2. 0 \in T
  BY <1>1 DEF LinkInv, TypeOK
<1>3. ASSUME NEW i \in 0 .. Depth, i \in T, i < Depth PROVE i + 1 \in T
  <2>0. i + 1 \in 0 .. Depth /\ (i + 1) - 1 = i /\ i + 1 # 0 /\ i + 1 \in Nat
    BY <1>0, <1>3
  <2>1. Walk[i + 1] = Older(Walk, i + 1)
    BY <1>0, <2>0
  <2>2. Walk[i + 1] = IF Walk[i] = None THEN None ELSE journal[Walk[i]].predecessor
    BY <2>0, <2>1 DEF Older
  <2>3. CASE Walk[i] = None
    BY <2>0, <2>2, <2>3
  <2>4. CASE Walk[i] # None
    <3>1. Walk[i] \in Tx /\ Exists(Walk[i])
      BY <1>3, <2>4
    <3>2. IsJournal(journal[Walk[i]])
      BY <3>1 DEF TypeOK, Exists
    <3>3. journal[Walk[i]].predecessor \in Tx \cup {None}
      BY <3>2, JournalFacts
    <3>4. Walk[i + 1] = journal[Walk[i]].predecessor
      BY <2>2, <2>4
    <3> QED BY <2>0, <3>1, <3>3, <3>4 DEF LinkInv
  <2> QED BY <2>3, <2>4
<1> HIDE DEF T
<1>4. \A i \in 0 .. Depth : i \in T
  BY <1>0, <1>2, <1>3, CountUp
<1> QED BY <1>4 DEF T

LEMMA ChainTypes ==
    ASSUME TypeOK, LinkInv, ChainReadable
    PROVE  Chain \in Seq({t \in Plans : Exists(t)})
<1> DEFINE S == {t \in Plans : Exists(t)}
           T == {n \in Nat : Chains[n] \in Seq(S)}
<1>0. Chains = [i \in 0 .. Depth |-> Collect(Chains, i)] /\ Depth \in Nat
  BY ChainsFunction, DepthNat
<1>1. ASSUME NEW n \in 0 .. Depth, Walk[n] # None, journal[Walk[n]].state = "installed"
      PROVE  Walk[n] \in S
  BY <1>1, WalkTypes DEF ChainReadable, Depth
<1>2. ASSUME NEW n \in 0 .. Depth, NEW newer \in Seq(S)
      PROVE  (IF Walk[n] # None /\ journal[Walk[n]].state = "installed"
              THEN Append(newer, Walk[n]) ELSE newer) \in Seq(S)
  <2> HIDE DEF S
  <2> QED BY <1>1
<1> HIDE DEF S
<1>3. 0 \in T
  <2>1. Chains[0] = Collect(Chains, 0) /\ 0 \in 0 .. Depth
    BY <1>0
  <2>2. <<>> \in Seq(S)
    OBVIOUS
  <2> QED BY <1>2, <2>1, <2>2 DEF Collect
<1>4. ASSUME NEW i \in 0 .. Depth, i \in T, i < Depth PROVE i + 1 \in T
  <2>0. i + 1 \in 0 .. Depth /\ (i + 1) - 1 = i /\ i + 1 # 0 /\ i + 1 \in Nat
    BY <1>0, <1>4
  <2>1. Chains[i + 1] = Collect(Chains, i + 1)
    BY <1>0, <2>0
  <2>2. Chains[i] \in Seq(S)
    BY <1>4
  <2>3. Chains[i + 1] = IF Walk[i + 1] # None /\ journal[Walk[i + 1]].state = "installed"
                        THEN Append(Chains[i], Walk[i + 1]) ELSE Chains[i]
    BY <2>0, <2>1 DEF Collect
  <2> QED BY <1>2, <2>0, <2>2, <2>3
<1> HIDE DEF T
<1>5. \A i \in 0 .. Depth : i \in T
  BY <1>0, <1>3, <1>4, CountUp
<1> QED BY <1>0, <1>5, ChainIsLast DEF T, S

\* The three-way merge never touches a key that the transaction left alone.
LEMMA RestoreKeepsUser ==
    ASSUME NEW f, NEW base \in Document, NEW installed \in Document, NEW current \in Document,
           base.user = installed.user
    PROVE  LET d == RestoreDocument(f, base, installed, current)
           IN  d # Conflict => d \in Document /\ d.user = current.user
<1> DEFINE own == RestoreValue(base["own"], installed["own"], current["own"])
           user == RestoreValue(base["user"], installed["user"], current["user"])
           merged == [k \in Keys |-> RestoreValue(base[k], installed[k], current[k])]
<1>1. merged["own"] = own /\ merged["user"] = user
  BY DEF Keys
<1>2. user = current.user
  BY DEF RestoreValue
<1>3. own # Conflict => own \in Value
  BY DEF RestoreValue, Document
<1>4. Conflict \notin {merged[k] : k \in Keys} => own # Conflict
  BY <1>1 DEF Keys
<1>5. current.user \in Value /\ base.user \in Value
  BY DEF Document
<1>6. own # Conflict => [own |-> own, user |-> user] \in Document
  BY <1>2, <1>3, <1>5 DEF Document
<1>7. RestoreDocument(f, base, installed, current)
        = IF current \in {installed, base} THEN base
          ELSE IF base = installed THEN current
          ELSE IF f \notin Structured THEN Conflict
          ELSE IF Conflict \in {merged[k] : k \in Keys} THEN Conflict
          ELSE [own |-> own, user |-> user]
  BY <1>1 DEF RestoreDocument
<1>8. current \in {installed, base} => base.user = current.user
  OBVIOUS
<1> HIDE DEF own, user, merged
<1> QED BY <1>2, <1>4, <1>6, <1>7, <1>8

\* What a restore wants to leave in a file is a document with the user's key as it is.
LEMMA TargetTypes ==
    ASSUME TypeOK, LinkInv, NEW f \in Files, NEW sources \in Seq({t \in Plans : Exists(t)})
    PROVE  LET d == Target(f, sources)
           IN  d # Conflict => d \in Document /\ d.user = file[f].user
<1> DEFINE u == Undoing(f, sources)
           T == {n \in Nat : u[n] # Conflict => u[n] \in Document /\ u[n].user = file[f].user}
<1>0. u = [i \in 0 .. Len(sources) |-> Undone(f, sources, u, i)] /\ Len(sources) \in Nat
  BY UndoingFunction
<1> HIDE DEF u
<1>1. 0 \in T
  <2>1. u[0] = Undone(f, sources, u, 0)
    BY <1>0
  <2>2. u[0] = file[f]
    BY <2>1 DEF Undone
  <2> QED BY <2>2 DEF TypeOK
<1>2. ASSUME NEW i \in 0 .. Len(sources), i \in T, i < Len(sources) PROVE i + 1 \in T
  <2>0. i + 1 \in 1 .. Len(sources) /\ (i + 1) - 1 = i /\ i + 1 # 0 /\ i + 1 \in Nat
    BY <1>0, <1>2
  <2>1. u[i + 1] = Undone(f, sources, u, i + 1)
    BY <1>0, <2>0
  <2> DEFINE t == sources[i + 1]
  <2>2. t \in Tx /\ Exists(t)
    BY <2>0 DEF Tx
  <2> HIDE DEF t
  <2>3. CASE u[i] = Conflict \/ f \notin Touched(t)
    <3>1. u[i + 1] = u[i]
      BY <2>0, <2>1, <2>3 DEF Undone, t
    <3> QED BY <1>2, <2>0, <3>1
  <2>4. CASE u[i] # Conflict /\ f \in Touched(t)
    <3> DEFINE e == journal[t].entries[f]
    <3>1. u[i + 1] = RestoreDocument(f, e.before, e.after, u[i])
      BY <2>0, <2>1, <2>4 DEF Undone, t
    <3>2. IsJournal(journal[t])
      BY <2>2 DEF TypeOK, Exists
    <3>3. e \in Entry
      BY <2>4, <3>2, JournalFacts DEF Touched
    <3>4. e.before \in Document /\ e.after \in Document
      BY <3>3 DEF Entry
    <3>5. e.before.user = e.after.user
      BY <2>2, <2>4 DEF LinkInv
    <3> HIDE DEF e
    <3>6. u[i] \in Document /\ u[i].user = file[f].user
      BY <1>2, <2>4
    <3> QED BY <2>0, <3>1, <3>4, <3>5, <3>6, RestoreKeepsUser
  <2> QED BY <2>3, <2>4
<1> HIDE DEF T
<1>3. \A i \in 0 .. Len(sources) : i \in T
  BY <1>0, <1>1, <1>2, CountUp
<1>4. Len(sources) \in T
  BY <1>0, <1>3
<1> QED BY <1>4, TargetIsLast DEF T, u

---------------------------------------------------------------------------
(* The inductive invariant *)

VisitPC == {"intend", "publish", "exchange", "capture", "check", "revert", "preflight", "forward"}
PlanPC == {"backup", "begin", "intend", "commit", "check", "restoring", "revert"}
RestorePC == {"preflight", "forward", "settle"}
PublishPC == {"publish", "exchange", "capture"}
Job == [pc : PC, tx : Tx \cup {None}, at : Nat]

\* The candidate is in its guard directory and changes nothing of the user's.
Prepared ==
    /\ LastGuard.swapped = FALSE
    /\ LastGuard.holds = LastGuard.replacement
    /\ LastGuard.expected.user = LastGuard.replacement.user

\* Where a command is, and what it works on.
JobInv ==
    /\ job.pc = "idle" => job = Idle
    /\ job.pc \in VisitPC => job.at \in Touched(job.tx)
    /\ job.pc \in PlanPC => job.tx \in Plans
    /\ job.pc \in RestorePC => job.tx \in Restores
    /\ job.pc = "settle" => job.at \in 1 .. Len(journal[job.tx].sources)
    /\ job.pc = "revert" => journal[job.tx].state = "restoring"
    /\ job.pc \in PublishPC => guards[job.tx][job.at] # <<>>
    /\ job.pc \in {"publish", "exchange"} => Prepared

\* An apply prepares each file once: the ones it has not come to have no guard directory.
Unguarded(f) ==
    \/ job.pc \in {"point", "backup", "begin"}
    \/ job.pc = "intend" /\ f >= job.at
    \/ job.pc \in PublishPC /\ job.tx \in Plans /\ journal[job.tx].state # "restoring" /\ f > job.at
GuardInv ==
    /\ \A t \in Tx, f \in Files : ~Exists(t) => guards[t][f] = <<>>
    /\ \A f \in Files : Unguarded(f) => guards[job.tx][f] = <<>>

\* A quiet edit of the user's key is also in the candidate that is about to take the file's place.
EditInv ==
    /\ EditsKept
    /\ job.pc = "exchange" => \A e \in owed :
          e.quiet /\ e.key = "user" /\ e.file = job.at => LastGuard.holds.user = e.edit

AdoptInv == TypeOK /\ LinkInv /\ JobInv /\ GuardInv /\ EditInv

LEMMA TxFacts == Plans \subseteq Tx /\ Restores \subseteq Tx /\ Plans \cap Restores = {} /\ None \notin Tx
BY TxAssumption DEF Tx

LEMMA AdoptInit == Init => AdoptInv
<1> SUFFICES ASSUME Init PROVE AdoptInv
  OBVIOUS
<1>1. [own |-> Baseline, user |-> Baseline] \in Document
  BY DEF Document, Value
<1>2. Idle \in Job /\ Idle.pc = "idle"
  BY DEF Idle, Job, PC
<1>3. TypeOK
  <2>1. <<>> \in Seq(Guard) /\ Len(<<>>) = 0 /\ 0 <= MaxGuards
    BY BoundsAssumption
  <2>2. /\ guards \in [Tx -> [Files -> Seq(Guard)]]
        /\ \A t \in Tx, f \in Files : Len(guards[t][f]) <= MaxGuards
    BY <2>1 DEF Init
  <2>3. 0 \in 0 .. MaxEdits /\ 0 \in 0 .. MaxFaults
    BY BoundsAssumption
  <2> QED BY <1>1, <1>2, <2>2, <2>3 DEF Init, TypeOK, Job
<1>4. LinkInv /\ JobInv /\ GuardInv /\ EditInv
  BY <1>2 DEF Init, LinkInv, JobInv, GuardInv, EditInv, EditsKept, Exists, Unguarded, VisitPC, PlanPC,
              RestorePC, PublishPC
<1> QED BY <1>3, <1>4 DEF AdoptInv

---------------------------------------------------------------------------
(* Steps that write at most the journal *)

Calm == UNCHANGED <<file, guards, edits, owed>> /\ faults' \in 0 .. MaxFaults

LEMMA LinksKept ==
    ASSUME TypeOK, LinkInv, JournalsKept, active' = active \/ (active' \in Tx /\ Exists(active'))
    PROVE  LinkInv'
<1>1. \A t \in Tx : Exists(t)' <=> Exists(t)
  <2>1. \A t \in Tx : journal[t] # None => journal'[t] # None
    BY JournalFacts DEF JournalsKept
  <2> QED BY <2>1 DEF JournalsKept, Exists
<1>2. active' # None => Exists(active)'
  BY <1>1 DEF LinkInv, TypeOK
<1>3. ASSUME NEW t \in Tx, Exists(t)'
      PROVE  /\ journal'[t].predecessor # None => Exists(journal[t].predecessor)'
             /\ \A n \in 1 .. Len(journal'[t].sources) : Exists(journal[t].sources[n])'
             /\ t \in Restores => journal'[t].sources # <<>>
             /\ \A f \in Touched(t)' :
                   journal'[t].entries[f].before.user = journal'[t].entries[f].after.user
  <2>1. Exists(t) /\ IsJournal(journal[t]) /\ SameBody(journal[t], journal'[t])
    BY <1>1, <1>3 DEF JournalsKept, Exists, TypeOK
  <2>2. journal[t].predecessor \in Tx \cup {None} /\ journal[t].sources \in Seq(Plans)
    BY <2>1, JournalFacts
  <2>3. \A n \in 1 .. Len(journal[t].sources) : journal[t].sources[n] \in Tx
    BY <2>2, TxFacts
  <2>4. /\ journal[t].predecessor # None => Exists(journal[t].predecessor)
        /\ \A n \in 1 .. Len(journal[t].sources) : Exists(journal[t].sources[n])
        /\ t \in Restores => journal[t].sources # <<>>
        /\ \A f \in Touched(t) : journal[t].entries[f].before.user = journal[t].entries[f].after.user
    BY <2>1 DEF LinkInv
  <2>5. journal'[t].predecessor = journal[t].predecessor /\ journal'[t].sources = journal[t].sources
    BY <2>1 DEF SameBody
  <2>6. journal'[t].predecessor # None => Exists(journal[t].predecessor)'
    <3>1. journal'[t].predecessor # None
            => journal[t].predecessor \in Tx /\ journal'[journal[t].predecessor] # None
      BY <1>1, <2>2, <2>4, <2>5 DEF Exists
    <3> QED BY <2>5, <3>1 DEF Exists
  <2>7. \A n \in 1 .. Len(journal'[t].sources) : Exists(journal[t].sources[n])'
    <3>1. \A n \in 1 .. Len(journal[t].sources) : journal'[journal[t].sources[n]] # None
      BY <1>1, <2>3, <2>4 DEF Exists
    <3> QED BY <2>5, <3>1 DEF Exists
  <2>8. \A f \in Touched(t)' : journal'[t].entries[f].before.user = journal'[t].entries[f].after.user
    BY <2>1, <2>4 DEF SameBody, Touched
  <2> QED BY <2>4, <2>5, <2>6, <2>7, <2>8
<1> QED BY <1>2, <1>3 DEF LinkInv

LEMMA CalmKept ==
    ASSUME AdoptInv, Calm, JournalsKept, active' = active \/ (active' \in Tx /\ Exists(active')),
           job' \in Job, job'.pc # "idle" => job'.tx \in Tx /\ Exists(job'.tx), job'.pc # "exchange"
    PROVE  /\ TypeOK' /\ LinkInv' /\ EditInv'
           /\ \A t \in Tx, f \in Files : ~Exists(t)' => guards'[t][f] = <<>>
           /\ \A t \in Tx : Exists(t) => Touched(t)' = Touched(t)
<1> USE DEF AdoptInv
<1>1. \A t \in Tx : Exists(t) => journal'[t] # None
  BY JournalFacts DEF JournalsKept, Exists
<1>2. \A t \in Tx : Exists(t)' => Exists(t)
  BY DEF JournalsKept, Exists
<1>3. TypeOK'
  <2>1. job'.pc # "idle" => job'.tx \in Tx /\ journal'[job'.tx] # None
    BY <1>1
  <2>2. \A t \in Tx : journal'[t] # None => IsJournal(journal'[t])
    BY DEF JournalsKept
  <2> QED BY <2>1, <2>2 DEF TypeOK, Calm, JournalsKept, Job
<1>4. LinkInv'
  BY LinksKept
<1>5. EditInv'
  BY DEF EditInv, EditsKept, Calm
<1>6. \A t \in Tx, f \in Files : ~Exists(t)' => guards'[t][f] = <<>>
  BY <1>1 DEF GuardInv, Calm, Exists
<1>7. \A t \in Tx : Exists(t) => Touched(t)' = Touched(t)
  BY DEF JournalsKept, Exists, SameBody, Touched
<1> QED BY <1>3, <1>4, <1>5, <1>6, <1>7

LEMMA Leave ==
    ASSUME AdoptInv, Calm, JournalsKept, Return, active' = active
    PROVE  AdoptInv'
<1>1. job' = Idle /\ job' \in Job /\ job'.pc = "idle"
  BY DEF Return, Idle, Job, PC
<1>2. /\ TypeOK' /\ LinkInv' /\ EditInv'
      /\ \A t \in Tx, f \in Files : ~Exists(t)' => guards'[t][f] = <<>>
  BY <1>1, CalmKept
<1>3. JobInv' /\ \A f \in Files : Unguarded(f)' => guards'[job'.tx][f] = <<>>
  BY <1>1 DEF JobInv, Unguarded, VisitPC, PlanPC, RestorePC, PublishPC, Idle
<1> QED BY <1>2, <1>3 DEF AdoptInv, GuardInv

\* A command goes on, at a place that is neither a publication nor idle.
LEMMA Continue ==
    ASSUME AdoptInv, Calm, JournalsKept, active' = active \/ (active' \in Tx /\ Exists(active')),
           NEW t \in Tx, Exists(t), NEW pc \in PC \ (PublishPC \cup {"idle"}), NEW at \in Nat,
           job' = [pc |-> pc, tx |-> t, at |-> at],
           pc \in VisitPC => at \in Touched(t),
           pc \in PlanPC => t \in Plans,
           pc \in RestorePC => t \in Restores,
           pc = "settle" => at \in 1 .. Len(journal[t].sources),
           pc = "revert" => journal'[t].state = "restoring",
           \A f \in Files : pc \in {"point", "backup", "begin"} \/ (pc = "intend" /\ f >= at)
                              => guards[t][f] = <<>>
    PROVE  AdoptInv'
<1>1. job' \in Job /\ job'.pc = pc /\ job'.tx = t /\ job'.at = at /\ pc # "exchange"
  BY DEF Job, PublishPC
<1>2. /\ TypeOK' /\ LinkInv' /\ EditInv'
      /\ \A u \in Tx, f \in Files : ~Exists(u)' => guards'[u][f] = <<>>
      /\ Touched(t)' = Touched(t)
  BY <1>1, CalmKept
<1>3. journal'[t].sources = journal[t].sources
  BY DEF JournalsKept, SameBody, Exists
<1>4. Touched(job.tx)' = Touched(t)
  BY <1>1, <1>2 DEF Touched
<1>5. JobInv'
  BY <1>1, <1>3, <1>4 DEF JobInv, PublishPC
<1>6. \A f \in Files : Unguarded(f)' => guards'[job'.tx][f] = <<>>
  BY <1>1 DEF Unguarded, PublishPC, Calm
<1> QED BY <1>2, <1>5, <1>6 DEF AdoptInv, GuardInv

\* The command that runs has a transaction, with entries to visit.
LEMMA Running ==
    ASSUME AdoptInv, job.pc # "idle"
    PROVE  /\ job \in Job /\ job.tx \in Tx /\ Exists(job.tx) /\ IsJournal(journal[job.tx])
           /\ Touched(job.tx) \in SUBSET Files /\ Touched(job.tx) # {}
           /\ First(job.tx) \in Touched(job.tx)
           /\ \A f \in Touched(job.tx) : First(job.tx) <= f
           /\ Touched(job.tx) \subseteq Nat
<1>1. job \in Job /\ job.tx \in Tx /\ Exists(job.tx) /\ IsJournal(journal[job.tx])
  BY DEF AdoptInv, TypeOK, Job, Exists
<1>2. Touched(job.tx) \in SUBSET Files /\ Touched(job.tx) # {}
  BY <1>1, JournalFacts DEF Touched
<1>3. First(job.tx) \in Touched(job.tx) /\ \A f \in Touched(job.tx) : First(job.tx) <= f
  BY <1>2, EndsFacts DEF First
<1>4. Touched(job.tx) \subseteq Nat
  BY <1>2, FilesFacts
<1> QED BY <1>1, <1>2, <1>3, <1>4

LEMMA GotoFacts ==
    ASSUME job \in Job, NEW pc, NEW at, Goto(pc, at)
    PROVE  job' = [pc |-> pc, tx |-> job.tx, at |-> at]
BY DEF Goto, Job

LEMMA AbandonKept ==
    ASSUME AdoptInv, Calm, job.pc # "idle", Abandon, active' = active
    PROVE  AdoptInv'
<1>0. TypeOK
  BY DEF AdoptInv
<1>1. CASE Applying /\ Goto("check", First(job.tx)) /\ UNCHANGED journal
  <2>1. JournalsKept
    BY <1>0, <1>1, KeptSame
  <2>2. job' = [pc |-> "check", tx |-> job.tx, at |-> First(job.tx)]
    BY <1>1, Running, GotoFacts
  <2>3. job.tx \in Plans /\ First(job.tx) \in Nat
    BY <1>1, Running DEF Applying
  <2> QED BY <2>1, <2>2, <2>3, Running, Continue DEF PC, PublishPC, VisitPC, PlanPC, RestorePC
<1>2. CASE Return /\ UNCHANGED journal
  BY <1>0, <1>2, KeptSame, Leave
<1>3. CASE SetState(job.tx, "recoveryRequired") /\ Return
  <2>1. JournalsKept
    BY <1>0, <1>3, Running, KeptState DEF State
  <2> QED BY <1>3, <2>1, Leave
<1> QED BY <1>1, <1>2, <1>3 DEF Abandon

\* The next entry on the way up, or the step after the last one.
LEMMA AscendFacts ==
    ASSUME AdoptInv, job.pc # "idle", job.at \in Touched(job.tx), NEW pc, NEW next, Ascend(pc, next)
    PROVE  \/ \E g \in Touched(job.tx) :
                /\ job' = [pc |-> pc, tx |-> job.tx, at |-> g] /\ g > job.at
                /\ \A h \in Touched(job.tx) : h > job.at => g <= h
           \/ /\ job' = [pc |-> next, tx |-> job.tx,
                          at |-> IF next = "forward" THEN First(job.tx) ELSE 1]
              /\ \A h \in Touched(job.tx) : h <= job.at
<1> DEFINE D == Touched(job.tx)
           g == Following(D, job.at)
<1>1. D \in SUBSET Files /\ job.at \in Nat /\ job.at < PastEnd
  BY Running, FilesFacts
<1>2. g \in D \cup {PastEnd} /\ g > job.at /\ \A h \in D : h > job.at => g <= h
  BY <1>1, FollowingFacts
<1>3. CASE g # PastEnd
  <2>1. Goto(pc, g) /\ g \in D
    BY <1>2, <1>3 DEF Ascend
  <2>2. job' = [pc |-> pc, tx |-> job.tx, at |-> g]
    BY <2>1, Running, GotoFacts
  <2> QED BY <1>2, <2>1, <2>2
<1>4. CASE g = PastEnd
  <2>1. Goto(next, IF next = "forward" THEN First(job.tx) ELSE 1)
    BY <1>4 DEF Ascend
  <2>2. job' = [pc |-> next, tx |-> job.tx, at |-> IF next = "forward" THEN First(job.tx) ELSE 1]
    BY <2>1, Running, GotoFacts
  <2>3. \A h \in D : h <= job.at
    <3> TAKE h \in D
    <3>1. h \in Nat /\ h < PastEnd /\ PastEnd \in Nat
      BY <1>1, FilesFacts
    <3>2. ~(h > job.at)
      BY <1>2, <1>4, <3>1
    <3> QED BY <1>1, <3>1, <3>2
  <2> QED BY <2>2, <2>3
<1> QED BY <1>3, <1>4

LEMMA DescendFacts ==
    ASSUME AdoptInv, job.pc # "idle", job.at \in Touched(job.tx), NEW pc, NEW next, Descend(pc, next)
    PROVE  \/ \E g \in Touched(job.tx) :
                /\ job' = [pc |-> pc, tx |-> job.tx, at |-> g] /\ g < job.at
                /\ \A h \in Touched(job.tx) : h < job.at => g >= h
           \/ /\ job' = [pc |-> next, tx |-> job.tx, at |-> 1]
              /\ \A h \in Touched(job.tx) : h >= job.at
<1> DEFINE D == Touched(job.tx)
           g == Preceding(D, job.at)
<1>1. D \in SUBSET Files /\ job.at \in Nat /\ job.at > 0
  BY Running, FilesFacts
<1>2. g \in D \cup {0} /\ g < job.at /\ \A h \in D : h < job.at => g >= h
  BY <1>1, PrecedingFacts
<1>3. CASE g # 0
  <2>1. Goto(pc, g) /\ g \in D
    BY <1>2, <1>3 DEF Descend
  <2>2. job' = [pc |-> pc, tx |-> job.tx, at |-> g]
    BY <2>1, Running, GotoFacts
  <2> QED BY <1>2, <2>1, <2>2
<1>4. CASE g = 0
  <2>1. Goto(next, 1)
    BY <1>4 DEF Descend
  <2>2. job' = [pc |-> next, tx |-> job.tx, at |-> 1]
    BY <2>1, Running, GotoFacts
  <2>3. \A h \in D : h >= job.at
    <3> TAKE h \in D
    <3>1. h \in Nat /\ h > 0
      BY <1>1, FilesFacts
    <3>2. ~(h < job.at)
      BY <1>2, <1>4, <3>1
    <3> QED BY <1>1, <3>1, <3>2
  <2> QED BY <2>2, <2>3
<1> QED BY <1>3, <1>4

LEMMA PointKept ==
    ASSUME AdoptInv, Calm, Point
    PROVE  AdoptInv'
<1>1. job.pc = "point" /\ active' = job.tx /\ UNCHANGED journal
  BY DEF Point
<1>2. JournalsKept
  BY <1>1, KeptSame DEF AdoptInv
<1>3. \A f \in Files : guards[job.tx][f] = <<>>
  BY <1>1 DEF AdoptInv, GuardInv, Unguarded
<1>4. CASE job.tx \in Restores
  <2>1. job' = [pc |-> "preflight", tx |-> job.tx, at |-> First(job.tx)]
    BY <1>1, <1>4, Running, GotoFacts DEF Point, Resuming
  <2>2. First(job.tx) \in Nat
    BY <1>1, Running
  <2> QED BY <1>1, <1>2, <1>3, <1>4, <2>1, <2>2, Running, Continue
          DEF PC, PublishPC, VisitPC, PlanPC, RestorePC
<1>5. CASE job.tx \notin Restores
  <2>1. job' = [pc |-> "backup", tx |-> job.tx, at |-> 1]
    BY <1>1, <1>5, Running, GotoFacts DEF Point, Resuming
  <2>2. job.tx \in Plans
    BY <1>1, <1>5, Running DEF Tx
  <2> QED BY <1>1, <1>2, <1>3, <2>1, <2>2, Running, Continue
          DEF PC, PublishPC, VisitPC, PlanPC, RestorePC
<1> QED BY <1>4, <1>5

LEMMA BackedUpKept ==
    ASSUME AdoptInv, Calm, MarkBackedUp
    PROVE  AdoptInv'
<1>1. job.pc = "backup" /\ active' = active /\ SetState(job.tx, "backedUp") /\ Goto("begin", 1)
  BY DEF MarkBackedUp
<1>2. JournalsKept
  BY <1>1, Running, KeptState DEF AdoptInv, State
<1>3. (\A f \in Files : guards[job.tx][f] = <<>>) /\ job.tx \in Plans
  BY <1>1 DEF AdoptInv, GuardInv, Unguarded, JobInv, PlanPC
<1>4. job' = [pc |-> "begin", tx |-> job.tx, at |-> 1]
  BY <1>1, Running, GotoFacts
<1> QED BY <1>1, <1>2, <1>3, <1>4, Running, Continue DEF PC, PublishPC, VisitPC, PlanPC, RestorePC

LEMMA ApplyingKept ==
    ASSUME AdoptInv, Calm, MarkApplying
    PROVE  AdoptInv'
<1>1. /\ job.pc = "begin" /\ active' = active /\ SetState(job.tx, "applying")
      /\ Goto("intend", First(job.tx))
  BY DEF MarkApplying
<1>2. JournalsKept
  BY <1>1, Running, KeptState DEF AdoptInv, State
<1>3. (\A f \in Files : guards[job.tx][f] = <<>>) /\ job.tx \in Plans
  BY <1>1 DEF AdoptInv, GuardInv, Unguarded, JobInv, PlanPC
<1>4. job' = [pc |-> "intend", tx |-> job.tx, at |-> First(job.tx)] /\ First(job.tx) \in Nat
  BY <1>1, Running, GotoFacts
<1> QED BY <1>1, <1>2, <1>3, <1>4, Running, Continue DEF PC, PublishPC, VisitPC, PlanPC, RestorePC

LEMMA FinishKept ==
    ASSUME AdoptInv, Calm, Commit \/ Finish
    PROVE  AdoptInv'
<1>1. job.pc # "idle" /\ active' = active /\ Return
  BY DEF Commit, Finish
<1>2. JournalsKept
  BY <1>1, Running, KeptState DEF AdoptInv, State, Commit, Finish
<1> QED BY <1>1, <1>2, Leave

LEMMA CheckKept ==
    ASSUME AdoptInv, Calm, Check
    PROVE  AdoptInv'
<1>1. job.pc = "check" /\ active' = active /\ job.at \in Touched(job.tx) /\ job.tx \in Plans
  BY DEF Check, AdoptInv, JobInv, VisitPC, PlanPC
<1>2. CASE Abandon
  BY <1>1, <1>2, AbandonKept
<1>3. CASE SetState(job.tx, "recoveryRequired") /\ Return
  <2>1. JournalsKept
    BY <1>1, <1>3, Running, KeptState DEF AdoptInv, State
  <2> QED BY <1>1, <1>3, <2>1, Leave
<1>4. CASE Ascend("check", "restoring") /\ UNCHANGED journal
  <2>1. JournalsKept
    BY <1>4, KeptSame DEF AdoptInv
  <2>2. CASE \E g \in Touched(job.tx) : job' = [pc |-> "check", tx |-> job.tx, at |-> g]
    <3>1. PICK g \in Touched(job.tx) : job' = [pc |-> "check", tx |-> job.tx, at |-> g]
      BY <2>2
    <3>2. g \in Nat
      BY <1>1, Running
    <3> QED BY <1>1, <2>1, <3>1, <3>2, Running, Continue DEF PC, PublishPC, VisitPC, PlanPC, RestorePC
  <2>3. CASE job' = [pc |-> "restoring", tx |-> job.tx, at |-> 1]
    BY <1>1, <2>1, <2>3, Running, Continue DEF PC, PublishPC, VisitPC, PlanPC, RestorePC
  <2> QED BY <1>1, <1>4, <2>2, <2>3, AscendFacts
<1> QED BY <1>2, <1>3, <1>4 DEF Check

LEMMA RestoringKept ==
    ASSUME AdoptInv, Calm, MarkRestoring
    PROVE  AdoptInv'
<1> DEFINE last == Preceding(Touched(job.tx), PastEnd)
<1>1. /\ job.pc = "restoring" /\ active' = active /\ SetState(job.tx, "restoring")
      /\ Goto("revert", last) /\ job.tx \in Plans
  BY DEF MarkRestoring, AdoptInv, JobInv, PlanPC
<1>2. JournalsKept /\ journal'[job.tx].state = "restoring"
  BY <1>1, Running, KeptState DEF AdoptInv, State
<1>3. last \in Touched(job.tx) /\ last \in Nat
  BY <1>1, Running, EndsFacts
<1> HIDE DEF last
<1>4. job' = [pc |-> "revert", tx |-> job.tx, at |-> last]
  BY <1>1, Running, GotoFacts
<1> QED BY <1>1, <1>2, <1>3, <1>4, Running, Continue DEF PC, PublishPC, VisitPC, PlanPC, RestorePC

LEMMA PreflightKept ==
    ASSUME AdoptInv, Calm, Preflight
    PROVE  AdoptInv'
<1>1. job.pc = "preflight" /\ active' = active /\ job.at \in Touched(job.tx) /\ job.tx \in Restores
  BY DEF Preflight, AdoptInv, JobInv, VisitPC, RestorePC
<1>2. CASE Abandon
  BY <1>1, <1>2, AbandonKept
<1>3. CASE Ascend("preflight", "forward") /\ UNCHANGED journal
  <2>1. JournalsKept
    BY <1>3, KeptSame DEF AdoptInv
  <2>2. ASSUME NEW g \in Touched(job.tx), NEW pc \in {"preflight", "forward"},
               job' = [pc |-> pc, tx |-> job.tx, at |-> g]
        PROVE  AdoptInv'
    <3>1. g \in Nat
      BY <1>1, Running
    <3> QED BY <1>1, <2>1, <2>2, <3>1, Running, Continue DEF PC, PublishPC, VisitPC, PlanPC, RestorePC
  <2>3. CASE \E g \in Touched(job.tx) : job' = [pc |-> "preflight", tx |-> job.tx, at |-> g]
    BY <2>2, <2>3
  <2>4. CASE job' = [pc |-> "forward", tx |-> job.tx, at |-> First(job.tx)]
    BY <1>1, <2>2, <2>4, Running
  <2> QED BY <1>1, <1>3, <2>3, <2>4, AscendFacts
<1> QED BY <1>2, <1>3 DEF Preflight

LEMMA SettleKept ==
    ASSUME AdoptInv, Calm, Settle
    PROVE  AdoptInv'
<1> DEFINE sources == journal[job.tx].sources
<1>1. /\ job.pc = "settle" /\ active' = active /\ job.at \in 1 .. Len(sources)
      /\ job.tx \in Restores /\ SetState(sources[job.at], "restored")
      /\ IF job.at = Len(sources) THEN Goto("finish", 1) ELSE Goto("settle", job.at + 1)
  BY DEF Settle, AdoptInv, JobInv, RestorePC
<1>2. sources \in Seq(Plans)
  BY <1>1, Running, JournalFacts
<1>3. sources[job.at] \in Tx /\ Exists(sources[job.at])
  BY <1>1, <1>2, Running, TxFacts DEF AdoptInv, LinkInv
<1>4. JournalsKept
  BY <1>1, <1>3, KeptState DEF AdoptInv, State
<1>5. CASE job.at = Len(sources)
  <2>1. job' = [pc |-> "finish", tx |-> job.tx, at |-> 1]
    BY <1>1, <1>5, Running, GotoFacts
  <2> QED BY <1>1, <1>4, <2>1, Running, Continue DEF PC, PublishPC, VisitPC, PlanPC, RestorePC
<1>6. CASE job.at # Len(sources)
  <2>1. job' = [pc |-> "settle", tx |-> job.tx, at |-> job.at + 1]
    BY <1>1, <1>6, Running, GotoFacts
  <2>2. job.at + 1 \in 1 .. Len(sources) /\ job.at + 1 \in Nat
    BY <1>1, <1>2, <1>6
  <2> QED BY <1>1, <1>4, <2>1, <2>2, Running, Continue DEF PC, PublishPC, VisitPC, PlanPC, RestorePC
<1> QED BY <1>5, <1>6

LEMMA RecoverKept ==
    ASSUME AdoptInv, Calm, NEW t \in Tx, Recover(t)
    PROVE  AdoptInv'
<1>1. Exists(t) /\ UNCHANGED <<journal, active>>
  BY DEF Recover
<1>2. IsJournal(journal[t])
  BY <1>1 DEF AdoptInv, TypeOK, Exists
<1>3. First(t) \in Touched(t) /\ First(t) \in Nat
  <2>1. Touched(t) \in SUBSET Files /\ Touched(t) # {}
    BY <1>2, JournalFacts DEF Touched
  <2> QED BY <2>1, EndsFacts, FilesFacts DEF First
<1>4. JournalsKept
  BY <1>1, KeptSame DEF AdoptInv
<1>5. CASE t \in Restores
  <2>1. job' = [pc |-> "preflight", tx |-> t, at |-> First(t)]
    BY <1>5 DEF Recover
  <2> QED BY <1>1, <1>3, <1>4, <1>5, <2>1, Continue DEF PC, PublishPC, VisitPC, PlanPC, RestorePC
<1>6. CASE t \notin Restores
  <2>1. job' = [pc |-> "check", tx |-> t, at |-> First(t)] /\ t \in Plans
    BY <1>6 DEF Recover, Tx
  <2> QED BY <1>1, <1>3, <1>4, <2>1, Continue DEF PC, PublishPC, VisitPC, PlanPC, RestorePC
<1> QED BY <1>5, <1>6

LEMMA CaptureKept ==
    ASSUME AdoptInv, Calm, Capture
    PROVE  AdoptInv'
<1>1. job.pc = "capture" /\ active' = active /\ job.at \in Touched(job.tx)
  BY DEF Capture, AdoptInv, JobInv, VisitPC
<1>0. job \in Job /\ job.tx \in Tx /\ Exists(job.tx) /\ job.at \in Nat
  BY <1>1, Running
<1>2. CASE Applying /\ SetPhase(job.tx, job.at, "published") /\ Ascend("intend", "commit")
  <2>1. JournalsKept
    BY <1>0, <1>1, <1>2, KeptPhase DEF AdoptInv, Phase
  <2>2. job.tx \in Plans /\ \A f \in Files : f > job.at => guards[job.tx][f] = <<>>
    BY <1>1, <1>2 DEF Applying, Compensating, AdoptInv, GuardInv, Unguarded, PublishPC
  <2>3. ASSUME NEW g \in Touched(job.tx), g > job.at, job' = [pc |-> "intend", tx |-> job.tx, at |-> g]
        PROVE  AdoptInv'
    <3>1. g \in Nat
      BY <1>1, Running
    <3>2. \A f \in Files : f >= g => guards[job.tx][f] = <<>>
      <4> TAKE f \in Files
      <4>1. f \in Nat
        BY FilesFacts
      <4> QED BY <1>0, <2>2, <2>3, <3>1, <4>1
    <3> QED BY <1>0, <1>1, <2>1, <2>2, <2>3, <3>1, <3>2, Continue
            DEF PC, PublishPC, VisitPC, PlanPC, RestorePC
  <2>4. CASE job' = [pc |-> "commit", tx |-> job.tx, at |-> 1]
    BY <1>0, <1>1, <2>1, <2>2, <2>4, Continue DEF PC, PublishPC, VisitPC, PlanPC, RestorePC
  <2> QED BY <1>1, <1>2, <2>3, <2>4, AscendFacts
<1>3. CASE Compensating /\ SetPhase(job.tx, job.at, "reverted") /\ Descend("revert", "finish")
  <2>1. JournalsKept /\ journal'[job.tx].state = journal[job.tx].state
    BY <1>0, <1>1, <1>3, KeptPhase DEF AdoptInv, Phase
  <2>2. job.tx \in Plans /\ journal[job.tx].state = "restoring"
    BY <1>1, <1>3 DEF Compensating
  <2>3. ASSUME NEW g \in Touched(job.tx), job' = [pc |-> "revert", tx |-> job.tx, at |-> g]
        PROVE  AdoptInv'
    <3>1. g \in Nat
      BY <1>1, Running
    <3> QED BY <1>0, <1>1, <2>1, <2>2, <2>3, <3>1, Continue DEF PC, PublishPC, VisitPC, PlanPC, RestorePC
  <2>4. CASE job' = [pc |-> "finish", tx |-> job.tx, at |-> 1]
    BY <1>0, <1>1, <2>1, <2>4, Continue DEF PC, PublishPC, VisitPC, PlanPC, RestorePC
  <2> QED BY <1>1, <1>3, <2>3, <2>4, DescendFacts
<1>4. CASE Resuming /\ SetPhase(job.tx, job.at, "reverted") /\ Ascend("forward", "settle")
  <2>1. JournalsKept
    BY <1>0, <1>1, <1>4, KeptPhase DEF AdoptInv, Phase
  <2>2. job.tx \in Restores /\ 1 \in 1 .. Len(journal[job.tx].sources)
    <3>1. journal[job.tx].sources \in Seq(Plans) /\ journal[job.tx].sources # <<>>
      BY <1>0, <1>1, <1>4, Running, JournalFacts DEF Resuming, AdoptInv, LinkInv
    <3> QED BY <1>4, <3>1 DEF Resuming
  <2>3. ASSUME NEW g \in Touched(job.tx), job' = [pc |-> "forward", tx |-> job.tx, at |-> g]
        PROVE  AdoptInv'
    <3>1. g \in Nat
      BY <1>1, Running
    <3> QED BY <1>0, <1>1, <2>1, <2>2, <2>3, <3>1, Continue DEF PC, PublishPC, VisitPC, PlanPC, RestorePC
  <2>4. CASE job' = [pc |-> "settle", tx |-> job.tx, at |-> 1]
    BY <1>0, <1>1, <2>1, <2>2, <2>4, Continue DEF PC, PublishPC, VisitPC, PlanPC, RestorePC
  <2> QED BY <1>1, <1>4, <2>3, <2>4, AscendFacts
<1>5. CASE Abandon
  BY <1>1, <1>5, AbandonKept
<1> QED BY <1>2, <1>3, <1>4, <1>5 DEF Capture

---------------------------------------------------------------------------
(* Steps that prepare or publish *)

LEMMA AppendFacts ==
    ASSUME NEW S, NEW q \in Seq(S), NEW x \in S
    PROVE  /\ Append(q, x) \in Seq(S) /\ Len(Append(q, x)) = Len(q) + 1 /\ Append(q, x) # <<>>
           /\ Append(q, x)[Len(q) + 1] = x /\ \A n \in 1 .. Len(q) : Append(q, x)[n] = q[n]
           /\ Len(q) \in Nat /\ DOMAIN q = 1 .. Len(q) /\ DOMAIN Append(q, x) = 1 .. Len(q) + 1
OBVIOUS

\* The guard directories of t for f become q.
PutGuards(t, f, q) == [guards EXCEPT ![t][f] = q]

LEMMA GuardPut ==
    ASSUME TypeOK, NEW t \in Tx, NEW f \in Files, NEW q \in Seq(Guard), Len(q) <= MaxGuards,
           guards' = PutGuards(t, f, q)
    PROVE  /\ guards' \in [Tx -> [Files -> Seq(Guard)]]
           /\ \A u \in Tx, g \in Files : Len(guards'[u][g]) <= MaxGuards
           /\ guards'[t][f] = q
           /\ \A u \in Tx, g \in Files : u # t \/ g # f => guards'[u][g] = guards[u][g]
<1>0. guards' = [guards EXCEPT ![t][f] = q]
  BY DEF PutGuards
<1>1. guards \in [Tx -> [Files -> Seq(Guard)]]
  BY DEF TypeOK
<1>2. guards' \in [Tx -> [Files -> Seq(Guard)]]
  BY <1>0, <1>1
<1>3. guards'[t][f] = q /\ \A u \in Tx, g \in Files : u # t \/ g # f => guards'[u][g] = guards[u][g]
  BY <1>0, <1>1
<1>4. \A u \in Tx, g \in Files : Len(guards'[u][g]) <= MaxGuards
  BY <1>3 DEF TypeOK
<1> QED BY <1>2, <1>3, <1>4

LEMMA PrepareKept ==
    ASSUME AdoptInv, job.pc # "idle", job.at \in Touched(job.tx),
           NEW expected \in Document, NEW replacement \in Document, NEW phase \in Phase,
           expected.user = replacement.user, Prepare(job.tx, job.at, expected, replacement, phase),
           Len(guards[job.tx][job.at]) < MaxGuards,
           job.tx \in Plans /\ journal[job.tx].state # "restoring"
               => \A f \in Files : f > job.at => guards[job.tx][f] = <<>>,
           UNCHANGED <<file, active, edits, owed, faults>>
    PROVE  AdoptInv'
<1> DEFINE g == [expected |-> expected, replacement |-> replacement, swapped |-> FALSE,
                 holds |-> replacement]
           old == guards[job.tx][job.at]
           new == Append(old, g)
<1>0. /\ job \in Job /\ job.tx \in Tx /\ Exists(job.tx) /\ job.at \in Files /\ job.at \in Nat
      /\ TypeOK /\ LinkInv /\ JobInv /\ GuardInv /\ EditInv
  BY Running DEF AdoptInv
<1>1. g \in Guard /\ old \in Seq(Guard) /\ Len(old) \in Nat /\ MaxGuards \in Nat
  <2>1. g \in Guard
    BY DEF Guard
  <2>2. old \in Seq(Guard)
    BY <1>0 DEF TypeOK
  <2> HIDE DEF g, old
  <2> QED BY <2>1, <2>2, BoundsAssumption
<1>3. guards' = PutGuards(job.tx, job.at, new) /\ Len(old) < MaxGuards
  BY DEF Prepare, PutGuards
<1> HIDE DEF g, old
<1>2. /\ new \in Seq(Guard) /\ Len(new) = Len(old) + 1 /\ Len(new) <= MaxGuards /\ new # <<>>
      /\ new[Len(new)] = g /\ \A n \in 1 .. Len(old) : new[n] = old[n]
  BY <1>1, <1>3, AppendFacts
<1>4. /\ JournalsKept /\ journal'[job.tx].state = journal[job.tx].state
      /\ \A u \in Tx : u # job.tx => journal'[u] = journal[u]
  BY <1>0, KeptPhase DEF Prepare
<1>5. job' = [pc |-> "publish", tx |-> job.tx, at |-> job.at]
  BY <1>0, GotoFacts DEF Prepare
<1>6. job'.pc = "publish" /\ job'.tx = job.tx /\ job'.at = job.at /\ job' \in Job
  BY <1>0, <1>5 DEF Job, PC
<1>7. DOMAIN old = 1 .. Len(old) /\ DOMAIN new = 1 .. Len(new)
  BY <1>1, <1>2, AppendFacts
<1> HIDE DEF new
<1>8. /\ guards' \in [Tx -> [Files -> Seq(Guard)]]
      /\ \A u \in Tx, f \in Files : Len(guards'[u][f]) <= MaxGuards
      /\ guards'[job.tx][job.at] = new
      /\ \A u \in Tx, f \in Files : u # job.tx \/ f # job.at => guards'[u][f] = guards[u][f]
  BY <1>0, <1>2, <1>3, GuardPut
<1>9. \A u \in Tx : Exists(u) => journal'[u] # None
  BY <1>4, JournalFacts DEF JournalsKept, Exists
<1>10. TypeOK'
  <2>1. \A u \in Tx : journal'[u] # None => IsJournal(journal'[u])
    BY <1>4 DEF JournalsKept
  <2> QED BY <1>0, <1>4, <1>6, <1>8, <1>9, <2>1 DEF TypeOK, JournalsKept, Job
<1>11. LinkInv'
  BY <1>0, <1>4, LinksKept
<1>12. LastGuard' = g
  BY <1>2, <1>6, <1>8 DEF LastGuard
<1>13. JobInv'
  <2>1. Touched(job.tx)' = Touched(job.tx)
    BY <1>0, <1>4, <1>6 DEF JournalsKept, SameBody, Touched, Exists
  <2>2. Prepared'
    BY <1>12 DEF Prepared, g
  <2> QED BY <1>2, <1>6, <1>8, <2>1, <2>2 DEF JobInv, VisitPC, PlanPC, RestorePC, PublishPC
<1>14. GuardInv'
  <2>1. \A u \in Tx, f \in Files : ~Exists(u)' => guards'[u][f] = <<>>
    <3>1. \A u \in Tx : ~Exists(u)' => ~Exists(u) /\ u # job.tx
      BY <1>0, <1>9 DEF Exists
    <3> QED BY <1>0, <1>8, <3>1 DEF GuardInv
  <2>2. \A f \in Files : Unguarded(f)' => guards'[job'.tx][f] = <<>>
    <3> TAKE f \in Files
    <3>1. HAVE Unguarded(f)'
    <3>2. job.tx \in Plans /\ journal[job.tx].state # "restoring" /\ f > job.at
      BY <1>4, <1>6, <3>1 DEF Unguarded
    <3>3. f # job.at /\ guards[job.tx][f] = <<>>
      BY <1>0, <3>2, FilesFacts
    <3> QED BY <1>0, <1>6, <1>8, <3>3
  <2> QED BY <2>1, <2>2 DEF GuardInv
<1>15. EditInv'
  <2>1. ASSUME NEW u \in Tx, NEW f \in Files, NEW n \in DOMAIN guards[u][f]
        PROVE  n \in DOMAIN guards'[u][f] /\ guards'[u][f][n] = guards[u][f][n]
    <3>1. CASE u = job.tx /\ f = job.at
      <4>1. n \in 1 .. Len(old) /\ n \in 1 .. Len(new)
        BY <1>1, <1>2, <1>7, <2>1, <3>1 DEF old
      <4> QED BY <1>2, <1>7, <1>8, <3>1, <4>1 DEF old
    <3>2. CASE u # job.tx \/ f # job.at
      BY <1>8, <2>1, <3>2
    <3> QED BY <3>1, <3>2
  <2>2. \A e \in owed : e.file \in Files
    BY <1>0 DEF TypeOK, Edit
  <2>3. EditsKept'
    BY <1>0, <2>1, <2>2 DEF EditInv, EditsKept
  <2> QED BY <1>6, <2>3 DEF EditInv
<1> QED BY <1>10, <1>11, <1>13, <1>14, <1>15 DEF AdoptInv

\* The entry that a command has come to.
LEMMA EntryFacts ==
    ASSUME AdoptInv, job.pc # "idle", job.at \in Touched(job.tx)
    PROVE  LET e == journal[job.tx].entries[job.at]
           IN  /\ e.before \in Document /\ e.after \in Document /\ e.before.user = e.after.user
               /\ guards[job.tx][job.at] \in Seq(Guard) /\ job.at \in Files
<1> DEFINE e == journal[job.tx].entries[job.at]
<1>1. e \in Entry
  BY Running, JournalFacts DEF Touched
<1>2. e.before.user = e.after.user
  BY Running DEF AdoptInv, LinkInv
<1>3. guards[job.tx][job.at] \in Seq(Guard) /\ job.at \in Files
  BY Running DEF AdoptInv, TypeOK
<1> QED BY <1>1, <1>2, <1>3 DEF Entry

LEMMA IntendKept ==
    ASSUME AdoptInv, Intend, UNCHANGED <<edits, owed, faults>>
    PROVE  AdoptInv'
<1> DEFINE e == journal[job.tx].entries[job.at]
<1>1. /\ job.pc = "intend" /\ UNCHANGED <<file, active>> /\ job.at \in Touched(job.tx)
      /\ job.tx \in Plans
  BY DEF Intend, AdoptInv, JobInv, VisitPC, PlanPC
<1>2. CASE Prepare(job.tx, job.at, e.before, e.after, "intent")
  <2>1. \A f \in Files : f >= job.at => guards[job.tx][f] = <<>>
    BY <1>1 DEF AdoptInv, GuardInv, Unguarded
  <2>2. job.at \in Files /\ e.before \in Document /\ e.after \in Document /\ e.before.user = e.after.user
    BY <1>1, EntryFacts
  <2>3. \A f \in Files : f \in Nat
    BY FilesFacts
  <2>4. guards[job.tx][job.at] = <<>>
    BY <2>1, <2>2, <2>3
  <2>5. Len(guards[job.tx][job.at]) < MaxGuards
    BY <2>4, BoundsAssumption
  <2>6. \A f \in Files : f > job.at => guards[job.tx][f] = <<>>
    BY <2>1, <2>2, <2>3
  <2>7. "intent" \in Phase
    BY DEF Phase
  <2> HIDE DEF e
  <2> QED BY <1>1, <1>2, <2>2, <2>5, <2>6, <2>7, PrepareKept
<1>3. CASE Abandon /\ UNCHANGED guards
  <2>1. Calm
    BY <1>1, <1>3 DEF Calm, AdoptInv, TypeOK
  <2> QED BY <1>1, <1>3, <2>1, AbandonKept
<1> QED BY <1>2, <1>3 DEF Intend

LEMMA RevertKept ==
    ASSUME AdoptInv, Revert, UNCHANGED <<edits, owed, faults>>
    PROVE  AdoptInv'
<1> DEFINE e == journal[job.tx].entries[job.at]
           n == Len(guards[job.tx][job.at])
<1>1. /\ job.pc = "revert" /\ UNCHANGED <<file, active>> /\ job.at \in Touched(job.tx)
      /\ job.tx \in Plans /\ journal[job.tx].state = "restoring"
  BY DEF Revert, AdoptInv, JobInv, VisitPC, PlanPC
<1>2. CASE n < MaxGuards /\ Prepare(job.tx, job.at, e.after, e.before, "restoreIntent")
  <2>1. e.before \in Document /\ e.after \in Document /\ e.before.user = e.after.user
    BY <1>1, EntryFacts
  <2>2. "restoreIntent" \in Phase
    BY DEF Phase
  <2> HIDE DEF e
  <2> QED BY <1>1, <1>2, <2>1, <2>2, PrepareKept
<1>3. CASE UNCHANGED guards /\ Abandon
  <2>1. Calm
    BY <1>1, <1>3 DEF Calm, AdoptInv, TypeOK
  <2> QED BY <1>1, <1>3, <2>1, AbandonKept
<1>4. CASE SetPhase(job.tx, job.at, "reverted") /\ Descend("revert", "finish") /\ UNCHANGED guards
  <2>0. Calm
    BY <1>1, <1>4 DEF Calm, AdoptInv, TypeOK
  <2>1. JournalsKept /\ journal'[job.tx].state = journal[job.tx].state
    BY <1>1, <1>4, Running, KeptPhase DEF AdoptInv, Phase
  <2>3. ASSUME NEW g \in Touched(job.tx), job' = [pc |-> "revert", tx |-> job.tx, at |-> g]
        PROVE  AdoptInv'
    <3>1. g \in Nat
      BY <1>1, Running
    <3> QED BY <1>1, <2>0, <2>1, <2>3, <3>1, Running, Continue
            DEF PC, PublishPC, VisitPC, PlanPC, RestorePC
  <2>4. CASE job' = [pc |-> "finish", tx |-> job.tx, at |-> 1]
    BY <1>1, <2>0, <2>1, <2>4, Running, Continue DEF PC, PublishPC, VisitPC, PlanPC, RestorePC
  <2> QED BY <1>1, <1>4, <2>3, <2>4, DescendFacts
<1>5. CASE SetState(job.tx, "recoveryRequired") /\ Return /\ UNCHANGED guards
  <2>0. Calm
    BY <1>1, <1>5 DEF Calm, AdoptInv, TypeOK
  <2>1. JournalsKept
    BY <1>1, <1>5, Running, KeptState DEF AdoptInv, State
  <2> QED BY <1>1, <1>5, <2>0, <2>1, Leave
<1> QED BY <1>2, <1>3, <1>4, <1>5 DEF Revert

LEMMA ForwardKept ==
    ASSUME AdoptInv, Forward, UNCHANGED <<edits, owed, faults>>
    PROVE  AdoptInv'
<1> DEFINE e == journal[job.tx].entries[job.at]
           n == Len(guards[job.tx][job.at])
<1>1. /\ job.pc = "forward" /\ UNCHANGED <<file, active>> /\ job.at \in Touched(job.tx)
      /\ job.tx \in Restores /\ job.tx \notin Plans
  BY TxFacts DEF Forward, AdoptInv, JobInv, VisitPC, RestorePC
<1>2. CASE n < MaxGuards /\ Prepare(job.tx, job.at, e.before, e.after, "restoreIntent")
  <2>1. e.before \in Document /\ e.after \in Document /\ e.before.user = e.after.user
    BY <1>1, EntryFacts
  <2>2. "restoreIntent" \in Phase
    BY DEF Phase
  <2> HIDE DEF e
  <2> QED BY <1>1, <1>2, <2>1, <2>2, PrepareKept
<1>3. CASE UNCHANGED guards /\ Abandon
  <2>1. Calm
    BY <1>1, <1>3 DEF Calm, AdoptInv, TypeOK
  <2> QED BY <1>1, <1>3, <2>1, AbandonKept
<1>4. CASE SetPhase(job.tx, job.at, "reverted") /\ Ascend("forward", "settle") /\ UNCHANGED guards
  <2>0. Calm
    BY <1>1, <1>4 DEF Calm, AdoptInv, TypeOK
  <2>1. JournalsKept
    BY <1>1, <1>4, Running, KeptPhase DEF AdoptInv, Phase
  <2>2. 1 \in 1 .. Len(journal[job.tx].sources)
    <3>1. journal[job.tx].sources \in Seq(Plans) /\ journal[job.tx].sources # <<>>
      BY <1>1, Running, JournalFacts DEF AdoptInv, LinkInv
    <3> QED BY <3>1
  <2>3. ASSUME NEW g \in Touched(job.tx), job' = [pc |-> "forward", tx |-> job.tx, at |-> g]
        PROVE  AdoptInv'
    <3>1. g \in Nat
      BY <1>1, Running
    <3> QED BY <1>1, <2>0, <2>1, <2>3, <3>1, Running, Continue
            DEF PC, PublishPC, VisitPC, PlanPC, RestorePC
  <2>4. CASE job' = [pc |-> "settle", tx |-> job.tx, at |-> 1]
    BY <1>1, <2>0, <2>1, <2>2, <2>4, Running, Continue DEF PC, PublishPC, VisitPC, PlanPC, RestorePC
  <2> QED BY <1>1, <1>4, <2>3, <2>4, AscendFacts
<1> QED BY <1>2, <1>3, <1>4 DEF Forward

\* The command's last look at the file.
LEMMA ValidateKept ==
    ASSUME AdoptInv, Validate, UNCHANGED <<edits, owed, faults>>
    PROVE  AdoptInv'
<1>1. job.pc = "publish" /\ UNCHANGED <<file, guards, active>>
  BY DEF Validate
<1>0. /\ TypeOK /\ LinkInv /\ JobInv /\ GuardInv /\ EditInv
      /\ job \in Job /\ job.tx \in Tx /\ Exists(job.tx) /\ Prepared
  BY <1>1, Running DEF AdoptInv, JobInv
<1>2. CASE Abandon
  <2>1. Calm
    BY <1>0, <1>1 DEF Calm, TypeOK
  <2> QED BY <1>1, <1>2, <2>1, AbandonKept
<1>3. CASE file[job.at] = LastGuard.expected /\ Goto("exchange", job.at) /\ UNCHANGED journal
  <2>1. job' = [pc |-> "exchange", tx |-> job.tx, at |-> job.at]
    BY <1>0, <1>3, GotoFacts
  <2>2. job'.pc = "exchange" /\ job'.tx = job.tx /\ job'.at = job.at /\ job' \in Job
    BY <1>0, <2>1 DEF Job, PC
  <2>3. TypeOK'
    BY <1>0, <1>1, <1>3, <2>2 DEF TypeOK, Job
  <2>4. LinkInv'
    BY <1>0, <1>1, <1>3, LinksKept, KeptSame
  <2>5. LastGuard' = LastGuard
    BY <1>1, <2>2 DEF LastGuard
  <2>6. JobInv'
    BY <1>0, <1>1, <1>3, <2>2, <2>5
       DEF JobInv, VisitPC, PlanPC, RestorePC, PublishPC, Prepared, Touched
  <2>7. GuardInv'
    BY <1>0, <1>1, <1>3, <2>2 DEF GuardInv, Unguarded, PublishPC, Exists
  <2>8. EditInv'
    <3>1. LastGuard.holds.user = file[job.at].user
      BY <1>0, <1>3 DEF Prepared
    <3>2. \A e \in owed : e.quiet /\ e.key = "user" /\ e.file = job.at => file[job.at].user = e.edit
      BY <1>0 DEF EditInv, EditsKept
    <3>3. EditsKept'
      BY <1>0, <1>1 DEF EditInv, EditsKept
    <3> QED BY <1>1, <2>2, <2>5, <3>1, <3>2, <3>3 DEF EditInv
  <2> QED BY <2>3, <2>4, <2>6, <2>7, <2>8 DEF AdoptInv
<1> QED BY <1>2, <1>3 DEF Validate

LEMMA ExceptFacts ==
    ASSUME NEW S, NEW q \in Seq(S), NEW i \in 1 .. Len(q), NEW x \in S
    PROVE  LET p == [q EXCEPT ![i] = x]
           IN  /\ p \in Seq(S) /\ Len(p) = Len(q) /\ DOMAIN p = DOMAIN q /\ DOMAIN q = 1 .. Len(q)
               /\ p[i] = x /\ \A n \in 1 .. Len(q) : n # i => p[n] = q[n]
OBVIOUS

\* The exchange loses nothing: what the path held is in the guard directory afterwards, and what was
\* there is under the path.
LEMMA ExchangeKept ==
    ASSUME AdoptInv, Exchange, UNCHANGED <<edits, owed, faults>>
    PROVE  AdoptInv'
<1> DEFINE old == guards[job.tx][job.at]
           n == Len(old)
           g == [old[n] EXCEPT !.swapped = TRUE, !.holds = file[job.at]]
           new == [old EXCEPT ![n] = g]
<1>1. job.pc = "exchange" /\ UNCHANGED <<journal, active>> /\ Goto("capture", job.at)
  BY DEF Exchange
<1>0. /\ TypeOK /\ LinkInv /\ JobInv /\ GuardInv /\ EditInv
      /\ job \in Job /\ job.tx \in Tx /\ Exists(job.tx) /\ job.at \in Touched(job.tx)
      /\ job.at \in Files /\ old # <<>>
  BY <1>1, Running DEF AdoptInv, JobInv, VisitPC, PublishPC
<1>2. old \in Seq(Guard) /\ file \in [Files -> Document]
  BY <1>0 DEF TypeOK
<1>3. n \in 1 .. Len(old) /\ LastGuard = old[n] /\ old[n] \in Guard
  <2>1. LastGuard = old[n]
    BY DEF LastGuard
  <2> HIDE DEF old
  <2> QED BY <1>0, <1>2, <2>1
<1>4. /\ g \in Guard /\ g.holds = file[job.at] /\ old[n].holds \in Document /\ file[job.at] \in Document
      /\ g.expected = old[n].expected /\ g.replacement = old[n].replacement
  BY <1>0, <1>2, <1>3 DEF Guard
<1>5. guards' = PutGuards(job.tx, job.at, new) /\ file' = [file EXCEPT ![job.at] = old[n].holds]
  BY DEF Exchange, PutGuards, LastGuard
<1>6. Len(old) <= MaxGuards
  BY <1>0 DEF TypeOK
<1>7. job' = [pc |-> "capture", tx |-> job.tx, at |-> job.at]
  BY <1>0, <1>1, GotoFacts
<1>8. job'.pc = "capture" /\ job'.tx = job.tx /\ job'.at = job.at /\ job' \in Job
  BY <1>0, <1>7 DEF Job, PC
<1> HIDE DEF g, old
<1>9. /\ new \in Seq(Guard) /\ Len(new) = n /\ DOMAIN new = DOMAIN old /\ DOMAIN old = 1 .. n
      /\ new[n] = g /\ \A m \in 1 .. n : m # n => new[m] = old[m]
  BY <1>2, <1>3, <1>4, ExceptFacts
<1>18. n \in Nat /\ n >= 1 /\ n <= MaxGuards /\ n \in 1 .. n
  BY <1>2, <1>3, <1>6
<1> HIDE DEF n, new
<1>10. /\ guards' \in [Tx -> [Files -> Seq(Guard)]]
       /\ \A u \in Tx, f \in Files : Len(guards'[u][f]) <= MaxGuards
       /\ guards'[job.tx][job.at] = new
       /\ \A u \in Tx, f \in Files : u # job.tx \/ f # job.at => guards'[u][f] = guards[u][f]
  <2>1. Len(new) <= MaxGuards /\ new \in Seq(Guard)
    BY <1>9, <1>18
  <2> QED BY <1>0, <1>5, <2>1, GuardPut
<1>11. /\ file' \in [Files -> Document] /\ file'[job.at] = old[n].holds
       /\ \A f \in Files : f # job.at => file'[f] = file[f]
  BY <1>0, <1>2, <1>4, <1>5
<1>12. TypeOK'
  BY <1>0, <1>1, <1>8, <1>10, <1>11 DEF TypeOK, Job
<1>13. LinkInv'
  BY <1>0, <1>1, LinksKept, KeptSame
<1>14. JobInv'
  <2>1. new # <<>>
    <3>1. Len(new) # 0
      BY <1>9, <1>18
    <3> QED BY <3>1
  <2>2. Touched(job.tx)' = Touched(job.tx)
    BY <1>1, <1>8 DEF Touched
  <2> QED BY <1>0, <1>8, <1>10, <2>1, <2>2 DEF JobInv, VisitPC, PlanPC, RestorePC, PublishPC
<1>15. GuardInv'
  <2>1. \A u \in Tx, f \in Files : ~Exists(u)' => guards'[u][f] = <<>>
    <3>1. \A u \in Tx : ~Exists(u)' => ~Exists(u) /\ u # job.tx
      BY <1>0, <1>1 DEF Exists
    <3> QED BY <1>0, <1>10, <3>1 DEF GuardInv
  <2>2. \A f \in Files : Unguarded(f)' => guards'[job'.tx][f] = <<>>
    <3> TAKE f \in Files
    <3>1. HAVE Unguarded(f)'
    <3>2. f > job.at /\ Unguarded(f)
      BY <1>1, <1>8, <3>1 DEF Unguarded, PublishPC
    <3>3. f # job.at /\ guards[job.tx][f] = <<>>
      BY <1>0, <3>2, FilesFacts DEF GuardInv
    <3> QED BY <1>0, <1>8, <1>10, <3>3
  <2> QED BY <2>1, <2>2 DEF GuardInv
<1>16. EditsKept'
  <2> SUFFICES ASSUME NEW e \in owed
               PROVE  \/ file'[e.file][e.key] = e.edit
                      \/ /\ ~(e.quiet /\ e.key = "user")
                         /\ \E t \in Tx : \E m \in DOMAIN guards'[t][e.file] :
                               guards'[t][e.file][m].holds[e.key] = e.edit
    BY DEF EditsKept
  <2>0. e.file \in Files /\ e.key \in Keys
    BY <1>0 DEF TypeOK, Edit
  <2>1. CASE e.file # job.at
    <3>1. file'[e.file] = file[e.file] /\ \A t \in Tx : guards'[t][e.file] = guards[t][e.file]
      BY <1>10, <1>11, <2>0, <2>1
    <3> QED BY <1>0, <3>1 DEF EditInv, EditsKept
  <2>2. CASE e.file = job.at /\ file[e.file][e.key] = e.edit
    <3>1. CASE e.quiet /\ e.key = "user"
      BY <1>0, <1>1, <1>3, <1>11, <2>2, <3>1 DEF EditInv
    <3>2. CASE ~(e.quiet /\ e.key = "user")
      <4>1. n \in DOMAIN guards'[job.tx][e.file] /\ guards'[job.tx][e.file][n].holds[e.key] = e.edit
        BY <1>4, <1>9, <1>10, <1>18, <2>2
      <4> QED BY <1>0, <3>2, <4>1
    <3> QED BY <3>1, <3>2
  <2>3. CASE e.file = job.at /\ file[e.file][e.key] # e.edit
    <3>1. ~(e.quiet /\ e.key = "user")
      BY <1>0, <2>3 DEF EditInv, EditsKept
    <3>6. PICK t \in Tx : \E m \in DOMAIN guards[t][e.file] : guards[t][e.file][m].holds[e.key] = e.edit
      BY <1>0, <2>3 DEF EditInv, EditsKept
    <3>2. PICK m \in DOMAIN guards[t][e.file] : guards[t][e.file][m].holds[e.key] = e.edit
      BY <3>6
    <3>3. CASE t = job.tx /\ m = n
      BY <1>11, <2>3, <3>2, <3>3 DEF old
    <3>4. CASE t = job.tx /\ m # n
      <4>1. m \in 1 .. n /\ guards'[t][e.file][m] = guards[t][e.file][m] /\ m \in DOMAIN guards'[t][e.file]
        BY <1>9, <1>10, <2>3, <3>2, <3>4 DEF old
      <4> QED BY <3>1, <3>2, <4>1
    <3>5. CASE t # job.tx
      BY <1>10, <2>0, <3>1, <3>2, <3>5
    <3> QED BY <3>3, <3>4, <3>5
  <2> QED BY <2>1, <2>2, <2>3
<1>17. EditInv'
  BY <1>8, <1>16 DEF EditInv
<1> QED BY <1>12, <1>13, <1>14, <1>15, <1>17 DEF AdoptInv

---------------------------------------------------------------------------
(* The first journal write of a transaction *)

LEMMA Begun ==
    ASSUME AdoptInv, NEW t \in Tx, ~Exists(t), job = Idle, NEW j, IsJournal(j),
           journal' = [journal EXCEPT ![t] = j], j.predecessor = active,
           \A n \in 1 .. Len(j.sources) : Exists(j.sources[n]),
           t \in Restores => j.sources # <<>>,
           \A f \in DOMAIN j.entries : j.entries[f].before.user = j.entries[f].after.user,
           job' = [pc |-> "point", tx |-> t, at |-> 1],
           UNCHANGED <<file, guards, active, edits, owed, faults>>
    PROVE  AdoptInv'
<1>0. TypeOK /\ LinkInv /\ JobInv /\ GuardInv /\ EditInv
  BY DEF AdoptInv
<1>1. DOMAIN journal' = Tx /\ journal'[t] = j /\ \A u \in Tx : u # t => journal'[u] = journal[u]
  BY <1>0 DEF TypeOK
<1>2. j # None /\ j.predecessor \in Tx \cup {None} /\ j.sources \in Seq(Plans)
  BY JournalFacts
<1>3. job'.pc = "point" /\ job'.tx = t /\ job'.at = 1 /\ job' \in Job
  BY DEF Job, PC
<1>4. \A u \in Tx : Exists(u) => u # t /\ journal'[u] = journal[u] /\ journal'[u] # None
  BY <1>1 DEF Exists
<1>5. TypeOK'
  BY <1>0, <1>1, <1>2, <1>3 DEF TypeOK, Job
<1>6. LinkInv'
  <2>1. active' # None => Exists(active)'
    BY <1>0, <1>4 DEF LinkInv, TypeOK, Exists
  <2>2. ASSUME NEW u \in Tx, Exists(u)'
        PROVE  /\ journal'[u].predecessor # None => Exists(journal[u].predecessor)'
               /\ \A n \in 1 .. Len(journal'[u].sources) : Exists(journal[u].sources[n])'
               /\ u \in Restores => journal'[u].sources # <<>>
               /\ \A f \in Touched(u)' :
                     journal'[u].entries[f].before.user = journal'[u].entries[f].after.user
    <3> DEFINE k == journal'[u]
    <3>1. k \in {j, journal[u]} /\ (k # j => u # t /\ Exists(u) /\ k = journal[u])
      BY <1>1, <2>2 DEF Exists
    <3>2. IsJournal(k)
      BY <2>2, <1>5 DEF TypeOK, Exists
    <3>3. k.predecessor \in Tx \cup {None} /\ k.sources \in Seq(Plans)
      BY <3>2, JournalFacts
    <3>4. \A n \in 1 .. Len(k.sources) : k.sources[n] \in Tx
      BY <3>3, TxFacts
    <3>5. /\ k.predecessor # None => Exists(k.predecessor)
          /\ \A n \in 1 .. Len(k.sources) : Exists(k.sources[n])
          /\ u \in Restores => k.sources # <<>>
          /\ \A f \in DOMAIN k.entries : k.entries[f].before.user = k.entries[f].after.user
      <4>1. CASE k = j
        <5>1. u = t \/ (Exists(u) /\ k = journal[u])
          BY <1>1, <2>2 DEF Exists
        <5>2. j.predecessor # None => Exists(j.predecessor)
          BY <1>0 DEF LinkInv
        <5>3. CASE u = t
          BY <4>1, <5>2, <5>3
        <5>4. CASE Exists(u) /\ k = journal[u]
          BY <1>0, <5>4 DEF LinkInv, Touched
        <5> QED BY <5>1, <5>3, <5>4
      <4>2. CASE k # j
        BY <1>0, <3>1, <4>2 DEF LinkInv, Touched
      <4> QED BY <4>1, <4>2
    <3>6. k.predecessor # None => journal'[k.predecessor] # None
      BY <1>4, <3>3, <3>5
    <3>7. \A n \in 1 .. Len(k.sources) : journal'[k.sources[n]] # None
      BY <1>4, <3>4, <3>5
    <3> QED BY <3>5, <3>6, <3>7 DEF Exists, Touched
  <2> QED BY <2>1, <2>2 DEF LinkInv
<1>7. JobInv'
  BY <1>3 DEF JobInv, VisitPC, PlanPC, RestorePC, PublishPC
<1>8. GuardInv'
  <2>1. \A f \in Files : guards[t][f] = <<>>
    BY <1>0 DEF GuardInv
  <2>2. \A u \in Tx : ~Exists(u)' => ~Exists(u)
    BY <1>4 DEF Exists
  <2> QED BY <1>0, <1>3, <2>1, <2>2 DEF GuardInv
<1>9. EditInv'
  BY <1>0, <1>3 DEF EditInv, EditsKept
<1> QED BY <1>5, <1>6, <1>7, <1>8, <1>9 DEF AdoptInv

LEMMA BeginApplyKept ==
    ASSUME AdoptInv, NEW t \in Plans, BeginApply(t), UNCHANGED <<edits, owed, faults>>
    PROVE  AdoptInv'
<1> DEFINE replaced == {f \in Touches[t] : file[f].own # Payload[t]}
           es == [f \in replaced |-> [before |-> file[f], after |-> [file[f] EXCEPT !.own = Payload[t]],
                                      phase |-> "planned"]]
           j == [state |-> "planned", entries |-> es, predecessor |-> active, sources |-> <<>>]
<1>0. TypeOK
  BY DEF AdoptInv
<1>1. replaced \in (SUBSET Files) \ {{}}
  BY TouchesAssumption DEF BeginApply
<1>2. ASSUME NEW f \in replaced
      PROVE  es[f] \in Entry /\ es[f].before.user = es[f].after.user
  <2>1. file[f] \in Document
    BY <1>0, <1>1 DEF TypeOK
  <2>2. Payload[t] \in Value
    BY DEF Value
  <2>3. [file[f] EXCEPT !.own = Payload[t]] \in Document /\ [file[f] EXCEPT !.own = Payload[t]].user = file[f].user
    BY <2>1, <2>2 DEF Document
  <2>4. "planned" \in Phase
    BY DEF Phase
  <2> QED BY <2>1, <2>3, <2>4 DEF Entry
<1> HIDE DEF replaced
<1>3. es \in [replaced -> Entry]
  BY <1>2
<1> HIDE DEF es
<1>4. j \in Journal(replaced)
  <2>1. <<>> \in Seq(Plans) /\ "planned" \in State /\ active \in Tx \cup {None}
    BY <1>0 DEF State, TypeOK
  <2> QED BY <1>3, <2>1 DEF Journal
<1>5. /\ j.predecessor = active /\ j.sources = <<>> /\ j.entries = es /\ DOMAIN es = replaced
  BY <1>3
<1>6. journal' = [journal EXCEPT ![t] = j]
  BY DEF BeginApply, es, replaced
<1> HIDE DEF j
<1>7. IsJournal(j)
  BY <1>1, <1>4 DEF IsJournal
<1>8. t \in Tx /\ t \notin Restores
  BY TxFacts
<1>9. \A n \in 1 .. Len(j.sources) : Exists(j.sources[n])
  BY <1>5
<1>10. ~Exists(t) /\ job = Idle /\ UNCHANGED <<file, guards, active, edits, owed, faults>>
       /\ job' = [pc |-> "point", tx |-> t, at |-> 1]
  BY DEF BeginApply
<1> QED BY <1>2, <1>5, <1>6, <1>7, <1>8, <1>9, <1>10, Begun

LEMMA BeginRestoreKept ==
    ASSUME AdoptInv, NEW r \in Restores, NEW n \in Nat, BeginRestore(r, n),
           UNCHANGED <<edits, owed, faults>>
    PROVE  AdoptInv'
<1> DEFINE S == {t \in Plans : Exists(t)}
           sources == SubSeq(Chain, 1, n)
           owned == UNION {Touched(sources[m]) : m \in 1 .. n}
           es == [f \in owned |-> [before |-> file[f], after |-> Target(f, sources),
                                   phase |-> "planned"]]
           j == [state |-> "restoring", entries |-> es, predecessor |-> active, sources |-> sources]
<1>0. TypeOK /\ LinkInv /\ ChainReadable
  BY DEF AdoptInv, BeginRestore
<1>1. Chain \in Seq(S) /\ n \in DOMAIN Chain
  BY <1>0, ChainTypes DEF BeginRestore
<1> HIDE DEF S
<1>2. /\ sources \in Seq(S) /\ Len(sources) = n /\ n \in 1 .. n /\ n \in Nat
      /\ \A m \in 1 .. n : sources[m] \in S
  BY <1>1
<1> HIDE DEF sources
<1>3. \A t \in S : t \in Plans /\ t \in Tx /\ Exists(t) /\ IsJournal(journal[t])
  BY <1>0, TxFacts DEF S, TypeOK, Exists
<1>4. \A t \in S : Touched(t) \in SUBSET Files /\ Touched(t) # {}
  BY <1>3, JournalFacts DEF Touched
<1>5. owned \in (SUBSET Files) \ {{}}
  <2>1. owned \subseteq Files
    BY <1>2, <1>4
  <2>2. Touched(sources[n]) \subseteq owned /\ Touched(sources[n]) # {}
    BY <1>2, <1>4
  <2> QED BY <2>1, <2>2
<1>6. \A f \in owned : Target(f, sources) # Conflict
  BY DEF BeginRestore, sources
<1>7. journal' = [journal EXCEPT ![r] = j]
  BY DEF BeginRestore, sources
<1>8. ~Exists(r) /\ job = Idle /\ UNCHANGED <<file, guards, active, edits, owed, faults>>
      /\ job' = [pc |-> "point", tx |-> r, at |-> 1]
  BY DEF BeginRestore
<1> HIDE DEF owned
<1>9. ASSUME NEW f \in owned
      PROVE  es[f] \in Entry /\ es[f].before.user = es[f].after.user
  <2>1. file[f] \in Document /\ f \in Files
    BY <1>0, <1>5 DEF TypeOK
  <2>2. Target(f, sources) \in Document /\ Target(f, sources).user = file[f].user
    BY <1>0, <1>2, <1>6, <2>1, TargetTypes DEF S
  <2>3. "planned" \in Phase
    BY DEF Phase
  <2> QED BY <2>1, <2>2, <2>3 DEF Entry
<1>10. es \in [owned -> Entry]
  BY <1>9
<1> HIDE DEF es
<1>11. sources \in Seq(Plans)
  BY <1>2, <1>3
<1>12. j \in Journal(owned)
  <2>1. "restoring" \in State /\ active \in Tx \cup {None}
    BY <1>0 DEF State, TypeOK
  <2> QED BY <1>10, <1>11, <2>1 DEF Journal
<1>13. j.predecessor = active /\ j.sources = sources /\ j.entries = es /\ DOMAIN es = owned
  BY <1>10
<1> HIDE DEF j
<1>14. IsJournal(j)
  BY <1>5, <1>12 DEF IsJournal
<1>15. r \in Tx
  BY TxFacts
<1>16. j.sources # <<>> /\ \A m \in 1 .. Len(j.sources) : Exists(j.sources[m])
  BY <1>2, <1>3, <1>13
<1> QED BY <1>7, <1>8, <1>9, <1>13, <1>14, <1>15, <1>16, Begun

---------------------------------------------------------------------------
(* The user *)

LEMMA UserEditKept ==
    ASSUME AdoptInv, NEW f \in Files, NEW key \in Keys, UserEdit(f, key)
    PROVE  AdoptInv'
<1> DEFINE d == [file[f] EXCEPT ![key] = edits']
           x == [file |-> f, key |-> key, edit |-> edits', quiet |-> job = Idle]
           kept == {e \in owed : ~(e.file = f /\ e.edit = file[f][key])}
<1>0. TypeOK /\ LinkInv /\ JobInv /\ GuardInv /\ EditInv
  BY DEF AdoptInv
<1>1. UNCHANGED <<journal, guards, active, job, faults>> /\ edits' = edits + 1 /\ edits < MaxEdits
  BY DEF UserEdit
<1>2. edits' \in 1 .. MaxEdits /\ edits' \in Value
  <2>1. edits' \in 1 .. MaxEdits
    BY <1>0, <1>1, BoundsAssumption DEF TypeOK
  <2> QED BY <2>1 DEF Value
<1>3. file \in [Files -> Document] /\ file[f] \in Document
  BY <1>0 DEF TypeOK
<1>4. d \in Document /\ d[key] = edits' /\ \A k \in Keys : k # key => d[k] = file[f][k]
  <2>1. CASE key = "own"
    BY <1>2, <1>3, <2>1 DEF Document, Keys
  <2>2. CASE key = "user"
    BY <1>2, <1>3, <2>2 DEF Document, Keys
  <2> QED BY <2>1, <2>2 DEF Keys
<1>5. file' = [file EXCEPT ![f] = d] /\ owed' = kept \cup {x}
  BY DEF UserEdit
<1>6. x \in Edit /\ x.file = f /\ x.key = key /\ x.edit = edits' /\ x.quiet = (job = Idle)
  <2>1. (job = Idle) \in BOOLEAN
    BY Zenon
  <2> QED BY <1>2, <2>1 DEF Edit
<1> HIDE DEF d, x
<1>7. /\ file' \in [Files -> Document] /\ file'[f] = d /\ \A g \in Files : g # f => file'[g] = file[g]
  BY <1>3, <1>4, <1>5
<1>8. owed \subseteq Edit /\ kept \subseteq owed
  BY <1>0 DEF TypeOK
<1>9. TypeOK'
  <2>1. owed' \subseteq Edit
    BY <1>5, <1>6, <1>8
  <2>2. edits' \in 0 .. MaxEdits
    BY <1>2
  <2> QED BY <1>0, <1>1, <1>7, <2>1, <2>2 DEF TypeOK
<1>10. LinkInv'
  BY <1>0, <1>1, LinksKept, KeptSame
<1>11. JobInv' /\ GuardInv'
  BY <1>0, <1>1 DEF JobInv, GuardInv, Unguarded, Prepared, LastGuard, Touched, Exists
<1>12. EditsKept'
  <2> SUFFICES ASSUME NEW e \in owed'
               PROVE  \/ file'[e.file][e.key] = e.edit
                      \/ /\ ~(e.quiet /\ e.key = "user")
                         /\ \E t \in Tx : \E m \in DOMAIN guards[t][e.file] :
                               guards[t][e.file][m].holds[e.key] = e.edit
    BY <1>1 DEF EditsKept
  <2>1. CASE e = x
    BY <1>4, <1>6, <1>7, <2>1
  <2>2. CASE e \in kept /\ file[e.file][e.key] = e.edit
    <3>1. e.file \in Files /\ e.key \in Keys /\ ~(e.file = f /\ e.edit = file[f][key])
      BY <1>8, <2>2 DEF Edit
    <3>2. e.file = f => e.key # key
      BY <2>2, <3>1
    <3> QED BY <1>4, <1>7, <2>2, <3>1, <3>2
  <2>3. CASE e \in kept /\ file[e.file][e.key] # e.edit
    BY <1>0, <2>3 DEF EditInv, EditsKept
  <2> QED BY <1>5, <2>1, <2>2, <2>3
<1>13. EditInv'
  <2>1. job.pc = "exchange" => ~x.quiet
    <3>1. job.pc = "exchange" => job # Idle
      BY DEF Idle
    <3> QED BY <1>6, <3>1, Zenon
  <2>2. LastGuard' = LastGuard
    BY <1>1 DEF LastGuard
  <2>3. \A e \in owed' : e = x \/ e \in owed
    BY <1>5
  <2>4. job.pc = "exchange" => \A e \in owed' :
          e.quiet /\ e.key = "user" /\ e.file = job.at => LastGuard.holds.user = e.edit
    BY <1>0, <2>1, <2>3 DEF EditInv
  <2> QED BY <1>1, <1>12, <2>2, <2>4 DEF EditInv
<1> QED BY <1>9, <1>10, <1>11, <1>13 DEF AdoptInv

LEMMA LateWriteKept ==
    ASSUME AdoptInv, NEW t \in Tx, NEW f \in Files, NEW n \in DOMAIN guards[t][f], LateWrite(t, f, n)
    PROVE  AdoptInv'
<1> DEFINE old == guards[t][f]
           d == [old[n].holds EXCEPT !.user = edits']
           g == [old[n] EXCEPT !.holds = d]
           new == [old EXCEPT ![n] = g]
           x == [file |-> f, key |-> "user", edit |-> edits', quiet |-> FALSE]
           kept == {e \in owed : ~(e.file = f /\ e.edit = old[n].holds.user)}
<1>0. TypeOK /\ LinkInv /\ JobInv /\ GuardInv /\ EditInv
  BY DEF AdoptInv
<1>1. /\ UNCHANGED <<file, journal, active, job, faults>> /\ edits' = edits + 1 /\ edits < MaxEdits
      /\ old[n].swapped
  BY DEF LateWrite
<1>2. edits' \in 1 .. MaxEdits /\ edits' \in Value
  <2>1. edits' \in 1 .. MaxEdits
    BY <1>0, <1>1, BoundsAssumption DEF TypeOK
  <2> QED BY <2>1 DEF Value
<1>3. old \in Seq(Guard) /\ Len(old) <= MaxGuards
  BY <1>0 DEF TypeOK
<1>4. n \in 1 .. Len(old) /\ old[n] \in Guard
  <2> HIDE DEF old
  <2>1. n \in DOMAIN old
    BY DEF old
  <2> QED BY <1>3, <2>1
<1>5. guards' = PutGuards(t, f, new) /\ owed' = kept \cup {x}
  BY DEF LateWrite, PutGuards
<1>6. x \in Edit /\ x.file = f /\ x.key = "user" /\ x.edit = edits' /\ x.quiet = FALSE
  BY <1>2 DEF Edit, Keys
<1> HIDE DEF old, x
<1>7. d \in Document /\ d["user"] = edits' /\ \A k \in Keys : k # "user" => d[k] = old[n].holds[k]
  <2>1. old[n].holds \in Document
    BY <1>4 DEF Guard
  <2> QED BY <1>2, <2>1 DEF Document, Keys
<1> HIDE DEF d
<1>8. g \in Guard /\ g.holds = d /\ g.swapped = old[n].swapped
  BY <1>4, <1>7 DEF Guard
<1> HIDE DEF g
<1>9. /\ new \in Seq(Guard) /\ Len(new) = Len(old) /\ DOMAIN new = DOMAIN old
      /\ DOMAIN old = 1 .. Len(old)
      /\ new[n] = g /\ \A m \in 1 .. Len(old) : m # n => new[m] = old[m]
  BY <1>3, <1>4, <1>8, ExceptFacts
<1> HIDE DEF new
<1>10. /\ guards' \in [Tx -> [Files -> Seq(Guard)]]
       /\ \A u \in Tx, h \in Files : Len(guards'[u][h]) <= MaxGuards
       /\ guards'[t][f] = new
       /\ \A u \in Tx, h \in Files : u # t \/ h # f => guards'[u][h] = guards[u][h]
  BY <1>0, <1>3, <1>5, <1>9, GuardPut
<1>11. \A u \in Tx, h \in Files : /\ DOMAIN guards'[u][h] = DOMAIN guards[u][h]
                                 /\ Len(guards'[u][h]) = Len(guards[u][h])
                                 /\ \A m \in DOMAIN guards[u][h] : u # t \/ h # f \/ m # n
                                        => guards'[u][h][m] = guards[u][h][m]
  BY <1>9, <1>10 DEF old
<1>12. \A u \in Tx, h \in Files : guards[u][h] = <<>> <=> guards'[u][h] = <<>>
  <2>1. \A u \in Tx, h \in Files : guards[u][h] \in Seq(Guard) /\ guards'[u][h] \in Seq(Guard)
    BY <1>0, <1>10 DEF TypeOK
  <2> QED BY <1>11, <2>1
<1>13. owed \subseteq Edit /\ kept \subseteq owed
  BY <1>0 DEF TypeOK
<1>14. TypeOK'
  <2>1. owed' \subseteq Edit
    BY <1>5, <1>6, <1>13
  <2>2. edits' \in 0 .. MaxEdits
    BY <1>2
  <2> QED BY <1>0, <1>1, <1>10, <2>1, <2>2 DEF TypeOK
<1>15. LinkInv'
  BY <1>0, <1>1, LinksKept, KeptSame
<1>16. ASSUME job.pc \in {"publish", "exchange"}
       PROVE  LastGuard' = LastGuard
  <2>1. job.tx \in Tx /\ job.at \in Files /\ Prepared /\ guards[job.tx][job.at] # <<>>
    BY <1>0, <1>16, Running DEF JobInv, VisitPC, PublishPC
  <2>2. guards[job.tx][job.at] \in Seq(Guard)
    BY <1>0, <2>1 DEF TypeOK
  <2>3. Len(guards[job.tx][job.at]) \in DOMAIN guards[job.tx][job.at]
    BY <2>1, <2>2
  <2>4. job.tx # t \/ job.at # f \/ Len(guards[job.tx][job.at]) # n
    BY <1>1, <2>1 DEF Prepared, LastGuard, old
  <2> QED BY <1>1, <1>11, <2>1, <2>3, <2>4 DEF LastGuard
<1>17. JobInv'
  <2>1. job.pc \in PublishPC => job.tx \in Tx /\ job.at \in Files
    BY <1>0, Running DEF JobInv, VisitPC, PublishPC
  <2> QED BY <1>0, <1>1, <1>12, <1>16, <2>1 DEF JobInv, PublishPC, Prepared, Touched
<1>18. GuardInv'
  <2>1. \A h \in Files : Unguarded(h)' => Unguarded(h) /\ job.tx \in Tx
    BY <1>0, <1>1, Running DEF Unguarded, PublishPC
  <2> QED BY <1>0, <1>1, <1>12, <2>1 DEF GuardInv, Exists
<1>19. EditsKept'
  <2> SUFFICES ASSUME NEW e \in owed'
               PROVE  \/ file[e.file][e.key] = e.edit
                      \/ /\ ~(e.quiet /\ e.key = "user")
                         /\ \E u \in Tx : \E m \in DOMAIN guards'[u][e.file] :
                               guards'[u][e.file][m].holds[e.key] = e.edit
    BY <1>1 DEF EditsKept
  <2>1. CASE e = x
    <3>1. n \in DOMAIN guards'[t][e.file] /\ guards'[t][e.file][n].holds[e.key] = e.edit
      BY <1>4, <1>6, <1>7, <1>8, <1>9, <1>10, <2>1
    <3> QED BY <1>6, <2>1, <3>1
  <2>2. CASE e \in kept
    <3>1. e \in owed /\ e.file \in Files /\ e.key \in Keys
          /\ ~(e.file = f /\ e.edit = old[n].holds["user"])
      BY <1>13, <2>2 DEF Edit
    <3>2. CASE file[e.file][e.key] = e.edit
      BY <3>2
    <3>3. CASE file[e.file][e.key] # e.edit
      <4>1. ~(e.quiet /\ e.key = "user")
        BY <1>0, <3>1, <3>3 DEF EditInv, EditsKept
      <4>2. PICK u \in Tx : \E m \in DOMAIN guards[u][e.file] : guards[u][e.file][m].holds[e.key] = e.edit
        BY <1>0, <3>1, <3>3 DEF EditInv, EditsKept
      <4>3. PICK m \in DOMAIN guards[u][e.file] : guards[u][e.file][m].holds[e.key] = e.edit
        BY <4>2
      <4>4. CASE u # t \/ e.file # f \/ m # n
        <5>1. m \in DOMAIN guards'[u][e.file] /\ guards'[u][e.file][m] = guards[u][e.file][m]
          BY <1>11, <3>1, <4>4
        <5> QED BY <4>1, <4>3, <5>1
      <4>5. CASE u = t /\ e.file = f /\ m = n
        <5>1. e.key # "user"
          BY <3>1, <4>3, <4>5 DEF old
        <5>2. guards'[u][e.file][m].holds[e.key] = e.edit
          BY <1>7, <1>8, <1>9, <1>10, <3>1, <4>3, <4>5, <5>1 DEF old
        <5>3. m \in DOMAIN guards'[u][e.file]
          BY <1>11, <3>1
        <5> QED BY <4>1, <5>2, <5>3
      <4> QED BY <4>4, <4>5
    <3> QED BY <3>2, <3>3
  <2> QED BY <1>5, <2>1, <2>2
<1>20. EditInv'
  <2>1. \A e \in owed' : e = x \/ e \in owed
    BY <1>5, <1>13
  <2>2. job.pc = "exchange" => \A e \in owed' :
          e.quiet /\ e.key = "user" /\ e.file = job.at => LastGuard.holds.user = e.edit
    BY <1>0, <1>6, <2>1 DEF EditInv
  <2> QED BY <1>1, <1>16, <1>19, <2>2 DEF EditInv
<1> QED BY <1>14, <1>15, <1>17, <1>18, <1>20 DEF AdoptInv

---------------------------------------------------------------------------
(* Every step *)

LEMMA AdoptStep == AdoptInv /\ [Next]_vars => AdoptInv'
<1> SUFFICES ASSUME AdoptInv, [Next]_vars PROVE AdoptInv'
  OBVIOUS
<1>0. TypeOK /\ LinkInv /\ JobInv /\ GuardInv /\ EditInv
  BY DEF AdoptInv
<1>1. CASE Step
  <2>0. UNCHANGED <<edits, owed, faults>> /\ faults \in 0 .. MaxFaults
    BY <1>0, <1>1 DEF Step, TypeOK
  <2>1. CASE UNCHANGED <<file, guards>>
    <3>0. Calm
      BY <2>0, <2>1 DEF Calm
    <3>1. CASE Point
      BY <3>0, <3>1, PointKept
    <3>2. CASE MarkBackedUp
      BY <3>0, <3>2, BackedUpKept
    <3>3. CASE MarkApplying
      BY <3>0, <3>3, ApplyingKept
    <3>4. CASE Intend
      BY <2>0, <3>4, IntendKept
    <3>5. CASE Validate
      BY <2>0, <3>5, ValidateKept
    <3>6. CASE Exchange
      BY <2>0, <3>6, ExchangeKept
    <3>7. CASE Capture
      BY <3>0, <3>7, CaptureKept
    <3>8. CASE Commit \/ Finish
      BY <3>0, <3>8, FinishKept
    <3>9. CASE Check
      BY <3>0, <3>9, CheckKept
    <3>10. CASE MarkRestoring
      BY <3>0, <3>10, RestoringKept
    <3>11. CASE Revert
      BY <2>0, <3>11, RevertKept
    <3>12. CASE Preflight
      BY <3>0, <3>12, PreflightKept
    <3>13. CASE Forward
      BY <2>0, <3>13, ForwardKept
    <3>14. CASE Settle
      BY <3>0, <3>14, SettleKept
    <3> QED BY <1>1, <3>1, <3>2, <3>3, <3>4, <3>5, <3>6, <3>7, <3>8, <3>9, <3>10, <3>11, <3>12, <3>13,
               <3>14 DEF Step
  <2>2. CASE Intend \/ Revert \/ Forward \/ Exchange
    BY <2>0, <2>2, IntendKept, RevertKept, ForwardKept, ExchangeKept
  <2> QED BY <1>1, <2>1, <2>2 DEF Step, Point, MarkBackedUp, MarkApplying, Validate, Capture, Commit,
             Finish, Check, MarkRestoring, Preflight, Settle
<1>2. CASE Start
  <2>1. UNCHANGED <<edits, owed, faults>>
    BY <1>2 DEF Start
  <2>2. ASSUME NEW t \in Plans, BeginApply(t) PROVE AdoptInv'
    BY <2>1, <2>2, BeginApplyKept
  <2>3. ASSUME NEW r \in Restores, NEW n \in 1 .. Cardinality(Plans), BeginRestore(r, n) PROVE AdoptInv'
    <3>1. n \in Nat
      OBVIOUS
    <3> QED BY <2>1, <2>3, <3>1, BeginRestoreKept
  <2> QED BY <1>2, <2>2, <2>3 DEF Start
<1>3. ASSUME NEW t \in Tx, RecoverCommand(t) PROVE AdoptInv'
  <2>1. Calm
    BY <1>0, <1>3 DEF RecoverCommand, Recover, Calm, TypeOK
  <2> QED BY <1>3, <2>1, RecoverKept DEF RecoverCommand
<1>4. CASE User
  BY <1>4, UserEditKept, LateWriteKept DEF User
<1>5. CASE Crash \/ Fail
  <2>1. Calm /\ active' = active /\ job # Idle
    BY <1>0, <1>5, BoundsAssumption DEF Crash, Fail, Calm, TypeOK
  <2>2. CASE Crash
    BY <1>0, <2>1, <2>2, KeptSame, Leave DEF Crash
  <2>3. CASE Fail
    BY <1>0, <2>1, <2>3, AbandonKept DEF Fail, JobInv
  <2> QED BY <1>5, <2>2, <2>3
<1>6. CASE UNCHANGED vars
  <2>1. TypeOK'
    BY <1>0, <1>6 DEF vars, TypeOK
  <2>2. LinkInv'
    BY <1>0, <1>6, LinksKept, KeptSame DEF vars
  <2>3. JobInv' /\ GuardInv'
    BY <1>0, <1>6 DEF vars, JobInv, GuardInv, Unguarded, Prepared, LastGuard, Touched, Exists
  <2>4. EditInv'
    BY <1>0, <1>6 DEF vars, EditInv, EditsKept, LastGuard
  <2> QED BY <2>1, <2>2, <2>3, <2>4 DEF AdoptInv
<1> QED BY <1>1, <1>2, <1>3, <1>4, <1>5, <1>6 DEF Next

\* The inductive invariant holds of every reachable state.
THEOREM AdoptInvariant == Spec => []AdoptInv
<1> QED BY AdoptInit, AdoptStep, PTL DEF Spec

\* Every state is well typed; in particular a command always has a transaction with a journal, and no
\* journal entry names more guard directories than it may.
THEOREM TypeInvariant == Spec => []TypeOK
<1>1. AdoptInv => TypeOK
  BY DEF AdoptInv
<1> QED BY <1>1, AdoptInvariant, PTL

\* No edit of the user is destroyed, for any number of files, plans, restores, edits and faults and
\* however they interleave; and a quiet edit of the user's own key stays in the file itself.
THEOREM EditsKeptAlways == Spec => []EditsKept
<1>1. AdoptInv => EditsKept
  BY DEF AdoptInv, EditInv
<1> QED BY <1>1, AdoptInvariant, PTL

---------------------------------------------------------------------------
(* The write-ahead rule, and what a restore can read                       *)
(*                                                                         *)
(* From here on the user recovers no transaction but the one that          *)
(* active.json names, the only one that a refused command tells of.        *)

\* A command works on a transaction that is not finished, and active.json names that one or a finished
\* one; no restore is ever installed; whatever was active before a transaction began was finished.
HistoryInv ==
    /\ job.pc # "idle" => ~Finished(job.tx)
    /\ job.pc # "idle" /\ job.tx # active => active = None \/ Finished(active)
    /\ \A t \in Restores : Exists(t) => journal[t].state # "installed"
    /\ \A t \in Tx : Exists(t) /\ journal[t].predecessor # None => Finished(journal[t].predecessor)

\* The journal of t explains each file it touches, as the checks of compensate or of resume want it.
Explained(t) ==
    \A f \in Touched(t) : LET e == journal[t].entries[f] IN
        /\ GuardsVerify(t, f)
        /\ file[f] = e.before \/ (file[f] = e.after /\ (t \in Plans => e.phase # "planned"))

\* The intent of a publication is in the journal before the exchange.
Declared ==
    LET e == journal[job.tx].entries[job.at]
    IN  LastGuard.replacement \in {e.before, e.after} /\ e.phase # "planned"

ExplainInv == edits = 0 =>
    /\ job.pc = "idle" /\ Pending => Explained(active)
    /\ job.pc # "idle" => Explained(job.tx)
    /\ job.pc \in {"publish", "exchange"} => Declared
    /\ job.pc = "exchange" => file[job.at] = LastGuard.expected

JourneyInv == AdoptInv /\ HistoryInv /\ ExplainInv

LEMMA JourneyInit == Init => JourneyInv
<1> SUFFICES ASSUME Init PROVE JourneyInv
  OBVIOUS
<1>1. job.pc = "idle" /\ active = None /\ \A t \in Tx : ~Exists(t)
  BY DEF Init, Idle, Exists
<1>2. HistoryInv /\ ExplainInv
  BY <1>1, TxFacts DEF HistoryInv, ExplainInv, Pending
<1> QED BY <1>2, AdoptInit DEF JourneyInv

\* A journal write that no transaction is finished or unfinished by, but the one of the command.
StatesKept ==
    /\ \A t \in Tx : Exists(t) /\ Finished(t) => journal'[t].state \in {"installed", "restored"}
    /\ \A t \in Restores : Exists(t) => journal'[t].state # "installed"

\* No entry becomes planned again.
PhasesKept ==
    \A t \in Tx : Exists(t) => \A f \in Touched(t) :
        journal[t].entries[f].phase # "planned" => journal'[t].entries[f].phase # "planned"

\* What the command works on next, if it goes on at all.
Onward ==
    /\ active' = active \/ (job'.pc # "idle" /\ active' = job'.tx)
    /\ job'.pc # "idle" =>
          /\ job'.tx \in Tx /\ Exists(job'.tx)
          /\ journal'[job'.tx].state \notin {"installed", "restored"}
          /\ (job.pc # "idle" /\ job'.tx = job.tx) \/ (job.pc = "idle" /\ job'.tx = active)

LEMMA HistoryKept ==
    ASSUME TypeOK, LinkInv, HistoryInv, JournalsKept, StatesKept, Onward
    PROVE  HistoryInv'
<1>1. active # None => active \in Tx /\ Exists(active)
  BY DEF TypeOK, LinkInv
<1>2. \A t \in Tx : Exists(t)' <=> Exists(t)
  BY JournalFacts DEF JournalsKept, Exists
<1>3. \A t \in Tx : Exists(t) => journal'[t].predecessor = journal[t].predecessor
  BY DEF JournalsKept, Exists, SameBody
<1>4. \A t \in Tx : Exists(t) /\ journal[t].predecessor # None
        => journal[t].predecessor \in Tx /\ Exists(journal[t].predecessor)
  BY JournalFacts DEF TypeOK, LinkInv, Exists
<1>5. (job.pc # "idle" => ~Finished(job.tx))'
  BY DEF Onward, Finished
<1>6. (job.pc # "idle" /\ job.tx # active => active = None \/ Finished(active))'
  <2> SUFFICES ASSUME job'.pc # "idle", job'.tx # active', active' # None
               PROVE  journal'[active'].state \in {"installed", "restored"}
    BY DEF Finished
  <2>1. active' = active /\ job.pc # "idle" /\ job.tx # active
    BY DEF Onward
  <2> QED BY <1>1, <2>1 DEF HistoryInv, StatesKept
<1>7. (\A t \in Restores : Exists(t) => journal[t].state # "installed")'
  BY <1>2, TxFacts DEF StatesKept
<1>8. ASSUME NEW t \in Tx, Exists(t)', journal'[t].predecessor # None
      PROVE  journal'[journal'[t].predecessor].state \in {"installed", "restored"}
  <2>1. Exists(t) /\ journal'[t].predecessor = journal[t].predecessor
    BY <1>2, <1>3, <1>8
  <2> QED BY <1>4, <1>8, <2>1 DEF HistoryInv, StatesKept
<1>9. (\A t \in Tx : Exists(t) /\ journal[t].predecessor # None => Finished(journal[t].predecessor))'
  BY <1>8 DEF Finished
<1> QED BY <1>5, <1>6, <1>7, <1>9 DEF HistoryInv

\* What Explained(t) becomes with a step, for the t of before the step.
ExplainedNext(t) ==
    \A f \in DOMAIN journal'[t].entries : LET e == journal'[t].entries[f] IN
        /\ \A n \in DOMAIN guards'[t][f] : LET g == guards'[t][f][n] IN
              g.holds = IF g.swapped THEN g.expected ELSE g.replacement
        /\ file'[f] = e.before \/ (file'[f] = e.after /\ (t \in Plans => e.phase # "planned"))

LEMMA ExplainedKept ==
    ASSUME JournalsKept, PhasesKept, UNCHANGED <<file, guards>>, NEW t \in Tx, Exists(t), Explained(t)
    PROVE  ExplainedNext(t)
<1>1. SameBody(journal[t], journal'[t])
  BY DEF JournalsKept, Exists
<1>2. ASSUME NEW f \in DOMAIN journal[t].entries
      PROVE  /\ \A n \in DOMAIN guards[t][f] : LET g == guards[t][f][n] IN
                   g.holds = IF g.swapped THEN g.expected ELSE g.replacement
             /\ \/ file[f] = journal[t].entries[f].before
                \/ /\ file[f] = journal[t].entries[f].after
                   /\ t \in Plans => journal[t].entries[f].phase # "planned"
  BY DEF Explained, GuardsVerify, Touched
<1>3. \A f \in DOMAIN journal[t].entries :
        journal[t].entries[f].phase # "planned" => journal'[t].entries[f].phase # "planned"
  BY DEF PhasesKept, Touched
<1> QED BY <1>1, <1>2, <1>3 DEF SameBody, ExplainedNext

\* A step that writes at most the journal, and prepares nothing.
LEMMA JourneyCalm ==
    ASSUME JourneyInv, AdoptInv', JournalsKept, StatesKept, PhasesKept, Onward,
           UNCHANGED <<file, guards, edits>>, job'.pc \notin {"publish", "exchange"}
    PROVE  JourneyInv'
<1>1. TypeOK /\ LinkInv /\ HistoryInv /\ ExplainInv
  BY DEF JourneyInv, AdoptInv
<1>2. HistoryInv'
  BY <1>1, HistoryKept
<1>3. active # None => active \in Tx /\ Exists(active)
  BY <1>1 DEF TypeOK, LinkInv
<1>4. ASSUME edits = 0, job'.pc = "idle", Pending' PROVE Explained(active)'
  <2>1. active' = active /\ active # None /\ active \in Tx /\ Exists(active)
    BY <1>3, <1>4 DEF Onward, Pending
  <2>2. ~Finished(active)
    BY <1>4, <2>1 DEF Pending, Finished, StatesKept
  <2>3. job.pc # "idle" => job.tx = active
    BY <1>1, <2>1, <2>2 DEF HistoryInv
  <2>4. Explained(active)
    BY <1>1, <1>4, <2>1, <2>2, <2>3 DEF ExplainInv, Pending
  <2>5. ExplainedNext(active)
    BY <2>1, <2>4, ExplainedKept
  <2> QED BY <2>5, <2>1 DEF ExplainedNext, Explained, Touched, GuardsVerify
<1>5. ASSUME edits = 0, job'.pc # "idle" PROVE Explained(job.tx)'
  <2>1. job'.tx \in Tx /\ Exists(job'.tx)
    BY <1>5 DEF Onward
  <2>2. CASE job.pc # "idle" /\ job'.tx = job.tx
    <3>1. Explained(job.tx)
      BY <1>1, <1>5, <2>2 DEF ExplainInv
    <3>2. ExplainedNext(job.tx)
      BY <2>1, <2>2, <3>1, ExplainedKept
    <3> QED BY <3>2, <2>2 DEF ExplainedNext, Explained, Touched, GuardsVerify
  <2>3. CASE job.pc = "idle" /\ job'.tx = active
    <3>1. ~Finished(active) /\ active # None
      BY <1>5, <2>1, <2>3, TxFacts DEF Onward, Finished, StatesKept
    <3>2. Explained(active)
      BY <1>1, <1>5, <2>3, <3>1 DEF ExplainInv, Pending
    <3>3. ExplainedNext(active)
      BY <2>1, <2>3, <3>2, ExplainedKept
    <3> QED BY <3>3, <2>3 DEF ExplainedNext, Explained, Touched, GuardsVerify
  <2> QED BY <1>5, <2>2, <2>3 DEF Onward
<1>6. ExplainInv'
  BY <1>4, <1>5 DEF ExplainInv
<1> QED BY <1>2, <1>6 DEF JourneyInv

\* A command goes on with its transaction, or returns.
Turn ==
    /\ job.pc # "idle" /\ job'.pc \notin {"publish", "exchange"}
    /\ job'.pc # "idle" => job'.tx = job.tx
    /\ active' = active \/ (job'.pc # "idle" /\ active' = job'.tx)
    /\ UNCHANGED <<file, guards, edits>>

LEMMA JourneySame ==
    ASSUME JourneyInv, AdoptInv', Turn, UNCHANGED journal
    PROVE  JourneyInv'
<1>1. TypeOK /\ HistoryInv /\ AdoptInv
  BY DEF JourneyInv, AdoptInv
<1>2. JournalsKept /\ StatesKept /\ PhasesKept
  BY <1>1, KeptSame DEF HistoryInv, StatesKept, PhasesKept, Finished
<1>3. Onward
  BY <1>1, Running DEF Onward, Turn, HistoryInv, Finished
<1> QED BY <1>2, <1>3, JourneyCalm DEF Turn

LEMMA JourneyPhase ==
    ASSUME JourneyInv, AdoptInv', Turn, job.at \in Touched(job.tx),
           NEW p \in Phase \ {"planned"}, SetPhase(job.tx, job.at, p)
    PROVE  JourneyInv'
<1>1. TypeOK /\ HistoryInv /\ AdoptInv /\ job.tx \in Tx /\ Exists(job.tx)
  BY Running DEF JourneyInv, AdoptInv, Turn
<1>2. /\ JournalsKept /\ journal'[job.tx].state = journal[job.tx].state
      /\ \A g \in Touched(job.tx) : journal'[job.tx].entries[g].phase
                                      = IF g = job.at THEN p ELSE journal[job.tx].entries[g].phase
      /\ \A u \in Tx : u # job.tx => journal'[u] = journal[u]
  BY <1>1, KeptPhase
<1>3. \A u \in Tx : journal'[u].state = journal[u].state
  BY <1>2
<1>4. StatesKept
  BY <1>1, <1>3, TxFacts DEF HistoryInv, StatesKept, Finished
<1>5. PhasesKept
  BY <1>2 DEF PhasesKept
<1>6. Onward
  BY <1>1, <1>3 DEF Onward, Turn, HistoryInv, Finished
<1> QED BY <1>2, <1>4, <1>5, <1>6, JourneyCalm DEF Turn

LEMMA JourneyState ==
    ASSUME JourneyInv, AdoptInv', Turn, NEW s \in State, SetState(job.tx, s),
           s = "installed" => job.tx \in Plans,
           s \in {"installed", "restored"} => job'.pc = "idle"
    PROVE  JourneyInv'
<1>1. TypeOK /\ HistoryInv /\ AdoptInv /\ job.tx \in Tx /\ Exists(job.tx)
  BY Running DEF JourneyInv, AdoptInv, Turn
<1>2. /\ JournalsKept /\ journal'[job.tx].state = s /\ journal'[job.tx].entries = journal[job.tx].entries
      /\ \A u \in Tx : u # job.tx => journal'[u] = journal[u]
  BY <1>1, KeptState
<1>3. StatesKept
  <2>1. ASSUME NEW t \in Tx, Exists(t), Finished(t) PROVE journal'[t].state \in {"installed", "restored"}
    <3>1. t # job.tx
      BY <1>1, <2>1 DEF HistoryInv, Turn
    <3> QED BY <1>2, <2>1, <3>1 DEF Finished
  <2>2. ASSUME NEW t \in Restores, Exists(t) PROVE journal'[t].state # "installed"
    BY <1>1, <1>2, <2>2, TxFacts DEF HistoryInv
  <2> QED BY <2>1, <2>2 DEF StatesKept
<1>4. PhasesKept
  <2>1. \A t \in Tx : journal'[t].entries = journal[t].entries
    BY <1>2
  <2> QED BY <2>1 DEF PhasesKept
<1>5. Onward
  BY <1>1, <1>2 DEF Onward, Turn
<1> QED BY <1>2, <1>3, <1>4, <1>5, JourneyCalm DEF Turn

LEMMA JourneyAbandon ==
    ASSUME JourneyInv, AdoptInv', job.pc # "idle", Abandon, UNCHANGED <<file, guards, active, edits>>
    PROVE  JourneyInv'
<1>0. job \in Job
  BY Running DEF JourneyInv
<1>1. CASE Goto("check", First(job.tx)) /\ UNCHANGED journal
  <2>1. Turn
    BY <1>0, <1>1, GotoFacts DEF Turn
  <2> QED BY <1>1, <2>1, JourneySame
<1>2. CASE Return /\ UNCHANGED journal
  <2>1. Turn
    BY <1>2 DEF Turn, Return, Idle
  <2> QED BY <1>2, <2>1, JourneySame
<1>3. CASE SetState(job.tx, "recoveryRequired") /\ Return
  <2>1. Turn
    BY <1>3 DEF Turn, Return, Idle
  <2> QED BY <1>3, <2>1, JourneyState DEF State
<1> QED BY <1>1, <1>2, <1>3 DEF Abandon

LEMMA Turned ==
    ASSUME job \in Job, NEW pc, NEW next, Ascend(pc, next) \/ Descend(pc, next)
    PROVE  job'.pc \in {pc, next} /\ job'.tx = job.tx
BY DEF Ascend, Descend, Goto, Job

LEMMA JourneyTurns ==
    ASSUME JourneyInv, AdoptInv',
           Point \/ MarkBackedUp \/ MarkApplying \/ Commit \/ MarkRestoring \/ Finish \/ Check \/ Preflight,
           UNCHANGED <<edits, owed, faults>>
    PROVE  JourneyInv'
<1>0. /\ job.pc # "idle" /\ job \in Job /\ job.tx \in Tx /\ JobInv /\ AdoptInv
      /\ UNCHANGED <<file, guards, edits>>
  BY Running DEF JourneyInv, AdoptInv, Point, MarkBackedUp, MarkApplying, Commit, MarkRestoring, Finish,
                 Check, Preflight
<1>1. CASE Point
  <2>1. UNCHANGED journal /\ job'.pc \in {"preflight", "backup"} /\ job'.tx = job.tx /\ active' = job.tx
    BY <1>0, <1>1 DEF Point, Goto, Job
  <2> QED BY <1>0, <2>1, JourneySame DEF Turn
<1>2. CASE MarkBackedUp
  <2>1. SetState(job.tx, "backedUp") /\ job'.pc = "begin" /\ job'.tx = job.tx /\ active' = active
    BY <1>0, <1>2 DEF MarkBackedUp, Goto, Job
  <2> QED BY <1>0, <2>1, JourneyState DEF Turn, State
<1>3. CASE MarkApplying
  <2>1. SetState(job.tx, "applying") /\ job'.pc = "intend" /\ job'.tx = job.tx /\ active' = active
    BY <1>0, <1>3 DEF MarkApplying, Goto, Job
  <2> QED BY <1>0, <2>1, JourneyState DEF Turn, State
<1>4. CASE Commit
  <2>1. SetState(job.tx, "installed") /\ job'.pc = "idle" /\ active' = active /\ job.tx \in Plans
    BY <1>0, <1>4 DEF Commit, Return, Idle, JobInv, PlanPC
  <2> QED BY <1>0, <2>1, JourneyState DEF Turn, State
<1>5. CASE MarkRestoring
  <2>1. SetState(job.tx, "restoring") /\ job'.pc = "revert" /\ job'.tx = job.tx /\ active' = active
    BY <1>0, <1>5 DEF MarkRestoring, Goto, Job
  <2> QED BY <1>0, <2>1, JourneyState DEF Turn, State
<1>6. CASE Finish
  <2>1. SetState(job.tx, "restored") /\ job'.pc = "idle" /\ active' = active
    BY <1>0, <1>6 DEF Finish, Return, Idle
  <2> QED BY <1>0, <2>1, JourneyState DEF Turn, State
<1>7. CASE Check
  <2>0. active' = active
    BY <1>7 DEF Check
  <2>1. CASE Abandon
    BY <1>0, <2>0, <2>1, JourneyAbandon
  <2>2. CASE SetState(job.tx, "recoveryRequired") /\ Return
    <3>1. Turn
      BY <1>0, <2>0, <2>2 DEF Turn, Return, Idle
    <3> QED BY <2>2, <3>1, JourneyState DEF State
  <2>3. CASE Ascend("check", "restoring") /\ UNCHANGED journal
    <3>1. Turn
      BY <1>0, <2>0, <2>3, Turned DEF Turn
    <3> QED BY <2>3, <3>1, JourneySame
  <2> QED BY <1>7, <2>1, <2>2, <2>3 DEF Check
<1>8. CASE Preflight
  <2>0. active' = active
    BY <1>8 DEF Preflight
  <2>1. CASE Abandon
    BY <1>0, <2>0, <2>1, JourneyAbandon
  <2>2. CASE Ascend("preflight", "forward") /\ UNCHANGED journal
    <3>1. Turn
      BY <1>0, <2>0, <2>2, Turned DEF Turn
    <3> QED BY <2>2, <3>1, JourneySame
  <2> QED BY <1>8, <2>1, <2>2 DEF Preflight
<1> QED BY <1>1, <1>2, <1>3, <1>4, <1>5, <1>6, <1>7, <1>8

LEMMA JourneyCapture ==
    ASSUME JourneyInv, AdoptInv', Capture, UNCHANGED <<edits, owed, faults>>
    PROVE  JourneyInv'
<1>0. /\ job.pc = "capture" /\ job \in Job /\ job.at \in Touched(job.tx)
      /\ UNCHANGED <<file, guards, active, edits>>
  BY Running DEF JourneyInv, AdoptInv, Capture, JobInv, VisitPC
<1>1. CASE Abandon
  BY <1>0, <1>1, JourneyAbandon
<1>2. CASE SetPhase(job.tx, job.at, "published") /\ Ascend("intend", "commit")
  <2>1. Turn
    BY <1>0, <1>2, Turned DEF Turn
  <2> QED BY <1>0, <1>2, <2>1, JourneyPhase DEF Phase
<1>3. CASE /\ SetPhase(job.tx, job.at, "reverted")
           /\ Descend("revert", "finish") \/ Ascend("forward", "settle")
  <2>1. Turn
    BY <1>0, <1>3, Turned DEF Turn
  <2> QED BY <1>0, <1>3, <2>1, JourneyPhase DEF Phase
<1> QED BY <1>1, <1>2, <1>3 DEF Capture

\* The sources of a restore become restored, not the restore itself.
LEMMA JourneySettle ==
    ASSUME JourneyInv, AdoptInv', Settle, UNCHANGED <<edits, owed, faults>>
    PROVE  JourneyInv'
<1> DEFINE s == journal[job.tx].sources[job.at]
<1>0. /\ job.pc = "settle" /\ job \in Job /\ job.tx \in Tx /\ Exists(job.tx) /\ AdoptInv
      /\ job.tx \in Restores /\ job.at \in 1 .. Len(journal[job.tx].sources)
      /\ TypeOK /\ LinkInv /\ HistoryInv /\ IsJournal(journal[job.tx])
      /\ UNCHANGED <<file, guards, active, edits>>
  BY Running DEF JourneyInv, AdoptInv, Settle, JobInv, RestorePC
<1>1. s \in Plans /\ Exists(s) /\ s \in Tx /\ s # job.tx /\ s \notin Restores
  <2>1. journal[job.tx].sources \in Seq(Plans)
    BY <1>0, JournalFacts
  <2>2. s \in Plans /\ Exists(s)
    BY <1>0, <2>1 DEF LinkInv
  <2> QED BY <1>0, <2>2, TxFacts
<1>2. SetState(s, "restored") /\ job'.pc \in {"finish", "settle"} /\ job'.tx = job.tx
  BY <1>0 DEF Settle, Goto, Job
<1> HIDE DEF s
<1>3. /\ JournalsKept /\ journal'[s].state = "restored" /\ journal'[s].entries = journal[s].entries
      /\ \A u \in Tx : u # s => journal'[u] = journal[u]
  BY <1>0, <1>1, <1>2, KeptState DEF State
<1>4. StatesKept
  BY <1>0, <1>1, <1>3, TxFacts DEF HistoryInv, StatesKept, Finished
<1>5. PhasesKept
  <2>1. \A t \in Tx : journal'[t].entries = journal[t].entries
    BY <1>3
  <2> QED BY <2>1 DEF PhasesKept
<1>6. Onward
  BY <1>0, <1>1, <1>2, <1>3 DEF Onward, HistoryInv, Finished
<1> QED BY <1>0, <1>2, <1>3, <1>4, <1>5, <1>6, JourneyCalm

LEMMA JourneyRecover ==
    ASSUME AnyRecover = FALSE, JourneyInv, AdoptInv', NEW t \in Tx, Recover(t),
           UNCHANGED <<edits, owed, faults>>
    PROVE  JourneyInv'
<1>0. /\ job.pc = "idle" /\ job'.pc \in {"preflight", "check"} /\ job'.tx = t /\ Exists(t)
      /\ UNCHANGED <<file, journal, guards, active, edits>> /\ t = active /\ ~Finished(t)
  BY DEF Recover, Idle
<1>1. TypeOK /\ HistoryInv
  BY DEF JourneyInv, AdoptInv
<1>2. JournalsKept /\ StatesKept /\ PhasesKept
  BY <1>0, <1>1, KeptSame DEF HistoryInv, StatesKept, PhasesKept, Finished
<1>3. Onward
  BY <1>0 DEF Onward, Finished
<1> QED BY <1>0, <1>2, <1>3, JourneyCalm

\* The candidate verifies, and the journal declares it.
LEMMA JourneyPrepare ==
    ASSUME JourneyInv, AdoptInv', job.pc # "idle", job.at \in Touched(job.tx),
           NEW expected \in Document, NEW replacement \in Document, NEW phase \in Phase \ {"planned"},
           replacement \in {journal[job.tx].entries[job.at].before, journal[job.tx].entries[job.at].after},
           Prepare(job.tx, job.at, expected, replacement, phase),
           Len(guards[job.tx][job.at]) < MaxGuards,
           UNCHANGED <<file, active, edits>>
    PROVE  JourneyInv'
<1> DEFINE g == [expected |-> expected, replacement |-> replacement, swapped |-> FALSE,
                 holds |-> replacement]
           t == job.tx
           at == job.at
           old == guards[t][at]
           new == Append(old, g)
<1>0. /\ job \in Job /\ t \in Tx /\ Exists(t) /\ at \in Files /\ Touched(t) \in SUBSET Files
      /\ TypeOK /\ LinkInv /\ HistoryInv /\ ExplainInv
  BY Running DEF JourneyInv, AdoptInv
<1>1. g \in Guard /\ old \in Seq(Guard) /\ Len(old) \in Nat /\ Len(old) < MaxGuards /\ MaxGuards \in Nat
  <2>1. g \in Guard
    BY DEF Guard
  <2>2. old \in Seq(Guard)
    BY <1>0 DEF TypeOK
  <2> HIDE DEF g, old
  <2> QED BY <2>1, <2>2, BoundsAssumption DEF old
<1>2. guards' = PutGuards(t, at, new)
  BY DEF Prepare, PutGuards
<1>3. g.swapped = FALSE /\ g.holds = g.replacement /\ g.replacement = replacement
  OBVIOUS
<1> HIDE DEF g, old
<1>4. /\ new \in Seq(Guard) /\ Len(new) = Len(old) + 1 /\ Len(new) <= MaxGuards
      /\ new[Len(new)] = g /\ \A n \in 1 .. Len(old) : new[n] = old[n]
      /\ DOMAIN old = 1 .. Len(old) /\ DOMAIN new = 1 .. Len(old) + 1
  BY <1>1, AppendFacts
<1>5. \A n \in DOMAIN new : n = Len(new) \/ (n \in DOMAIN old /\ new[n] = old[n])
  BY <1>1, <1>4
<1> HIDE DEF new
<1>6. /\ guards'[t][at] = new
      /\ \A f \in Files : f # at => guards'[t][f] = guards[t][f]
  BY <1>0, <1>2, <1>4, GuardPut
<1>7. /\ JournalsKept /\ journal'[t].state = journal[t].state
      /\ \A f \in Touched(t) : journal'[t].entries[f].phase
                                 = IF f = at THEN phase ELSE journal[t].entries[f].phase
      /\ \A u \in Tx : u # t => journal'[u] = journal[u]
  BY <1>0, KeptPhase DEF Prepare
<1>8. job' = [pc |-> "publish", tx |-> t, at |-> at]
  BY <1>0, GotoFacts DEF Prepare
<1>9. job'.pc = "publish" /\ job'.tx = t /\ job'.at = at
  BY <1>8
<1>10. HistoryInv'
  <2>1. \A u \in Tx : journal'[u].state = journal[u].state
    BY <1>7
  <2>2. StatesKept
    BY <1>0, <2>1, TxFacts DEF HistoryInv, StatesKept, Finished
  <2>3. Onward
    BY <1>0, <1>9, <2>1 DEF Onward, HistoryInv, Finished
  <2> QED BY <1>0, <1>7, <2>2, <2>3, HistoryKept
<1>11. SameBody(journal[t], journal'[t])
  BY <1>0, <1>7 DEF JournalsKept, Exists
<1>12. ASSUME edits = 0 PROVE Explained(job.tx)'
  <2>1. Explained(t)
    BY <1>0, <1>12 DEF ExplainInv
  <2> SUFFICES ASSUME NEW f \in Touched(t)
               PROVE  LET e == journal'[t].entries[f] IN
                         /\ \A n \in DOMAIN guards'[t][f] : LET h == guards'[t][f][n] IN
                               h.holds = IF h.swapped THEN h.expected ELSE h.replacement
                         /\ file'[f] = e.before \/ (file'[f] = e.after /\ (t \in Plans => e.phase # "planned"))
    BY <1>9, <1>11 DEF Explained, Touched, GuardsVerify, SameBody
  <2>2. /\ \A n \in DOMAIN guards[t][f] : LET h == guards[t][f][n] IN
                h.holds = IF h.swapped THEN h.expected ELSE h.replacement
        /\ \/ file[f] = journal[t].entries[f].before
           \/ /\ file[f] = journal[t].entries[f].after
              /\ t \in Plans => journal[t].entries[f].phase # "planned"
    BY <2>1 DEF Explained, GuardsVerify
  <2>3. \A n \in DOMAIN guards'[t][f] : LET h == guards'[t][f][n] IN
            h.holds = IF h.swapped THEN h.expected ELSE h.replacement
    <3>1. CASE f = at
      BY <1>3, <1>4, <1>5, <1>6, <2>2, <3>1 DEF old
    <3>2. CASE f # at
      BY <1>0, <1>6, <2>2, <3>2
    <3> QED BY <3>1, <3>2
  <2>4. /\ journal'[t].entries[f].before = journal[t].entries[f].before
        /\ journal'[t].entries[f].after = journal[t].entries[f].after
        /\ journal[t].entries[f].phase # "planned" => journal'[t].entries[f].phase # "planned"
    BY <1>7, <1>11 DEF SameBody, Touched
  <2> QED BY <2>2, <2>3, <2>4
<1>13. Declared'
  <2>1. LastGuard' = g
    BY <1>4, <1>6, <1>9 DEF LastGuard
  <2>2. /\ journal'[t].entries[at].before = journal[t].entries[at].before
        /\ journal'[t].entries[at].after = journal[t].entries[at].after
        /\ journal'[t].entries[at].phase = phase
    BY <1>7, <1>11 DEF SameBody, Touched
  <2> QED BY <1>3, <1>9, <2>1, <2>2 DEF Declared
<1>14. ExplainInv'
  BY <1>9, <1>12, <1>13 DEF ExplainInv
<1> QED BY <1>10, <1>14 DEF JourneyInv

LEMMA JourneyVisits ==
    ASSUME JourneyInv, AdoptInv', Intend \/ Revert \/ Forward, UNCHANGED <<edits, owed, faults>>
    PROVE  JourneyInv'
<1> DEFINE e == journal[job.tx].entries[job.at]
<1>0. /\ job.pc \in {"intend", "revert", "forward"} /\ job.pc # "idle" /\ job \in Job
      /\ job.at \in Touched(job.tx) /\ AdoptInv /\ UNCHANGED <<file, active, edits>>
  BY Running DEF JourneyInv, AdoptInv, Intend, Revert, Forward, JobInv, VisitPC
<1>1. e.before \in Document /\ e.after \in Document
  BY <1>0, EntryFacts
<1>2. CASE Abandon /\ UNCHANGED guards
  BY <1>0, <1>2, JourneyAbandon
<1>3. CASE SetState(job.tx, "recoveryRequired") /\ Return /\ UNCHANGED guards
  <2>1. Turn
    BY <1>0, <1>3 DEF Turn, Return, Idle
  <2> QED BY <1>3, <2>1, JourneyState DEF State
<1>4. CASE /\ SetPhase(job.tx, job.at, "reverted")
           /\ Descend("revert", "finish") \/ Ascend("forward", "settle")
           /\ UNCHANGED guards
  <2>1. Turn
    BY <1>0, <1>4, Turned DEF Turn
  <2> QED BY <1>0, <1>4, <2>1, JourneyPhase DEF Phase
<1>5. CASE job.pc = "intend" /\ Prepare(job.tx, job.at, e.before, e.after, "intent")
  <2>1. Len(guards[job.tx][job.at]) < MaxGuards
    <3>1. Unguarded(job.at) /\ job.at \in Files
      BY <1>0, <1>5, Running, FilesFacts DEF Unguarded
    <3>2. guards[job.tx][job.at] = <<>>
      BY <1>0, <3>1 DEF AdoptInv, GuardInv
    <3> QED BY <3>2, BoundsAssumption
  <2> HIDE DEF e
  <2>2. "intent" \in Phase \ {"planned"}
    BY DEF Phase
  <2> QED BY <1>0, <1>1, <1>5, <2>1, <2>2, JourneyPrepare DEF e
<1>6. CASE /\ Len(guards[job.tx][job.at]) < MaxGuards
           /\ Prepare(job.tx, job.at, e.after, e.before, "restoreIntent")
  <2> HIDE DEF e
  <2>2. "restoreIntent" \in Phase \ {"planned"}
    BY DEF Phase
  <2> QED BY <1>0, <1>1, <1>6, <2>2, JourneyPrepare DEF e
<1>7. CASE /\ Len(guards[job.tx][job.at]) < MaxGuards
           /\ Prepare(job.tx, job.at, e.before, e.after, "restoreIntent")
  <2> HIDE DEF e
  <2>2. "restoreIntent" \in Phase \ {"planned"}
    BY DEF Phase
  <2> QED BY <1>0, <1>1, <1>7, <2>2, JourneyPrepare DEF e
<1>8. CASE Intend
  BY <1>2, <1>5, <1>8 DEF Intend
<1>9. CASE Revert
  BY <1>2, <1>3, <1>4, <1>6, <1>9 DEF Revert
<1>10. CASE Forward
  BY <1>2, <1>4, <1>7, <1>10 DEF Forward
<1> QED BY <1>8, <1>9, <1>10

LEMMA JourneyValidate ==
    ASSUME JourneyInv, AdoptInv', Validate, UNCHANGED <<edits, owed, faults>>
    PROVE  JourneyInv'
<1>0. /\ job.pc = "publish" /\ UNCHANGED <<file, guards, active, edits>>
      /\ TypeOK /\ LinkInv /\ HistoryInv /\ ExplainInv /\ job \in Job /\ job.tx \in Tx /\ Exists(job.tx)
  BY Running DEF JourneyInv, AdoptInv, Validate
<1>1. CASE Abandon
  BY <1>0, <1>1, JourneyAbandon
<1>2. CASE file[job.at] = LastGuard.expected /\ Goto("exchange", job.at) /\ UNCHANGED journal
  <2>1. job' = [pc |-> "exchange", tx |-> job.tx, at |-> job.at]
    BY <1>0, <1>2, GotoFacts
  <2>2. job'.pc = "exchange" /\ job'.tx = job.tx /\ job'.at = job.at
    BY <2>1
  <2>3. HistoryInv'
    BY <1>0, <1>2, <2>2 DEF HistoryInv, Finished, Exists
  <2>4. LastGuard' = LastGuard
    BY <1>0, <2>2 DEF LastGuard
  <2>5. edits = 0 => Explained(job.tx)'
    BY <1>0, <1>2, <2>2 DEF ExplainInv, Explained, GuardsVerify, Touched
  <2>6. edits = 0 => Declared'
    BY <1>0, <1>2, <2>2, <2>4 DEF ExplainInv, Declared
  <2>7. ExplainInv'
    BY <1>0, <1>2, <2>2, <2>4, <2>5, <2>6 DEF ExplainInv
  <2> QED BY <2>3, <2>7 DEF JourneyInv
<1> QED BY <1>1, <1>2 DEF Validate

\* Both sides of the exchange are what the journal says.
LEMMA JourneyExchange ==
    ASSUME JourneyInv, AdoptInv', Exchange, UNCHANGED <<edits, owed, faults>>
    PROVE  JourneyInv'
<1> DEFINE t == job.tx
           at == job.at
           old == guards[t][at]
           n == Len(old)
           g == [old[n] EXCEPT !.swapped = TRUE, !.holds = file[at]]
           new == [old EXCEPT ![n] = g]
<1>0. /\ job.pc = "exchange" /\ UNCHANGED <<journal, active, edits>>
      /\ job \in Job /\ t \in Tx /\ Exists(t) /\ at \in Touched(t) /\ at \in Files
      /\ Touched(t) \in SUBSET Files /\ old # <<>> /\ Prepared
      /\ TypeOK /\ LinkInv /\ HistoryInv /\ ExplainInv
  BY Running DEF JourneyInv, AdoptInv, Exchange, JobInv, VisitPC, PublishPC
<1>1. old \in Seq(Guard) /\ Len(old) <= MaxGuards /\ file \in [Files -> Document]
  BY <1>0 DEF TypeOK
<1>2. n \in 1 .. Len(old) /\ LastGuard = old[n] /\ old[n] \in Guard
  <2>1. LastGuard = old[n]
    BY DEF LastGuard
  <2> HIDE DEF old
  <2> QED BY <1>0, <1>1, <2>1
<1>3. /\ g \in Guard /\ g.holds = file[at] /\ g.expected = old[n].expected /\ g.swapped = TRUE
  BY <1>0, <1>1, <1>2 DEF Guard
<1>4. guards' = PutGuards(t, at, new) /\ file' = [file EXCEPT ![at] = old[n].holds]
  BY DEF Exchange, PutGuards, LastGuard
<1>5. job' = [pc |-> "capture", tx |-> t, at |-> at]
  BY <1>0, GotoFacts DEF Exchange
<1>6. job'.pc = "capture" /\ job'.tx = t
  BY <1>5
<1> HIDE DEF g, old
<1>7. /\ new \in Seq(Guard) /\ Len(new) = n /\ DOMAIN new = DOMAIN old /\ DOMAIN old = 1 .. n
      /\ new[n] = g /\ \A m \in 1 .. n : m # n => new[m] = old[m]
  BY <1>1, <1>2, <1>3, ExceptFacts
<1>8. n <= MaxGuards
  BY <1>1
<1> HIDE DEF n, new
<1>9. /\ guards'[t][at] = new
      /\ \A f \in Files : f # at => guards'[t][f] = guards[t][f]
  <2>1. Len(new) <= MaxGuards /\ new \in Seq(Guard)
    BY <1>7, <1>8
  <2> QED BY <1>0, <1>4, <2>1, GuardPut
<1>10. file'[at] = old[n].holds /\ \A f \in Files : f # at => file'[f] = file[f]
  BY <1>0, <1>1, <1>4
<1>11. HistoryInv'
  BY <1>0, <1>6 DEF HistoryInv, Finished, Exists
<1>12. ASSUME edits = 0 PROVE Explained(job.tx)'
  <2>1. Explained(t) /\ Declared /\ file[at] = LastGuard.expected
    BY <1>0, <1>12 DEF ExplainInv
  <2> SUFFICES ASSUME NEW f \in Touched(t)
               PROVE  LET e == journal[t].entries[f] IN
                         /\ \A m \in DOMAIN guards'[t][f] : LET h == guards'[t][f][m] IN
                               h.holds = IF h.swapped THEN h.expected ELSE h.replacement
                         /\ file'[f] = e.before \/ (file'[f] = e.after /\ (t \in Plans => e.phase # "planned"))
    BY <1>0, <1>6 DEF Explained, Touched, GuardsVerify
  <2>2. /\ \A m \in DOMAIN guards[t][f] : LET h == guards[t][f][m] IN
                h.holds = IF h.swapped THEN h.expected ELSE h.replacement
        /\ \/ file[f] = journal[t].entries[f].before
           \/ /\ file[f] = journal[t].entries[f].after
              /\ t \in Plans => journal[t].entries[f].phase # "planned"
    BY <2>1 DEF Explained, GuardsVerify
  <2>3. CASE f = at
    <3>1. \A m \in DOMAIN new : m = n \/ (m \in DOMAIN old /\ new[m] = old[m])
      BY <1>7
    <3>2. g.holds = g.expected
      BY <1>2, <1>3, <2>1
    <3>3. \A m \in DOMAIN new : LET h == new[m] IN
              h.holds = IF h.swapped THEN h.expected ELSE h.replacement
      <4> TAKE m \in DOMAIN new
      <4>1. CASE m = n
        <5>1. new[m].swapped /\ new[m].holds = new[m].expected
          BY <1>3, <1>7, <3>2, <4>1
        <5> QED BY <5>1
      <4>2. CASE m # n
        <5>1. m \in DOMAIN guards[t][f] /\ new[m] = guards[t][f][m]
          BY <1>7, <2>3, <3>1, <4>2 DEF old
        <5> QED BY <2>2, <5>1
      <4> QED BY <4>1, <4>2
    <3>4. /\ file'[at] \in {journal[t].entries[at].before, journal[t].entries[at].after}
          /\ journal[t].entries[at].phase # "planned"
      BY <1>0, <1>2, <1>10, <2>1 DEF Declared, Prepared
    <3> QED BY <1>9, <2>3, <3>3, <3>4
  <2>4. CASE f # at
    BY <1>0, <1>9, <1>10, <2>2, <2>4
  <2> QED BY <2>3, <2>4
<1>13. ExplainInv'
  BY <1>0, <1>6, <1>12 DEF ExplainInv
<1> QED BY <1>11, <1>13 DEF JourneyInv

LEMMA JourneyBegun ==
    ASSUME JourneyInv, AdoptInv', NEW t \in Tx, ~Exists(t), job = Idle, EnsureIdle(t),
           NEW j, IsJournal(j), journal' = [journal EXCEPT ![t] = j], j.predecessor = active,
           j.state \notin {"installed", "restored"},
           \A f \in DOMAIN j.entries : j.entries[f].before = file[f],
           job' = [pc |-> "point", tx |-> t, at |-> 1],
           UNCHANGED <<file, guards, active, edits>>
    PROVE  JourneyInv'
<1>0. TypeOK /\ LinkInv /\ GuardInv /\ HistoryInv
  BY DEF JourneyInv, AdoptInv
<1>1. /\ DOMAIN journal' = Tx /\ journal'[t] = j /\ \A u \in Tx : u # t => journal'[u] = journal[u]
      /\ job'.pc = "point" /\ job'.tx = t
  BY <1>0 DEF TypeOK
<1>2. \A u \in Tx : Exists(u) => u # t /\ journal'[u] = journal[u]
  BY <1>1 DEF Exists
<1>3. active # None => active \in Tx /\ Exists(active) /\ Finished(active)
  BY <1>0 DEF TypeOK, LinkInv, EnsureIdle
<1>4. active' = None \/ journal'[active'].state \in {"installed", "restored"}
  BY <1>2, <1>3 DEF Finished
<1>5. ASSUME NEW u \in Tx, journal'[u] # None
      PROVE  /\ u \in Restores => journal'[u].state # "installed"
             /\ journal'[u].predecessor # None
                  => journal'[journal'[u].predecessor].state \in {"installed", "restored"}
  <2>1. CASE u = t
    BY <1>1, <1>4, <2>1
  <2>2. CASE u # t
    <3>1. Exists(u) /\ journal'[u] = journal[u]
      BY <1>1, <1>5, <2>2 DEF Exists
    <3>2. journal[u].predecessor # None
            => journal[u].predecessor \in Tx /\ Exists(journal[u].predecessor)
      BY <1>0, <3>1, JournalFacts DEF TypeOK, LinkInv, Exists
    <3> QED BY <1>0, <1>2, <3>1, <3>2 DEF HistoryInv, Finished
  <2> QED BY <2>1, <2>2
<1>6. HistoryInv'
  <2>1. (\A u \in Restores : Exists(u) => journal[u].state # "installed")'
    BY <1>5, TxFacts DEF Exists
  <2>2. (\A u \in Tx : Exists(u) /\ journal[u].predecessor # None => Finished(journal[u].predecessor))'
    BY <1>5 DEF Exists, Finished
  <2> QED BY <1>1, <1>4, <2>1, <2>2 DEF HistoryInv, Finished
<1>7. Explained(job.tx)'
  <2>1. \A f \in Files : guards[t][f] = <<>>
    BY <1>0 DEF GuardInv
  <2>2. DOMAIN j.entries \subseteq Files
    BY JournalFacts
  <2> QED BY <1>1, <2>1, <2>2 DEF Explained, Touched, GuardsVerify
<1>8. ExplainInv'
  BY <1>1, <1>7 DEF ExplainInv
<1> QED BY <1>6, <1>8 DEF JourneyInv

LEMMA JourneyBegins ==
    ASSUME JourneyInv, AdoptInv', Start
    PROVE  JourneyInv'
<1>1. ASSUME NEW t \in Plans, BeginApply(t) PROVE JourneyInv'
  <2> DEFINE replaced == {f \in Touches[t] : file[f].own # Payload[t]}
             es == [f \in replaced |-> [before |-> file[f], after |-> [file[f] EXCEPT !.own = Payload[t]],
                                        phase |-> "planned"]]
             j == [state |-> "planned", entries |-> es, predecessor |-> active, sources |-> <<>>]
  <2>1. journal' = [journal EXCEPT ![t] = j] /\ t \in Tx
    BY <1>1, TxFacts DEF BeginApply
  <2>2. journal'[t] = j
    BY <2>1 DEF JourneyInv, AdoptInv, TypeOK
  <2>3. /\ j.predecessor = active /\ j.state = "planned"
        /\ \A f \in DOMAIN j.entries : j.entries[f].before = file[f]
    OBVIOUS
  <2>4. job' = [pc |-> "point", tx |-> t, at |-> 1]
    BY <1>1 DEF BeginApply
  <2> HIDE DEF j
  <2>5. IsJournal(j)
    BY <2>1, <2>2, <2>4 DEF AdoptInv, TypeOK
  <2> QED BY <1>1, <2>1, <2>3, <2>4, <2>5, JourneyBegun DEF BeginApply, Start
<1>2. ASSUME NEW r \in Restores, NEW n \in 1 .. Cardinality(Plans), BeginRestore(r, n) PROVE JourneyInv'
  <2> DEFINE sources == SubSeq(Chain, 1, n)
             owned == UNION {Touched(sources[m]) : m \in 1 .. n}
             es == [f \in owned |-> [before |-> file[f], after |-> Target(f, sources),
                                     phase |-> "planned"]]
             j == [state |-> "restoring", entries |-> es, predecessor |-> active, sources |-> sources]
  <2>1. journal' = [journal EXCEPT ![r] = j] /\ r \in Tx
    BY <1>2, TxFacts DEF BeginRestore
  <2>2. journal'[r] = j
    BY <2>1 DEF JourneyInv, AdoptInv, TypeOK
  <2>3. /\ j.predecessor = active /\ j.state = "restoring"
        /\ \A f \in DOMAIN j.entries : j.entries[f].before = file[f]
    OBVIOUS
  <2>4. job' = [pc |-> "point", tx |-> r, at |-> 1]
    BY <1>2 DEF BeginRestore
  <2> HIDE DEF j
  <2>5. IsJournal(j)
    BY <2>1, <2>2, <2>4 DEF AdoptInv, TypeOK
  <2> QED BY <1>2, <2>1, <2>3, <2>4, <2>5, JourneyBegun DEF BeginRestore, Start
<1> QED BY <1>1, <1>2 DEF Start

LEMMA JourneyUser ==
    ASSUME JourneyInv, AdoptInv', User
    PROVE  JourneyInv'
<1>1. UNCHANGED <<journal, active, job>> /\ edits' = edits + 1 /\ TypeOK
  BY DEF User, UserEdit, LateWrite, JourneyInv, AdoptInv
<1>2. edits' # 0
  BY <1>1, BoundsAssumption DEF TypeOK
<1>3. HistoryInv'
  BY <1>1 DEF JourneyInv, HistoryInv, Finished, Exists
<1> QED BY <1>2, <1>3 DEF JourneyInv, ExplainInv

LEMMA JourneyStep ==
    ASSUME AnyRecover = FALSE
    PROVE  JourneyInv /\ [Next]_vars => JourneyInv'
<1> SUFFICES ASSUME JourneyInv, [Next]_vars PROVE JourneyInv'
  OBVIOUS
<1>0. AdoptInv'
  BY AdoptStep DEF JourneyInv
<1>1. CASE Step
  BY <1>0, <1>1, JourneyTurns, JourneyCapture, JourneySettle, JourneyVisits, JourneyValidate,
     JourneyExchange DEF Step
<1>2. CASE Start
  BY <1>0, <1>2, JourneyBegins
<1>3. ASSUME NEW t \in Tx, RecoverCommand(t) PROVE JourneyInv'
  BY <1>0, <1>3, JourneyRecover DEF RecoverCommand
<1>4. CASE User
  BY <1>0, <1>4, JourneyUser
<1>5. CASE Crash
  <2>1. Turn /\ UNCHANGED journal
    BY <1>5 DEF Crash, Turn, Return, Idle, JourneyInv, AdoptInv, JobInv
  <2> QED BY <1>0, <2>1, JourneySame
<1>6. CASE Fail
  <2>1. job.pc # "idle" /\ Abandon /\ UNCHANGED <<file, guards, active, edits>>
    BY <1>6 DEF Fail, JourneyInv, AdoptInv, JobInv
  <2> QED BY <1>0, <2>1, JourneyAbandon
<1>7. CASE UNCHANGED vars
  <2>1. HistoryInv'
    BY <1>7 DEF vars, JourneyInv, HistoryInv, Finished, Exists
  <2>2. ExplainInv'
    BY <1>7 DEF vars, JourneyInv, ExplainInv, Explained, Declared, GuardsVerify, Touched, LastGuard,
                Pending, Finished
  <2> QED BY <1>0, <2>1, <2>2 DEF JourneyInv
<1> QED BY <1>1, <1>2, <1>3, <1>4, <1>5, <1>6, <1>7 DEF Next

THEOREM JourneyInvariant ==
    ASSUME AnyRecover = FALSE
    PROVE  Spec => []JourneyInv
<1> QED BY JourneyInit, JourneyStep, PTL DEF Spec

\* The write-ahead rule for every number of files, transactions and faults: without edits of the user,
\* and while the user recovers only what active.json names, whatever a crash or an error cut off, the
\* checks of compensate or of resume accept the files.
THEOREM RecoverableAlways ==
    ASSUME AnyRecover = FALSE
    PROVE  Spec => []Recoverable
<1>1. JourneyInv => Recoverable
  BY DEF JourneyInv, ExplainInv, Explained, Recoverable, Idle
<1> QED BY <1>1, JourneyInvariant, PTL

\* While no transaction is pending, the chain of transactions is readable.
LEMMA ReadableWhenSettled == JourneyInv /\ ~Pending => ChainReadable
<1> SUFFICES ASSUME JourneyInv, ~Pending PROVE ChainReadable
  OBVIOUS
<1>0. TypeOK /\ LinkInv /\ HistoryInv /\ Depth \in Nat
  BY DepthNat DEF JourneyInv, AdoptInv
<1> DEFINE T == {n \in Nat : Walk[n] # None => Finished(Walk[n])}
<1>1. 0 \in T
  <2>1. Walk[0] = active
    BY <1>0, WalkFunction DEF Older
  <2> QED BY <2>1 DEF Pending
<1>2. ASSUME NEW i \in 0 .. Depth, i \in T, i < Depth PROVE i + 1 \in T
  <2>1. i + 1 \in 0 .. Depth /\ i + 1 # 0 /\ (i + 1) - 1 = i /\ i + 1 \in Nat
    BY <1>0, <1>2
  <2>2. Walk[i + 1] = IF Walk[i] = None THEN None ELSE journal[Walk[i]].predecessor
    BY <2>1, WalkFunction DEF Older
  <2>3. Walk[i] # None => Walk[i] \in Tx /\ Exists(Walk[i])
    BY <1>0, WalkTypes
  <2> QED BY <1>0, <2>1, <2>2, <2>3 DEF HistoryInv
<1>3. \A n \in 0 .. Depth : n \in T
  <2> HIDE DEF T
  <2> QED BY <1>0, <1>1, <1>2, CountUp
<1>4. ASSUME NEW n \in 0 .. Depth, Walk[n] # None
      PROVE  \/ journal[Walk[n]].state = "restored"
             \/ Walk[n] \in Plans /\ journal[Walk[n]].state = "installed"
  <2>1. Walk[n] \in Tx /\ Exists(Walk[n]) /\ Finished(Walk[n])
    BY <1>0, <1>3, <1>4, WalkTypes
  <2>2. Walk[n] \in Restores => journal[Walk[n]].state # "installed"
    BY <1>0, <2>1 DEF HistoryInv
  <2> QED BY <2>1, <2>2 DEF Finished, Tx
<1> QED BY <1>4 DEF ChainReadable, Depth

\* "graphhelm restore previews a reversible return", for every number of transactions: while none is
\* pending and the user recovers only what active.json names, restore can read the whole chain.
THEOREM RestorePossibleAlways ==
    ASSUME AnyRecover = FALSE
    PROVE  Spec => []RestorePossible
<1>1. JourneyInv => RestorePossible
  BY ReadableWhenSettled DEF RestorePossible
<1> QED BY <1>1, JourneyInvariant, PTL

---------------------------------------------------------------------------
(* How far a command has come: what it has visited holds what it wants     *)

Entryof(f) == journal[job.tx].entries[f]

\* A plan's transaction on its way back, seen from a publication; otherwise the after-states are wanted.
Backing == job.tx \in Plans /\ journal[job.tx].state = "restoring"
Forwards == job.pc \in {"intend", "forward"} \/ (job.pc \in PublishPC /\ ~Backing)
Backwards == job.pc = "revert" \/ (job.pc \in PublishPC /\ Backing)
AllAfter == job.pc \in {"commit", "settle"} \/ (job.pc = "finish" /\ job.tx \in Restores)
AllBefore == job.pc = "finish" /\ job.tx \in Plans

ProgressInv == edits = 0 =>
    /\ Forwards => \A g \in Touched(job.tx) : g < job.at => file[g] = Entryof(g).after
    /\ Backwards => \A g \in Touched(job.tx) : g > job.at => file[g] = Entryof(g).before
    /\ AllAfter => \A g \in Touched(job.tx) : file[g] = Entryof(g).after
    /\ AllBefore => \A g \in Touched(job.tx) : file[g] = Entryof(g).before
    /\ job.pc \in PublishPC =>
          LastGuard.replacement = IF Backing THEN Entryof(job.at).before ELSE Entryof(job.at).after
    /\ job.pc = "intend" => ~Backing

WayInv == JourneyInv /\ ProgressInv

LEMMA WayInit == Init => WayInv
<1> SUFFICES ASSUME Init PROVE WayInv
  OBVIOUS
<1>1. job.pc = "idle"
  BY DEF Init, Idle
<1>2. ProgressInv
  BY <1>1 DEF ProgressInv, Forwards, Backwards, AllAfter, AllBefore, PublishPC
<1> QED BY <1>2, JourneyInit DEF WayInv

\* Where nothing has been visited yet.
RestPC == {"idle", "point", "backup", "begin", "check", "restoring", "preflight"}

LEMMA WayRests ==
    ASSUME JourneyInv', job'.pc \in RestPC
    PROVE  WayInv'
BY DEF WayInv, ProgressInv, Forwards, Backwards, AllAfter, AllBefore, PublishPC, RestPC

LEMMA WayAbandon ==
    ASSUME JourneyInv, JourneyInv', Abandon
    PROVE  WayInv'
<1>1. job \in Job
  BY DEF JourneyInv, AdoptInv, TypeOK, Job
<1>2. job'.pc \in {"idle", "check"}
  <2>1. CASE Goto("check", First(job.tx))
    BY <1>1, <2>1, GotoFacts
  <2>2. CASE Return
    BY <2>2 DEF Return, Idle
  <2> QED BY <2>1, <2>2 DEF Abandon
<1> QED BY <1>2, WayRests DEF RestPC

\* The entries of a command's transaction, before and after a step.
LEMMA EntriesKept ==
    ASSUME AdoptInv, job.pc # "idle", JournalsKept, job'.tx = job.tx
    PROVE  /\ Touched(job.tx)' = Touched(job.tx)
           /\ \A g \in Touched(job.tx) :
                 Entryof(g)'.before = Entryof(g).before /\ Entryof(g)'.after = Entryof(g).after
BY Running DEF JournalsKept, SameBody, Touched, Entryof, Exists

LEMMA WayTurns ==
    ASSUME WayInv, JourneyInv',
           Point \/ MarkBackedUp \/ MarkApplying \/ Commit \/ MarkRestoring \/ Finish \/ Check \/ Preflight,
           UNCHANGED <<edits, owed, faults>>
    PROVE  WayInv'
<1>0. /\ job.pc # "idle" /\ job \in Job /\ job.tx \in Tx /\ Exists(job.tx) /\ AdoptInv /\ TypeOK /\ JobInv
      /\ First(job.tx) \in Touched(job.tx) /\ Touched(job.tx) # {} /\ Touched(job.tx) \in SUBSET Files
      /\ \A g \in Touched(job.tx) : First(job.tx) <= g
      /\ Touched(job.tx) \subseteq Nat
  BY Running DEF WayInv, JourneyInv, AdoptInv, Point, MarkBackedUp, MarkApplying, Commit, MarkRestoring,
                 Finish, Check, Preflight
<1>1. CASE Point \/ MarkBackedUp \/ Commit \/ Finish
  <2>1. job'.pc \in {"preflight", "backup", "begin", "idle"}
    <3>1. CASE Point
      BY <1>0, <3>1, GotoFacts DEF Point
    <3>2. CASE MarkBackedUp
      BY <1>0, <3>2, GotoFacts DEF MarkBackedUp
    <3>3. CASE Commit \/ Finish
      BY <3>3 DEF Commit, Finish, Return, Idle
    <3> QED BY <1>1, <3>1, <3>2, <3>3
  <2> QED BY <2>1, WayRests DEF RestPC
<1>2. CASE MarkApplying
  <2>1. job' = [pc |-> "intend", tx |-> job.tx, at |-> First(job.tx)] /\ SetState(job.tx, "applying")
    BY <1>0, <1>2, GotoFacts DEF MarkApplying
  <2>2. job'.pc = "intend" /\ job'.tx = job.tx /\ job'.at = First(job.tx)
    BY <2>1
  <2>3. JournalsKept /\ journal'[job.tx].state = "applying"
    BY <1>0, <2>1, KeptState DEF State
  <2>4. Touched(job.tx)' = Touched(job.tx)
    BY <1>0, <2>2, <2>3, EntriesKept
  <2>5. \A g \in Touched(job.tx) : ~(g < First(job.tx))
    BY <1>0
  <2>6. ~Backing'
    BY <2>2, <2>3 DEF Backing
  <2> QED BY <2>2, <2>4, <2>5, <2>6 DEF WayInv, ProgressInv, Forwards, Backwards, AllAfter, AllBefore, PublishPC
<1>3. CASE MarkRestoring
  <2> DEFINE last == Preceding(Touched(job.tx), PastEnd)
  <2>1. job' = [pc |-> "revert", tx |-> job.tx, at |-> last] /\ SetState(job.tx, "restoring")
    BY <1>0, <1>3, GotoFacts DEF MarkRestoring
  <2>2. job'.pc = "revert" /\ job'.tx = job.tx /\ job'.at = last
    BY <2>1
  <2>3. JournalsKept
    BY <1>0, <2>1, KeptState DEF State
  <2>4. Touched(job.tx)' = Touched(job.tx)
    BY <1>0, <2>2, <2>3, EntriesKept
  <2>5. \A g \in Touched(job.tx) : ~(g > last)
    <3>1. last \in Touched(job.tx) /\ \A g \in Touched(job.tx) : last >= g
      BY <1>0, EndsFacts
    <3> HIDE DEF last
    <3> QED BY <1>0, <3>1
  <2> HIDE DEF last
  <2> QED BY <2>2, <2>4, <2>5 DEF WayInv, ProgressInv, Forwards, Backwards, AllAfter, AllBefore, PublishPC
<1>4. CASE Check
  <2>1. CASE Abandon
    BY <2>1, WayAbandon DEF WayInv
  <2>2. CASE Return
    BY <2>2, WayRests DEF Return, Idle, RestPC
  <2>3. CASE Ascend("check", "restoring")
    <3>1. job'.pc \in RestPC
      BY <1>0, <2>3, Turned DEF RestPC
    <3> QED BY <3>1, WayRests
  <2> QED BY <1>4, <2>1, <2>2, <2>3 DEF Check
<1>5. CASE Preflight
  <2>1. CASE Abandon
    BY <2>1, WayAbandon DEF WayInv
  <2>2. CASE Ascend("preflight", "forward") /\ UNCHANGED journal
    <3>0. job.at \in Touched(job.tx)
      BY <1>0, <1>5 DEF Preflight, JobInv, VisitPC
    <3>1. CASE job'.pc \in RestPC
      BY <3>1, WayRests
    <3>2. CASE job'.pc \notin RestPC
      <4>1. job' = [pc |-> "forward", tx |-> job.tx, at |-> First(job.tx)]
        BY <1>0, <2>2, <3>0, <3>2, AscendFacts DEF RestPC
      <4>2. job'.pc = "forward" /\ job'.tx = job.tx /\ job'.at = First(job.tx)
        BY <4>1
      <4>3. Touched(job.tx)' = Touched(job.tx)
        BY <2>2, <4>2 DEF Touched
      <4>4. \A g \in Touched(job.tx) : ~(g < First(job.tx))
        BY <1>0
      <4> QED BY <4>2, <4>3, <4>4 DEF WayInv, ProgressInv, Forwards, Backwards, AllAfter, AllBefore, PublishPC
    <3> QED BY <3>1, <3>2
  <2> QED BY <1>5, <2>1, <2>2 DEF Preflight
<1> QED BY <1>1, <1>2, <1>3, <1>4, <1>5

\* An entry that holds what is wanted of it is left behind.
LEMMA WayAscends ==
    ASSUME WayInv, JourneyInv', job.pc # "idle", job.at \in Touched(job.tx), Forwards,
           JournalsKept, journal'[job.tx].state = journal[job.tx].state,
           UNCHANGED <<file, edits>>, file[job.at] = Entryof(job.at).after,
           \/ Ascend("intend", "commit") /\ ~Backing
           \/ Ascend("forward", "settle")
    PROVE  WayInv'
<1> DEFINE t == job.tx
           at == job.at
<1>0. t \in Tx /\ AdoptInv /\ Touched(t) \subseteq Nat
  BY Running DEF WayInv, JourneyInv
<1>1. PICK pc \in {"intend", "forward", "commit", "settle"}, n \in Nat :
        /\ job' = [pc |-> pc, tx |-> t, at |-> n]
        /\ pc \in {"intend", "forward"} => \A h \in Touched(t) : h > at => n <= h
        /\ pc \in {"commit", "settle"} => \A h \in Touched(t) : h <= at
        /\ pc = "intend" => ~Backing
  <2>1. ASSUME NEW pc \in {"intend", "forward"}, NEW next \in {"commit", "settle"}, Ascend(pc, next)
        PROVE  \/ \E g \in Touched(t) : /\ job' = [pc |-> pc, tx |-> t, at |-> g]
                                        /\ \A h \in Touched(t) : h > at => g <= h
               \/ job' = [pc |-> next, tx |-> t, at |-> 1] /\ \A h \in Touched(t) : h <= at
    BY <1>0, <2>1, AscendFacts
  <2> QED BY <1>0, <2>1
<1>2. job'.pc = pc /\ job'.tx = t /\ job'.at = n
  BY <1>1
<1>3. /\ Touched(job.tx)' = Touched(t)
      /\ \A g \in Touched(t) :
            Entryof(g)'.before = Entryof(g).before /\ Entryof(g)'.after = Entryof(g).after
  BY <1>0, <1>2, EntriesKept
<1>4. ASSUME edits = 0, NEW g \in Touched(t), g <= at PROVE file[g] = Entryof(g).after
  <2>1. g = at \/ g < at
    BY <1>0, <1>4
  <2> QED BY <1>4, <2>1 DEF WayInv, ProgressInv
<1>5. edits = 0 /\ pc \in {"intend", "forward"}
        => \A g \in Touched(t) : g < n => file[g] = Entryof(g).after
  <2> SUFFICES ASSUME edits = 0, pc \in {"intend", "forward"}, NEW g \in Touched(t), g < n
               PROVE  file[g] = Entryof(g).after
    OBVIOUS
  <2>1. g <= at
    BY <1>0, <1>1
  <2> QED BY <1>4, <2>1
<1>6. edits = 0 /\ pc \in {"commit", "settle"} => \A g \in Touched(t) : file[g] = Entryof(g).after
  BY <1>1, <1>4
<1>7. pc = "intend" => ~Backing'
  BY <1>1, <1>2 DEF Backing
<1> HIDE DEF t, at
<1>8. ProgressInv'
  BY <1>2, <1>3, <1>5, <1>6, <1>7 DEF ProgressInv, Forwards, Backwards, AllAfter, AllBefore, PublishPC
<1> QED BY <1>8 DEF WayInv

LEMMA WayDescends ==
    ASSUME WayInv, JourneyInv', job.pc # "idle", job.at \in Touched(job.tx), Backwards, job.tx \in Plans,
           JournalsKept, UNCHANGED <<file, edits>>, file[job.at] = Entryof(job.at).before,
           Descend("revert", "finish")
    PROVE  WayInv'
<1> DEFINE t == job.tx
           at == job.at
<1>0. t \in Tx /\ AdoptInv /\ Touched(t) \subseteq Nat /\ t \notin Restores
  BY Running, TxFacts DEF WayInv, JourneyInv
<1>1. PICK pc \in {"revert", "finish"}, n \in Nat :
        /\ job' = [pc |-> pc, tx |-> t, at |-> n]
        /\ pc = "revert" => \A h \in Touched(t) : h < at => n >= h
        /\ pc = "finish" => \A h \in Touched(t) : h >= at
  <2>1. \/ \E g \in Touched(t) : /\ job' = [pc |-> "revert", tx |-> t, at |-> g]
                                 /\ \A h \in Touched(t) : h < at => g >= h
        \/ job' = [pc |-> "finish", tx |-> t, at |-> 1] /\ \A h \in Touched(t) : h >= at
    BY <1>0, DescendFacts
  <2> QED BY <1>0, <2>1
<1>2. job'.pc = pc /\ job'.tx = t /\ job'.at = n
  BY <1>1
<1>3. /\ Touched(job.tx)' = Touched(t)
      /\ \A g \in Touched(t) :
            Entryof(g)'.before = Entryof(g).before /\ Entryof(g)'.after = Entryof(g).after
  BY <1>0, <1>2, EntriesKept
<1>4. ASSUME edits = 0, NEW g \in Touched(t), g >= at PROVE file[g] = Entryof(g).before
  <2>1. g = at \/ g > at
    BY <1>0, <1>4
  <2> QED BY <1>4, <2>1 DEF WayInv, ProgressInv
<1>5. edits = 0 /\ pc = "revert" => \A g \in Touched(t) : g > n => file[g] = Entryof(g).before
  <2> SUFFICES ASSUME edits = 0, pc = "revert", NEW g \in Touched(t), g > n
               PROVE  file[g] = Entryof(g).before
    OBVIOUS
  <2>1. g >= at
    BY <1>0, <1>1
  <2> QED BY <1>4, <2>1
<1>6. edits = 0 /\ pc = "finish" => \A g \in Touched(t) : file[g] = Entryof(g).before
  BY <1>1, <1>4
<1> HIDE DEF t, at
<1>8. ProgressInv'
  BY <1>0, <1>2, <1>3, <1>5, <1>6 DEF ProgressInv, Forwards, Backwards, AllAfter, AllBefore, PublishPC
<1> QED BY <1>8 DEF WayInv

\* The guard directory that a preparation appends.
LEMMA PreparedGuard ==
    ASSUME TypeOK, job.tx \in Tx, job.at \in Files, NEW expected \in Document, NEW replacement \in Document,
           NEW phase, Prepare(job.tx, job.at, expected, replacement, phase)
    PROVE  /\ job' = [pc |-> "publish", tx |-> job.tx, at |-> job.at]
           /\ LastGuard'.replacement = replacement
<1> DEFINE g == [expected |-> expected, replacement |-> replacement, swapped |-> FALSE,
                 holds |-> replacement]
           old == guards[job.tx][job.at]
           new == Append(old, g)
<1>1. job \in Job /\ old \in Seq(Guard) /\ g \in Guard /\ g.replacement = replacement
  BY DEF TypeOK, Job, Guard
<1>2. guards' = [guards EXCEPT ![job.tx][job.at] = new]
  BY DEF Prepare
<1>3. job' = [pc |-> "publish", tx |-> job.tx, at |-> job.at]
  BY <1>1, GotoFacts DEF Prepare
<1> HIDE DEF g, old
<1>4. new[Len(new)] = g
  BY <1>1, AppendFacts
<1> HIDE DEF new
<1>5. guards'[job.tx][job.at] = new
  BY <1>2 DEF TypeOK
<1>6. LastGuard' = g
  BY <1>3, <1>4, <1>5 DEF LastGuard
<1> QED BY <1>1, <1>3, <1>6

LEMMA WayPrepare ==
    ASSUME WayInv, JourneyInv', job.pc \in {"intend", "revert", "forward"}, job.at \in Touched(job.tx),
           NEW expected \in Document, NEW replacement \in Document, NEW phase \in Phase,
           replacement = IF Backing THEN Entryof(job.at).before ELSE Entryof(job.at).after,
           Prepare(job.tx, job.at, expected, replacement, phase), UNCHANGED <<file, edits>>
    PROVE  WayInv'
<1>0. /\ job.tx \in Tx /\ Exists(job.tx) /\ AdoptInv /\ TypeOK /\ job.at \in Files /\ JobInv
  BY Running DEF WayInv, JourneyInv, AdoptInv
<1>1. job' = [pc |-> "publish", tx |-> job.tx, at |-> job.at] /\ LastGuard'.replacement = replacement
  BY <1>0, PreparedGuard
<1>2. job'.pc = "publish" /\ job'.tx = job.tx /\ job'.at = job.at
  BY <1>1
<1>3. JournalsKept /\ journal'[job.tx].state = journal[job.tx].state
  BY <1>0, KeptPhase DEF Prepare
<1>4. /\ Touched(job.tx)' = Touched(job.tx)
      /\ \A g \in Touched(job.tx) :
            Entryof(g)'.before = Entryof(g).before /\ Entryof(g)'.after = Entryof(g).after
  BY <1>0, <1>2, <1>3, EntriesKept
<1>5. Backing' <=> Backing
  BY <1>2, <1>3 DEF Backing
<1>6. job.pc = "revert" => Backing
  BY <1>0 DEF Backing, JobInv, PlanPC
<1>7. job.pc = "forward" => ~Backing
  BY <1>0, TxFacts DEF Backing, JobInv, RestorePC
<1>8. edits = 0 /\ job.pc = "intend" => ~Backing
  BY DEF WayInv, ProgressInv
<1>9. /\ edits = 0 /\ ~Backing => \A g \in Touched(job.tx) : g < job.at => file[g] = Entryof(g).after
      /\ edits = 0 /\ Backing => \A g \in Touched(job.tx) : g > job.at => file[g] = Entryof(g).before
  BY <1>6, <1>7, <1>8 DEF WayInv, ProgressInv, Forwards, Backwards
<1>10. Entryof(job.at)'.before = Entryof(job.at).before /\ Entryof(job.at)'.after = Entryof(job.at).after
  BY <1>2, <1>4 DEF Entryof
<1>11. ASSUME edits = 0
       PROVE  LastGuard'.replacement = IF Backing' THEN Entryof(job.at)'.before ELSE Entryof(job.at)'.after
  <2>1. CASE Backing
    BY <1>1, <1>5, <1>10, <2>1
  <2>2. CASE ~Backing
    BY <1>1, <1>5, <1>10, <2>2
  <2> QED BY <2>1, <2>2
<1>12. ProgressInv'
  BY <1>2, <1>4, <1>5, <1>9, <1>11 DEF ProgressInv, Forwards, Backwards, AllAfter, AllBefore, PublishPC
<1> QED BY <1>12 DEF WayInv

LEMMA WayVisits ==
    ASSUME WayInv, JourneyInv', Intend \/ Revert \/ Forward, UNCHANGED <<edits, owed, faults>>
    PROVE  WayInv'
<1> DEFINE e == Entryof(job.at)
<1>0. /\ job.pc \in {"intend", "revert", "forward"} /\ job.pc # "idle" /\ job \in Job
      /\ job.at \in Touched(job.tx) /\ AdoptInv /\ UNCHANGED <<file, edits>> /\ JobInv /\ TypeOK
      /\ job.tx \in Tx /\ Exists(job.tx)
  BY Running DEF WayInv, JourneyInv, AdoptInv, Intend, Revert, Forward, JobInv, VisitPC
<1>1. e.before \in Document /\ e.after \in Document
  BY <1>0, EntryFacts DEF Entryof
<1>2. CASE Abandon
  BY <1>2, WayAbandon DEF WayInv
<1>3. CASE Return
  BY <1>3, WayRests DEF Return, Idle, RestPC
<1>4. ASSUME SetPhase(job.tx, job.at, "reverted")
      PROVE  JournalsKept /\ journal'[job.tx].state = journal[job.tx].state
  BY <1>0, <1>4, KeptPhase DEF Phase
<1>5. CASE Intend
  <2> DEFINE p == Prepare(job.tx, job.at, e.before, e.after, "intent")
  <2>1. p \/ Abandon
    BY <1>5 DEF Intend, Entryof
  <2>2. CASE p /\ edits = 0
    <3>1. ~Backing /\ "intent" \in Phase
      BY <1>5, <2>2 DEF WayInv, ProgressInv, Intend, Phase
    <3> HIDE DEF e
    <3> QED BY <1>0, <1>1, <2>2, <3>1, WayPrepare DEF e
  <2>3. CASE edits # 0
    BY <1>0, <2>3 DEF WayInv, ProgressInv
  <2> QED BY <1>2, <2>1, <2>2, <2>3
<1>6. CASE Revert
  <2>0. Backing /\ Backwards /\ job.tx \in Plans
    BY <1>0, <1>6 DEF Revert, JobInv, PlanPC, Backing, Backwards
  <2>1. CASE Prepare(job.tx, job.at, e.after, e.before, "restoreIntent")
    <3>1. "restoreIntent" \in Phase
      BY DEF Phase
    <3> HIDE DEF e
    <3> QED BY <1>0, <1>1, <2>0, <2>1, <3>1, WayPrepare DEF e
  <2>2. CASE file[job.at] = e.before /\ SetPhase(job.tx, job.at, "reverted") /\ Descend("revert", "finish")
    BY <1>0, <1>4, <2>0, <2>2, WayDescends
  <2> QED BY <1>2, <1>3, <1>6, <2>1, <2>2 DEF Revert, Entryof
<1>7. CASE Forward
  <2>0. ~Backing /\ Forwards
    BY <1>0, <1>7, TxFacts DEF Forward, JobInv, RestorePC, Backing, Forwards
  <2>1. CASE Prepare(job.tx, job.at, e.before, e.after, "restoreIntent")
    <3>1. "restoreIntent" \in Phase
      BY DEF Phase
    <3> HIDE DEF e
    <3> QED BY <1>0, <1>1, <2>0, <2>1, <3>1, WayPrepare DEF e
  <2>2. CASE file[job.at] = e.after /\ SetPhase(job.tx, job.at, "reverted") /\ Ascend("forward", "settle")
    BY <1>0, <1>4, <2>0, <2>2, WayAscends
  <2> QED BY <1>2, <1>7, <2>1, <2>2 DEF Forward, Entryof
<1> QED BY <1>5, <1>6, <1>7

LEMMA WayValidate ==
    ASSUME WayInv, JourneyInv', Validate, UNCHANGED <<edits, owed, faults>>
    PROVE  WayInv'
<1>0. job.pc = "publish" /\ UNCHANGED <<file, guards, edits>> /\ job \in Job
  BY Running DEF WayInv, JourneyInv, Validate
<1>1. CASE Abandon
  BY <1>1, WayAbandon DEF WayInv
<1>2. CASE Goto("exchange", job.at) /\ UNCHANGED journal
  <2>1. job' = [pc |-> "exchange", tx |-> job.tx, at |-> job.at]
    BY <1>0, <1>2, GotoFacts
  <2>2. job'.pc = "exchange" /\ job'.tx = job.tx /\ job'.at = job.at
    BY <2>1
  <2>3. ProgressInv'
    BY <1>0, <1>2, <2>2 DEF WayInv, ProgressInv, Forwards, Backwards, AllAfter, AllBefore, PublishPC, Backing,
                            Entryof, Touched, LastGuard
  <2> QED BY <2>3 DEF WayInv
<1> QED BY <1>1, <1>2 DEF Validate

LEMMA ExchangeFacts ==
    ASSUME AdoptInv, Exchange
    PROVE  /\ job.pc = "exchange" /\ job' = [pc |-> "capture", tx |-> job.tx, at |-> job.at]
           /\ UNCHANGED <<journal, active>> /\ LastGuard'.replacement = LastGuard.replacement
           /\ file'[job.at] = LastGuard.holds /\ \A f \in Files : f # job.at => file'[f] = file[f]
<1> DEFINE old == guards[job.tx][job.at]
           n == Len(old)
           g == [old[n] EXCEPT !.swapped = TRUE, !.holds = file[job.at]]
           new == [old EXCEPT ![n] = g]
<1>0. /\ job.pc = "exchange" /\ UNCHANGED <<journal, active>> /\ TypeOK /\ job \in Job /\ job.tx \in Tx
      /\ job.at \in Files /\ old # <<>>
  BY Running DEF Exchange, AdoptInv, JobInv, VisitPC, PublishPC
<1>1. job' = [pc |-> "capture", tx |-> job.tx, at |-> job.at]
  BY <1>0, GotoFacts DEF Exchange
<1>2. old \in Seq(Guard) /\ file \in [Files -> Document]
  BY <1>0 DEF TypeOK
<1>3. n \in 1 .. Len(old) /\ LastGuard = old[n] /\ old[n] \in Guard
  <2>1. LastGuard = old[n]
    BY DEF LastGuard
  <2> HIDE DEF old
  <2> QED BY <1>0, <1>2, <2>1
<1>4. g \in Guard /\ g.replacement = old[n].replacement
  BY <1>0, <1>2, <1>3 DEF Guard
<1>5. guards' = [guards EXCEPT ![job.tx][job.at] = new] /\ file' = [file EXCEPT ![job.at] = old[n].holds]
  BY DEF Exchange, LastGuard
<1> HIDE DEF g, old
<1>6. Len(new) = n /\ new[n] = g
  BY <1>2, <1>3, <1>4, ExceptFacts
<1> HIDE DEF n, new
<1>7. guards'[job.tx][job.at] = new
  BY <1>0, <1>5 DEF TypeOK
<1>8. LastGuard' = g
  BY <1>1, <1>6, <1>7 DEF LastGuard
<1>9. file'[job.at] = old[n].holds /\ \A f \in Files : f # job.at => file'[f] = file[f]
  BY <1>0, <1>2, <1>5
<1> QED BY <1>0, <1>1, <1>3, <1>4, <1>8, <1>9

LEMMA WayExchange ==
    ASSUME WayInv, JourneyInv', Exchange, UNCHANGED <<edits, owed, faults>>
    PROVE  WayInv'
<1>0. /\ job.pc = "exchange" /\ job'.pc = "capture" /\ job'.tx = job.tx /\ job'.at = job.at
      /\ UNCHANGED <<journal, edits>> /\ LastGuard'.replacement = LastGuard.replacement
      /\ \A f \in Files : f # job.at => file'[f] = file[f]
  BY ExchangeFacts DEF WayInv, JourneyInv
<1>1. Touched(job.tx) \in SUBSET Files /\ Touched(job.tx) \subseteq Nat
  BY <1>0, Running DEF WayInv, JourneyInv
<1>2. \A g \in Touched(job.tx) : g # job.at => file'[g] = file[g]
  BY <1>0, <1>1
<1>3. Backing' <=> Backing
  BY <1>0 DEF Backing
<1>4. Touched(job.tx)' = Touched(job.tx) /\ \A g : Entryof(g)' = Entryof(g)
  BY <1>0 DEF Touched, Entryof
<1>5. Entryof(job.at)' = Entryof(job.at)
  BY <1>0 DEF Entryof
<1>6. job.at \in Files /\ job.at \in Nat
  BY <1>0, <1>1 DEF WayInv, JourneyInv, AdoptInv, JobInv, VisitPC
<1>7. /\ edits = 0 /\ ~Backing => \A g \in Touched(job.tx) : g < job.at => file'[g] = Entryof(g).after
      /\ edits = 0 /\ Backing => \A g \in Touched(job.tx) : g > job.at => file'[g] = Entryof(g).before
      /\ edits = 0 =>
          LastGuard.replacement = IF Backing THEN Entryof(job.at).before ELSE Entryof(job.at).after
  BY <1>0, <1>1, <1>2, <1>6 DEF WayInv, ProgressInv, Forwards, Backwards, PublishPC
<1>8. ProgressInv'
  BY <1>0, <1>3, <1>4, <1>5, <1>7 DEF ProgressInv, Forwards, Backwards, AllAfter, AllBefore, PublishPC
<1> QED BY <1>8 DEF WayInv

LEMMA WayCapture ==
    ASSUME WayInv, JourneyInv', Capture, UNCHANGED <<edits, owed, faults>>
    PROVE  WayInv'
<1>0. /\ job.pc = "capture" /\ job.pc # "idle" /\ job.at \in Touched(job.tx) /\ UNCHANGED <<file, edits>>
      /\ AdoptInv /\ TypeOK /\ job.tx \in Tx /\ Exists(job.tx)
  BY Running DEF WayInv, JourneyInv, AdoptInv, Capture, JobInv, VisitPC
<1>1. CASE edits # 0
  BY <1>0, <1>1 DEF WayInv, ProgressInv
<1>2. CASE Abandon
  BY <1>2, WayAbandon DEF WayInv
<1>3. CASE /\ edits = 0 /\ file[job.at] = LastGuard.replacement
           /\ \/ Applying /\ SetPhase(job.tx, job.at, "published") /\ Ascend("intend", "commit")
              \/ Compensating /\ SetPhase(job.tx, job.at, "reverted") /\ Descend("revert", "finish")
              \/ Resuming /\ SetPhase(job.tx, job.at, "reverted") /\ Ascend("forward", "settle")
  <2>1. file[job.at] = IF Backing THEN Entryof(job.at).before ELSE Entryof(job.at).after
    BY <1>0, <1>3 DEF WayInv, ProgressInv, PublishPC
  <2>2. JournalsKept /\ journal'[job.tx].state = journal[job.tx].state
    BY <1>0, <1>3, KeptPhase DEF Phase
  <2>3. CASE Applying /\ Ascend("intend", "commit")
    <3>1. ~Backing /\ Forwards
      BY <1>0, <2>3 DEF Applying, Compensating, Backing, Forwards, PublishPC
    <3>2. file[job.at] = Entryof(job.at).after
      BY <2>1, <3>1
    <3> QED BY <1>0, <2>2, <2>3, <3>1, <3>2, WayAscends
  <2>4. CASE Compensating /\ Descend("revert", "finish")
    <3>1. Backing /\ Backwards /\ job.tx \in Plans
      BY <1>0, <2>4 DEF Compensating, Backing, Backwards, PublishPC
    <3>2. file[job.at] = Entryof(job.at).before
      BY <2>1, <3>1
    <3> QED BY <1>0, <2>2, <2>4, <3>1, <3>2, WayDescends
  <2>5. CASE Resuming /\ Ascend("forward", "settle")
    <3>1. ~Backing /\ Forwards
      BY <1>0, <2>5, TxFacts DEF Resuming, Backing, Forwards, PublishPC
    <3>2. file[job.at] = Entryof(job.at).after
      BY <2>1, <3>1
    <3> QED BY <1>0, <2>2, <2>5, <3>1, <3>2, WayAscends
  <2> QED BY <1>3, <2>3, <2>4, <2>5
<1> QED BY <1>1, <1>2, <1>3 DEF Capture

LEMMA WaySettle ==
    ASSUME WayInv, JourneyInv', Settle, UNCHANGED <<edits, owed, faults>>
    PROVE  WayInv'
<1> DEFINE s == journal[job.tx].sources[job.at]
<1>0. /\ job.pc = "settle" /\ job \in Job /\ job.tx \in Tx /\ Exists(job.tx) /\ AdoptInv /\ TypeOK
      /\ job.tx \in Restores /\ job.tx \notin Plans /\ UNCHANGED <<file, edits>>
      /\ job.at \in 1 .. Len(journal[job.tx].sources) /\ IsJournal(journal[job.tx])
  BY Running, TxFacts DEF WayInv, JourneyInv, AdoptInv, Settle, JobInv, RestorePC
<1>1. s \in Plans /\ Exists(s) /\ s \in Tx
  <2>1. journal[job.tx].sources \in Seq(Plans)
    BY <1>0, JournalFacts
  <2> QED BY <1>0, <2>1, TxFacts DEF AdoptInv, LinkInv
<1>2. SetState(s, "restored")
  BY DEF Settle
<1>3. \E pc \in {"finish", "settle"} : \E n : Goto(pc, n)
  BY DEF Settle
<1>4. job'.pc \in {"finish", "settle"} /\ job'.tx = job.tx
  BY <1>0, <1>3, GotoFacts
<1> HIDE DEF s
<1>5. JournalsKept
  BY <1>0, <1>1, <1>2, KeptState DEF State
<1>6. /\ Touched(job.tx)' = Touched(job.tx)
      /\ \A g \in Touched(job.tx) :
            Entryof(g)'.before = Entryof(g).before /\ Entryof(g)'.after = Entryof(g).after
  BY <1>0, <1>4, <1>5, EntriesKept
<1>7. edits = 0 => \A g \in Touched(job.tx) : file[g] = Entryof(g).after
  BY <1>0 DEF WayInv, ProgressInv, AllAfter
<1>8. ProgressInv'
  BY <1>0, <1>4, <1>6, <1>7 DEF ProgressInv, Forwards, Backwards, AllAfter, AllBefore, PublishPC
<1> QED BY <1>8 DEF WayInv

LEMMA WayStep ==
    ASSUME AnyRecover = FALSE
    PROVE  WayInv /\ [Next]_vars => WayInv'
<1> SUFFICES ASSUME WayInv, [Next]_vars PROVE WayInv'
  OBVIOUS
<1>0. JourneyInv /\ JourneyInv'
  BY JourneyStep DEF WayInv
<1>1. CASE Step
  BY <1>0, <1>1, WayTurns, WayCapture, WaySettle, WayVisits, WayValidate, WayExchange DEF Step
<1>2. CASE Start
  <2>1. ASSUME NEW t, BeginApply(t) PROVE job'.pc = "point"
    BY <2>1 DEF BeginApply
  <2>2. ASSUME NEW r, NEW n, BeginRestore(r, n) PROVE job'.pc = "point"
    BY <2>2 DEF BeginRestore
  <2>3. job'.pc = "point"
    BY <1>2, <2>1, <2>2 DEF Start
  <2> QED BY <1>0, <2>3, WayRests DEF RestPC
<1>3. ASSUME NEW t \in Tx, RecoverCommand(t) PROVE WayInv'
  <2>1. job'.pc \in {"preflight", "check"}
    BY <1>3 DEF RecoverCommand, Recover
  <2> QED BY <1>0, <2>1, WayRests DEF RestPC
<1>4. CASE User
  <2>1. edits' = edits + 1 /\ edits \in 0 .. MaxEdits /\ MaxEdits \in Nat
    BY <1>0, <1>4, BoundsAssumption DEF User, UserEdit, LateWrite, JourneyInv, AdoptInv, TypeOK
  <2>2. edits' # 0
    BY <2>1
  <2> QED BY <1>0, <2>2 DEF WayInv, ProgressInv
<1>5. CASE Crash
  <2>1. job'.pc = "idle"
    BY <1>5 DEF Crash, Return, Idle
  <2> QED BY <1>0, <2>1, WayRests DEF RestPC
<1>6. CASE Fail
  BY <1>0, <1>6, WayAbandon DEF Fail
<1>7. CASE UNCHANGED vars
  BY <1>0, <1>7 DEF vars, WayInv, ProgressInv, Forwards, Backwards, AllAfter, AllBefore, Backing, Entryof,
                    Touched, LastGuard
<1> QED BY <1>1, <1>2, <1>3, <1>4, <1>5, <1>6, <1>7 DEF Next

---------------------------------------------------------------------------
(* What the installed transactions of a stack hold *)

Installed(t) == journal[t].state = "installed"

\* A stack s is the transactions that active.json has named, the oldest first.  The places among the
\* first k of those that are installed and touch f, and what the newest of them leaves in the file.
LiveAt(s, k, f) == {i \in 1 .. k : Installed(s[i]) /\ f \in Touched(s[i])}
Newest(I) == CHOOSE i \in I : \A j \in I : j <= i
Live(s, k, f) == IF LiveAt(s, k, f) = {} THEN Baseline ELSE Payload[s[Newest(LiveAt(s, k, f))]]
Held(s, k, f) == [own |-> Live(s, k, f), user |-> Baseline]

LEMMA NewestFacts ==
    ASSUME NEW k \in Nat, NEW I \in SUBSET (1 .. k), I # {}
    PROVE  Newest(I) \in I /\ \A j \in I : j <= Newest(I)
<1>1. I \in SUBSET (0 .. k)
  OBVIOUS
<1>2. \E n \in I : \A m \in I : m <= n
  BY <1>1, GreatestMember
<1> QED BY <1>2 DEF Newest

\* Stacks that agree up to k hold the same up to k.
LEMMA HeldPrefix ==
    ASSUME NEW s, NEW u, NEW k \in Nat, \A i \in 1 .. k : u[i] = s[i], NEW f
    PROVE  Held(u, k, f) = Held(s, k, f)
<1>1. LiveAt(u, k, f) = LiveAt(s, k, f) /\ LiveAt(s, k, f) \in SUBSET (1 .. k)
  BY DEF LiveAt
<1>2. LiveAt(s, k, f) # {} => Newest(LiveAt(s, k, f)) \in 1 .. k
  BY <1>1, NewestFacts
<1>3. Live(u, k, f) = Live(s, k, f)
  BY <1>1, <1>2 DEF Live
<1> QED BY <1>3 DEF Held

\* A transaction that is not installed, or leaves the file alone, makes no difference to it.
LEMMA HeldSkip ==
    ASSUME NEW s, NEW k \in Nat, NEW l \in Nat, k <= l, NEW f,
           \A i \in 1 .. l : i > k => ~(Installed(s[i]) /\ f \in Touched(s[i]))
    PROVE  Held(s, l, f) = Held(s, k, f)
<1>1. LiveAt(s, l, f) = LiveAt(s, k, f)
  BY DEF LiveAt
<1> QED BY <1>1 DEF Live, Held

\* An installed one that touches the file determines it.
LEMMA HeldTop ==
    ASSUME NEW s, NEW k \in Nat \ {0}, NEW f, Installed(s[k]), f \in Touched(s[k])
    PROVE  Held(s, k, f) = [own |-> Payload[s[k]], user |-> Baseline]
<1>1. k \in LiveAt(s, k, f) /\ LiveAt(s, k, f) \in SUBSET (1 .. k)
  BY DEF LiveAt
<1> DEFINE n == Newest(LiveAt(s, k, f))
<1>2. n \in 1 .. k /\ k <= n
  BY <1>1, NewestFacts
<1>3. n = k
  BY <1>2
<1> QED BY <1>1, <1>3 DEF Live, Held

\* Only the installed transactions of the stack matter.
LEMMA HeldFrame ==
    ASSUME NEW s, NEW k \in Nat, NEW f,
           \A i \in 1 .. k : (Installed(s[i])' <=> Installed(s[i])) /\ Touched(s[i])' = Touched(s[i])
    PROVE  Held(s, k, f)' = Held(s, k, f)
<1>1. LiveAt(s, k, f)' = LiveAt(s, k, f)
  BY DEF LiveAt
<1>2. Live(s, k, f)' = Live(s, k, f)
  BY <1>1 DEF Live
<1> QED BY <1>2 DEF Held

\* s is the chain of predecessors of the active transaction.
Stacked(s) ==
    /\ active = IF s = <<>> THEN None ELSE s[Len(s)]
    /\ \A i \in 1 .. Len(s) :
          Exists(s[i]) /\ journal[s[i]].predecessor = IF i = 1 THEN None ELSE s[i - 1]
    /\ \A i, j \in 1 .. Len(s) : s[i] = s[j] => i = j

LEMMA StackFits ==
    ASSUME NEW s \in Seq(Tx), Stacked(s)
    PROVE  Len(s) \in Nat /\ Len(s) <= Depth
<1>1. Len(s) \in Nat /\ s \in [1 .. Len(s) -> Tx]
  OBVIOUS
<1>2. IsFiniteSet(1 .. Len(s)) /\ Cardinality(1 .. Len(s)) = Len(s)
  <2>1. 1 \in Int /\ Len(s) \in Int
    BY <1>1
  <2>2. IsFiniteSet(1 .. Len(s)) /\ Cardinality(1 .. Len(s)) = IF 1 > Len(s) THEN 0 ELSE Len(s) - 1 + 1
    BY <2>1, FS_Interval
  <2> QED BY <1>1, <2>2
<1>3. IsFiniteSet(Tx) /\ Depth \in Nat
  BY TxAssumption, DepthNat
<1>4. ~(Depth < Len(s))
  <2>1. SUFFICES ASSUME Depth < Len(s) PROVE FALSE
    OBVIOUS
  <2>2. Cardinality(Tx) < Cardinality(1 .. Len(s))
    BY <1>2, <2>1 DEF Depth
  <2>3. \E i, j \in 1 .. Len(s) : i # j /\ s[i] = s[j]
    BY <1>1, <1>2, <1>3, <2>2, FS_PigeonHole
  <2> QED BY <2>3 DEF Stacked
<1> QED BY <1>1, <1>3, <1>4

\* The walk goes down the stack.
LEMMA WalkStack ==
    ASSUME NEW s \in Seq(Tx), Stacked(s)
    PROVE  \A i \in 0 .. Depth : Walk[i] = IF i < Len(s) THEN s[Len(s) - i] ELSE None
<1> DEFINE W(i) == IF i < Len(s) THEN s[Len(s) - i] ELSE None
           T == {i \in Nat : Walk[i] = W(i)}
<1>0. Walk = [i \in 0 .. Depth |-> Older(Walk, i)] /\ Depth \in Nat /\ Len(s) \in Nat
  BY WalkFunction, DepthNat, StackFits
<1>1. 0 \in T
  <2>1. Walk[0] = active
    BY <1>0 DEF Older
  <2>2. s = <<>> <=> ~(0 < Len(s))
    BY <1>0
  <2>3. active = W(0)
    BY <1>0, <2>2 DEF Stacked
  <2> QED BY <2>1, <2>3
<1>2. ASSUME NEW i \in 0 .. Depth, i \in T, i < Depth PROVE i + 1 \in T
  <2>0. i + 1 \in 0 .. Depth /\ (i + 1) - 1 = i /\ i + 1 # 0 /\ i + 1 \in Nat /\ i \in Nat
    BY <1>0, <1>2
  <2>1. Walk[i + 1] = Older(Walk, i + 1)
    BY <1>0, <2>0
  <2>2. Walk[i + 1] = IF Walk[i] = None THEN None ELSE journal[Walk[i]].predecessor
    BY <2>0, <2>1 DEF Older
  <2>3. CASE ~(i < Len(s))
    <3>1. Walk[i] = None
      BY <1>2, <2>3
    <3>2. ~(i + 1 < Len(s))
      BY <1>0, <2>0, <2>3
    <3> QED BY <2>0, <2>2, <3>1, <3>2
  <2>4. CASE i < Len(s)
    <3> DEFINE k == Len(s) - i
    <3>1. k \in 1 .. Len(s) /\ (k = 1 <=> ~(i + 1 < Len(s))) /\ k - 1 = Len(s) - (i + 1)
      BY <1>0, <2>0, <2>4
    <3>2. Walk[i] = s[k]
      BY <1>2, <2>4
    <3> HIDE DEF k
    <3>3. s[k] # None
      <4>1. s[k] \in Tx
        BY <3>1
      <4> QED BY <4>1, TxFacts
    <3>4. journal[s[k]].predecessor = IF k = 1 THEN None ELSE s[k - 1]
      BY <3>1 DEF Stacked
    <3>5. Walk[i + 1] = W(i + 1)
      BY <2>2, <3>1, <3>2, <3>3, <3>4
    <3> QED BY <2>0, <3>5
  <2> QED BY <2>3, <2>4
<1> HIDE DEF T
<1>3. \A i \in 0 .. Depth : i \in T
  BY <1>0, <1>1, <1>2, CountUp
<1> QED BY <1>3 DEF T

\* pos places the parts of c in s, the newest first: all the installed ones of s whose place is at
\* least Len(s) - i.
Covers(s, c, pos, i) ==
    /\ pos \in [1 .. Len(c) -> 1 .. Len(s)]
    /\ \A m \in 1 .. Len(c) : c[m] = s[pos[m]] /\ Installed(s[pos[m]]) /\ pos[m] + i >= Len(s)
    /\ \A l, m \in 1 .. Len(c) : l < m => pos[m] < pos[l]
    /\ \A k \in 1 .. Len(s) : k + i >= Len(s) /\ Installed(s[k]) => \E m \in 1 .. Len(c) : pos[m] = k

\* One more transaction of the walk.
LEMMA CoversNext ==
    ASSUME NEW s \in Seq(Tx), NEW c \in Seq(Tx), NEW pos, NEW i \in Nat, i < Len(s),
           \/ i = 0 /\ c = <<>> /\ pos = <<>>
           \/ i > 0 /\ Covers(s, c, pos, i - 1)
    PROVE  LET k == Len(s) - i
               d == IF Installed(s[k]) THEN Append(c, s[k]) ELSE c
           IN  d \in Seq(Tx) /\ \E p : Covers(s, d, p, i)
<1> DEFINE k == Len(s) - i
           n == Len(c)
           d == Append(c, s[k])
           p == [m \in 1 .. n + 1 |-> IF m = n + 1 THEN k ELSE pos[m]]
<1>1. Len(s) \in Nat /\ n \in Nat /\ k \in 1 .. Len(s) /\ s[k] \in Tx
  OBVIOUS
<1>2. /\ \A m \in 1 .. n : pos[m] \in 1 .. Len(s) /\ c[m] = s[pos[m]] /\ Installed(s[pos[m]]) /\ pos[m] > k
      /\ \A l, m \in 1 .. n : l < m => pos[m] < pos[l]
      /\ \A j \in 1 .. Len(s) : j > k /\ Installed(s[j]) => \E m \in 1 .. n : pos[m] = j
  <2>1. CASE i = 0 /\ c = <<>>
    BY <2>1
  <2>2. CASE i > 0 /\ Covers(s, c, pos, i - 1)
    <3>1. \A j \in 1 .. Len(s) : j > k <=> j + (i - 1) >= Len(s)
      BY <1>1, <2>2
    <3>2. \A m \in 1 .. n : pos[m] \in 1 .. Len(s)
      BY <2>2 DEF Covers
    <3> HIDE DEF k
    <3> QED BY <2>2, <3>1, <3>2 DEF Covers
  <2> QED BY <2>1, <2>2
<1>3. CASE Installed(s[k])
  <2>1. /\ d \in Seq(Tx) /\ Len(d) = n + 1 /\ d[n + 1] = s[k]
        /\ \A m \in 1 .. n : d[m] = c[m]
    BY <1>1, AppendFacts
  <2> HIDE DEF d
  <2>2. \A m \in 1 .. n + 1 : m = n + 1 \/ m \in 1 .. n
    BY <1>1
  <2>3. p \in [1 .. n + 1 -> 1 .. Len(s)]
    <3> HIDE DEF k
    <3> QED BY <1>1, <1>2, <2>2
  <2>4. p[n + 1] = k /\ \A m \in 1 .. n : p[m] = pos[m]
    BY <1>1
  <2> HIDE DEF p
  <2>5. \A m \in 1 .. n + 1 : d[m] = s[p[m]] /\ Installed(s[p[m]]) /\ p[m] + i >= Len(s)
    <3>1. \A m \in 1 .. n : pos[m] + i >= Len(s)
      BY <1>1, <1>2
    <3>2. k + i >= Len(s)
      BY <1>1
    <3> HIDE DEF k
    <3> QED BY <1>2, <1>3, <2>1, <2>2, <2>4, <3>1, <3>2
  <2>6. \A l, m \in 1 .. n + 1 : l < m => p[m] < p[l]
    <3> HIDE DEF k
    <3>1. ASSUME NEW l \in 1 .. n + 1, NEW m \in 1 .. n + 1, l < m PROVE p[m] < p[l]
      <4>1. l \in 1 .. n
        BY <1>1, <3>1
      <4>2. CASE m = n + 1
        BY <1>1, <1>2, <2>4, <4>1, <4>2
      <4>3. CASE m \in 1 .. n
        BY <1>2, <2>4, <3>1, <4>1, <4>3
      <4> QED BY <2>2, <4>2, <4>3
    <3> QED BY <3>1
  <2>7. \A j \in 1 .. Len(s) : j + i >= Len(s) /\ Installed(s[j]) => \E m \in 1 .. n + 1 : p[m] = j
    <3>1. ASSUME NEW j \in 1 .. Len(s), j + i >= Len(s), Installed(s[j])
          PROVE  \E m \in 1 .. n + 1 : p[m] = j
      <4>1. CASE j = k
        BY <1>1, <2>4, <4>1
      <4>2. CASE j # k
        <5>1. j > k
          BY <1>1, <3>1, <4>2
        <5> HIDE DEF k
        <5>2. PICK m \in 1 .. n : pos[m] = j
          BY <1>2, <3>1, <5>1
        <5>3. m \in 1 .. n + 1 /\ p[m] = j
          BY <1>1, <2>4, <5>2
        <5> QED BY <5>3
      <4> QED BY <4>1, <4>2
    <3> QED BY <3>1
  <2>8. Covers(s, d, p, i)
    BY <2>1, <2>3, <2>5, <2>6, <2>7 DEF Covers
  <2> QED BY <1>3, <2>1, <2>8 DEF d
<1>4. CASE ~Installed(s[k])
  <2> DEFINE q == [m \in 1 .. n |-> pos[m]]
  <2>1. q \in [1 .. n -> 1 .. Len(s)] /\ \A m \in 1 .. n : q[m] = pos[m]
    BY <1>2
  <2>2. \A m \in 1 .. n : pos[m] + i >= Len(s)
    BY <1>1, <1>2
  <2>3. \A j \in 1 .. Len(s) : j + i >= Len(s) /\ j # k => j > k
    BY <1>1
  <2> HIDE DEF q, k
  <2>4. \A j \in 1 .. Len(s) : j + i >= Len(s) /\ Installed(s[j]) => \E m \in 1 .. n : q[m] = j
    BY <1>2, <1>4, <2>1, <2>3
  <2>5. Covers(s, c, q, i)
    BY <1>2, <2>1, <2>2, <2>4 DEF Covers
  <2> QED BY <1>4, <2>5 DEF k
<1> QED BY <1>3, <1>4

\* A chain is the installed transactions of the stack, the newest first.
LEMMA ChainPlaces ==
    ASSUME NEW s \in Seq(Tx), Stacked(s)
    PROVE  Chain \in Seq(Tx) /\ \E pos : Covers(s, Chain, pos, Len(s))
<1> DEFINE Reach(i) == IF i < Len(s) THEN i ELSE Len(s)
           T == {i \in Nat : Chains[i] \in Seq(Tx) /\ \E pos : Covers(s, Chains[i], pos, Reach(i))}
<1>0. /\ Chains = [i \in 0 .. Depth |-> Collect(Chains, i)] /\ Depth \in Nat /\ Len(s) \in Nat
      /\ Len(s) <= Depth
  BY ChainsFunction, DepthNat, StackFits
<1>1. ASSUME NEW i \in 0 .. Depth
      PROVE  Walk[i] = IF i < Len(s) THEN s[Len(s) - i] ELSE None
  BY WalkStack
<1>2. 0 \in T
  <2>1. Chains[0] = Collect(Chains, 0) /\ 0 \in 0 .. Depth
    BY <1>0
  <2>2. Chains[0] = IF Walk[0] # None /\ journal[Walk[0]].state = "installed"
                    THEN Append(<<>>, Walk[0]) ELSE <<>>
    BY <2>1 DEF Collect
  <2>3. <<>> \in Seq(Tx)
    OBVIOUS
  <2>4. CASE 0 < Len(s)
    <3> DEFINE k == Len(s) - 0
    <3>1. k \in 1 .. Len(s) /\ s[k] \in Tx /\ s[k] # None
      BY <1>0, <2>4, TxFacts
    <3>2. Walk[0] = s[k]
      BY <1>1, <2>1, <2>4
    <3>3. Chains[0] = IF Installed(s[k]) THEN Append(<<>>, s[k]) ELSE <<>>
      BY <2>2, <3>1, <3>2 DEF Installed
    <3>4. Chains[0] \in Seq(Tx) /\ \E p : Covers(s, Chains[0], p, 0)
      BY <2>3, <2>4, <3>3, CoversNext
    <3> QED BY <2>4, <3>4
  <2>5. CASE ~(0 < Len(s))
    <3>1. Chains[0] = <<>> /\ Len(s) = 0
      BY <1>0, <1>1, <2>1, <2>2, <2>5
    <3>2. Covers(s, <<>>, <<>>, 0)
      BY <3>1 DEF Covers
    <3> QED BY <2>3, <2>5, <3>1, <3>2
  <2> QED BY <2>4, <2>5
<1>3. ASSUME NEW i \in 0 .. Depth, i \in T, i < Depth PROVE i + 1 \in T
  <2>0. i + 1 \in 0 .. Depth /\ (i + 1) - 1 = i /\ i + 1 # 0 /\ i + 1 \in Nat /\ i \in Nat /\ i + 1 > 0
    BY <1>0, <1>3
  <2>1. Chains[i + 1] = Collect(Chains, i + 1)
    BY <1>0, <2>0
  <2>2. Chains[i + 1] = IF Walk[i + 1] # None /\ journal[Walk[i + 1]].state = "installed"
                        THEN Append(Chains[i], Walk[i + 1]) ELSE Chains[i]
    BY <2>0, <2>1 DEF Collect
  <2>3. Chains[i] \in Seq(Tx)
    BY <1>3
  <2>4. PICK pos : Covers(s, Chains[i], pos, Reach(i))
    BY <1>3
  <2>5. CASE i + 1 < Len(s)
    <3> DEFINE k == Len(s) - (i + 1)
    <3>1. k \in 1 .. Len(s) /\ s[k] \in Tx /\ s[k] # None
      BY <1>0, <2>0, <2>5, TxFacts
    <3>2. Walk[i + 1] = s[k]
      BY <1>1, <2>0, <2>5
    <3>3. Chains[i + 1] = IF Installed(s[k]) THEN Append(Chains[i], s[k]) ELSE Chains[i]
      BY <2>2, <3>1, <3>2 DEF Installed
    <3>4. Covers(s, Chains[i], pos, (i + 1) - 1)
      BY <1>0, <2>0, <2>4, <2>5
    <3>5. Chains[i + 1] \in Seq(Tx) /\ \E p : Covers(s, Chains[i + 1], p, i + 1)
      BY <2>0, <2>3, <2>5, <3>3, <3>4, CoversNext
    <3> QED BY <2>0, <2>5, <3>5
  <2>6. CASE ~(i + 1 < Len(s))
    <3>1. Chains[i + 1] = Chains[i]
      BY <1>1, <2>0, <2>2, <2>6
    <3>2. \A k \in 1 .. Len(s) : k + Reach(i) >= Len(s) /\ k + Len(s) >= Len(s)
      BY <1>0, <2>0, <2>6
    <3> HIDE DEF Reach
    <3>3. \A m \in 1 .. Len(Chains[i]) : pos[m] \in 1 .. Len(s)
      BY <2>4 DEF Covers
    <3>4. Covers(s, Chains[i], pos, Len(s))
      BY <2>4, <3>2, <3>3 DEF Covers
    <3> QED BY <2>0, <2>3, <2>6, <3>1, <3>4 DEF Reach
  <2> QED BY <2>5, <2>6
<1> HIDE DEF T
<1>4. \A i \in 0 .. Depth : i \in T
  BY <1>0, <1>2, <1>3, CountUp
<1>5. Depth \in T /\ Reach(Depth) = Len(s)
  BY <1>0, <1>4
<1> QED BY <1>5, ChainIsLast DEF T

\* What a file should hold is what the stack leaves in it.
LEMMA LiveOwnHeld ==
    ASSUME NEW s \in Seq(Tx), Stacked(s), NEW f
    PROVE  LiveOwn(f) = Live(s, Len(s), f)
<1> DEFINE c == Chain
           n == Len(c)
           I == {m \in DOMAIN c : f \in Touched(c[m])}
           L == LiveAt(s, Len(s), f)
           Least(m) == m \in I /\ \A l \in I : m <= l
           M == CHOOSE m \in I : \A l \in I : m <= l
<1>1. c \in Seq(Tx) /\ n \in Nat /\ Len(s) \in Nat /\ DOMAIN c = 1 .. n
  BY ChainPlaces
<1>2. PICK pos : Covers(s, c, pos, Len(s))
  BY ChainPlaces
<1>3. LiveOwn(f) = IF I = {} THEN Baseline ELSE Payload[c[M]]
  BY DEF LiveOwn
<1> HIDE DEF c
<1>4. \A m \in I : m \in 1 .. n /\ pos[m] \in L /\ c[m] = s[pos[m]]
  BY <1>1, <1>2 DEF Covers, LiveAt
<1>5. \A k \in L : k \in 1 .. Len(s) /\ k + Len(s) >= Len(s)
  BY <1>1 DEF LiveAt
<1>6. \A k \in L : \E m \in I : pos[m] = k
  <2>1. ASSUME NEW k \in L PROVE \E m \in I : pos[m] = k
    <3>1. PICK m \in 1 .. n : pos[m] = k
      BY <1>2, <1>5 DEF Covers, LiveAt
    <3>2. c[m] = s[k] /\ f \in Touched(s[k])
      BY <1>2, <3>1 DEF Covers, LiveAt
    <3> QED BY <1>1, <3>1, <3>2
  <2> QED BY <2>1
<1>7. CASE I = {}
  <2>1. L = {}
    BY <1>6, <1>7
  <2> QED BY <1>3, <1>7, <2>1 DEF Live
<1>8. CASE I # {}
  <2>1. I \in SUBSET Nat
    BY <1>1
  <2>2. \E m \in I : \A l \in I : m <= l
    <3> HIDE DEF I
    <3> QED BY <1>8, <2>1, LeastMember
  <2>3. M \in I /\ \A l \in I : M <= l
    <3> HIDE DEF I
    <3> QED BY <2>2
  <2> HIDE DEF M
  <2> DEFINE k == Newest(L)
  <2>4. L # {} /\ L \in SUBSET (1 .. Len(s)) /\ pos[M] \in L
    BY <1>4, <1>5, <2>3
  <2>5. k \in L /\ \A j \in L : j <= k
    <3> HIDE DEF L
    <3> QED BY <1>1, <2>4, NewestFacts
  <2>6. PICK m \in I : pos[m] = k
    BY <1>6, <2>5
  <2>7. m \in 1 .. n /\ M \in 1 .. n /\ M <= m /\ pos[M] <= pos[m] /\ pos[m] \in 1 .. Len(s) /\ pos[M] \in 1 .. Len(s)
    BY <1>4, <1>5, <2>3, <2>4, <2>5, <2>6
  <2>8. ~(M < m)
    <3>1. M < m => pos[m] < pos[M]
      BY <1>2, <2>7 DEF Covers
    <3> QED BY <2>7, <3>1
  <2>9. M = m
    BY <2>7, <2>8
  <2>10. c[M] = s[k]
    BY <1>4, <2>6, <2>9
  <2> QED BY <1>3, <1>8, <2>4, <2>10 DEF Live
<1> QED BY <1>7, <1>8

\* An apply wants to leave its payload, and each installed transaction of the stack found the files as
\* the ones below it had left them.
Laid(s) ==
    /\ \A t \in Plans : Exists(t) =>
          \A f \in Touched(t) : journal[t].entries[f].after.own = Payload[t]
    /\ \A i \in 1 .. Len(s) : Installed(s[i]) =>
          /\ s[i] \in Plans
          /\ \A f \in Touched(s[i]) : journal[s[i]].entries[f].before = Held(s, i - 1, f)

LEMMA InstalledAfter ==
    ASSUME TypeOK, LinkInv, NEW s \in Seq(Tx), Stacked(s), Laid(s), NEW k \in 1 .. Len(s),
           Installed(s[k]), NEW f \in Touched(s[k])
    PROVE  LET e == journal[s[k]].entries[f]
           IN  /\ e.before = Held(s, k - 1, f) /\ e.after = Held(s, k, f)
               /\ e.before \in Document /\ e.after \in Document
<1> DEFINE t == s[k]
           e == journal[t].entries[f]
<1>1. t \in Plans /\ t \in Tx /\ Exists(t) /\ IsJournal(journal[t]) /\ k \in Nat \ {0} /\ k - 1 \in Nat
  BY TxFacts DEF Laid, Stacked, TypeOK, Exists
<1>2. e \in Entry
  BY <1>1, JournalFacts DEF Touched
<1>3. e.before \in Document /\ e.after \in Document
  BY <1>2 DEF Entry
<1>4. e.before = Held(s, k - 1, f) /\ e.after.own = Payload[t] /\ e.before.user = e.after.user
  BY <1>1 DEF Laid, LinkInv
<1>5. Held(s, k - 1, f).user = Baseline
  BY DEF Held
<1>6. e.after = [own |-> Payload[t], user |-> Baseline]
  <2>1. e.after.own = Payload[t] /\ e.after.user = Baseline
    BY <1>4, <1>5
  <2> HIDE DEF e
  <2> QED BY <1>3, <2>1 DEF Document
<1>7. Held(s, k, f) = [own |-> Payload[t], user |-> Baseline]
  BY <1>1, HeldTop
<1> QED BY <1>3, <1>4, <1>6, <1>7

\* Where the undoing of the first m sources has come to.
Down(s, pos, m) == IF m = 0 THEN Len(s) ELSE pos[m] - 1

\* sources are the first n of the parts of c, which pos places in s, and f holds what s leaves in it.
Takes(s, f, c, pos, n, sources) ==
    /\ file[f] = Held(s, Len(s), f)
    /\ c \in Seq(Tx) /\ n \in 1 .. Len(c) /\ Covers(s, c, pos, Len(s))
    /\ sources \in Seq(Tx) /\ Len(sources) = n /\ \A m \in 1 .. n : sources[m] = c[m]

\* What the undoing of sources makes of a file that holds what the stack leaves in it.
LEMMA TargetHeld ==
    ASSUME TypeOK, LinkInv, NEW s \in Seq(Tx), Stacked(s), Laid(s),
           NEW f, NEW c, NEW pos, NEW n, NEW sources, Takes(s, f, c, pos, n, sources)
    PROVE  /\ Target(f, sources) # Conflict => Target(f, sources) = Held(s, pos[n] - 1, f)
           /\ (\A m \in 1 .. n : f \notin Touched(sources[m])) => Held(s, Len(s), f) = Held(s, pos[n] - 1, f)
<1>9. /\ file[f] = Held(s, Len(s), f)
      /\ c \in Seq(Tx) /\ n \in 1 .. Len(c) /\ Covers(s, c, pos, Len(s))
      /\ sources \in Seq(Tx) /\ Len(sources) = n /\ \A m \in 1 .. n : sources[m] = c[m]
  BY DEF Takes
<1> USE <1>9
<1> DEFINE u == Undoing(f, sources)
           H(m) == Held(s, Down(s, pos, m), f)
           T == {m \in Nat : /\ u[m] # Conflict => u[m] = H(m)
                             /\ (\A l \in 1 .. m : f \notin Touched(sources[l])) => H(0) = H(m)}
<1>0. /\ u = [m \in 0 .. Len(sources) |-> Undone(f, sources, u, m)] /\ Len(sources) \in Nat /\ Len(s) \in Nat
      /\ n \in Nat /\ n <= Len(c) /\ Len(c) \in Nat
  <2>1. Len(sources) \in Nat
    OBVIOUS
  <2> QED BY <2>1, UndoingFunction
<1> HIDE DEF u
<1>8. ASSUME NEW m \in 0 .. n PROVE u[m] = Undone(f, sources, u, m)
  <2>1. m \in 0 .. Len(sources)
    OBVIOUS
  <2>2. u = [l \in 0 .. Len(sources) |-> Undone(f, sources, u, l)]
    BY <1>0
  <2> QED BY <2>1, <2>2, Zenon
<1>1. ASSUME NEW m \in 1 .. n
      PROVE  pos[m] \in 1 .. Len(s) /\ sources[m] = s[pos[m]] /\ Installed(s[pos[m]])
  <2>1. m \in 1 .. Len(c) /\ sources[m] = c[m]
    BY <1>0
  <2> QED BY <2>1 DEF Covers
<1>2. 0 \in T
  <2>1. u[0] = Undone(f, sources, u, 0)
    BY <1>0, <1>8
  <2>2. u[0] = file[f]
    BY <2>1 DEF Undone
  <2>3. H(0) = Held(s, Len(s), f)
    BY DEF Down
  <2> QED BY <2>2, <2>3
<1>3. ASSUME NEW i \in 0 .. n, i \in T, i < n PROVE i + 1 \in T
  <2>0. i + 1 \in 1 .. n /\ (i + 1) - 1 = i /\ i + 1 # 0 /\ i + 1 \in Nat /\ i \in Nat
    BY <1>0, <1>3
  <2> DEFINE k == pos[i + 1]
             l == Down(s, pos, i)
  <2>1. /\ k \in 1 .. Len(s) /\ sources[i + 1] = s[k] /\ Installed(s[k]) /\ k \in Nat \ {0} /\ k - 1 \in Nat
        /\ Down(s, pos, i + 1) = k - 1
    BY <1>1, <2>0 DEF Down
  <2>2. l \in Nat /\ l <= Len(s) /\ k <= l
    <3>1. CASE i = 0
      BY <1>0, <2>1, <3>1 DEF Down
    <3>2. CASE i # 0
      <4>1. i \in 1 .. n /\ i \in 1 .. Len(c) /\ i + 1 \in 1 .. Len(c) /\ i < i + 1
        BY <1>0, <2>0, <3>2
      <4>2. k < pos[i] /\ pos[i] \in 1 .. Len(s)
        BY <1>1, <4>1 DEF Covers
      <4>3. l = pos[i] - 1
        BY <3>2 DEF Down
      <4> QED BY <1>0, <2>1, <4>2, <4>3
    <3> QED BY <3>1, <3>2
  <2> HIDE DEF k, l
  <2>3. \A j \in 1 .. l : j > k => ~Installed(s[j])
    <3>1. SUFFICES ASSUME NEW j \in 1 .. l, j > k, Installed(s[j]) PROVE FALSE
      OBVIOUS
    <3>2. j \in 1 .. Len(s) /\ j + Len(s) >= Len(s)
      BY <1>0, <2>2
    <3>3. PICK m \in 1 .. Len(c) : pos[m] = j
      BY <3>1, <3>2 DEF Covers
    <3>4. ~(m >= i + 1)
      <4>1. SUFFICES ASSUME m >= i + 1 PROVE FALSE
        OBVIOUS
      <4>2. m # i + 1
        BY <2>1, <3>1, <3>3 DEF k
      <4>3. i + 1 < m /\ i + 1 \in 1 .. Len(c)
        BY <1>0, <2>0, <3>3, <4>1, <4>2
      <4>4. pos[m] < pos[i + 1]
        BY <3>3, <4>3 DEF Covers
      <4> QED BY <2>1, <3>1, <3>2, <3>3, <4>4 DEF k
    <3>5. m <= i /\ i # 0 /\ i \in 1 .. Len(c) /\ i \in 1 .. n
      BY <1>0, <2>0, <3>3, <3>4
    <3>6. m < i => pos[i] < pos[m]
      BY <3>3, <3>5 DEF Covers
    <3>7. pos[i] \in 1 .. Len(s) /\ l = pos[i] - 1
      BY <1>1, <3>5 DEF Down, l
    <3> QED BY <3>1, <3>2, <3>3, <3>5, <3>6, <3>7
  <2>4. Held(s, l, f) = Held(s, k, f)
    BY <2>1, <2>2, <2>3, HeldSkip
  <2>5. f \notin Touched(s[k]) => Held(s, k, f) = Held(s, k - 1, f)
    <3>1. \A j \in 1 .. k : j > k - 1 => j = k
      BY <2>1
    <3>2. k - 1 <= k
      BY <2>1
    <3> QED BY <2>1, <3>1, <3>2, HeldSkip
  <2>6. u[i + 1] = Undone(f, sources, u, i + 1)
    BY <1>0, <1>8, <2>0
  <2>7. u[i + 1] # Conflict => u[i + 1] = Held(s, k - 1, f)
    <3>1. CASE u[i] = Conflict
      BY <2>0, <2>6, <3>1 DEF Undone
    <3>2. CASE u[i] # Conflict /\ f \notin Touched(s[k])
      <4>1. u[i + 1] = u[i]
        BY <2>0, <2>1, <2>6, <3>2 DEF Undone
      <4> QED BY <1>3, <2>4, <2>5, <3>2, <4>1 DEF l
    <3>3. CASE u[i] # Conflict /\ f \in Touched(s[k])
      <4> DEFINE e == journal[s[k]].entries[f]
      <4>1. u[i + 1] = RestoreDocument(f, e.before, e.after, u[i])
        BY <2>0, <2>1, <2>6, <3>3 DEF Undone
      <4>2. e.before = Held(s, k - 1, f) /\ e.after = Held(s, k, f)
        BY <2>1, <3>3, InstalledAfter
      <4>3. u[i] = e.after
        BY <1>3, <2>4, <3>3, <4>2 DEF l
      <4> HIDE DEF e
      <4>4. u[i + 1] = e.before
        BY <4>1, <4>3 DEF RestoreDocument
      <4> QED BY <4>2, <4>4
    <3> QED BY <3>1, <3>2, <3>3
  <2>8. (\A m \in 1 .. i + 1 : f \notin Touched(sources[m])) => H(0) = H(i + 1)
    <3>1. SUFFICES ASSUME \A m \in 1 .. i + 1 : f \notin Touched(sources[m]) PROVE H(0) = H(i + 1)
      OBVIOUS
    <3>2. (\A m \in 1 .. i : m \in 1 .. i + 1) /\ i + 1 \in 1 .. i + 1
      BY <2>0
    <3>3. H(0) = H(i)
      BY <1>3, <3>1, <3>2
    <3>4. f \notin Touched(s[k])
      BY <2>1, <3>1, <3>2
    <3> QED BY <2>1, <2>4, <2>5, <3>3, <3>4 DEF l
  <2> QED BY <2>0, <2>1, <2>7, <2>8
<1>4. T = {m \in Nat : /\ u[m] # Conflict => u[m] = H(m)
                       /\ (\A l \in 1 .. m : f \notin Touched(sources[l])) => H(0) = H(m)}
  OBVIOUS
<1> HIDE DEF T
<1>5. \A i \in 0 .. n : i \in T
  BY <1>0, <1>2, <1>3, CountUp
<1>6. n \in T /\ Down(s, pos, n) = pos[n] - 1 /\ Down(s, pos, 0) = Len(s)
  BY <1>0, <1>5 DEF Down
<1>7. Target(f, sources) = u[n]
  BY TargetIsLast DEF u
<1> QED BY <1>4, <1>6, <1>7

\* A command that active.json does not name yet has published nothing.
OrphanPC == {"point", "check", "restoring", "revert", "finish"}
Orphan(s) == job.pc # "idle" =>
    /\ job.tx # active =>
          /\ \A i \in 1 .. Len(s) : s[i] # job.tx
          /\ journal[job.tx].predecessor = active
          /\ job.pc \in OrphanPC
          /\ job.tx \in Restores => job.pc = "point"
    /\ job.tx = active => job.pc # "point"

\* A transaction under way, and how many of the stack are below it.
Working(t) == (job.pc # "idle" /\ t = job.tx) \/ (Pending /\ t = active)
Below(s, t) == IF t = active THEN Len(s) - 1 ELSE Len(s)

\* An apply t found the files as the first n of the stack had left them.
Replaces(s, n, t) ==
    \A f \in Files : IF f \in Touched(t) THEN journal[t].entries[f].before = Held(s, n, f)
                     ELSE file[f] = Held(s, n, f)

\* A restore with the journal j wants to leave the files as they were below the oldest of its sources,
\* which are at the places pos of the stack.
Undoes(s, n, j, pos) ==
    LET k == Len(j.sources) IN
    /\ pos \in [1 .. k -> 1 .. n]
    /\ \A m \in 1 .. k : j.sources[m] = s[pos[m]]
    /\ \A l, m \in 1 .. k : l < m => pos[m] < pos[l]
    /\ \A i \in 1 .. n : i >= pos[k] /\ Installed(s[i]) => \E m \in 1 .. k : pos[m] = i
    /\ \A f \in Files :
          IF f \in DOMAIN j.entries THEN j.entries[f].after = Held(s, pos[k] - 1, f)
          ELSE file[f] = Held(s, pos[k] - 1, f)

UnderWay(s, n, t) ==
    /\ t \in Plans => Replaces(s, n, t)
    /\ t \in Restores => \E pos : Undoes(s, n, journal[t], pos)

\* While nothing is pending, the files hold what the stack leaves in them.
Settling(s) ==
    /\ ~Pending => \A f \in Files : file[f] = Held(s, Len(s), f)
    /\ \A t \in Tx, n \in Nat : Working(t) /\ n = Below(s, t) => UnderWay(s, n, t)

\* The sources that a restore has settled.
Drained ==
    /\ job.pc = "settle" =>
          \A m \in 1 .. Len(journal[job.tx].sources) :
              m < job.at => journal[journal[job.tx].sources[m]].state = "restored"
    /\ job.pc = "finish" /\ job.tx \in Restores =>
          \A m \in 1 .. Len(journal[job.tx].sources) :
              journal[journal[job.tx].sources[m]].state = "restored"

Content(s) == Stacked(s) /\ Orphan(s) /\ Laid(s) /\ Settling(s)
ContentInv == edits = 0 => Drained /\ \E s \in Seq(Tx) : Content(s)
ReturnInv == WayInv /\ ContentInv

LEMMA ReturnInit == Init => ReturnInv
<1> SUFFICES ASSUME Init PROVE ReturnInv
  OBVIOUS
<1>1. WayInv
  BY WayInit
<1>2. job.pc = "idle" /\ ~Pending /\ active = None /\ \A t \in Tx : ~Exists(t)
  BY DEF Init, Idle, Pending, Exists
<1>3. <<>> \in Seq(Tx) /\ Len(<<>>) = 0 /\ 1 .. 0 = {}
  OBVIOUS
<1>4. \A f : Held(<<>>, 0, f) = [own |-> Baseline, user |-> Baseline]
  BY DEF Held, Live, LiveAt
<1>5. Drained /\ Orphan(<<>>)
  BY <1>2 DEF Drained, Orphan
<1>6. Stacked(<<>>)
  BY <1>2, <1>3 DEF Stacked
<1>7. Laid(<<>>)
  BY <1>2, <1>3, TxFacts DEF Laid
<1>8. Settling(<<>>)
  BY <1>2, <1>3, <1>4 DEF Settling, Working, Init
<1> QED BY <1>1, <1>3, <1>5, <1>6, <1>7, <1>8 DEF ReturnInv, ContentInv, Content

LEMMA SettledWhenContent == ReturnInv => SettledContent
<1> SUFFICES ASSUME ReturnInv, edits = 0, job = Idle, ~Pending, NEW f \in Files
             PROVE  file[f] = [own |-> LiveOwn(f), user |-> Baseline]
  BY DEF SettledContent
<1>1. PICK s \in Seq(Tx) : Content(s)
  BY DEF ReturnInv, ContentInv
<1>2. file[f] = Held(s, Len(s), f)
  BY <1>1 DEF Content, Settling
<1>3. LiveOwn(f) = Live(s, Len(s), f)
  BY <1>1, LiveOwnHeld DEF Content
<1> QED BY <1>2, <1>3 DEF Held

---------------------------------------------------------------------------
(* Steps that neither install nor finish a transaction *)

\* A journal write that keeps the bodies keeps the stack.
LEMMA StackFrame ==
    ASSUME TypeOK, JournalsKept, active' = active, NEW s \in Seq(Tx), Stacked(s)
    PROVE  Stacked(s)'
<1>1. ASSUME NEW i \in 1 .. Len(s)
      PROVE  Exists(s[i])' /\ journal'[s[i]].predecessor = IF i = 1 THEN None ELSE s[i - 1]
  <2>1. s[i] \in Tx /\ journal[s[i]] # None
    BY DEF Stacked, Exists
  <2>2. IsJournal(journal'[s[i]]) /\ SameBody(journal[s[i]], journal'[s[i]])
    BY <2>1 DEF JournalsKept
  <2>3. journal'[s[i]] # None
    BY <2>2, JournalFacts
  <2> QED BY <2>2, <2>3 DEF Exists, SameBody, Stacked
<1> QED BY <1>1 DEF Stacked

LEMMA HeldKept ==
    ASSUME TypeOK, JournalsKept, NEW s \in Seq(Tx), Stacked(s), NEW k \in Nat, k <= Len(s),
           \A i \in 1 .. k : Installed(s[i])' <=> Installed(s[i])
    PROVE  \A f : Held(s, k, f)' = Held(s, k, f)
<1>1. ASSUME NEW i \in 1 .. k PROVE Touched(s[i])' = Touched(s[i])
  <2>1. i \in 1 .. Len(s)
    OBVIOUS
  <2>2. s[i] \in Tx /\ journal[s[i]] # None
    BY <2>1 DEF Stacked, Exists
  <2> QED BY <2>2 DEF JournalsKept, SameBody, Touched
<1> QED BY <1>1, HeldFrame

\* What is installed after the step is laid on what was below it.
LEMMA LaidFrame ==
    ASSUME TypeOK, JournalsKept, NEW s \in Seq(Tx), Stacked(s), Laid(s),
           \A i \in 1 .. Len(s) : Installed(s[i])' =>
              /\ s[i] \in Plans
              /\ \A f \in Touched(s[i]) : journal[s[i]].entries[f].before = Held(s, i - 1, f)
              /\ \A j \in 1 .. i - 1 : Installed(s[j])' <=> Installed(s[j])
    PROVE  Laid(s)'
<1>1. ASSUME NEW t \in Plans, Exists(t)', NEW f \in Touched(t)'
      PROVE  journal'[t].entries[f].after.own = Payload[t]
  <2>1. t \in Tx /\ Exists(t) /\ journal[t] # None
    BY <1>1, TxFacts DEF JournalsKept, Exists
  <2>2. SameBody(journal[t], journal'[t])
    BY <2>1 DEF JournalsKept
  <2> QED BY <2>1, <2>2 DEF SameBody, Touched, Laid
<1>2. ASSUME NEW i \in 1 .. Len(s), Installed(s[i])'
      PROVE  /\ s[i] \in Plans
             /\ \A f \in Touched(s[i])' : journal'[s[i]].entries[f].before = Held(s, i - 1, f)'
  <2>1. s[i] \in Tx /\ journal[s[i]] # None /\ i - 1 \in Nat /\ i - 1 <= Len(s)
    BY DEF Stacked, Exists
  <2>2. \A f : Held(s, i - 1, f)' = Held(s, i - 1, f)
    BY <1>2, <2>1, HeldKept
  <2>3. SameBody(journal[s[i]], journal'[s[i]])
    BY <2>1 DEF JournalsKept
  <2> QED BY <1>2, <2>2, <2>3 DEF SameBody, Touched
<1> QED BY <1>1, <1>2 DEF Laid

\* A transaction under way stays so, whatever happens to its own files.
LEMMA UnderWayFrame ==
    ASSUME TypeOK, LinkInv, JournalsKept, NEW s \in Seq(Tx), Stacked(s), NEW t \in Tx, Exists(t),
           NEW n \in Nat, n <= Len(s), UnderWay(s, n, t),
           \A i \in 1 .. n : Installed(s[i])' <=> Installed(s[i]),
           \A f \in Files : f \notin Touched(t) => file'[f] = file[f]
    PROVE  UnderWay(s, n, t)'
<1>1. IsJournal(journal[t]) /\ SameBody(journal[t], journal'[t]) /\ journal[t] # None
  BY DEF TypeOK, Exists, JournalsKept
<1>2. /\ Touched(t)' = Touched(t) /\ journal'[t].sources = journal[t].sources
      /\ \A f \in Touched(t) : /\ journal'[t].entries[f].before = journal[t].entries[f].before
                               /\ journal'[t].entries[f].after = journal[t].entries[f].after
  BY <1>1 DEF SameBody, Touched
<1>3. ASSUME NEW k \in Nat, k <= n PROVE \A f : Held(s, k, f)' = Held(s, k, f)
  <2>1. k <= Len(s) /\ \A i \in 1 .. k : i \in 1 .. n
    BY <1>3
  <2> QED BY <2>1, HeldKept
<1>4. t \in Plans => Replaces(s, n, t)'
  BY <1>2, <1>3 DEF UnderWay, Replaces
<1>5. ASSUME t \in Restores PROVE (\E pos : Undoes(s, n, journal[t], pos))'
  <2>1. PICK pos : Undoes(s, n, journal[t], pos)
    BY <1>5 DEF UnderWay
  <2>2. PICK k \in Nat : k = Len(journal[t].sources) /\ k \in 1 .. k
    <3>1. journal[t].sources \in Seq(Plans) /\ journal[t].sources # <<>>
      BY <1>1, <1>5, JournalFacts DEF LinkInv
    <3> QED BY <3>1
  <2>3. pos[k] - 1 \in Nat /\ pos[k] - 1 <= n
    <3>1. pos[k] \in 1 .. n
      BY <2>1, <2>2 DEF Undoes
    <3> QED BY <3>1
  <2>4. \A f : Held(s, pos[k] - 1, f)' = Held(s, pos[k] - 1, f)
    BY <1>3, <2>3
  <2>5. Undoes(s, n, journal[t], pos)'
    BY <1>2, <2>1, <2>2, <2>4 DEF Undoes, Touched
  <2> QED BY <2>5
<1> QED BY <1>4, <1>5 DEF UnderWay

StatesSame ==
    \A t \in Tx : Exists(t) => (Installed(t)' <=> Installed(t)) /\ (Finished(t)' <=> Finished(t))

LEMMA StackMember ==
    ASSUME NEW s \in Seq(Tx), Stacked(s)
    PROVE  \A i \in 1 .. Len(s) : s[i] \in Tx /\ Exists(s[i])
BY DEF Stacked

LEMMA BelowFacts ==
    ASSUME NEW s \in Seq(Tx), Stacked(s), NEW t \in Tx, NEW n \in Nat, n = Below(s, t)
    PROVE  n <= Len(s) /\ (t = active => s # <<>> /\ s[Len(s)] = t /\ Len(s) \in 1 .. Len(s) /\ n = Len(s) - 1)
<1>1. t = active => s # <<>> /\ s[Len(s)] = t
  BY TxFacts DEF Stacked
<1>2. s # <<>> => Len(s) \in 1 .. Len(s)
  OBVIOUS
<1>3. n = IF t = active THEN Len(s) - 1 ELSE Len(s)
  BY DEF Below
<1> QED BY <1>1, <1>2, <1>3

LEMMA WorkingExists ==
    ASSUME AdoptInv, NEW t \in Tx, Working(t)
    PROVE  Exists(t)
BY DEF AdoptInv, TypeOK, LinkInv, Working, Pending, Exists

LEMMA ContentFrame ==
    ASSUME JourneyInv, NEW s \in Seq(Tx), Content(s), JournalsKept, StatesSame, active' = active, Orphan(s)',
           job'.pc # "idle" => \/ job.pc # "idle" /\ job'.tx = job.tx
                               \/ Pending /\ job'.tx = active,
           \A f \in Files : \/ file'[f] = file[f]
                            \/ job.pc # "idle" /\ job.tx = active /\ f \in Touched(active)
    PROVE  Content(s)'
<1>0. TypeOK /\ LinkInv /\ AdoptInv /\ HistoryInv /\ Stacked(s) /\ Laid(s) /\ Settling(s) /\ Len(s) \in Nat
  BY DEF JourneyInv, AdoptInv, Content
<1>1. \A i \in 1 .. Len(s) : Installed(s[i])' <=> Installed(s[i])
  BY <1>0, StackMember DEF StatesSame
<1>2. Stacked(s)'
  BY <1>0, StackFrame
<1>3. Laid(s)'
  <2>1. ASSUME NEW i \in 1 .. Len(s), Installed(s[i])'
        PROVE  /\ s[i] \in Plans
               /\ \A f \in Touched(s[i]) : journal[s[i]].entries[f].before = Held(s, i - 1, f)
               /\ \A j \in 1 .. i - 1 : Installed(s[j])' <=> Installed(s[j])
    <3>1. Installed(s[i]) /\ \A j \in 1 .. i - 1 : j \in 1 .. Len(s)
      BY <1>1, <2>1
    <3> QED BY <1>0, <1>1, <3>1 DEF Laid
  <2> QED BY <1>0, <2>1, LaidFrame
<1>4. Pending' <=> Pending
  <2>1. active # None => active \in Tx /\ Exists(active)
    BY <1>0 DEF TypeOK, LinkInv
  <2>2. active # None => (Finished(active)' <=> Finished(active))
    <3>1. \A t \in Tx : Exists(t) => (Finished(t)' <=> Finished(t))
      BY DEF StatesSame
    <3> QED BY <2>1, <3>1 DEF Finished
  <2> QED BY <2>2 DEF Pending, Finished
<1>5. job.pc # "idle" /\ job.tx = active => Pending
  BY <1>0, Running, TxFacts DEF Pending, HistoryInv
<1>6. ~Pending' => \A f \in Files : file'[f] = Held(s, Len(s), f)'
  <2>1. SUFFICES ASSUME ~Pending', NEW f \in Files PROVE file'[f] = Held(s, Len(s), f)'
    OBVIOUS
  <2>2. file'[f] = file[f]
    BY <1>4, <1>5, <2>1
  <2>3. file[f] = Held(s, Len(s), f)
    BY <1>0, <1>4, <2>1 DEF Settling
  <2>4. \A g : Held(s, Len(s), g)' = Held(s, Len(s), g)
    BY <1>0, <1>1, HeldKept
  <2> QED BY <2>2, <2>3, <2>4
<1>7. ASSUME NEW t \in Tx, NEW n \in Nat, Working(t)', n = Below(s, t)'
      PROVE  UnderWay(s, n, t)'
  <2>1. Working(t) /\ n = Below(s, t)
    BY <1>4, <1>7 DEF Working, Below
  <2>2. UnderWay(s, n, t) /\ Exists(t) /\ n <= Len(s)
    BY <1>0, <2>1, WorkingExists, BelowFacts DEF Settling
  <2>3. \A i \in 1 .. n : Installed(s[i])' <=> Installed(s[i])
    BY <1>0, <1>1, <2>2
  <2>4. job.pc # "idle" /\ job.tx = active => t = active
    BY <2>1 DEF Working
  <2>5. \A f \in Files : f \notin Touched(t) => file'[f] = file[f]
    BY <2>4
  <2> QED BY <1>0, <2>2, <2>3, <2>5, UnderWayFrame
<1>8. Settling(s)'
  BY <1>6, <1>7 DEF Settling
<1> QED BY <1>2, <1>3, <1>8 DEF Content

\* How a command goes on with a transaction that it has begun to work on.
Goes ==
    job'.pc # "idle" =>
        /\ job'.pc # "point"
        /\ job.pc # "idle" /\ job'.tx = job.tx
        /\ job'.pc = "settle" => job'.at = 1
        /\ job'.pc = "finish" => job'.tx \in Plans
        /\ job'.tx # active => job'.tx \in Plans /\ job'.pc \in OrphanPC

\* A step that writes at most the journal, and finishes nothing.
LEMMA ReturnGoes ==
    ASSUME ReturnInv, WayInv', JournalsKept, StatesSame, Goes, UNCHANGED <<active, edits>>,
           \A f \in Files : \/ file'[f] = file[f]
                            \/ job.pc # "idle" /\ job.tx = active /\ f \in Touched(active)
    PROVE  ReturnInv'
<1>1. SUFFICES ASSUME edits' = 0 PROVE Drained' /\ \E s \in Seq(Tx) : Content(s)'
  BY DEF ReturnInv, ContentInv
<1>2. JourneyInv /\ AdoptInv' /\ AdoptInv
  BY DEF ReturnInv, WayInv, JourneyInv
<1>3. PICK s \in Seq(Tx) : Content(s)
  BY <1>1 DEF ReturnInv, ContentInv
<1>4. Orphan(s)'
  <2>1. SUFFICES ASSUME job'.pc # "idle"
                 PROVE  /\ job'.tx # active =>
                              /\ \A i \in 1 .. Len(s) : s[i] # job'.tx
                              /\ journal'[job'.tx].predecessor = active
                              /\ job'.pc \in OrphanPC
                              /\ job'.tx \in Restores => job'.pc = "point"
                        /\ job'.tx = active => job'.pc # "point"
    BY DEF Orphan
  <2>2. job.tx \in Tx /\ journal[job.tx] # None
    BY <1>2, <2>1, Running DEF Goes, Exists
  <2>3. journal'[job.tx].predecessor = journal[job.tx].predecessor
    BY <2>2 DEF JournalsKept, SameBody
  <2>4. job.tx # active =>
            (\A i \in 1 .. Len(s) : s[i] # job.tx) /\ journal[job.tx].predecessor = active
    BY <1>3, <2>1 DEF Content, Orphan, Goes
  <2> QED BY <2>1, <2>3, <2>4, TxFacts DEF Goes
<1>5. Drained'
  <2>1. job'.pc = "settle" => job'.at = 1
    BY DEF Goes
  <2>2. ~(job'.pc = "finish" /\ job'.tx \in Restores)
    BY TxFacts DEF Goes
  <2>3. \A m \in 1 .. Len(journal'[job'.tx].sources) : ~(m < 1)
    OBVIOUS
  <2> QED BY <2>1, <2>2, <2>3 DEF Drained
<1>6. Content(s)'
  BY <1>2, <1>3, <1>4, ContentFrame DEF Goes
<1> QED BY <1>5, <1>6

LEMMA SameAside == TypeOK /\ UNCHANGED journal => JournalsKept /\ StatesSame
BY KeptSame DEF StatesSame, Installed, Finished

LEMMA StateAside ==
    ASSUME JourneyInv, job.pc # "idle", NEW s \in State \ {"installed", "restored"}, SetState(job.tx, s)
    PROVE  JournalsKept /\ StatesSame
<1>1. job.tx \in Tx /\ Exists(job.tx) /\ TypeOK /\ ~Finished(job.tx)
  BY Running DEF JourneyInv, AdoptInv, HistoryInv
<1>2. /\ JournalsKept /\ journal'[job.tx].state = s
      /\ \A u \in Tx : u # job.tx => journal'[u] = journal[u]
  BY <1>1, KeptState
<1>3. ASSUME NEW t \in Tx PROVE (Installed(t)' <=> Installed(t)) /\ (Finished(t)' <=> Finished(t))
  <2>1. CASE t = job.tx
    BY <1>1, <1>2, <2>1 DEF Installed, Finished
  <2>2. CASE t # job.tx
    BY <1>2, <2>2 DEF Installed, Finished
  <2> QED BY <2>1, <2>2
<1> QED BY <1>2, <1>3 DEF StatesSame

LEMMA PhaseAside ==
    ASSUME JourneyInv, job.pc # "idle", job.at \in Touched(job.tx), NEW p \in Phase,
           SetPhase(job.tx, job.at, p)
    PROVE  JournalsKept /\ StatesSame
<1>1. job.tx \in Tx /\ Exists(job.tx) /\ TypeOK
  BY Running DEF JourneyInv, AdoptInv
<1>2. /\ JournalsKept /\ journal'[job.tx].state = journal[job.tx].state
      /\ \A u \in Tx : u # job.tx => journal'[u] = journal[u]
  BY <1>1, KeptPhase
<1>3. ASSUME NEW t \in Tx PROVE (Installed(t)' <=> Installed(t)) /\ (Finished(t)' <=> Finished(t))
  <2>1. CASE t = job.tx
    BY <1>2, <2>1 DEF Installed, Finished
  <2>2. CASE t # job.tx
    BY <1>2, <2>2 DEF Installed, Finished
  <2> QED BY <2>1, <2>2
<1> QED BY <1>2, <1>3 DEF StatesSame

\* What is known of a command whose transaction active.json does not name.
LEMMA OrphanFacts ==
    ASSUME ReturnInv, edits = 0, job.pc # "idle", job.tx # active
    PROVE  /\ job.pc \in OrphanPC /\ (job.tx \in Restores => job.pc = "point")
           /\ job.tx \in Plans => \A f \in Touched(job.tx) : file[f] = Entryof(f).before
<1>1. PICK s \in Seq(Tx) : Content(s)
  BY DEF ReturnInv, ContentInv
<1>2. job.pc \in OrphanPC /\ (job.tx \in Restores => job.pc = "point")
  BY <1>1 DEF Content, Orphan
<1>3. ~Pending /\ job.tx \in Tx /\ Touched(job.tx) \in SUBSET Files
  BY Running DEF ReturnInv, WayInv, JourneyInv, HistoryInv, Pending
<1>4. UnderWay(s, Len(s), job.tx) /\ \A f \in Files : file[f] = Held(s, Len(s), f)
  BY <1>1, <1>3 DEF Content, Settling, Working, Below
<1> QED BY <1>2, <1>3, <1>4 DEF UnderWay, Replaces, Entryof

LEMMA ReturnAbandon ==
    ASSUME ReturnInv, WayInv', job.pc # "idle", Abandon, UNCHANGED <<file, active, edits>>
    PROVE  ReturnInv'
<1>0. JourneyInv /\ TypeOK /\ job \in Job
  BY Running DEF ReturnInv, WayInv, JourneyInv, AdoptInv
<1>1. CASE Applying /\ Goto("check", First(job.tx)) /\ UNCHANGED journal
  <2>1. job' = [pc |-> "check", tx |-> job.tx, at |-> First(job.tx)]
    BY <1>0, <1>1, GotoFacts
  <2>2. Goes
    BY <1>1, <2>1 DEF Goes, Applying, OrphanPC
  <2> QED BY <1>0, <1>1, <2>2, SameAside, ReturnGoes
<1>2. CASE Return /\ UNCHANGED journal
  <2>1. Goes
    BY <1>2 DEF Goes, Return, Idle
  <2> QED BY <1>0, <1>2, <2>1, SameAside, ReturnGoes
<1>3. CASE SetState(job.tx, "recoveryRequired") /\ Return
  <2>1. Goes
    BY <1>3 DEF Goes, Return, Idle
  <2>2. JournalsKept /\ StatesSame
    BY <1>0, <1>3, StateAside DEF State
  <2> QED BY <2>1, <2>2, ReturnGoes
<1> QED BY <1>1, <1>2, <1>3 DEF Abandon

LEMMA ReturnTurns ==
    ASSUME ReturnInv, WayInv', MarkBackedUp \/ MarkApplying \/ Check \/ MarkRestoring \/ Preflight,
           UNCHANGED <<edits, owed, faults>>
    PROVE  ReturnInv'
<1>0. JourneyInv /\ TypeOK /\ job \in Job /\ JobInv /\ job.pc # "idle" /\ UNCHANGED <<file, active, edits>> /\ AdoptInv
  BY Running DEF ReturnInv, WayInv, JourneyInv, AdoptInv, MarkBackedUp, MarkApplying, Check, MarkRestoring,
                 Preflight
<1>1. SUFFICES ASSUME edits = 0 PROVE ReturnInv'
  BY <1>0 DEF ReturnInv, ContentInv
<1>2. CASE MarkBackedUp
  <2>1. job.tx = active
    BY <1>0, <1>1, <1>2, OrphanFacts DEF MarkBackedUp, OrphanPC
  <2>2. job' = [pc |-> "begin", tx |-> job.tx, at |-> 1]
    BY <1>0, <1>2, GotoFacts DEF MarkBackedUp
  <2>3. Goes
    BY <1>0, <2>1, <2>2 DEF Goes
  <2>4. JournalsKept /\ StatesSame
    BY <1>0, <1>2, StateAside DEF State, MarkBackedUp
  <2> QED BY <1>0, <2>3, <2>4, ReturnGoes
<1>3. CASE MarkApplying
  <2>1. job.tx = active
    BY <1>0, <1>1, <1>3, OrphanFacts DEF MarkApplying, OrphanPC
  <2>2. job' = [pc |-> "intend", tx |-> job.tx, at |-> First(job.tx)]
    BY <1>0, <1>3, GotoFacts DEF MarkApplying
  <2>3. Goes
    BY <1>0, <2>1, <2>2 DEF Goes
  <2>4. JournalsKept /\ StatesSame
    BY <1>0, <1>3, StateAside DEF State, MarkApplying
  <2> QED BY <1>0, <2>3, <2>4, ReturnGoes
<1>4. CASE Check
  <2>0. job.at \in Touched(job.tx) /\ job.tx \in Plans
    BY <1>0, <1>4 DEF Check, JobInv, VisitPC, PlanPC
  <2>1. CASE Abandon
    BY <1>0, <2>1, ReturnAbandon
  <2>2. CASE SetState(job.tx, "recoveryRequired") /\ Return
    <3>1. Goes
      BY <2>2 DEF Goes, Return, Idle
    <3>2. JournalsKept /\ StatesSame
      BY <1>0, <2>2, StateAside DEF State
    <3> QED BY <1>0, <3>1, <3>2, ReturnGoes
  <2>3. CASE Ascend("check", "restoring") /\ UNCHANGED journal
    <3>1. job'.pc \in {"check", "restoring"} /\ job'.tx = job.tx
      BY <1>0, <2>3, Turned
    <3>2. Goes
      BY <1>0, <2>0, <3>1 DEF Goes, OrphanPC
    <3> QED BY <1>0, <2>3, <3>2, SameAside, ReturnGoes
  <2> QED BY <1>4, <2>1, <2>2, <2>3 DEF Check
<1>5. CASE MarkRestoring
  <2>0. job.tx \in Plans
    BY <1>0, <1>5 DEF MarkRestoring, JobInv, PlanPC
  <2>1. job' = [pc |-> "revert", tx |-> job.tx, at |-> Preceding(Touched(job.tx), PastEnd)]
    BY <1>0, <1>5, GotoFacts DEF MarkRestoring
  <2>2. Goes
    BY <1>0, <2>0, <2>1 DEF Goes, OrphanPC
  <2>3. JournalsKept /\ StatesSame
    BY <1>0, <1>5, StateAside DEF State, MarkRestoring
  <2> QED BY <1>0, <2>2, <2>3, ReturnGoes
<1>6. CASE Preflight
  <2>0. job.tx = active
    BY <1>0, <1>1, <1>6, OrphanFacts DEF Preflight, OrphanPC
  <2>1. CASE Abandon
    BY <1>0, <2>1, ReturnAbandon
  <2>2. CASE Ascend("preflight", "forward") /\ UNCHANGED journal
    <3>1. job'.pc \in {"preflight", "forward"} /\ job'.tx = job.tx
      BY <1>0, <2>2, Turned
    <3>2. Goes
      BY <1>0, <2>0, <3>1 DEF Goes
    <3> QED BY <1>0, <2>2, <3>2, SameAside, ReturnGoes
  <2> QED BY <1>6, <2>1, <2>2 DEF Preflight
<1> QED BY <1>2, <1>3, <1>4, <1>5, <1>6

LEMMA ReturnCapture ==
    ASSUME ReturnInv, WayInv', Capture, UNCHANGED <<edits, owed, faults>>
    PROVE  ReturnInv'
<1>0. /\ JourneyInv /\ TypeOK /\ job \in Job /\ job.pc = "capture" /\ job.pc # "idle" /\ AdoptInv
      /\ UNCHANGED <<file, active, edits>> /\ job.at \in Touched(job.tx)
  BY Running DEF ReturnInv, WayInv, JourneyInv, AdoptInv, Capture, JobInv, VisitPC
<1>1. SUFFICES ASSUME edits = 0 PROVE ReturnInv'
  BY <1>0 DEF ReturnInv, ContentInv
<1>2. job.tx = active
  BY <1>0, <1>1, OrphanFacts DEF OrphanPC
<1>3. CASE Abandon
  BY <1>0, <1>3, ReturnAbandon
<1>4. ASSUME NEW p \in Phase, SetPhase(job.tx, job.at, p), Goes
      PROVE  ReturnInv'
  BY <1>0, <1>4, PhaseAside, ReturnGoes
<1>5. CASE SetPhase(job.tx, job.at, "published") /\ Ascend("intend", "commit")
  <2>1. job'.pc \in {"intend", "commit"} /\ job'.tx = job.tx
    BY <1>0, <1>5, Turned
  <2>2. Goes
    BY <1>0, <1>2, <2>1 DEF Goes
  <2> QED BY <1>4, <1>5, <2>2 DEF Phase
<1>6. CASE Compensating /\ SetPhase(job.tx, job.at, "reverted") /\ Descend("revert", "finish")
  <2>1. job'.pc \in {"revert", "finish"} /\ job'.tx = job.tx
    BY <1>0, <1>6, Turned
  <2>2. Goes
    BY <1>0, <1>2, <1>6, <2>1 DEF Goes, Compensating
  <2> QED BY <1>4, <1>6, <2>2 DEF Phase
<1>7. CASE SetPhase(job.tx, job.at, "reverted") /\ Ascend("forward", "settle")
  <2>1. job'.pc \in {"forward", "settle"} /\ job'.tx = job.tx /\ (job'.pc = "settle" => job'.at = 1)
    BY <1>0, <1>7, AscendFacts
  <2>2. Goes
    BY <1>0, <1>2, <2>1 DEF Goes
  <2> QED BY <1>4, <1>7, <2>2 DEF Phase
<1> QED BY <1>3, <1>5, <1>6, <1>7 DEF Capture

LEMMA ReturnVisits ==
    ASSUME ReturnInv, WayInv', Intend \/ Revert \/ Forward, UNCHANGED <<edits, owed, faults>>
    PROVE  ReturnInv'
<1> DEFINE e == Entryof(job.at)
<1>0. /\ JourneyInv /\ TypeOK /\ job \in Job /\ job.pc # "idle" /\ AdoptInv /\ JobInv
      /\ UNCHANGED <<file, active, edits>> /\ job.at \in Touched(job.tx)
  BY Running DEF ReturnInv, WayInv, JourneyInv, AdoptInv, Intend, Revert, Forward, JobInv, VisitPC
<1>1. SUFFICES ASSUME edits = 0 PROVE ReturnInv'
  BY <1>0 DEF ReturnInv, ContentInv
<1>2. CASE Abandon
  BY <1>0, <1>2, ReturnAbandon
<1>3. ASSUME NEW p \in Phase, SetPhase(job.tx, job.at, p), Goes
      PROVE  ReturnInv'
  BY <1>0, <1>3, PhaseAside, ReturnGoes
<1>4. ASSUME NEW x, NEW y, NEW p \in Phase, Prepare(job.tx, job.at, x, y, p), job.tx = active
      PROVE  ReturnInv'
  <2>1. job' = [pc |-> "publish", tx |-> job.tx, at |-> job.at]
    BY <1>0, <1>4, GotoFacts DEF Prepare
  <2>2. Goes
    BY <1>0, <1>4, <2>1 DEF Goes
  <2> QED BY <1>3, <1>4, <2>2 DEF Prepare
<1>5. CASE Intend
  <2>1. job.tx = active
    BY <1>0, <1>1, <1>5, OrphanFacts DEF Intend, OrphanPC
  <2>2. Abandon \/ Prepare(job.tx, job.at, e.before, e.after, "intent")
    BY <1>5 DEF Intend, Entryof
  <2> QED BY <1>2, <1>4, <2>1, <2>2 DEF Phase
<1>6. CASE Forward
  <2>1. job.tx = active
    BY <1>0, <1>1, <1>6, OrphanFacts DEF Forward, OrphanPC
  <2>2. CASE Prepare(job.tx, job.at, e.before, e.after, "restoreIntent")
    BY <1>4, <2>1, <2>2 DEF Phase
  <2>3. CASE SetPhase(job.tx, job.at, "reverted") /\ Ascend("forward", "settle")
    <3>1. job'.pc \in {"forward", "settle"} /\ job'.tx = job.tx /\ (job'.pc = "settle" => job'.at = 1)
      BY <1>0, <2>3, AscendFacts
    <3>2. Goes
      BY <1>0, <2>1, <3>1 DEF Goes
    <3> QED BY <1>3, <2>3, <3>2 DEF Phase
  <2> QED BY <1>2, <1>6, <2>2, <2>3 DEF Forward, Entryof
<1>7. CASE Revert
  <2>0. job.tx \in Plans
    BY <1>0, <1>7 DEF Revert, JobInv, PlanPC
  <2>1. CASE file[job.at] = e.after /\ e.after # e.before /\ Prepare(job.tx, job.at, e.after, e.before, "restoreIntent")
    <3>1. job.tx = active
      BY <1>0, <1>1, <2>0, <2>1, OrphanFacts
    <3> QED BY <1>4, <2>1, <3>1 DEF Phase
  <2>2. CASE SetPhase(job.tx, job.at, "reverted") /\ Descend("revert", "finish")
    <3>1. job'.pc \in {"revert", "finish"} /\ job'.tx = job.tx
      BY <1>0, <2>2, Turned
    <3>2. Goes
      BY <1>0, <2>0, <3>1 DEF Goes, OrphanPC
    <3> QED BY <1>3, <2>2, <3>2 DEF Phase
  <2>3. CASE SetState(job.tx, "recoveryRequired") /\ Return
    <3>1. Goes
      BY <2>3 DEF Goes, Return, Idle
    <3>2. JournalsKept /\ StatesSame
      BY <1>0, <2>3, StateAside DEF State
    <3> QED BY <1>0, <3>1, <3>2, ReturnGoes
  <2> QED BY <1>2, <1>7, <2>1, <2>2, <2>3 DEF Revert, Entryof
<1> QED BY <1>5, <1>6, <1>7

LEMMA ReturnPublishes ==
    ASSUME ReturnInv, WayInv', Validate \/ Exchange, UNCHANGED <<edits, owed, faults>>
    PROVE  ReturnInv'
<1>0. /\ JourneyInv /\ TypeOK /\ job \in Job /\ job.pc \in {"publish", "exchange"} /\ job.pc # "idle"
      /\ AdoptInv /\ UNCHANGED <<active, edits>> /\ job.at \in Touched(job.tx)
  BY Running DEF ReturnInv, WayInv, JourneyInv, AdoptInv, Validate, Exchange, JobInv, VisitPC
<1>1. SUFFICES ASSUME edits = 0 PROVE ReturnInv'
  BY <1>0 DEF ReturnInv, ContentInv
<1>2. job.tx = active
  BY <1>0, <1>1, OrphanFacts DEF OrphanPC
<1>3. CASE Validate
  <2>1. CASE Abandon
    BY <1>0, <1>3, <2>1, ReturnAbandon DEF Validate
  <2>2. CASE Goto("exchange", job.at) /\ UNCHANGED journal
    <3>1. job' = [pc |-> "exchange", tx |-> job.tx, at |-> job.at]
      BY <1>0, <2>2, GotoFacts
    <3>2. Goes /\ UNCHANGED file
      BY <1>0, <1>2, <1>3, <3>1 DEF Goes, Validate
    <3> QED BY <1>0, <2>2, <3>2, SameAside, ReturnGoes
  <2> QED BY <1>3, <2>1, <2>2 DEF Validate
<1>4. CASE Exchange
  <2>1. /\ job' = [pc |-> "capture", tx |-> job.tx, at |-> job.at] /\ UNCHANGED journal
        /\ \A f \in Files : f # job.at => file'[f] = file[f]
    BY <1>0, <1>4, ExchangeFacts
  <2>2. Goes
    BY <1>0, <1>2, <2>1 DEF Goes
  <2>3. \A f \in Files : \/ file'[f] = file[f]
                         \/ job.pc # "idle" /\ job.tx = active /\ f \in Touched(active)
    BY <1>0, <1>2, <2>1
  <2> QED BY <1>0, <2>1, <2>2, <2>3, SameAside, ReturnGoes
<1> QED BY <1>3, <1>4

LEMMA ReturnCrash ==
    ASSUME ReturnInv, WayInv', Crash
    PROVE  ReturnInv'
<1>1. TypeOK /\ UNCHANGED <<file, journal, active, edits>> /\ Goes
  BY DEF ReturnInv, WayInv, JourneyInv, AdoptInv, Crash, Return, Idle, Goes
<1> QED BY <1>1, SameAside, ReturnGoes

LEMMA ReturnRecover ==
    ASSUME AnyRecover = FALSE, ReturnInv, WayInv', NEW t \in Tx, RecoverCommand(t)
    PROVE  ReturnInv'
<1>0. JourneyInv /\ TypeOK /\ UNCHANGED <<file, journal, active, edits>> /\ t = active /\ ~Finished(t) /\ Exists(t)
  BY DEF ReturnInv, WayInv, JourneyInv, AdoptInv, RecoverCommand, Recover
<1>1. SUFFICES ASSUME edits = 0 PROVE Drained' /\ \E s \in Seq(Tx) : Content(s)'
  BY <1>0 DEF ReturnInv, ContentInv
<1>2. job'.pc \in {"preflight", "check"} /\ job'.tx = t
  BY DEF RecoverCommand, Recover
<1>3. PICK s \in Seq(Tx) : Content(s)
  BY <1>1 DEF ReturnInv, ContentInv
<1>4. Drained' /\ Orphan(s)'
  BY <1>0, <1>2 DEF Drained, Orphan
<1>5. Pending
  BY <1>0, TxFacts DEF Pending
<1>6. Content(s)'
  BY <1>0, <1>2, <1>3, <1>4, <1>5, SameAside, ContentFrame
<1> QED BY <1>4, <1>6

LEMMA ReturnStutter ==
    ASSUME ReturnInv, WayInv', UNCHANGED vars
    PROVE  ReturnInv'
<1>0. JourneyInv /\ AdoptInv /\ TypeOK /\ UNCHANGED <<file, journal, active, job, edits>>
  BY DEF ReturnInv, WayInv, JourneyInv, AdoptInv, vars
<1>1. SUFFICES ASSUME edits = 0 PROVE Drained' /\ \E s \in Seq(Tx) : Content(s)'
  BY <1>0 DEF ReturnInv, ContentInv
<1>2. PICK s \in Seq(Tx) : Content(s)
  BY <1>1 DEF ReturnInv, ContentInv
<1>3. Drained'
  BY <1>0, <1>1 DEF ReturnInv, ContentInv, Drained
<1>4. Orphan(s)'
  BY <1>0, <1>2 DEF Content, Orphan
<1>5. Content(s)'
  BY <1>0, <1>2, <1>4, SameAside, ContentFrame
<1> QED BY <1>3, <1>5

---------------------------------------------------------------------------
(* active.json names the transaction of the command *)

LEMMA SourcesFacts ==
    ASSUME TypeOK, LinkInv, NEW t \in Restores, Exists(t)
    PROVE  /\ journal[t].sources \in Seq(Plans) /\ Len(journal[t].sources) \in Nat
           /\ Len(journal[t].sources) \in 1 .. Len(journal[t].sources)
<1>1. t \in Tx /\ IsJournal(journal[t])
  BY TxFacts DEF TypeOK, Exists
<1>2. journal[t].sources \in Seq(Plans) /\ journal[t].sources # <<>>
  BY <1>1, JournalFacts DEF LinkInv
<1> QED BY <1>2

LEMMA UnderWayPrefix ==
    ASSUME TypeOK, LinkInv, NEW s, NEW u, NEW n \in Nat, \A i \in 1 .. n : u[i] = s[i],
           NEW t \in Tx, Exists(t), UnderWay(s, n, t)
    PROVE  UnderWay(u, n, t)
<1>1. ASSUME NEW k \in Nat, k <= n PROVE \A f : Held(u, k, f) = Held(s, k, f)
  <2>1. \A i \in 1 .. k : u[i] = s[i]
    BY <1>1
  <2> QED BY <1>1, <2>1, HeldPrefix
<1>2. t \in Plans => Replaces(u, n, t)
  BY <1>1 DEF UnderWay, Replaces
<1>3. ASSUME t \in Restores PROVE \E pos : Undoes(u, n, journal[t], pos)
  <2>1. PICK pos : Undoes(s, n, journal[t], pos)
    BY <1>3 DEF UnderWay
  <2>2. PICK k \in Nat : k = Len(journal[t].sources) /\ k \in 1 .. k
    BY <1>3, SourcesFacts
  <2>3. \A m \in 1 .. k : pos[m] \in 1 .. n
    BY <2>1, <2>2 DEF Undoes
  <2>4. pos[k] - 1 \in Nat /\ pos[k] - 1 <= n
    BY <2>2, <2>3
  <2>5. \A f : Held(u, pos[k] - 1, f) = Held(s, pos[k] - 1, f)
    BY <1>1, <2>4
  <2>6. \A m \in 1 .. k : u[pos[m]] = s[pos[m]]
    BY <2>3
  <2>7. Undoes(u, n, journal[t], pos)
    BY <2>1, <2>2, <2>5, <2>6 DEF Undoes
  <2> QED BY <2>7
<1> QED BY <1>2, <1>3 DEF UnderWay

LEMMA ReturnPoint ==
    ASSUME ReturnInv, WayInv', Point, UNCHANGED <<edits, owed, faults>>
    PROVE  ReturnInv'
<1> DEFINE t == job.tx
<1>0. /\ JourneyInv /\ AdoptInv /\ TypeOK /\ LinkInv /\ HistoryInv /\ UNCHANGED <<file, journal, edits>>
      /\ job.pc = "point" /\ job \in Job /\ t \in Tx /\ Exists(t) /\ active' = t /\ ~Finished(t)
  BY Running DEF ReturnInv, WayInv, JourneyInv, AdoptInv, HistoryInv, Point
<1>1. SUFFICES ASSUME edits = 0 PROVE Drained' /\ \E s \in Seq(Tx) : Content(s)'
  BY <1>0 DEF ReturnInv, ContentInv
<1>2. job'.pc \in {"preflight", "backup"} /\ job'.tx = t
  <2>1. Goto("preflight", First(t)) \/ Goto("backup", 1)
    BY DEF Point
  <2> QED BY <1>0, <2>1, GotoFacts
<1>3. PICK s \in Seq(Tx) : Content(s)
  BY <1>1 DEF ReturnInv, ContentInv
<1>4. t # active /\ (\A i \in 1 .. Len(s) : s[i] # t) /\ journal[t].predecessor = active
  BY <1>0, <1>3 DEF Content, Orphan
<1>5. PICK r \in Tx : r = t
  BY <1>0
<1> HIDE DEF t
<1> DEFINE u == Append(s, r)
<1>6. /\ u \in Seq(Tx) /\ Len(u) = Len(s) + 1 /\ Len(s) \in Nat /\ u[Len(s) + 1] = r /\ u # <<>>
      /\ \A i \in 1 .. Len(s) : u[i] = s[i]
  BY AppendFacts
<1> HIDE DEF u
<1>7. \A k, f : Held(u, k, f)' = Held(u, k, f)
  BY <1>0 DEF Held, Live, LiveAt, Installed, Touched
<1>8. ASSUME NEW k \in Nat, k <= Len(s) PROVE \A f : Held(u, k, f) = Held(s, k, f)
  <2>1. \A i \in 1 .. k : u[i] = s[i]
    BY <1>6, <1>8
  <2> QED BY <1>8, <2>1, HeldPrefix
<1>9. Stacked(u)'
  <2>0. \A i \in 1 .. Len(u) : i \in 1 .. Len(s) \/ i = Len(s) + 1
    BY <1>6
  <2>1. ASSUME NEW i \in 1 .. Len(u)
        PROVE  Exists(u[i]) /\ journal[u[i]].predecessor = IF i = 1 THEN None ELSE u[i - 1]
    <3>1. CASE i = Len(s) + 1
      <4>1. CASE s = <<>>
        BY <1>0, <1>3, <1>4, <1>5, <1>6, <3>1, <4>1 DEF Content, Stacked
      <4>2. CASE s # <<>>
        <5>1. Len(s) \in 1 .. Len(s) /\ i # 1 /\ i - 1 = Len(s)
          BY <1>6, <3>1, <4>2
        <5>2. u[i - 1] = active
          BY <1>3, <1>6, <4>2, <5>1 DEF Content, Stacked
        <5> QED BY <1>0, <1>4, <1>5, <1>6, <3>1, <5>1, <5>2
      <4> QED BY <4>1, <4>2
    <3>2. CASE i \in 1 .. Len(s)
      <4>1. i # 1 => u[i - 1] = s[i - 1]
        <5>1. i # 1 => i - 1 \in 1 .. Len(s)
          BY <1>6, <3>2
        <5> QED BY <1>6, <5>1
      <4> QED BY <1>3, <1>6, <3>2, <4>1 DEF Content, Stacked
    <3> QED BY <2>0, <3>1, <3>2
  <2>2. ASSUME NEW i \in 1 .. Len(u), NEW j \in 1 .. Len(u), u[i] = u[j] PROVE i = j
    BY <1>3, <1>4, <1>5, <1>6, <2>0, <2>2 DEF Content, Stacked
  <2>3. active' = u[Len(u)]
    BY <1>0, <1>5, <1>6
  <2> QED BY <1>0, <1>6, <2>1, <2>2, <2>3 DEF Stacked, Exists
<1>10. Orphan(u)' /\ Drained'
  BY <1>0, <1>2 DEF Orphan, Drained
<1>11. Laid(u)'
  <2>1. ASSUME NEW i \in 1 .. Len(u), Installed(u[i])
        PROVE  /\ u[i] \in Plans
               /\ \A f \in Touched(u[i]) : journal[u[i]].entries[f].before = Held(u, i - 1, f)
    <3>1. i # Len(s) + 1
      BY <1>0, <1>5, <1>6, <2>1 DEF Installed, Finished
    <3>2. i \in 1 .. Len(s) /\ i - 1 \in Nat /\ i - 1 <= Len(s)
      BY <1>6, <3>1
    <3>3. u[i] = s[i] /\ \A f : Held(u, i - 1, f) = Held(s, i - 1, f)
      BY <1>6, <1>8, <3>2
    <3> QED BY <1>3, <2>1, <3>2, <3>3 DEF Content, Laid
  <2>2. \A p \in Plans : Exists(p) => \A f \in Touched(p) : journal[p].entries[f].after.own = Payload[p]
    BY <1>3 DEF Content, Laid
  <2>3. /\ \A p : (Exists(p)' <=> Exists(p)) /\ Touched(p)' = Touched(p)
        /\ \A i : Installed(u[i])' <=> Installed(u[i])
    BY <1>0 DEF Exists, Touched, Installed
  <2>4. \A i : Touched(u[i])' = Touched(u[i])
    BY <1>0 DEF Touched
  <2> QED BY <1>0, <1>7, <2>1, <2>2, <2>3, <2>4 DEF Laid
<1>12. Settling(u)'
  <2>1. Pending'
    BY <1>0, TxFacts DEF Pending, Finished
  <2>2. ASSUME NEW x \in Tx, NEW n \in Nat, Working(x)', n = Below(u, x)'
        PROVE  UnderWay(u, n, x)'
    <3>1. x = r /\ n = Len(s)
      BY <1>0, <1>2, <1>5, <1>6, <2>2 DEF Working, Below
    <3>2. Working(r) /\ Len(s) = Below(s, r)
      BY <1>0, <1>4, <1>5 DEF Working, Below, t
    <3>3. UnderWay(s, n, r)
      BY <1>3, <3>1, <3>2 DEF Content, Settling
    <3>4. UnderWay(u, n, r)
      BY <1>0, <1>5, <1>6, <3>1, <3>3, UnderWayPrefix
    <3>5. UnderWay(u, n, r)'
      BY <1>0, <1>7, <3>4 DEF UnderWay, Replaces, Undoes, Touched, Installed
    <3> QED BY <3>1, <3>5
  <2> QED BY <2>1, <2>2 DEF Settling
<1> QED BY <1>6, <1>9, <1>10, <1>11, <1>12 DEF Content

---------------------------------------------------------------------------
(* The first journal write of a transaction *)

LEMMA ReturnBegins ==
    ASSUME ReturnInv, WayInv', edits = 0, NEW t \in Tx, ~Exists(t), job = Idle, EnsureIdle(t),
           NEW j, IsJournal(j), journal' = [journal EXCEPT ![t] = j], j.predecessor = active,
           j.state \notin {"installed", "restored"},
           t \in Plans => \A f \in DOMAIN j.entries :
                             j.entries[f].before = file[f] /\ j.entries[f].after.own = Payload[t],
           t \in Restores => \A s \in Seq(Tx) : Content(s) /\ (\A f \in Files : file[f] = Held(s, Len(s), f))
                                => \E pos : Undoes(s, Len(s), j, pos),
           job' = [pc |-> "point", tx |-> t, at |-> 1],
           UNCHANGED <<file, active, edits>>
    PROVE  ReturnInv'
<1>0. TypeOK /\ LinkInv /\ DOMAIN journal = Tx
  BY DEF ReturnInv, WayInv, JourneyInv, AdoptInv, TypeOK
<1>1. SUFFICES Drained' /\ \E s \in Seq(Tx) : Content(s)'
  BY DEF ReturnInv, ContentInv
<1>2. PICK s \in Seq(Tx) : Content(s)
  BY DEF ReturnInv, ContentInv
<1>3. Stacked(s) /\ Laid(s) /\ Settling(s) /\ Len(s) \in Nat
  BY <1>2 DEF Content
<1>4. journal'[t] = j /\ \A x \in Tx : x # t => journal'[x] = journal[x]
  BY <1>0
<1>5. \A i \in 1 .. Len(s) : s[i] \in Tx /\ Exists(s[i]) /\ s[i] # t
  BY <1>3, StackMember
<1>6. active # t /\ ~Pending
  BY <1>0, TxFacts DEF LinkInv, EnsureIdle, Pending, Exists, Finished
<1>7. ASSUME NEW i \in 1 .. Len(s)
      PROVE  /\ journal'[s[i]] = journal[s[i]] /\ Installed(s[i])' = Installed(s[i])
             /\ Touched(s[i])' = Touched(s[i])
  BY <1>4, <1>5 DEF Installed, Touched
<1>8. ASSUME NEW k \in Nat, k <= Len(s) PROVE \A f : Held(s, k, f)' = Held(s, k, f)
  <2>1. \A i \in 1 .. k : (Installed(s[i])' <=> Installed(s[i])) /\ Touched(s[i])' = Touched(s[i])
    BY <1>3, <1>7, <1>8
  <2> QED BY <1>8, <2>1, HeldFrame
<1>9. Stacked(s)'
  <2>1. \A i \in 1 .. Len(s) : Exists(s[i])' /\ journal'[s[i]].predecessor = IF i = 1 THEN None ELSE s[i - 1]
    BY <1>3, <1>7 DEF Stacked, Exists
  <2> QED BY <1>3, <2>1 DEF Stacked
<1>10. Orphan(s)' /\ Drained'
  <2>1. job'.pc = "point" /\ job'.tx = t /\ journal'[t].predecessor = active
    BY <1>4
  <2>2. Drained'
    BY <2>1 DEF Drained
  <2>3. Orphan(s)'
    BY <1>5, <1>6, <2>1 DEF Orphan, OrphanPC
  <2> QED BY <2>2, <2>3
<1>11. Laid(s)'
  <2>1. ASSUME NEW p \in Plans, Exists(p)', NEW f \in Touched(p)'
        PROVE  journal'[p].entries[f].after.own = Payload[p]
    <3>1. CASE p = t
      BY <1>4, <2>1, <3>1 DEF Touched
    <3>2. CASE p # t
      <4>1. p \in Tx /\ journal'[p] = journal[p]
        BY <1>4, <3>2, TxFacts
      <4> QED BY <1>3, <2>1, <4>1 DEF Touched, Exists, Laid
    <3> QED BY <3>1, <3>2
  <2>2. ASSUME NEW i \in 1 .. Len(s), Installed(s[i])'
        PROVE  /\ s[i] \in Plans
               /\ \A f \in Touched(s[i])' : journal'[s[i]].entries[f].before = Held(s, i - 1, f)'
    <3>1. i - 1 \in Nat /\ i - 1 <= Len(s) /\ Installed(s[i])
      BY <1>7, <2>2
    <3>2. \A f : Held(s, i - 1, f)' = Held(s, i - 1, f)
      BY <1>8, <3>1
    <3>3. s[i] \in Plans /\ \A f \in Touched(s[i]) : journal[s[i]].entries[f].before = Held(s, i - 1, f)
      BY <1>3, <3>1 DEF Laid
    <3>4. journal'[s[i]] = journal[s[i]]
      BY <1>7
    <3> QED BY <3>2, <3>3, <3>4 DEF Touched
  <2> QED BY <2>1, <2>2 DEF Laid
<1>12. \A f \in Files : file[f] = Held(s, Len(s), f) /\ Held(s, Len(s), f)' = Held(s, Len(s), f)
  BY <1>3, <1>6, <1>8 DEF Settling
<1>13. DOMAIN j.entries \in SUBSET Files /\ Touched(t)' = DOMAIN j.entries
  BY <1>4, JournalFacts DEF Touched
<1>14. UnderWay(s, Len(s), t)'
  <2>1. ASSUME t \in Plans PROVE Replaces(s, Len(s), t)'
    BY <1>4, <1>12, <1>13, <2>1 DEF Replaces
  <2>2. ASSUME t \in Restores PROVE (\E pos : Undoes(s, Len(s), journal[t], pos))'
    <3>1. PICK pos : Undoes(s, Len(s), j, pos)
      BY <1>2, <1>12, <2>2
    <3>2. PICK k \in Nat : k = Len(j.sources) /\ k \in 1 .. k
      <4>1. j.sources \in Seq(Plans) /\ j.sources # <<>>
        <5>1. LinkInv' /\ Exists(t)'
          BY <1>4, JournalFacts DEF WayInv, JourneyInv, AdoptInv, Exists
        <5> QED BY <1>4, <2>2, <5>1, JournalFacts DEF LinkInv
      <4> QED BY <4>1
    <3>3. pos[k] \in 1 .. Len(s)
      BY <3>1, <3>2 DEF Undoes
    <3>4. \A f : Held(s, pos[k] - 1, f)' = Held(s, pos[k] - 1, f)
      <4>1. pos[k] - 1 \in Nat /\ pos[k] - 1 <= Len(s)
        BY <1>3, <3>3
      <4> QED BY <1>8, <4>1
    <3>5. Undoes(s, Len(s), j, pos)'
      BY <1>7, <3>1, <3>2, <3>4 DEF Undoes
    <3> QED BY <1>4, <3>5
  <2> QED BY <2>1, <2>2 DEF UnderWay
<1>15. Settling(s)'
  <2>1. ~Pending'
    <3>1. active # None => active \in Tx /\ journal'[active] = journal[active]
      BY <1>0, <1>4, <1>6 DEF TypeOK
    <3> QED BY <1>6, <3>1 DEF Pending, Finished
  <2>2. ASSUME NEW x \in Tx, NEW n \in Nat, Working(x)', n = Below(s, x)'
        PROVE  x = t /\ n = Len(s)
    BY <1>6, <2>1, <2>2 DEF Working, Below
  <2>3. \A x \in Tx, n \in Nat : Working(x)' /\ n = Below(s, x)' => UnderWay(s, n, x)'
    BY <1>14, <2>2
  <2>4. \A f \in Files : file'[f] = Held(s, Len(s), f)'
    BY <1>12
  <2> QED BY <2>3, <2>4 DEF Settling
<1> QED BY <1>9, <1>10, <1>11, <1>15 DEF Content

LEMMA ReturnApplies ==
    ASSUME ReturnInv, WayInv', edits = 0, NEW t \in Plans, BeginApply(t), UNCHANGED <<edits, owed, faults>>
    PROVE  ReturnInv'
<1> DEFINE replaced == {f \in Touches[t] : file[f].own # Payload[t]}
           after(f) == [file[f] EXCEPT !.own = Payload[t]]
           es == [f \in replaced |-> [before |-> file[f], after |-> after(f), phase |-> "planned"]]
           j == [state |-> "planned", entries |-> es, predecessor |-> active, sources |-> <<>>]
<1>0. TypeOK /\ AdoptInv'
  BY DEF ReturnInv, WayInv, JourneyInv, AdoptInv
<1>1. journal' = [journal EXCEPT ![t] = j] /\ t \in Tx /\ t \notin Restores
  BY TxFacts DEF BeginApply
<1>2. journal'[t] = j
  BY <1>0, <1>1 DEF TypeOK
<1>3. j.predecessor = active /\ j.state = "planned" /\ j.entries = es
  OBVIOUS
<1>4. ASSUME NEW f \in replaced PROVE es[f].before = file[f] /\ es[f].after.own = Payload[t]
  <2>1. f \in Files
    BY TouchesAssumption
  <2>2. file[f] \in Document
    BY <1>0, <2>1 DEF TypeOK
  <2>3. after(f).own = Payload[t]
    BY <2>2 DEF Document
  <2> QED BY <2>3
<1>5. DOMAIN j.entries = replaced
  BY <1>3
<1>6. job' = [pc |-> "point", tx |-> t, at |-> 1]
  BY DEF BeginApply
<1> HIDE DEF j, es, replaced
<1>7. IsJournal(j)
  BY <1>0, <1>1, <1>2, <1>6 DEF AdoptInv, TypeOK
<1>8. \A f \in DOMAIN j.entries : j.entries[f].before = file[f] /\ j.entries[f].after.own = Payload[t]
  BY <1>3, <1>4, <1>5
<1>9. ~Exists(t) /\ job = Idle /\ EnsureIdle(t) /\ UNCHANGED <<file, active, edits>>
  BY DEF BeginApply
<1> QED BY <1>1, <1>3, <1>6, <1>7, <1>8, <1>9, ReturnBegins

\* j is the journal of the restore that undoes the newest n installed transactions.
Reverses(j, n) ==
    /\ n \in DOMAIN Chain
    /\ j.sources \in Seq(Tx) /\ Len(j.sources) = n /\ \A m \in 1 .. n : j.sources[m] = Chain[m]
    /\ \A f : f \notin DOMAIN j.entries => \A m \in 1 .. n : f \notin Touched(j.sources[m])
    /\ \A f \in DOMAIN j.entries :
          Target(f, j.sources) # Conflict /\ j.entries[f].after = Target(f, j.sources)

\* It leads to what the stack held below its oldest source.
LEMMA RestoreUndoes ==
    ASSUME TypeOK, LinkInv, NEW s \in Seq(Tx), Stacked(s), Laid(s),
           \A f \in Files : file[f] = Held(s, Len(s), f),
           NEW n \in Nat, NEW j, Reverses(j, n)
    PROVE  \E pos : Undoes(s, Len(s), j, pos)
<1> DEFINE sources == j.sources
           owned == DOMAIN j.entries
<1>11. /\ n \in DOMAIN Chain
       /\ sources \in Seq(Tx) /\ Len(sources) = n /\ \A m \in 1 .. n : sources[m] = Chain[m]
       /\ \A f : f \notin owned => \A m \in 1 .. n : f \notin Touched(sources[m])
       /\ \A f \in owned : Target(f, sources) # Conflict /\ j.entries[f].after = Target(f, sources)
  BY DEF Reverses
<1> HIDE DEF sources, owned
<1> DEFINE c == Chain
<1>1. PICK pos : Covers(s, c, pos, Len(s))
  BY ChainPlaces
<1>2. c \in Seq(Tx) /\ Len(c) \in Nat /\ n \in 1 .. Len(c) /\ n \in 1 .. n /\ Len(s) \in Nat
  BY <1>11, ChainPlaces
<1>3. sources \in Seq(Tx) /\ Len(sources) = n /\ \A m \in 1 .. n : sources[m] = c[m]
  BY <1>11 DEF c
<1> HIDE DEF c
<1> DEFINE p == [m \in 1 .. n |-> pos[m]]
<1>4. ASSUME NEW m \in 1 .. n PROVE m \in 1 .. Len(c) /\ p[m] = pos[m]
  BY <1>2
<1> HIDE DEF p
<1>5. p \in [1 .. n -> 1 .. Len(s)]
  BY <1>1, <1>4 DEF Covers, p
<1>6. \A m \in 1 .. n : sources[m] = s[p[m]]
  BY <1>1, <1>3, <1>4 DEF Covers
<1>7. \A l, m \in 1 .. n : l < m => p[m] < p[l]
  BY <1>1, <1>4 DEF Covers
<1>8. ASSUME NEW i \in 1 .. Len(s), i >= p[n], Installed(s[i]) PROVE \E m \in 1 .. n : p[m] = i
  <2>1. i + Len(s) >= Len(s)
    BY <1>2
  <2>2. PICK m \in 1 .. Len(c) : pos[m] = i
    BY <1>1, <1>8, <2>1 DEF Covers
  <2>3. ~(n < m)
    <3>1. SUFFICES ASSUME n < m PROVE FALSE
      OBVIOUS
    <3>2. pos[m] < pos[n]
      BY <1>1, <1>2, <3>1 DEF Covers
    <3>3. p[n] = pos[n] /\ p[n] \in 1 .. Len(s)
      BY <1>2, <1>4, <1>5
    <3> QED BY <1>8, <2>2, <3>2, <3>3
  <2>4. m \in 1 .. n
    BY <1>2, <2>3
  <2> QED BY <1>4, <2>2, <2>4
<1>9. ASSUME NEW f \in Files
      PROVE  IF f \in owned THEN j.entries[f].after = Held(s, p[n] - 1, f)
             ELSE file[f] = Held(s, p[n] - 1, f)
  <2>1. file[f] = Held(s, Len(s), f) /\ p[n] = pos[n]
    BY <1>2, <1>4
  <2>2. /\ Target(f, sources) # Conflict => Target(f, sources) = Held(s, p[n] - 1, f)
        /\ (\A m \in 1 .. n : f \notin Touched(sources[m])) => Held(s, Len(s), f) = Held(s, p[n] - 1, f)
    <3>1. Takes(s, f, c, pos, n, sources)
      BY <1>1, <1>2, <1>3, <2>1 DEF Takes
    <3>2. /\ Target(f, sources) # Conflict => Target(f, sources) = Held(s, pos[n] - 1, f)
          /\ (\A m \in 1 .. n : f \notin Touched(sources[m])) => Held(s, Len(s), f) = Held(s, pos[n] - 1, f)
      BY <3>1, TargetHeld
    <3> QED BY <2>1, <3>2
  <2>3. f \notin owned => \A m \in 1 .. n : f \notin Touched(sources[m])
    BY <1>11
  <2> QED BY <1>11, <2>1, <2>2, <2>3
<1>10. Undoes(s, Len(s), j, p)
  BY <1>3, <1>5, <1>6, <1>7, <1>8, <1>9 DEF Undoes, sources, owned
<1> QED BY <1>10

LEMMA ReturnRestores ==
    ASSUME ReturnInv, WayInv', edits = 0, NEW r \in Restores, NEW n \in Nat, BeginRestore(r, n),
           UNCHANGED <<edits, owed, faults>>
    PROVE  ReturnInv'
<1> DEFINE sources == SubSeq(Chain, 1, n)
           owned == UNION {Touched(sources[m]) : m \in 1 .. n}
           es == [f \in owned |-> [before |-> file[f], after |-> Target(f, sources), phase |-> "planned"]]
           j == [state |-> "restoring", entries |-> es, predecessor |-> active, sources |-> sources]
<1>0. TypeOK /\ LinkInv /\ AdoptInv'
  BY DEF ReturnInv, WayInv, JourneyInv, AdoptInv
<1>1. journal' = [journal EXCEPT ![r] = j] /\ r \in Tx /\ r \notin Plans
  BY TxFacts DEF BeginRestore
<1>2. journal'[r] = j
  BY <1>0, <1>1 DEF TypeOK
<1>3. /\ j.predecessor = active /\ j.state = "restoring" /\ j.entries = es /\ j.sources = sources
      /\ DOMAIN es = owned /\ \A f \in owned : es[f].after = Target(f, sources)
  OBVIOUS
<1>4. job' = [pc |-> "point", tx |-> r, at |-> 1] /\ n \in DOMAIN Chain
  BY DEF BeginRestore
<1>5. \A f \in owned : Target(f, sources) # Conflict
  BY DEF BeginRestore
<1> HIDE DEF j, es
<1>6. IsJournal(j)
  BY <1>0, <1>1, <1>2, <1>4 DEF AdoptInv, TypeOK
<1>7. ~Exists(r) /\ job = Idle /\ EnsureIdle(r) /\ UNCHANGED <<file, active, edits>>
  BY DEF BeginRestore
<1>8. ASSUME NEW s \in Seq(Tx), Content(s), \A f \in Files : file[f] = Held(s, Len(s), f)
      PROVE  \E pos : Undoes(s, Len(s), j, pos)
  <2>1. Stacked(s) /\ Laid(s)
    BY <1>8 DEF Content
  <2>2. \A f : f \notin owned => \A m \in 1 .. n : f \notin Touched(sources[m])
    OBVIOUS
  <2> HIDE DEF owned
  <2>3. sources \in Seq(Tx) /\ Len(sources) = n /\ \A m \in 1 .. n : sources[m] = Chain[m]
    <3>1. Chain \in Seq(Tx)
      BY <2>1, ChainPlaces
    <3> QED BY <1>4, <3>1
  <2> HIDE DEF sources
  <2>4. Reverses(j, n)
    BY <1>3, <1>4, <1>5, <2>2, <2>3 DEF Reverses
  <2> QED BY <1>0, <1>8, <2>1, <2>4, RestoreUndoes
<1> HIDE DEF owned, sources
<1> QED BY <1>1, <1>3, <1>4, <1>6, <1>7, <1>8, ReturnBegins

---------------------------------------------------------------------------
(* The last journal writes of a transaction *)

\* HeldTop and HeldSkip of the state after a step.
LEMMA HeldTopNext ==
    ASSUME NEW s, NEW k \in Nat \ {0}, NEW f, Installed(s[k])', f \in Touched(s[k])'
    PROVE  Held(s, k, f)' = [own |-> Payload[s[k]], user |-> Baseline]
<1>1. k \in LiveAt(s, k, f)' /\ LiveAt(s, k, f)' \in SUBSET (1 .. k)
  BY DEF LiveAt
<1>2. PICK L : L = LiveAt(s, k, f)'
  OBVIOUS
<1>3. Newest(L) \in 1 .. k /\ k <= Newest(L)
  BY <1>1, <1>2, NewestFacts
<1>4. Newest(L) = k
  BY <1>3
<1>5. Live(s, k, f)' = Payload[s[k]]
  BY <1>1, <1>2, <1>4 DEF Live
<1> QED BY <1>5 DEF Held

LEMMA HeldSkipNext ==
    ASSUME NEW s, NEW k \in Nat, NEW f, ~(Installed(s[k + 1])' /\ f \in Touched(s[k + 1])')
    PROVE  Held(s, k + 1, f)' = Held(s, k, f)'
<1>1. LiveAt(s, k + 1, f)' = LiveAt(s, k, f)'
  BY DEF LiveAt
<1>2. Live(s, k + 1, f)' = Live(s, k, f)'
  BY <1>1 DEF Live
<1> QED BY <1>2 DEF Held

LEMMA ReturnCommits ==
    ASSUME ReturnInv, WayInv', edits = 0, Commit, UNCHANGED <<edits, owed, faults>>
    PROVE  ReturnInv'
<1>0. /\ JourneyInv /\ AdoptInv /\ TypeOK /\ LinkInv /\ job.pc = "commit" /\ job.pc # "idle"
      /\ job.tx \in Plans /\ job.tx \in Tx /\ Exists(job.tx) /\ ~Finished(job.tx)
      /\ UNCHANGED <<file, active, edits>>
  BY Running DEF ReturnInv, WayInv, JourneyInv, AdoptInv, HistoryInv, Commit, JobInv, PlanPC
<1>1. SUFFICES Drained' /\ \E s \in Seq(Tx) : Content(s)'
  BY DEF ReturnInv, ContentInv
<1>2. job' = Idle /\ job'.pc = "idle"
  BY DEF Commit, Return, Idle
<1>3. PICK s \in Seq(Tx) : Content(s)
  BY DEF ReturnInv, ContentInv
<1>4. Stacked(s) /\ Laid(s) /\ Settling(s) /\ Len(s) \in Nat
  BY <1>3 DEF Content
<1>5. job.tx = active
  BY <1>0, OrphanFacts DEF OrphanPC
<1>6. PICK t \in Tx : t = active
  BY <1>0, <1>5
<1>7. PICK n \in Nat : n = Below(s, t) /\ s # <<>> /\ Len(s) = n + 1
  <2>1. s # <<>>
    BY <1>4, <1>6, TxFacts DEF Stacked
  <2>2. Below(s, t) = Len(s) - 1 /\ Len(s) - 1 \in Nat
    BY <1>4, <1>6, <2>1 DEF Below
  <2> QED BY <1>4, <2>1, <2>2
<1>8. s[n + 1] = t /\ \A i \in 1 .. n : i \in 1 .. Len(s) /\ s[i] # t
  <2>1. s[n + 1] = t /\ n + 1 \in 1 .. Len(s)
    BY <1>4, <1>6, <1>7 DEF Stacked
  <2>2. \A i \in 1 .. n : i \in 1 .. Len(s) /\ i # n + 1
    BY <1>7
  <2> QED BY <1>4, <2>1, <2>2 DEF Stacked
<1>9. UnderWay(s, n, t)
  BY <1>0, <1>4, <1>5, <1>6, <1>7 DEF Settling, Working
<1>10. /\ JournalsKept /\ journal'[t].state = "installed" /\ journal'[t].entries = journal[t].entries
       /\ \A u \in Tx : u # t => journal'[u] = journal[u]
  BY <1>0, <1>5, <1>6, KeptState DEF Commit, State
<1>11. \A i \in 1 .. n : Installed(s[i])' <=> Installed(s[i])
  BY <1>4, <1>8, <1>10, StackMember DEF Installed
<1>12. Touched(t) \in SUBSET Files /\ Touched(t)' = Touched(t) /\ Installed(t)'
  BY <1>0, <1>5, <1>6, <1>10, Running DEF Touched, Installed
<1>13. \A f : Held(s, n, f)' = Held(s, n, f)
  BY <1>0, <1>4, <1>7, <1>10, <1>11, HeldKept
<1>14. \A f \in Touched(t) : journal[t].entries[f].before = Held(s, n, f)
  BY <1>0, <1>5, <1>6, <1>9, <1>12 DEF UnderWay, Replaces
<1>15. Stacked(s)'
  BY <1>0, <1>4, <1>10, StackFrame
<1>16. Laid(s)'
  <2>1. ASSUME NEW i \in 1 .. Len(s), Installed(s[i])'
        PROVE  /\ s[i] \in Plans
               /\ \A f \in Touched(s[i]) : journal[s[i]].entries[f].before = Held(s, i - 1, f)
               /\ \A j \in 1 .. i - 1 : Installed(s[j])' <=> Installed(s[j])
    <3>1. \A j \in 1 .. i - 1 : j \in 1 .. n
      BY <1>7
    <3>2. CASE i = n + 1
      <4>1. i - 1 = n
        BY <3>2
      <4> QED BY <1>0, <1>5, <1>6, <1>8, <1>11, <1>14, <3>1, <3>2, <4>1
    <3>3. CASE i # n + 1
      <4>1. i \in 1 .. n
        BY <1>7, <3>3
      <4> QED BY <1>4, <1>11, <2>1, <3>1, <4>1 DEF Laid
    <3> QED BY <3>2, <3>3
  <2> QED BY <1>0, <1>4, <1>10, <2>1, LaidFrame
<1>17. Settling(s)'
  <2>1. ~Pending'
    BY <1>0, <1>6, <1>10 DEF Pending, Finished
  <2>2. ASSUME NEW f \in Files PROVE file'[f] = Held(s, Len(s), f)'
    <3>1. CASE f \in Touched(t)
      <4> DEFINE e == journal[t].entries[f]
      <4>1. file[f] = e.after
        BY <1>0, <1>5, <1>6, <3>1 DEF ReturnInv, WayInv, ProgressInv, AllAfter, Entryof
      <4>2. e.after.own = Payload[t] /\ e.before.user = e.after.user
        BY <1>0, <1>4, <1>5, <1>6, <3>1 DEF Laid, LinkInv
      <4>3. e.before = Held(s, n, f) /\ Held(s, n, f).user = Baseline
        BY <1>14, <3>1 DEF Held
      <4>4. file[f] \in Document
        BY <1>0 DEF TypeOK
      <4> HIDE DEF e
      <4>5. file[f] = [own |-> Payload[t], user |-> Baseline]
        BY <4>1, <4>2, <4>3, <4>4 DEF Document
      <4>6. Held(s, n + 1, f)' = [own |-> Payload[t], user |-> Baseline]
        <5>1. n + 1 \in Nat \ {0}
          OBVIOUS
        <5>2. Installed(s[n + 1])' /\ f \in Touched(s[n + 1])'
          BY <1>8, <1>12, <3>1 DEF Installed, Touched
        <5> QED BY <1>8, <5>1, <5>2, HeldTopNext
      <4> QED BY <1>0, <1>7, <4>5, <4>6
    <3>2. CASE f \notin Touched(t)
      <4>1. file[f] = Held(s, n, f)
        BY <1>0, <1>5, <1>6, <1>9, <3>2 DEF UnderWay, Replaces
      <4>2. Held(s, n + 1, f)' = Held(s, n, f)'
        <5>1. f \notin Touched(s[n + 1])'
          BY <1>8, <1>12, <3>2 DEF Touched
        <5> QED BY <5>1, HeldSkipNext
      <4> QED BY <1>0, <1>7, <1>13, <4>1, <4>2
    <3> QED BY <3>1, <3>2
  <2>3. \A x \in Tx : ~Working(x)'
    BY <1>2, <2>1 DEF Working
  <2> QED BY <2>2, <2>3 DEF Settling
<1>18. Drained' /\ Orphan(s)'
  BY <1>2 DEF Drained, Orphan
<1> QED BY <1>15, <1>16, <1>17, <1>18 DEF Content

\* A command that is done leaves the files as its stack has them.
LEMMA FinishHeld ==
    ASSUME ReturnInv, edits = 0, job.pc = "finish", NEW s \in Seq(Tx), Content(s)
    PROVE  \A f \in Files : file[f] = Held(s, Len(s), f)
<1>0. /\ JourneyInv /\ AdoptInv /\ TypeOK /\ LinkInv /\ job.pc # "idle" /\ Touched(job.tx) \in SUBSET Files
      /\ job.tx \in Tx /\ Exists(job.tx) /\ ~Finished(job.tx)
  BY Running DEF ReturnInv, WayInv, JourneyInv, AdoptInv, HistoryInv
<1>1. Stacked(s) /\ Laid(s) /\ Settling(s) /\ Len(s) \in Nat
  BY DEF Content
<1>2. CASE job.tx # active
  <2>1. ~Pending
    BY <1>0, <1>2 DEF Pending, JourneyInv, HistoryInv
  <2> QED BY <1>1, <2>1 DEF Settling
<1>3. CASE job.tx = active
  <2> DEFINE t == job.tx
             n == Len(s) - 1
  <2>1. s # <<>> /\ s[Len(s)] = t /\ n \in Nat /\ n = Below(s, t) /\ Len(s) = n + 1
    <3>1. s # <<>> /\ s[Len(s)] = t
      BY <1>0, <1>1, <1>3, TxFacts DEF Stacked
    <3> QED BY <1>1, <1>3, <3>1 DEF Below
  <2> HIDE DEF n
  <2>2. UnderWay(s, n, t)
    BY <1>0, <1>1, <2>1 DEF Settling, Working
  <2>3. \A f : Held(s, Len(s), f) = Held(s, n, f)
    <3>1. \A i \in 1 .. Len(s) : i > n => ~Installed(s[i])
      <4>1. \A i \in 1 .. Len(s) : i > n => i = Len(s)
        BY <2>1
      <4>2. ~Installed(s[Len(s)])
        BY <1>0, <2>1 DEF Installed, Finished
      <4> QED BY <4>1, <4>2
    <3> QED BY <1>1, <2>1, <3>1, HeldSkip
  <2>4. CASE t \in Plans
    <3>1. \A f \in Touched(t) : file[f] = journal[t].entries[f].before
      BY <2>4 DEF ReturnInv, WayInv, ProgressInv, AllBefore, Entryof
    <3> QED BY <2>2, <2>3, <2>4, <3>1 DEF UnderWay, Replaces
  <2>5. CASE t \in Restores
    <3>1. \A f \in Touched(t) : file[f] = journal[t].entries[f].after
      BY <2>5 DEF ReturnInv, WayInv, ProgressInv, AllAfter, Entryof
    <3>2. PICK pos : Undoes(s, n, journal[t], pos)
      BY <2>2, <2>5 DEF UnderWay
    <3>3. PICK k \in Nat : k = Len(journal[t].sources) /\ k \in 1 .. k
      BY <1>0, <2>5, SourcesFacts
    <3>4. pos[k] \in 1 .. n
      BY <3>2, <3>3 DEF Undoes
    <3> DEFINE b == pos[k] - 1
    <3>5. b \in Nat /\ b <= n
      BY <2>1, <3>4
    <3>6. \A i \in 1 .. n : i > b => ~Installed(s[i])
      <4>1. SUFFICES ASSUME NEW i \in 1 .. n, i > b, Installed(s[i]) PROVE FALSE
        OBVIOUS
      <4>2. i >= pos[k]
        BY <3>4, <4>1
      <4>3. PICK m \in 1 .. k : pos[m] = i
        BY <3>2, <3>3, <4>1, <4>2 DEF Undoes
      <4>4. journal[t].sources[m] = s[i]
        BY <3>2, <3>3, <4>3 DEF Undoes
      <4>5. journal[s[i]].state = "restored"
        BY <2>5, <3>3, <4>3, <4>4 DEF ReturnInv, ContentInv, Drained
      <4> QED BY <4>1, <4>5 DEF Installed
    <3> HIDE DEF b
    <3>7. ASSUME NEW f PROVE Held(s, n, f) = Held(s, b, f)
      <4>1. \A i \in 1 .. n : i > b => ~(Installed(s[i]) /\ f \in Touched(s[i]))
        BY <3>6
      <4>2. n \in Nat
        BY <2>1
      <4> HIDE DEF t
      <4> QED BY <3>5, <4>1, <4>2, HeldSkip
    <3>8. \A f \in Files : file[f] = Held(s, b, f)
      BY <3>1, <3>2, <3>3 DEF Undoes, Touched, b
    <3> QED BY <2>3, <3>7, <3>8
  <2> QED BY <1>0, <2>4, <2>5 DEF Tx
<1> QED BY <1>2, <1>3

LEMMA ReturnFinishes ==
    ASSUME ReturnInv, WayInv', edits = 0, Finish, UNCHANGED <<edits, owed, faults>>
    PROVE  ReturnInv'
<1>0. /\ JourneyInv /\ AdoptInv /\ HistoryInv /\ TypeOK /\ job.pc = "finish" /\ job.pc # "idle"
      /\ job.tx \in Tx /\ Exists(job.tx) /\ ~Finished(job.tx) /\ UNCHANGED <<file, active, edits>>
  BY Running DEF ReturnInv, WayInv, JourneyInv, AdoptInv, HistoryInv, Finish
<1>1. SUFFICES Drained' /\ \E s \in Seq(Tx) : Content(s)'
  BY DEF ReturnInv, ContentInv
<1>2. job' = Idle /\ job'.pc = "idle"
  BY DEF Finish, Return, Idle
<1>3. PICK s \in Seq(Tx) : Content(s)
  BY DEF ReturnInv, ContentInv
<1>4. Stacked(s) /\ Laid(s) /\ Len(s) \in Nat
  BY <1>3 DEF Content
<1>5. /\ JournalsKept /\ journal'[job.tx].state = "restored"
      /\ \A u \in Tx : u # job.tx => journal'[u] = journal[u]
  BY <1>0, KeptState DEF Finish, State
<1>6. \A u \in Tx : Installed(u)' <=> Installed(u)
  <2>1. ASSUME NEW u \in Tx PROVE Installed(u)' <=> Installed(u)
    <3>1. CASE u = job.tx
      BY <1>0, <1>5, <3>1 DEF Installed, Finished
    <3>2. CASE u # job.tx
      BY <1>5, <3>2 DEF Installed
    <3> QED BY <3>1, <3>2
  <2> QED BY <2>1
<1>7. \A i \in 1 .. Len(s) : Installed(s[i])' <=> Installed(s[i])
  BY <1>4, <1>6, StackMember
<1>8. Stacked(s)'
  BY <1>0, <1>4, <1>5, StackFrame
<1>9. Laid(s)'
  <2>1. ASSUME NEW i \in 1 .. Len(s), Installed(s[i])'
        PROVE  /\ s[i] \in Plans
               /\ \A f \in Touched(s[i]) : journal[s[i]].entries[f].before = Held(s, i - 1, f)
               /\ \A j \in 1 .. i - 1 : Installed(s[j])' <=> Installed(s[j])
    <3>1. Installed(s[i]) /\ \A j \in 1 .. i - 1 : j \in 1 .. Len(s)
      BY <1>7, <2>1
    <3> QED BY <1>4, <1>7, <3>1 DEF Laid
  <2> QED BY <1>0, <1>4, <1>5, <2>1, LaidFrame
<1>10. ~Pending'
  <2>1. active = job.tx => journal'[active].state = "restored"
    BY <1>5
  <2>2. active # job.tx /\ active # None => active \in Tx /\ Finished(active)
    BY <1>0 DEF HistoryInv, TypeOK
  <2>3. active # job.tx /\ active # None => journal'[active] = journal[active]
    BY <1>5, <2>2
  <2> QED BY <1>0, <2>1, <2>2, <2>3 DEF Pending, Finished
<1>11. Settling(s)'
  <2>1. \A f \in Files : file[f] = Held(s, Len(s), f)
    BY <1>0, <1>3, FinishHeld
  <2>2. \A f : Held(s, Len(s), f)' = Held(s, Len(s), f)
    BY <1>0, <1>4, <1>5, <1>7, HeldKept
  <2>3. \A x \in Tx : ~Working(x)'
    BY <1>2, <1>10 DEF Working
  <2> QED BY <1>0, <2>1, <2>2, <2>3 DEF Settling
<1>12. Drained' /\ Orphan(s)'
  BY <1>2 DEF Drained, Orphan
<1> QED BY <1>8, <1>9, <1>11, <1>12 DEF Content

LEMMA SettleFacts ==
    ASSUME JourneyInv, Settle, UNCHANGED <<edits, owed, faults>>,
           NEW t \in Tx, t = job.tx, NEW m \in Nat, m = job.at
    PROVE  LET x == journal[t].sources[m]
           IN  /\ t \in Restores /\ m \in 1 .. Len(journal[t].sources) /\ x \in Plans /\ x # t
               /\ JournalsKept /\ journal'[x].state = "restored"
               /\ \A u \in Tx : u # x => journal'[u] = journal[u]
               /\ job' = IF m = Len(journal[t].sources) THEN [pc |-> "finish", tx |-> t, at |-> 1]
                         ELSE [pc |-> "settle", tx |-> t, at |-> m + 1]
<1> DEFINE sources == journal[t].sources
           x == sources[m]
<1>0. /\ AdoptInv /\ TypeOK /\ LinkInv /\ job.pc = "settle" /\ job.pc # "idle" /\ job \in Job
      /\ t \in Restores /\ Exists(t) /\ m \in 1 .. Len(sources)
  BY Running DEF JourneyInv, AdoptInv, Settle, JobInv, RestorePC
<1>1. sources \in Seq(Plans)
  BY <1>0, SourcesFacts
<1>2. x \in Plans /\ x \in Tx /\ Exists(x) /\ x # t
  BY <1>0, <1>1, TxFacts DEF LinkInv
<1>3. SetState(x, "restored") /\ (IF m = Len(sources) THEN Goto("finish", 1) ELSE Goto("settle", m + 1))
  BY DEF Settle
<1> HIDE DEF x, sources
<1>4. /\ JournalsKept /\ journal'[x].state = "restored"
      /\ \A u \in Tx : u # x => journal'[u] = journal[u]
  BY <1>0, <1>2, <1>3, KeptState DEF State
<1>5. job' = IF m = Len(sources) THEN [pc |-> "finish", tx |-> t, at |-> 1]
             ELSE [pc |-> "settle", tx |-> t, at |-> m + 1]
  BY <1>0, <1>3, GotoFacts
<1> QED BY <1>0, <1>2, <1>4, <1>5 DEF x, sources

\* The sources of a restore are settled from the newest to the oldest, so that what stays installed
\* still lies on what was below it.
LEMMA ReturnSettles ==
    ASSUME ReturnInv, WayInv', edits = 0, Settle, UNCHANGED <<edits, owed, faults>>
    PROVE  ReturnInv'
<1>0. /\ JourneyInv /\ AdoptInv /\ TypeOK /\ LinkInv /\ HistoryInv /\ job.pc = "settle" /\ job.pc # "idle"
      /\ job.tx \in Tx /\ Exists(job.tx) /\ job.at \in Nat /\ UNCHANGED <<file, active, edits>>
      /\ ~Finished(job.tx)
  BY Running DEF ReturnInv, WayInv, JourneyInv, AdoptInv, HistoryInv, Settle, Job
<1>1. SUFFICES Drained' /\ \E s \in Seq(Tx) : Content(s)'
  BY DEF ReturnInv, ContentInv
<1>2. PICK t \in Tx, m \in Nat : t = job.tx /\ m = job.at
  BY <1>0
<1>3. job.tx = active /\ t = active
  BY <1>0, <1>2, OrphanFacts DEF OrphanPC
<1>4. PICK s \in Seq(Tx) : Content(s)
  BY DEF ReturnInv, ContentInv
<1>5. Stacked(s) /\ Laid(s) /\ Settling(s) /\ Len(s) \in Nat
  BY <1>4 DEF Content
<1>6. PICK src : src = journal[t].sources
  OBVIOUS
<1>7. PICK k \in Nat : k = Len(src) /\ k \in 1 .. k
  BY <1>0, <1>2, <1>6, SettleFacts, SourcesFacts
<1>8. PICK x : x = src[m]
  OBVIOUS
<1>9. /\ t \in Restores /\ m \in 1 .. k /\ x \in Plans /\ x # t /\ x \in Tx
      /\ JournalsKept /\ journal'[x].state = "restored"
      /\ \A u \in Tx : u # x => journal'[u] = journal[u]
      /\ job' = IF m = k THEN [pc |-> "finish", tx |-> t, at |-> 1]
                ELSE [pc |-> "settle", tx |-> t, at |-> m + 1]
  BY <1>0, <1>2, <1>6, <1>7, <1>8, SettleFacts, TxFacts
<1>10. job'.pc \in {"finish", "settle"} /\ job'.tx = t /\ (job'.pc = "settle" => job'.at = m + 1)
       /\ (job'.pc = "finish" => m = k)
  BY <1>9
<1>11. journal'[t] = journal[t] /\ src \in Seq(Plans) /\ \A l \in 1 .. k : src[l] \in Tx
  <2>1. src \in Seq(Plans)
    BY <1>0, <1>2, <1>6, <1>9, SourcesFacts
  <2> QED BY <1>7, <1>9, <2>1, TxFacts
<1>12. ASSUME NEW l \in 1 .. k, l <= m PROVE journal'[src[l]].state = "restored"
  <2>1. CASE src[l] = x
    BY <1>9, <2>1
  <2>2. CASE src[l] # x
    <3>1. l < m
      BY <1>8, <1>12, <2>2
    <3>2. journal[src[l]].state = "restored"
      BY <1>0, <1>2, <1>6, <1>7, <3>1 DEF ReturnInv, ContentInv, Drained
    <3> QED BY <1>9, <1>11, <2>2, <3>2
  <2> QED BY <2>1, <2>2
<1>13. Drained'
  <2>1. job'.pc = "settle" => \A l \in 1 .. k : l < job'.at => l <= m
    BY <1>9, <1>10
  <2>2. job'.pc = "finish" => \A l \in 1 .. k : l <= m
    BY <1>10
  <2> QED BY <1>6, <1>7, <1>10, <1>11, <1>12, <2>1, <2>2 DEF Drained
<1>14. s # <<>> /\ s[Len(s)] = t
  BY <1>3, <1>5, TxFacts DEF Stacked
<1>15. PICK n \in Nat : n = Below(s, t) /\ Len(s) = n + 1
  <2>1. Below(s, t) = Len(s) - 1 /\ Len(s) - 1 \in Nat
    BY <1>3, <1>5, <1>14 DEF Below
  <2> QED BY <1>5, <2>1
<1>16. UnderWay(s, n, t)
  BY <1>0, <1>2, <1>5, <1>15 DEF Settling, Working
<1>17. PICK pos : Undoes(s, n, journal[t], pos)
  BY <1>9, <1>16 DEF UnderWay
<1>18. /\ \A l \in 1 .. k : pos[l] \in 1 .. n /\ src[l] = s[pos[l]]
       /\ \A l, h \in 1 .. k : l < h => pos[h] < pos[l]
       /\ \A i \in 1 .. n : i >= pos[k] /\ Installed(s[i]) => \E l \in 1 .. k : pos[l] = i
  BY <1>6, <1>7, <1>17 DEF Undoes
<1>19. x = s[pos[m]] /\ pos[m] \in 1 .. n /\ pos[k] \in 1 .. n /\ pos[k] <= pos[m]
  <2>1. m < k => pos[k] < pos[m]
    BY <1>7, <1>9, <1>18
  <2>2. pos[m] \in 1 .. n /\ pos[k] \in 1 .. n
    BY <1>7, <1>9, <1>18
  <2>3. m = k \/ m < k
    BY <1>7, <1>9
  <2> QED BY <1>8, <1>9, <1>18, <2>1, <2>2, <2>3
<1>20. ASSUME NEW i \in 1 .. Len(s) PROVE s[i] = x <=> i = pos[m]
  BY <1>5, <1>15, <1>19 DEF Stacked
<1>21. ASSUME NEW i \in 1 .. Len(s), i # pos[m] PROVE journal'[s[i]] = journal[s[i]]
  BY <1>5, <1>9, <1>20, <1>21, StackMember
<1>22. ASSUME NEW i \in 1 .. Len(s), Installed(s[i])' PROVE Installed(s[i]) /\ i < pos[m]
  <2>1. i # pos[m]
    BY <1>9, <1>20, <1>22 DEF Installed
  <2>2. Installed(s[i])
    BY <1>21, <1>22, <2>1 DEF Installed
  <2>3. i # Len(s)
    BY <1>0, <1>2, <1>14, <2>2 DEF Installed, Finished
  <2>4. ~(i > pos[m])
    <3>1. SUFFICES ASSUME i > pos[m] PROVE FALSE
      OBVIOUS
    <3>2. i \in 1 .. n /\ i >= pos[k]
      BY <1>15, <1>19, <2>3, <3>1
    <3>3. PICK l \in 1 .. k : pos[l] = i
      BY <1>18, <2>2, <3>2
    <3>4. ~(m < l)
      <4>1. m < l => pos[l] < pos[m]
        BY <1>9, <1>18, <3>3
      <4> QED BY <1>19, <3>1, <3>3, <4>1
    <3>5. l <= m
      BY <1>9, <3>4
    <3>6. journal'[s[i]].state = "restored"
      BY <1>12, <1>18, <3>3, <3>5
    <3> QED BY <1>22, <3>6 DEF Installed
  <2> QED BY <1>19, <2>1, <2>2, <2>4
<1>23. ASSUME NEW b \in Nat, b < pos[m] PROVE \A f : Held(s, b, f)' = Held(s, b, f)
  <2>1. b <= Len(s) /\ \A i \in 1 .. b : i \in 1 .. Len(s) /\ i # pos[m]
    BY <1>15, <1>19, <1>23
  <2>2. \A i \in 1 .. b : Installed(s[i])' <=> Installed(s[i])
    BY <1>21, <2>1 DEF Installed
  <2> QED BY <1>0, <1>5, <1>9, <2>1, <2>2, HeldKept
<1>24. Stacked(s)'
  BY <1>0, <1>5, <1>9, StackFrame
<1>25. Laid(s)'
  <2>1. ASSUME NEW i \in 1 .. Len(s), Installed(s[i])'
        PROVE  /\ s[i] \in Plans
               /\ \A f \in Touched(s[i]) : journal[s[i]].entries[f].before = Held(s, i - 1, f)
               /\ \A j \in 1 .. i - 1 : Installed(s[j])' <=> Installed(s[j])
    <3>1. Installed(s[i]) /\ i < pos[m]
      BY <1>22, <2>1
    <3>2. \A j \in 1 .. i - 1 : j \in 1 .. Len(s) /\ j # pos[m]
      BY <1>19, <3>1
    <3>3. \A j \in 1 .. i - 1 : Installed(s[j])' <=> Installed(s[j])
      BY <1>21, <3>2 DEF Installed
    <3> QED BY <1>5, <3>1, <3>3 DEF Laid
  <2> QED BY <1>0, <1>5, <1>9, <2>1, LaidFrame
<1>26. Orphan(s)'
  BY <1>0, <1>3, <1>10 DEF Orphan
<1>27. Undoes(s, n, journal[t], pos)'
  <2>1. \A f : Held(s, pos[k] - 1, f)' = Held(s, pos[k] - 1, f)
    <3>1. pos[k] - 1 \in Nat /\ pos[k] - 1 < pos[m]
      BY <1>19
    <3> QED BY <1>23, <3>1
  <2>2. \A i \in 1 .. n : i \in 1 .. Len(s)
    BY <1>15
  <2>3. \A i \in 1 .. n : i >= pos[k] /\ Installed(s[i])' => \E l \in 1 .. k : pos[l] = i
    BY <1>18, <1>22, <2>2
  <2>4. /\ journal'[t].sources = journal[t].sources /\ journal'[t].entries = journal[t].entries
        /\ k = Len(journal[t].sources)
    BY <1>6, <1>7, <1>11
  <2>5. /\ pos \in [1 .. k -> 1 .. n]
        /\ \A l \in 1 .. k : journal[t].sources[l] = s[pos[l]]
        /\ \A l, h \in 1 .. k : l < h => pos[h] < pos[l]
        /\ \A f \in Files :
              IF f \in DOMAIN journal[t].entries
              THEN journal[t].entries[f].after = Held(s, pos[k] - 1, f)
              ELSE file[f] = Held(s, pos[k] - 1, f)
    BY <1>17, <2>4 DEF Undoes
  <2>6. ASSUME NEW f \in Files
        PROVE  IF f \in DOMAIN journal'[t].entries
               THEN journal'[t].entries[f].after = Held(s, pos[k] - 1, f)'
               ELSE file'[f] = Held(s, pos[k] - 1, f)'
    BY <1>0, <2>1, <2>4, <2>5
  <2> QED BY <2>3, <2>4, <2>5, <2>6 DEF Undoes
<1>28. Settling(s)'
  <2>1. Pending'
    BY <1>0, <1>2, <1>3, <1>11, TxFacts DEF Pending, Finished
  <2>2. ASSUME NEW y \in Tx, NEW l \in Nat, Working(y)', l = Below(s, y)'
        PROVE  y = t /\ l = n
    BY <1>0, <1>3, <1>10, <1>15, <2>2 DEF Working, Below
  <2>3. UnderWay(s, n, t)'
    BY <1>9, <1>27, TxFacts DEF UnderWay
  <2> QED BY <2>1, <2>2, <2>3 DEF Settling
<1> QED BY <1>13, <1>24, <1>25, <1>26, <1>28 DEF Content

---------------------------------------------------------------------------
(* Every step *)

LEMMA ReturnStep ==
    ASSUME AnyRecover = FALSE
    PROVE  ReturnInv /\ [Next]_vars => ReturnInv'
<1> SUFFICES ASSUME ReturnInv, [Next]_vars PROVE ReturnInv'
  OBVIOUS
<1>0. WayInv'
  BY WayStep DEF ReturnInv
<1>1. CASE edits' # 0
  BY <1>0, <1>1 DEF ReturnInv, ContentInv
<1>2. CASE Step
  <2>1. CASE edits = 0
    BY <1>0, <1>2, <2>1, ReturnPoint, ReturnTurns, ReturnCapture, ReturnVisits, ReturnPublishes, ReturnCommits,
       ReturnFinishes, ReturnSettles DEF Step
  <2>2. CASE edits # 0
    BY <1>1, <1>2, <2>2 DEF Step
  <2> QED BY <2>1, <2>2
<1>3. CASE Start
  <2>1. edits' = edits /\ UNCHANGED <<edits, owed, faults>>
    BY <1>3 DEF Start
  <2>2. ASSUME edits = 0, NEW t \in Plans, BeginApply(t) PROVE ReturnInv'
    BY <1>0, <2>1, <2>2, ReturnApplies
  <2>3. ASSUME edits = 0, NEW r \in Restores, NEW n \in 1 .. Cardinality(Plans), BeginRestore(r, n)
        PROVE  ReturnInv'
    BY <1>0, <2>1, <2>3, ReturnRestores
  <2> QED BY <1>1, <1>3, <2>1, <2>2, <2>3 DEF Start
<1>4. ASSUME NEW t \in Tx, RecoverCommand(t) PROVE ReturnInv'
  BY <1>0, <1>4, ReturnRecover
<1>5. CASE User
  <2>1. edits' = edits + 1 /\ edits \in 0 .. MaxEdits /\ MaxEdits \in Nat
    BY <1>5, BoundsAssumption DEF User, UserEdit, LateWrite, ReturnInv, WayInv, JourneyInv, AdoptInv, TypeOK
  <2> QED BY <1>1, <2>1
<1>6. CASE Crash
  BY <1>0, <1>6, ReturnCrash
<1>7. CASE Fail
  <2>1. job.pc # "idle" /\ Abandon /\ UNCHANGED <<file, active, edits>>
    BY <1>7 DEF Fail, ReturnInv, WayInv, JourneyInv, AdoptInv, JobInv
  <2> QED BY <1>0, <2>1, ReturnAbandon
<1>8. CASE UNCHANGED vars
  BY <1>0, <1>8, ReturnStutter
<1> QED BY <1>2, <1>3, <1>4, <1>5, <1>6, <1>7, <1>8 DEF Next

\* All or nothing, for every number of files, transactions and faults: without edits of the user, and
\* while the user recovers only what active.json names, whenever no transaction is pending the files
\* hold what the installed plans installed and nothing of any other; with every plan restored they are
\* as they were before the first one.
THEOREM SettledContentAlways ==
    ASSUME AnyRecover = FALSE
    PROVE  Spec => []SettledContent
<1>1. Init => ReturnInv
  BY ReturnInit
<1>2. ReturnInv /\ [Next]_vars => ReturnInv'
  BY ReturnStep
<1>3. ReturnInv => SettledContent
  BY SettledWhenContent
<1> QED BY <1>1, <1>2, <1>3, PTL DEF Spec

============================================================================
