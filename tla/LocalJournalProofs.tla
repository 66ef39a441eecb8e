------------------------ MODULE LocalJournalProofs ------------------------
(* What LocalJournal guarantees for every set of processes, requests and evidence, every rotation     *)
(* limit and every number of kills and power losses, proved with TLAPS.                              *)
EXTENDS LocalJournal, FiniteSetTheorems, WellFoundedInduction, TLAPS

---------------------------------------------------------------------------
(* Induction over the lines of a journal *)

\* What holds at 0 and passes from each number below n to the next holds up to n.
LEMMA CountUp ==
    ASSUME NEW n \in Nat, NEW T, 0 \in T, \A i \in 0 .. n : i \in T /\ i < n => i + 1 \in T
    PROVE  \A i \in 0 .. n : i \in T
<1> DEFINE Bad == {i \in 0 .. n : i \notin T}
           R == OpToRel(<, Nat)
<1>1. SUFFICES ASSUME Bad # {} PROVE FALSE
  OBVIOUS
<1>2. IsWellFoundedOn(R, Nat)
  BY NatLessThanWellFounded
<1>7. \A x, y \in Nat : x < y => <<x, y>> \in R
  BY DEF OpToRel
<1>3. Bad \in SUBSET Nat
  OBVIOUS
<1> HIDE DEF R
<1>4. PICK x \in Bad : \A y \in Bad : ~(<<y, x>> \in R)
  BY <1>1, <1>2, <1>3, WFMin
<1>5. x \in 0 .. n /\ x # 0 /\ x - 1 \in 0 .. n /\ x - 1 < x
  OBVIOUS
<1>6. x - 1 \in T
  BY <1>3, <1>4, <1>5, <1>7
<1> QED BY <1>5, <1>6

\* walked is the function its definition says: the seed, then one line at a time.
LEMMA WalkedFunction ==
    ASSUME NEW seed, NEW lines, Len(lines) \in Nat
    PROVE  walked(seed, lines)
             = [i \in 0 .. Len(lines) |->
                  IF i = 0 THEN seed ELSE after_line(walked(seed, lines)[i - 1], lines[i])]
<1> DEFINE Step(f, n) == [i \in 0 .. n |-> IF i = 0 THEN seed ELSE after_line(f[i - 1], lines[i])]
           T == {n \in Nat : \E f : f = Step(f, n)}
<1>1. 0 \in T
  <2>1. [i \in 0 .. 0 |-> seed] = Step([i \in 0 .. 0 |-> seed], 0)
    OBVIOUS
  <2> QED BY <2>1
<1>2. ASSUME NEW n \in Nat, n \in T PROVE n + 1 \in T
  <2>1. PICK f : f = Step(f, n)
    BY <1>2
  <2> DEFINE g == [i \in 0 .. n + 1 |-> IF i <= n THEN f[i] ELSE after_line(f[n], lines[n + 1])]
  <2>2. \A i \in 0 .. n : f[i] = IF i = 0 THEN seed ELSE after_line(f[i - 1], lines[i])
    BY <2>1
  <2>3. \A i \in 0 .. n + 1 : g[i] = IF i = 0 THEN seed ELSE after_line(g[i - 1], lines[i])
    <3> TAKE i \in 0 .. n + 1
    <3>1. CASE i <= n
      BY <2>2, <3>1
    <3>2. CASE i = n + 1
      BY <3>2
    <3> QED BY <3>1, <3>2
  <2>4. g = Step(g, n + 1) /\ n + 1 \in Nat
    BY <2>3
  <2> HIDE DEF g, Step
  <2> QED BY <2>4
<1>3. Len(lines) \in T
  <2> HIDE DEF T
  <2>1. \A i \in 0 .. Len(lines) : i \in T /\ i < Len(lines) => i + 1 \in T
    BY <1>2
  <2>2. \A i \in 0 .. Len(lines) : i \in T
    BY <1>1, <2>1, CountUp
  <2> QED BY <2>2
<1>4. \E f : f = Step(f, Len(lines))
  BY <1>3
<1>5. walked(seed, lines) = CHOOSE f : f = Step(f, Len(lines))
  BY DEF walked
<1> HIDE DEF Step
<1>6. walked(seed, lines) = Step(walked(seed, lines), Len(lines))
  BY <1>4, <1>5
<1> QED BY <1>6 DEF Step

LEMMA WalkedSteps ==
    ASSUME NEW seed, NEW lines, Len(lines) \in Nat
    PROVE  /\ walked(seed, lines)[0] = seed
           /\ \A i \in 1 .. Len(lines) :
                walked(seed, lines)[i] = after_line(walked(seed, lines)[i - 1], lines[i])
<1> DEFINE w == walked(seed, lines)
<1>1. w = [i \in 0 .. Len(lines) |-> IF i = 0 THEN seed ELSE after_line(w[i - 1], lines[i])]
  BY WalkedFunction
<1> HIDE DEF w
<1>2. w[0] = seed
  BY <1>1
<1>3. ASSUME NEW i \in 1 .. Len(lines) PROVE w[i] = after_line(w[i - 1], lines[i])
  BY <1>1
<1> QED BY <1>2, <1>3 DEF w

\* The first n lines of m are those of l after position a.
Follows(m, l, a, n) ==
    n \in 0 .. Len(m) /\ a + n <= Len(l) /\ \A i \in 1 .. n : m[i] = l[a + i]

\* A walk that starts from the state after a lines of l and meets the lines that follow there
\* reaches the states that the walk of l reaches.
LEMMA WalkedShift ==
    ASSUME NEW seed, NEW l, NEW m, Len(l) \in Nat, Len(m) \in Nat,
           NEW a \in Nat, NEW n \in Nat, Follows(m, l, a, n)
    PROVE  \A i \in 0 .. n : walked(walked(seed, l)[a], m)[i] = walked(seed, l)[a + i]
<1> DEFINE w == walked(seed, l)
           v == walked(w[a], m)
           T == {i \in Nat : v[i] = w[a + i]}
<1>0. n <= Len(m) /\ a + n <= Len(l) /\ \A i \in 1 .. n : m[i] = l[a + i]
  BY DEF Follows
<1>1. 0 \in T
  BY WalkedSteps
<1>2. \A i \in 1 .. Len(l) : w[i] = after_line(w[i - 1], l[i])
  BY WalkedSteps
<1>3. \A i \in 1 .. Len(m) : v[i] = after_line(v[i - 1], m[i])
  BY WalkedSteps
<1> HIDE DEF w, v
<1>4. ASSUME NEW i \in 0 .. n, i \in T, i < n PROVE i + 1 \in T
  <2>0. /\ i + 1 \in 1 .. Len(m) /\ (i + 1) - 1 = i
        /\ a + i + 1 \in 1 .. Len(l) /\ (a + i + 1) - 1 = a + i
    BY <1>0, <1>4
  <2>1. v[i + 1] = after_line(v[i], m[i + 1])
    BY <1>3, <2>0
  <2>2. w[a + i + 1] = after_line(w[a + i], l[a + i + 1])
    BY <1>2, <2>0
  <2>3. m[i + 1] = l[a + (i + 1)] /\ v[i] = w[a + i] /\ a + (i + 1) = a + i + 1
    BY <1>0, <1>4
  <2> QED BY <2>1, <2>2, <2>3, <1>4
<1> HIDE DEF T
<1>5. \A i \in 0 .. n : i \in T
  BY <1>1, <1>4, CountUp
<1> QED BY <1>5 DEF T, v, w

---------------------------------------------------------------------------
(* The state after the first n lines of a journal *)

At(l, n) == walked(genesis, l)[n]

LEMMA AtSteps ==
    ASSUME NEW l, Len(l) \in Nat
    PROVE  /\ At(l, 0) = genesis
           /\ \A i \in 1 .. Len(l) : At(l, i) = after_line(At(l, i - 1), l[i])
BY WalkedSteps DEF At

\* It depends on those lines alone.
LEMMA AtPrefix ==
    ASSUME NEW l, NEW m, Len(l) \in Nat, Len(m) \in Nat, NEW n \in Nat,
           Follows(m, l, 0, n)
    PROVE  \A i \in 0 .. n : At(m, i) = At(l, i)
<1>1. At(l, 0) = genesis /\ walked(genesis, l)[0] = genesis
  BY WalkedSteps DEF At
<1>2. 0 \in Nat
  OBVIOUS
<1>3. \A i \in 0 .. n : walked(walked(genesis, l)[0], m)[i] = walked(genesis, l)[0 + i]
  BY <1>2, WalkedShift
<1> QED BY <1>1, <1>3 DEF At

\* The keys and the evidence it holds are those of its lines.
LEMMA AtHolds ==
    ASSUME NEW l, Len(l) \in Nat
    PROVE  \A n \in 0 .. Len(l) :
             /\ At(l, n).keys = UNION {Identities(l[i]) : i \in 1 .. n}
             /\ At(l, n).evidence = UNION {l[i].refs : i \in 1 .. n}
<1> DEFINE T == {n \in Nat : /\ At(l, n).keys = UNION {Identities(l[i]) : i \in 1 .. n}
                            /\ At(l, n).evidence = UNION {l[i].refs : i \in 1 .. n}}
<1>1. 0 \in T
  <2>1. At(l, 0).keys = {} /\ At(l, 0).evidence = {} /\ 1 .. 0 = {}
    BY AtSteps DEF genesis
  <2>2. /\ UNION {Identities(l[i]) : i \in 1 .. 0} = {}
        /\ UNION {l[i].refs : i \in 1 .. 0} = {}
    BY <2>1, Zenon
  <2> QED BY <2>1, <2>2
<1>2. ASSUME NEW n \in 0 .. Len(l), n \in T, n < Len(l) PROVE n + 1 \in T
  <2>1. At(l, n + 1) = after_line(At(l, n), l[n + 1])
    BY <1>2, AtSteps
  <2>2. /\ At(l, n + 1).keys = At(l, n).keys \cup Identities(l[n + 1])
        /\ At(l, n + 1).evidence = At(l, n).evidence \cup l[n + 1].refs
    BY <2>1 DEF after_line
  <2>3. 1 .. n + 1 = (1 .. n) \cup {n + 1}
    OBVIOUS
  <2>4. UNION {Identities(l[i]) : i \in 1 .. n + 1}
          = (UNION {Identities(l[i]) : i \in 1 .. n}) \cup Identities(l[n + 1])
    BY <2>3, Zenon
  <2>5. UNION {l[i].refs : i \in 1 .. n + 1} = (UNION {l[i].refs : i \in 1 .. n}) \cup l[n + 1].refs
    BY <2>3, Zenon
  <2> QED BY <1>2, <2>2, <2>4, <2>5
<1> HIDE DEF T
<1>3. \A n \in 0 .. Len(l) : n \in T
  BY <1>1, <1>2, CountUp
<1> QED BY <1>3 DEF T

\* The part of a sequence between two positions.
LEMMA Part ==
    ASSUME NEW S, NEW l \in Seq(S), NEW a \in Nat, NEW b \in Nat, a <= b, b <= Len(l)
    PROVE  /\ SubSeq(l, a + 1, b) \in Seq(S)
           /\ Len(SubSeq(l, a + 1, b)) = b - a
           /\ \A i \in 1 .. b - a : SubSeq(l, a + 1, b)[i] = l[a + i]
OBVIOUS

\* A walk of the part between two positions, from the state at the first.
LEMMA AtPart ==
    ASSUME NEW S, NEW l \in Seq(S), NEW a \in Nat, NEW b \in Nat, a <= b, b <= Len(l)
    PROVE  \A i \in 0 .. b - a : walked(At(l, a), SubSeq(l, a + 1, b))[i] = At(l, a + i)
<1> DEFINE m == SubSeq(l, a + 1, b)
<1>1. Len(m) = b - a /\ \A i \in 1 .. b - a : m[i] = l[a + i]
  BY Part
<1>2. Len(l) \in Nat /\ Len(m) \in Nat /\ b - a \in Nat /\ Follows(m, l, a, b - a)
  BY <1>1 DEF Follows
<1> HIDE DEF m
<1>3. \A i \in 0 .. b - a : walked(walked(genesis, l)[a], m)[i] = walked(genesis, l)[a + i]
  BY <1>1, <1>2, WalkedShift
<1> QED BY <1>3 DEF m, At

\* A longer journal, or one cut at n, has the same states up to n.
LEMMA AtKept ==
    ASSUME NEW S, NEW l \in Seq(S)
    PROVE  /\ \A x \in S : \A i \in 0 .. Len(l) : At(Append(l, x), i) = At(l, i)
           /\ \A n \in 0 .. Len(l) : \A i \in 0 .. n : At(SubSeq(l, 1, n), i) = At(l, i)
<1>1. ASSUME NEW x \in S PROVE \A i \in 0 .. Len(l) : At(Append(l, x), i) = At(l, i)
  <2>1. /\ Len(l) \in Nat /\ Len(Append(l, x)) \in Nat
        /\ Follows(Append(l, x), l, 0, Len(l))
    BY DEF Follows
  <2> QED BY <2>1, AtPrefix
<1>2. ASSUME NEW n \in 0 .. Len(l) PROVE \A i \in 0 .. n : At(SubSeq(l, 1, n), i) = At(l, i)
  <2>1. /\ Len(l) \in Nat /\ Len(SubSeq(l, 1, n)) \in Nat /\ n \in Nat
        /\ Follows(SubSeq(l, 1, n), l, 0, n)
    BY DEF Follows
  <2> QED BY <2>1, AtPrefix
<1> QED BY <1>1, <1>2

---------------------------------------------------------------------------
(* The inductive invariant *)

\* What line_verifies asks of a line, the blobs apart.
Fits(st, b) ==
    /\ b.expected = st.next[b.stream]
    /\ Identities(b) \cap st.keys = {}
    /\ b.refs \subseteq b.evidence \cup st.evidence
    /\ b.version # 0 => b.version = st.version[b.stream] + 1

LinesFit == \A i \in 1 .. Len(journal) : Fits(At(journal, i - 1), journal[i])

BlobsWhole == \A e \in Evidence : blob[e].entry # "none" => blob[e].bytes = "synced"

RefsDurable ==
    \A i \in 1 .. Len(journal) : \A e \in journal[i].refs : blob[e].entry = "durable"

\* The states that walks reach, and the loaded states and seals built from them.
Reached == {At(l, n) : l \in Seq(Requests), n \in Nat}
Prefixes == [seg : Nat, seed : Reached, batches : Seq(Requests)]
Seals == [upto : Nat, state : Reached]
Marks == [seg : Nat, lines : Nat]

\* Every seal has its state file, closes durable lines, and records the state after them.
ChainInv ==
    /\ \A i \in 1 .. Len(seals) :
          /\ seals[i].upto <= synced
          /\ seals[i].state = At(journal, seals[i].upto)
          /\ i - 1 \in states
    /\ \A i, j \in 1 .. Len(seals) : i <= j => seals[i].upto <= seals[j].upto

LastOf(seg) == IF seg = Len(seals) THEN Len(journal) ELSE FirstOf(seg + 1)

\* A verified prefix is a prefix of its segment, with the state the segment starts from.
Faithful(v) ==
    /\ v.seg <= Len(seals)
    /\ v.seed = At(journal, FirstOf(v.seg))
    /\ FirstOf(v.seg) + Len(v.batches) <= LastOf(v.seg)
    /\ v.batches = SubSeq(journal, FirstOf(v.seg) + 1, FirstOf(v.seg) + Len(v.batches))

Covered(m) == m.seg <= Len(seals) /\ FirstOf(m.seg) + m.lines <= synced

CacheInv == \A p \in Procs : Faithful(verified[p]) /\ Covered(watermark[p])

\* The active segment, loaded whole.
Full == [seg |-> Len(seals), seed |-> At(journal, SealedLines), batches |-> ActiveLines]

Loaded == {"resync", "reconcile", "rotate", "seal", "validate", "staged", "publish", "write"}
Synced == {"rotate", "seal", "next", "validate", "staged", "publish", "write", "mark"}

\* What the process that holds the lock has established at each step.
HolderInv(p) ==
    /\ pc[p] \in Loaded => verified[p] = Full
    /\ pc[p] \in Synced => synced = Len(journal)
    /\ pc[p] = "seal" => Len(seals) \in states
    /\ pc[p] \in {"staged", "publish", "write"} => Fits(At(journal, Len(journal)), req[p])
    /\ pc[p] = "publish" => temp[p] = "synced"
    /\ pc[p] = "write" => \A e \in req[p].evidence : blob[e].entry = "durable"
    /\ pc[p] \in {"written", "mark"} =>
          Len(journal) # 0 /\ journal[Len(journal)] = req[p]

Holding == Opening \cup Appending

Shapes ==
    /\ \A p, q \in writer : p = q
    /\ seals \in Seq(Seals)
    /\ verified \in [Procs -> Prefixes]
    /\ watermark \in [Procs -> Marks]

Vouched == \A b \in vouched : \E i \in 1 .. synced : journal[i] = b

StoreInv ==
    /\ TypeOK /\ Shapes
    /\ LinesFit /\ BlobsWhole /\ RefsDurable
    /\ ChainInv /\ CacheInv /\ Vouched
    /\ \A p \in Procs : HolderInv(p)

LEMMA NoPrefixFacts ==
    /\ NoPrefix \in Prefixes /\ NoMark \in Marks
    /\ journal \in Seq(Requests) => At(journal, 0) = genesis
<1>1. At(<<>>, 0) = genesis /\ <<>> \in Seq(Requests)
  BY AtSteps
<1>2. genesis \in Reached
  <2>1. \E l \in Seq(Requests), n \in Nat : genesis = At(l, n)
    BY <1>1
  <2> QED BY <2>1 DEF Reached
<1>3. journal \in Seq(Requests) => At(journal, 0) = genesis
  BY AtSteps
<1> QED BY <1>2, <1>3 DEF NoPrefix, NoMark, Prefixes, Marks

---------------------------------------------------------------------------
(* Loading the store *)

Grounds == TypeOK /\ Shapes /\ ChainInv

LEMMA Segments ==
    ASSUME Grounds
    PROVE  /\ \A i \in 0 .. Len(seals) : FirstOf(i) \in Nat /\ FirstOf(i) <= synced
           /\ SealedLines = FirstOf(Len(seals))
           /\ Len(journal) \in Nat /\ synced \in Nat /\ synced <= Len(journal) /\ Len(seals) \in Nat
           /\ ActiveLines \in Seq(Requests)
           /\ Len(ActiveLines) = Len(journal) - SealedLines
           /\ \A i \in 1 .. Len(ActiveLines) : ActiveLines[i] = journal[SealedLines + i]
<1>1. /\ journal \in Seq(Requests) /\ synced \in 0 .. Len(journal) /\ seals \in Seq(Seals)
      /\ Len(journal) \in Nat /\ synced \in Nat /\ synced <= Len(journal) /\ Len(seals) \in Nat
  BY DEF Grounds, TypeOK, Shapes
<1>2. ASSUME NEW i \in 1 .. Len(seals) PROVE seals[i].upto \in Nat /\ seals[i].upto <= synced
  <2>1. seals[i] \in Seals
    BY <1>1
  <2> QED BY <2>1 DEF Seals, Grounds, ChainInv
<1>3. \A i \in 0 .. Len(seals) : FirstOf(i) \in Nat /\ FirstOf(i) <= synced
  BY <1>1, <1>2 DEF FirstOf
<1>4. SealedLines = FirstOf(Len(seals))
  BY <1>1 DEF SealedLines, FirstOf
<1>5. SealedLines \in Nat /\ SealedLines <= Len(journal)
  BY <1>1, <1>3, <1>4
<1>6. /\ ActiveLines \in Seq(Requests)
      /\ Len(ActiveLines) = Len(journal) - SealedLines
      /\ \A i \in 1 .. Len(journal) - SealedLines : ActiveLines[i] = journal[SealedLines + i]
  BY <1>1, <1>5, Part DEF ActiveLines
<1> QED BY <1>1, <1>3, <1>4, <1>6

\* Two sequences with the same elements.
LEMMA SameSeq ==
    ASSUME NEW S, NEW l \in Seq(S), NEW m \in Seq(S), Len(l) = Len(m),
           \A i \in 1 .. Len(l) : l[i] = m[i]
    PROVE  l = m
OBVIOUS

\* A prefix, then the rest.
LEMMA Rejoin ==
    ASSUME NEW S, NEW l \in Seq(S), NEW b \in Seq(S), Len(b) <= Len(l),
           \A i \in 1 .. Len(b) : b[i] = l[i]
    PROVE  b \o SubSeq(l, Len(b) + 1, Len(l)) = l
<1>1. PICK m, n : n = Len(b) /\ m = SubSeq(l, n + 1, Len(l))
  OBVIOUS
<1>2. /\ n \in Nat /\ Len(l) \in Nat /\ n <= Len(l)
      /\ m \in Seq(S) /\ Len(m) = Len(l) - n /\ \A i \in 1 .. Len(l) - n : m[i] = l[n + i]
  BY <1>1, Part
<1>3. /\ b \o m \in Seq(S) /\ Len(b \o m) = Len(l)
      /\ \A i \in 1 .. Len(l) : (b \o m)[i] = IF i <= n THEN b[i] ELSE m[i - n]
  BY <1>1, <1>2
<1>4. ASSUME NEW i \in 1 .. Len(l) PROVE (b \o m)[i] = l[i]
  <2>1. CASE i <= n
    BY <1>1, <1>2, <1>3, <2>1
  <2>2. CASE ~(i <= n)
    <3>1. i - n \in 1 .. Len(l) - n /\ n + (i - n) = i
      BY <1>2, <2>2
    <3> QED BY <1>2, <1>3, <2>2, <3>1
  <2> QED BY <2>1, <2>2
<1>5. b \o m = l
  <2>1. PICK x : x = b \o m
    OBVIOUS
  <2>2. x \in Seq(S) /\ Len(x) = Len(l) /\ \A i \in 1 .. Len(l) : x[i] = l[i]
    BY <1>3, <1>4, <2>1
  <2>3. x = l
    BY <2>2, SameSeq
  <2> QED BY <2>1, <2>3
<1> QED BY <1>1, <1>5

\* The seed of a segment is the last seal's state.
LEMMA SeedOf ==
    ASSUME Grounds
    PROVE  /\ seeded_ctx = [seg |-> Len(seals), seed |-> At(journal, SealedLines), batches |-> <<>>]
           /\ At(journal, SealedLines) \in Reached
           /\ At(journal, 0) = genesis
<1>1. journal \in Seq(Requests) /\ seals \in Seq(Seals) /\ Len(seals) \in Nat
  BY DEF Grounds, TypeOK, Shapes
<1>2. SealedLines \in Nat
  BY Segments
<1>3. At(journal, SealedLines) \in Reached
  BY <1>1, <1>2 DEF Reached
<1>4. At(journal, 0) = genesis
  BY <1>1, NoPrefixFacts
<1>5. CASE seals = <<>>
  BY <1>3, <1>4, <1>5 DEF seeded_ctx, SealedLines
<1>6. CASE seals # <<>>
  <2>1. Len(seals) \in 1 .. Len(seals)
    BY <1>1, <1>6
  <2>2. seals[Len(seals)].state = At(journal, seals[Len(seals)].upto)
    BY <2>1 DEF Grounds, ChainInv
  <2> QED BY <1>3, <1>4, <1>6, <2>2 DEF seeded_ctx, SealedLines
<1> QED BY <1>5, <1>6

LEMMA FullFacts ==
    ASSUME Grounds
    PROVE  /\ Full \in Prefixes /\ Faithful(Full)
           /\ Summary(Full) = At(journal, Len(journal))
           /\ history(Full) = journal
           /\ Full.batches = <<>> => synced = Len(journal)
           /\ Full.seg = Len(seals)
           /\ FirstOf(Full.seg) + Len(Full.batches) = Len(journal)
<1> DEFINE k == SealedLines
           n == Len(journal)
<1>1. /\ k \in Nat /\ n \in Nat /\ k <= synced /\ synced <= n /\ Len(seals) \in Nat
      /\ synced \in Nat
      /\ k = FirstOf(Len(seals))
      /\ ActiveLines \in Seq(Requests) /\ Len(ActiveLines) = n - k
      /\ \A i \in 1 .. Len(ActiveLines) : ActiveLines[i] = journal[k + i]
      /\ journal \in Seq(Requests)
  BY Segments DEF Grounds, TypeOK
<1>2. Full.seg = Len(seals) /\ Full.seed = At(journal, k) /\ Full.batches = ActiveLines
  BY DEF Full
<1>3. Full \in Prefixes
  BY <1>1, SeedOf DEF Full, Prefixes
<1>4. FirstOf(Full.seg) + Len(Full.batches) = n
  BY <1>1, <1>2
<1>5. Faithful(Full)
  <2>1. LastOf(Full.seg) = n
    BY <1>2 DEF LastOf
  <2>2. Full.batches = SubSeq(journal, FirstOf(Full.seg) + 1, FirstOf(Full.seg) + Len(Full.batches))
    BY <1>1, <1>2, <1>4 DEF ActiveLines
  <2>3. Full.seg <= Len(seals)
    BY <1>1, <1>2
  <2>4. Full.seed = At(journal, FirstOf(Full.seg))
    BY <1>1, <1>2, Zenon
  <2>5. FirstOf(Full.seg) + Len(Full.batches) <= LastOf(Full.seg)
    BY <1>1, <1>4, <2>1
  <2> QED BY <2>2, <2>3, <2>4, <2>5, Zenon DEF Faithful
<1>6. Summary(Full) = At(journal, n)
  <2>1. walked(At(journal, k), SubSeq(journal, k + 1, n))[n - k] = At(journal, k + (n - k))
    BY <1>1, AtPart
  <2> QED BY <1>1, <1>2, <2>1 DEF Summary, ActiveLines
<1>7. history(Full) = journal
  <2>1. history(Full) = SubSeq(journal, 1, k) \o ActiveLines
    BY <1>2 DEF history
  <2> HIDE DEF k
  <2>2. /\ SubSeq(journal, 1, k) \in Seq(Requests) /\ Len(SubSeq(journal, 1, k)) = k
        /\ \A i \in 1 .. k : SubSeq(journal, 1, k)[i] = journal[i]
    BY <1>1
  <2>3. PICK l : l = SubSeq(journal, 1, k)
    OBVIOUS
  <2>5. l \in Seq(Requests) /\ Len(l) = k /\ \A i \in 1 .. Len(l) : l[i] = journal[i]
    BY <2>2, <2>3
  <2>6. Len(l) <= Len(journal)
    BY <1>1, <2>5
  <2>4. l \o SubSeq(journal, Len(l) + 1, n) = journal
    BY <1>1, <2>5, <2>6, Rejoin
  <2> QED BY <2>1, <2>2, <2>3, <2>4 DEF ActiveLines, k
<1>8. Full.batches = <<>> => synced = n
  BY <1>1, <1>2
<1> QED BY <1>2, <1>3, <1>4, <1>5, <1>6, <1>7, <1>8

LEMMA PrefixWith ==
    ASSUME NEW v \in Prefixes, NEW y
    PROVE  [v EXCEPT !.batches = y] = [seg |-> v.seg, seed |-> v.seed, batches |-> y]
<1> DEFINE x == [v EXCEPT !.batches = y]
<1>1. DOMAIN v = {"seg", "seed", "batches"}
  BY DEF Prefixes
<1>2. x = [f \in {"seg", "seed", "batches"} |-> IF f = "batches" THEN y ELSE v[f]]
  BY <1>1
<1> QED BY <1>2

\* Whatever faithful prefix a load starts from, it ends with the whole active segment.
LEMMA LoadFull ==
    ASSUME Grounds, NEW v \in Prefixes, Faithful(v)
    PROVE  load_state(v) = Full
<1> DEFINE k == SealedLines
           c == Len(ActiveLines)
<1>1. /\ k \in Nat /\ Len(journal) \in Nat /\ Len(seals) \in Nat /\ k <= Len(journal)
      /\ k = FirstOf(Len(seals))
      /\ ActiveLines \in Seq(Requests) /\ c = Len(journal) - k /\ c \in Nat
      /\ \A i \in 1 .. c : ActiveLines[i] = journal[k + i]
      /\ journal \in Seq(Requests)
  BY Segments DEF Grounds, TypeOK
<1>2. v.batches \in Seq(Requests) /\ Len(v.batches) \in Nat
  BY DEF Prefixes
<1>3. CASE reusable(v)
  <2>1. /\ v.seg = Len(seals) /\ Len(v.batches) <= c
        /\ v.seed = At(journal, k)
        /\ v.batches = SubSeq(journal, k + 1, k + Len(v.batches))
        /\ start_of(v) = v
    BY <1>1, <1>3 DEF reusable, Faithful, start_of
  <2>2. PICK b, n : b = v.batches /\ n = Len(b)
    OBVIOUS
  <2>3. suffix_of(v) = SubSeq(ActiveLines, n + 1, c)
    BY <2>1, <2>2 DEF suffix_of
  <2>4. load_state(v) = [v EXCEPT !.batches = @ \o suffix_of(v)]
    BY <2>1 DEF load_state
  <2>5. [v EXCEPT !.batches = @ \o suffix_of(v)]
          = [seg |-> v.seg, seed |-> v.seed, batches |-> v.batches \o suffix_of(v)]
    BY PrefixWith
  <2> HIDE DEF k
  <2>6. n \in Nat /\ n <= c /\ k + n <= Len(journal) /\ k + n \in Nat /\ k <= k + n
    <3>1. n \in Nat
      BY <1>2, <2>2
    <3>2. n <= c
      BY <2>1, <2>2
    <3> QED BY <1>1, <3>1, <3>2
  <2>7. \A i \in 1 .. n : b[i] = journal[k + i]
    <3>0. PICK e : e = k + n
      OBVIOUS
    <3>1. \A i \in 1 .. e - k : SubSeq(journal, k + 1, e)[i] = journal[k + i]
      <4>1. e \in Nat /\ k <= e /\ e <= Len(journal) /\ k \in Nat
        BY <1>1, <2>6, <3>0
      <4> QED BY <1>1, <4>1, Part
    <3>2. e - k = n
      BY <1>1, <2>6, <3>0
    <3>3. b = SubSeq(journal, k + 1, e)
      BY <2>1, <2>2, <3>0
    <3> QED BY <3>1, <3>2, <3>3
  <2>8. \A i \in 1 .. Len(b) : b[i] = ActiveLines[i]
    BY <1>1, <2>2, <2>6, <2>7
  <2>9. b \o SubSeq(ActiveLines, Len(b) + 1, Len(ActiveLines)) = ActiveLines
    BY <1>1, <1>2, <2>2, <2>6, <2>8, Rejoin
  <2> QED BY <2>1, <2>2, <2>3, <2>4, <2>5, <2>9 DEF Full, k
<1>4. CASE ~reusable(v)
  <2>1. start_of(v) = [seg |-> Len(seals), seed |-> At(journal, k), batches |-> <<>>]
    BY <1>4, SeedOf DEF start_of
  <2>2. suffix_of(v) = SubSeq(ActiveLines, 1, c)
    BY <2>1 DEF suffix_of
  <2>3. SubSeq(ActiveLines, 1, c) = ActiveLines /\ <<>> \o ActiveLines = ActiveLines
    BY <1>1
  <2>4. load_state(v)
          = [seg |-> Len(seals), seed |-> At(journal, k), batches |-> <<>> \o ActiveLines]
    BY <2>1, <2>2, <2>3 DEF load_state
  <2> QED BY <2>3, <2>4 DEF Full
<1> QED BY <1>3, <1>4

\* The empty prefix is faithful.
LEMMA NoPrefixFaithful ==
    ASSUME Grounds
    PROVE  Faithful(NoPrefix) /\ Covered(NoMark)
<1>1. /\ Len(journal) \in Nat /\ Len(seals) \in Nat /\ synced \in Nat /\ journal \in Seq(Requests)
  BY Segments DEF Grounds, TypeOK
<1>2. NoPrefix.seg = 0 /\ NoPrefix.seed = genesis /\ NoPrefix.batches = <<>>
  BY DEF NoPrefix
<1>3. At(journal, 0) = genesis
  BY SeedOf
<1>4. 0 <= LastOf(0)
  BY <1>1, Segments DEF LastOf, Grounds
<1>5. SubSeq(journal, 0 + 1, 0 + 0) = <<>> /\ Len(<<>>) = 0
  BY <1>1
<1>6. FirstOf(0) = 0
  BY DEF FirstOf
<1>7. Faithful(NoPrefix)
  <2>1. NoPrefix.seg <= Len(seals)
    BY <1>1, <1>2
  <2>2. NoPrefix.seed = At(journal, FirstOf(NoPrefix.seg))
    BY <1>2, <1>3, <1>6
  <2>3. FirstOf(NoPrefix.seg) + Len(NoPrefix.batches) <= LastOf(NoPrefix.seg)
    BY <1>2, <1>4, <1>5, <1>6
  <2>4. NoPrefix.batches = SubSeq(journal, FirstOf(NoPrefix.seg) + 1,
                                  FirstOf(NoPrefix.seg) + Len(NoPrefix.batches))
    BY <1>2, <1>5, <1>6
  <2> QED BY <2>1, <2>2, <2>3, <2>4, Zenon DEF Faithful
<1>8. Covered(NoMark)
  BY <1>1, <1>6 DEF Covered, NoMark
<1> QED BY <1>7, <1>8

---------------------------------------------------------------------------
(* Types and the lock *)

\* TypeOK, where each process is and the lock apart.
Rest ==
    /\ journal \in Seq(Requests)
    /\ synced \in 0 .. Len(journal)
    /\ tail \in {"clean", "torn", "cut"}
    /\ sealSynced \in 0 .. Len(seals)
    /\ states \subseteq Nat
    /\ blob \in [Evidence -> Blobs]
    /\ markers \subseteq Requests
    /\ recover \in [Procs -> BOOLEAN]
    /\ req \in [Procs -> Requests]
    /\ temp \in [Procs -> {"none", "cached", "synced"}]
    /\ vouched \subseteq Requests
    /\ crashes \in 0 .. MaxCrashes

Lock ==
    /\ pc \in [Procs -> PcValues]
    /\ writer = {p \in Procs : pc[p] \in Holding}
    /\ \A p, q \in writer : p = q

Records ==
    /\ seals \in Seq(Seals)
    /\ verified \in [Procs -> Prefixes]
    /\ watermark \in [Procs -> Marks]

LEMMA TypesSplit ==
    /\ TypeOK /\ Shapes => Rest /\ Lock /\ Records
    /\ Rest /\ Lock /\ Records => TypeOK /\ Shapes
<1>1. TypeOK /\ Shapes => Rest /\ Lock /\ Records
  BY DEF TypeOK, Shapes, Rest, Lock, Records, Holding
<1>2. ASSUME Lock PROVE Cardinality(writer) <= 1
  <2>1. CASE writer = {}
    BY <2>1, FS_EmptySet
  <2>2. CASE writer # {}
    <3>1. PICK p \in writer : TRUE
      BY <2>2
    <3>2. writer = {p}
      BY <1>2, <3>1 DEF Lock
    <3> QED BY <3>2, FS_Singleton
  <2> QED BY <2>1, <2>2
<1>3. Rest /\ Lock /\ Records => TypeOK /\ Shapes
  BY <1>2 DEF TypeOK, Shapes, Rest, Lock, Records, Holding
<1> QED BY <1>1, <1>3

\* A process moves, taking the lock when it is free, keeping it or giving it up.
LEMMA LockStep ==
    ASSUME Lock, NEW p \in Procs, NEW x \in PcValues, pc' = [pc EXCEPT ![p] = x],
           \/ writer' = writer /\ (x \in Holding <=> pc[p] \in Holding)
           \/ writer' = {} /\ x \notin Holding /\ pc[p] \in Holding
           \/ writer' = {p} /\ x \in Holding /\ writer = {}
           \/ writer' = writer \ {p} /\ x \notin Holding
    PROVE  Lock'
<1>1. pc' \in [Procs -> PcValues] /\ pc'[p] = x /\ \A q \in Procs : q # p => pc'[q] = pc[q]
  BY DEF Lock
<1>2. ASSUME pc[p] \in Holding, NEW q \in Procs, pc[q] \in Holding PROVE q = p
  BY <1>2 DEF Lock
<1>3. /\ \A q \in Procs : q \in writer <=> pc[q] \in Holding
      /\ writer \subseteq Procs
  BY DEF Lock
<1>4. ASSUME NEW q \in Procs PROVE q \in writer' <=> pc'[q] \in Holding
  BY <1>1, <1>2, <1>3
<1>5. writer' \subseteq Procs
  BY <1>3
<1>6. writer' = {q \in Procs : pc'[q] \in Holding}
  BY <1>4, <1>5
<1>7. \A q, r \in writer' : q = r
  BY DEF Lock
<1> QED BY <1>1, <1>6, <1>7 DEF Lock

LEMMA Places ==
    /\ Opening \cup Appending = Holding
    /\ {"down", "closed", "walked", "upgrade", "open"} \cap Holding = {}
    /\ {"down", "closed", "walked", "upgrade", "open"} \subseteq PcValues
    /\ {"trim", "trimsync", "resync", "reconcile", "rotate", "seal", "next", "validate", "staged",
        "publish", "write", "written", "mark"} = Holding
    /\ Holding \subseteq PcValues
    /\ Opening \subseteq Holding
    /\ Loaded \cup Synced \subseteq Holding
    /\ \A p \in Procs : Shut(p) \in {"down", "closed"}
BY DEF Holding, PcValues, Opening, Appending, Shut, Loaded, Synced

\* What every step starts from.
LEMMA Context ==
    ASSUME StoreInv, NEW p \in Procs
    PROVE  /\ Grounds /\ Rest /\ Lock /\ Records
           /\ NoPrefix \in Prefixes /\ Faithful(NoPrefix) /\ NoMark \in Marks /\ Covered(NoMark)
           /\ Full \in Prefixes /\ Faithful(Full)
           /\ load_state(verified[p]) = Full /\ load_state(NoPrefix) = Full
           /\ verified[p] \in Prefixes /\ Faithful(verified[p]) /\ kept(p) \in Prefixes
           /\ Faithful(kept(p))
           /\ watermark[p] \in Marks /\ Covered(watermark[p])
           /\ no_request \in Requests /\ req[p] \in Requests
<1>1. Grounds /\ Rest /\ Lock /\ Records
  BY TypesSplit DEF StoreInv, Grounds
<1>2. NoPrefix \in Prefixes /\ NoMark \in Marks /\ Faithful(NoPrefix) /\ Covered(NoMark)
  BY <1>1, NoPrefixFacts, NoPrefixFaithful
<1>3. verified[p] \in Prefixes /\ watermark[p] \in Marks /\ req[p] \in Requests
  BY <1>1 DEF Records, Rest
<1>4. Faithful(verified[p]) /\ Covered(watermark[p])
  BY DEF StoreInv, CacheInv
<1>5. no_request \in Requests
  BY RequestsAssumption DEF no_request
<1>6. Full \in Prefixes /\ Faithful(Full)
  BY <1>1, FullFacts
<1>7. load_state(verified[p]) = Full /\ load_state(NoPrefix) = Full
  BY <1>1, <1>2, <1>3, <1>4, LoadFull
<1>8. kept(p) \in Prefixes /\ Faithful(kept(p))
  BY <1>2, <1>3, <1>4 DEF kept
<1> QED BY <1>1, <1>2, <1>3, <1>4, <1>5, <1>6, <1>7, <1>8

---------------------------------------------------------------------------
(* Steps that leave the lines, the seals and the blobs as they are *)

Quiet(p) ==
    /\ UNCHANGED <<journal, seals, blob>>
    /\ synced' \in {synced, Len(journal)}
    /\ states \subseteq states'
    /\ \A q \in Procs : q # p =>
          /\ pc'[q] = pc[q] /\ req'[q] = req[q] /\ temp'[q] = temp[q]
          /\ verified'[q] = verified[q] /\ watermark'[q] = watermark[q]

LEMMA QuietStep ==
    ASSUME StoreInv, NEW p \in Procs, Rest', Lock', Records', Quiet(p),
           Faithful(verified'[p]), Covered(watermark[p])', Vouched', HolderInv(p)'
    PROVE  StoreInv'
<1>1. /\ journal' = journal /\ seals' = seals /\ blob' = blob /\ states \subseteq states'
      /\ synced \in Nat /\ Len(journal) \in Nat /\ synced <= synced'
      /\ synced = Len(journal) => synced' = synced
  BY Segments DEF Quiet, StoreInv, Grounds
<1>2. TypeOK' /\ Shapes'
  BY TypesSplit, PTL
<1>3. LinesFit' /\ BlobsWhole' /\ RefsDurable'
  BY <1>1 DEF StoreInv, LinesFit, BlobsWhole, RefsDurable
<1>4. ChainInv'
  <2>1. ASSUME NEW i \in 1 .. Len(seals)
        PROVE  seals[i].upto <= synced' /\ i - 1 \in states'
    <3>1. seals[i].upto \in Nat /\ seals[i].upto <= synced /\ i - 1 \in states
      <4>1. seals[i] \in Seals
        BY DEF StoreInv, Shapes
      <4> QED BY <4>1 DEF StoreInv, ChainInv, Seals
    <3>2. synced' \in Nat
      BY DEF Rest
    <3> QED BY <1>1, <3>1, <3>2
  <2> QED BY <1>1, <2>1 DEF StoreInv, ChainInv
<1>5. \A q \in Procs : Faithful(verified[q])'
  <2>1. \A q \in Procs : Faithful(verified'[q])
    BY DEF StoreInv, CacheInv, Quiet
  <2> QED BY <1>1, <2>1 DEF Faithful, FirstOf, LastOf
<1>6. \A q \in Procs : Covered(watermark[q])'
  <2>1. ASSUME NEW q \in Procs, q # p PROVE Covered(watermark[q])'
    <3>1. watermark'[q] = watermark[q] /\ Covered(watermark[q]) /\ watermark[q] \in Marks
      BY <2>1, Context DEF Quiet
    <3>2. /\ watermark[q].seg \in Nat /\ watermark[q].lines \in Nat
          /\ watermark[q].seg <= Len(seals) /\ Len(seals) \in Nat
          /\ FirstOf(watermark[q].seg) + watermark[q].lines <= synced
      BY <3>1, Segments, Context DEF Covered, Marks
    <3>3. FirstOf(watermark[q].seg) \in Nat
      BY <3>2, Segments, Context
    <3>4. synced' \in Nat
      BY DEF Rest
    <3>5. FirstOf(watermark[q].seg)' = FirstOf(watermark[q].seg)
      BY <1>1, <3>1 DEF FirstOf
    <3> QED BY <1>1, <3>1, <3>2, <3>3, <3>4, <3>5 DEF Covered
  <2> QED BY <2>1
<1>7. ASSUME NEW q \in Procs PROVE HolderInv(q)'
  <2>1. CASE q = p
    BY <2>1
  <2>2. CASE q # p
    <3>1. /\ HolderInv(q)
          /\ pc'[q] = pc[q] /\ req'[q] = req[q] /\ temp'[q] = temp[q] /\ verified'[q] = verified[q]
      BY <2>2 DEF StoreInv, Quiet
    <3>2. Full' = Full
      BY <1>1 DEF Full, SealedLines, ActiveLines
    <3> QED BY <1>1, <3>1, <3>2 DEF HolderInv
  <2> QED BY <2>1, <2>2
<1> QED BY <1>2, <1>3, <1>4, <1>5, <1>6, <1>7 DEF StoreInv, CacheInv

\* The disk and the processes but p as a quiet step leaves them, its lines more durable perhaps.
Still(p) ==
    /\ UNCHANGED <<journal, seals, blob>>
    /\ synced' \in {synced, Len(journal)}
    /\ states \subseteq states'
    /\ \A q \in Procs : q # p => req'[q] = req[q] /\ temp'[q] = temp[q]

\* Batches that are durable are vouched for.
Answers(B) == vouched' = vouched \cup B /\ \A b \in B : \E i \in 1 .. synced' : journal[i] = b

LEMMA NoAnswer == vouched' = vouched => \E B : Answers(B)
<1>1. vouched' = vouched => Answers({})
  BY DEF Answers
<1> QED BY <1>1

LEMMA HolderStep ==
    ASSUME StoreInv, NEW p \in Procs, Rest', Still(p), \E B : Answers(B),
           NEW v \in Prefixes, Faithful(v), verified' = [verified EXCEPT ![p] = v],
           NEW w \in Marks, watermark' = [watermark EXCEPT ![p] = w], Covered(watermark[p])',
           NEW x \in PcValues, pc' = [pc EXCEPT ![p] = x],
           \/ writer' = writer /\ (x \in Holding <=> pc[p] \in Holding)
           \/ writer' = {} /\ x \notin Holding /\ pc[p] \in Holding
           \/ writer' = {p} /\ x \in Holding /\ writer = {}
           \/ writer' = writer \ {p} /\ x \notin Holding,
           x \in Holding => HolderInv(p)'
    PROVE  StoreInv'
<1>1. Rest /\ Lock /\ Records /\ Grounds
  BY Context
<1>2. Lock'
  BY <1>1, LockStep
<1>3. Records' /\ verified'[p] = v
  BY <1>1 DEF Records, Still
<1>4. Quiet(p)
  BY <1>1 DEF Still, Quiet, Records, Lock
<1>5. Vouched'
  <2>1. journal' = journal /\ synced \in Nat /\ synced' \in Nat /\ synced <= synced'
    BY <1>1, Segments DEF Still
  <2>2. ASSUME NEW b \in vouched PROVE \E i \in 1 .. synced' : journal[i] = b
    <3>1. PICK i \in 1 .. synced : journal[i] = b
      BY DEF StoreInv, Vouched
    <3>2. i \in 1 .. synced'
      BY <2>1
    <3> QED BY <3>1, <3>2
  <2>3. \A b \in vouched' : \E i \in 1 .. synced' : journal[i] = b
    BY <2>2 DEF Answers
  <2> QED BY <2>1, <2>3 DEF Vouched
<1>6. HolderInv(p)'
  <2>1. pc'[p] = x
    BY <1>1 DEF Lock
  <2>2. ASSUME x \notin Holding PROVE HolderInv(p)'
    <3>1. /\ pc'[p] \notin Loaded /\ pc'[p] \notin Synced /\ pc'[p] # "seal" /\ pc'[p] # "publish"
          /\ pc'[p] # "write" /\ pc'[p] \notin {"staged", "publish", "write"}
          /\ pc'[p] \notin {"written", "mark"}
      BY <2>1, <2>2, Places
    <3> QED BY <3>1 DEF HolderInv
  <2> QED BY <2>2
<1>7. Faithful(verified'[p])
  BY <1>3
<1> QED BY <1>2, <1>3, <1>4, <1>5, <1>6, <1>7, QuietStep

\* p ends without the lock.
LEMMA IdleStep ==
    ASSUME StoreInv, NEW p \in Procs, Rest', Still(p), \E B : Answers(B),
           NEW v \in Prefixes, Faithful(v), verified' = [verified EXCEPT ![p] = v],
           watermark' = watermark \/ watermark' = [watermark EXCEPT ![p] = NoMark],
           NEW x \in {"down", "closed", "walked", "upgrade", "open"},
           pc' = [pc EXCEPT ![p] = x],
           \/ writer' = writer /\ pc[p] \notin Holding
           \/ writer' = {} /\ pc[p] \in Holding
           \/ writer' = writer \ {p}
    PROVE  StoreInv'
<1>1. x \in PcValues /\ x \notin Holding
  BY Places
<1>2. Rest /\ Records /\ Grounds /\ watermark[p] \in Marks /\ NoMark \in Marks
      /\ Covered(watermark[p]) /\ Covered(NoMark)
  BY Context
<1>3. PICK w : w = watermark'[p]
  OBVIOUS
<1>4. w \in Marks /\ watermark' = [watermark EXCEPT ![p] = w] /\ Covered(w)
  BY <1>2, <1>3 DEF Records
<1>5. Covered(watermark[p])'
  <2>1. /\ seals' = seals /\ synced \in Nat /\ synced' \in Nat /\ synced <= synced'
        /\ Len(seals) \in Nat
    BY <1>2, Segments DEF Still
  <2>2. /\ w.seg \in Nat /\ w.lines \in Nat /\ w.seg <= Len(seals)
        /\ FirstOf(w.seg) + w.lines <= synced
    BY <1>4 DEF Covered, Marks
  <2>3. FirstOf(w.seg) \in Nat /\ FirstOf(watermark[p].seg)' = FirstOf(w.seg)
    BY <1>2, <1>3, <2>1, <2>2, Segments DEF FirstOf
  <2> QED BY <1>3, <2>1, <2>2, <2>3 DEF Covered
<1> QED BY <1>1, <1>4, <1>5, HolderStep

LEMMA WalkStep ==
    ASSUME StoreInv, NEW p \in Procs, walk_before_lock(p)
    PROVE  StoreInv'
<1>1. /\ Rest /\ Lock /\ Records /\ Grounds
      /\ verified[p] \in Prefixes /\ Faithful(verified[p])
  BY Context
<1>2. /\ Len(journal) \in Nat /\ Len(seals) \in Nat /\ journal \in Seq(Requests)
      /\ seals \in Seq(Seals)
  BY <1>1, Segments DEF Rest, Records
<1>3. PICK v : v = verified'[p]
  OBVIOUS
<1>4. verified' = [verified EXCEPT ![p] = v]
  BY <1>1, <1>3 DEF walk_before_lock, Records
<1>5. ASSUME states = {}, v = [seg |-> 0, seed |-> genesis, batches |-> journal]
      PROVE  v \in Prefixes /\ Faithful(v)
  <2>1. Len(seals) = 0
    <3>1. SUFFICES ASSUME Len(seals) # 0 PROVE FALSE
      OBVIOUS
    <3>2. 1 \in 1 .. Len(seals)
      BY <1>2, <3>1
    <3>3. 1 - 1 \in states
      BY <1>1, <3>2 DEF Grounds, ChainInv
    <3> QED BY <1>5, <3>3
  <2>2. Full = v
    <3>1. SealedLines = 0
      BY <1>2, <2>1 DEF SealedLines
    <3>2. ActiveLines = journal
      BY <1>2, <3>1 DEF ActiveLines
    <3>3. At(journal, 0) = genesis
      BY <1>1, SeedOf
    <3> QED BY <1>5, <2>1, <3>1, <3>2, <3>3 DEF Full
  <2> QED BY <2>2, <1>1, FullFacts
<1>6. v \in Prefixes /\ Faithful(v)
  <2>1. \/ v = verified[p]
        \/ states = {} /\ v = [seg |-> 0, seed |-> genesis, batches |-> journal]
    BY <1>1, <1>3 DEF walk_before_lock, Records
  <2> QED BY <1>1, <1>5, <2>1
<1>7. Rest'
  BY <1>1 DEF Rest, walk_before_lock, disk
<1>8. Still(p) /\ \E B : Answers(B)
  BY NoAnswer DEF Still, walk_before_lock, disk
<1>9. pc' = [pc EXCEPT ![p] = "walked"] /\ pc[p] \notin Holding /\ writer' = writer
      /\ watermark' = watermark
  BY Places DEF walk_before_lock
<1> QED BY <1>4, <1>6, <1>7, <1>8, <1>9, IdleStep

LEMMA CloseStep ==
    ASSUME StoreInv, NEW p \in Procs, close(p)
    PROVE  StoreInv'
<1>1. Rest /\ kept(p) \in Prefixes /\ Faithful(kept(p))
  BY Context
<1>2. Rest'
  BY <1>1 DEF Rest, close, disk
<1>3. Still(p) /\ \E B : Answers(B)
  BY NoAnswer DEF Still, close, disk
<1>4. /\ Shut(p) \in {"down", "closed"} /\ pc' = [pc EXCEPT ![p] = Shut(p)]
      /\ pc[p] \notin Holding /\ writer' = writer /\ watermark' = watermark
      /\ verified' = [verified EXCEPT ![p] = kept(p)]
  BY Places DEF close
<1> QED BY <1>1, <1>2, <1>3, <1>4, IdleStep

\* An open or a load that reads and ends without a usable state.
LEMMA RefusalStep ==
    ASSUME StoreInv, NEW p \in Procs, open_shared_dirty(p) \/ open_refused(p) \/ load_refused(p)
    PROVE  StoreInv'
<1>1. Rest /\ Lock /\ Records /\ NoPrefix \in Prefixes /\ Faithful(NoPrefix)
  BY Context
<1>2. Rest'
  <2>1. /\ sealSynced' = Len(seals) /\ Len(seals) \in Nat
        /\ UNCHANGED <<journal, synced, tail, seals, states, blob, markers, recover, req, temp,
                       vouched, crashes>>
    BY <1>1 DEF Records, open_shared_dirty, open_refused, load_refused
  <2> QED BY <1>1, <2>1 DEF Rest
<1>3. Still(p) /\ \E B : Answers(B)
  BY NoAnswer DEF Still, open_shared_dirty, open_refused, load_refused
<1>4. PICK x : x = pc'[p]
  OBVIOUS
<1>5. /\ pc[p] \notin Holding /\ writer' = writer /\ watermark' = watermark
      /\ verified' = [verified EXCEPT ![p] = NoPrefix]
  BY Places DEF open_shared_dirty, open_refused, load_refused
<1>6. x \in {"down", "closed", "upgrade", "open"} /\ pc' = [pc EXCEPT ![p] = x]
  BY <1>1, <1>4, Places DEF Lock, open_shared_dirty, open_refused, load_refused
<1> QED BY <1>1, <1>2, <1>3, <1>5, <1>6, IdleStep

LEMMA OpenDoneStep ==
    ASSUME StoreInv, NEW p \in Procs, open_done(p)
    PROVE  StoreInv'
<1>1. /\ Rest /\ Lock /\ Records /\ NoPrefix \in Prefixes /\ Faithful(NoPrefix) /\ Grounds
      /\ verified[p] \in Prefixes /\ Faithful(verified[p])
  BY Context
<1>2. pc[p] = "reconcile" /\ verified[p] = Full
  BY DEF open_done, StoreInv, HolderInv, Loaded
<1>3. publications(verified[p]) \subseteq Requests
  <2>1. Entries(history(verified[p])) = Entries(journal)
    BY <1>1, <1>2, FullFacts
  <2>2. Entries(journal) \subseteq Requests
    BY <1>1 DEF Rest, Entries
  <2> QED BY <2>1, <2>2 DEF publications
<1>4. Rest'
  BY <1>1, <1>3 DEF Rest, open_done
<1>5. Still(p) /\ \E B : Answers(B)
  BY NoAnswer DEF Still, open_done
<1>6. PICK x, v : x = pc'[p] /\ v = verified'[p]
  OBVIOUS
<1>7. x \in {"closed", "open"} /\ pc' = [pc EXCEPT ![p] = x]
  BY <1>1, <1>6 DEF Lock, open_done
<1>8. /\ v \in {NoPrefix, verified[p]} /\ verified' = [verified EXCEPT ![p] = v]
      /\ watermark' = watermark /\ writer' = {}
  BY <1>1, <1>6 DEF Records, open_done
<1>9. pc[p] \in Holding /\ v \in Prefixes /\ Faithful(v)
  BY <1>1, <1>2, <1>8, Places
<1> QED BY <1>4, <1>5, <1>7, <1>8, <1>9, IdleStep

LEMMA InJournal ==
    ASSUME Grounds
    PROVE  /\ \A b \in Entries(journal) : b \in Requests /\ \E i \in 1 .. Len(journal) : journal[i] = b
           /\ \A r : batch_holding_keys(Full, r) \subseteq Entries(journal)
<1>1. journal \in Seq(Requests)
  BY DEF Grounds, TypeOK
<1>2. \A b \in Entries(journal) : b \in Requests /\ \E i \in 1 .. Len(journal) : journal[i] = b
  BY <1>1 DEF Entries
<1>3. Entries(history(Full)) = Entries(journal)
  BY FullFacts
<1>4. ASSUME NEW r PROVE batch_holding_keys(Full, r) \subseteq Entries(journal)
  BY <1>3 DEF batch_holding_keys
<1> QED BY <1>2, <1>4

\* The sync of a loaded journal covers all of it.
LEMMA SyncLoaded ==
    ASSUME Grounds, sync_loaded_journal(Full)
    PROVE  /\ synced' = Len(journal)
           /\ tail' \in {"clean", "torn", "cut"}
<1>1. tail \in {"clean", "torn", "cut"}
  BY DEF Grounds, TypeOK
<1> QED BY <1>1, FullFacts DEF sync_loaded_journal, sync_data

\* An append that ends without writing a line.
LEMMA AppendEndStep ==
    ASSUME StoreInv, NEW p \in Procs,
           append_recorded(p) \/ append_refused(p) \/ write_half_line(p) \/ append_done(p)
    PROVE  StoreInv'
<1>1. /\ Rest /\ Lock /\ Records /\ Grounds /\ no_request \in Requests /\ req[p] \in Requests
      /\ verified[p] \in Prefixes /\ Faithful(verified[p])
  BY Context
<1>2. /\ pc[p] \in {"validate", "write", "mark"}
      /\ UNCHANGED <<journal, synced, seals, sealSynced, states, blob, recover, temp, verified,
                     watermark, crashes>>
      /\ tail' \in {tail, "torn"}
      /\ markers' \in {markers, markers \cup {b \in {req[p]} : b.version # 0}}
      /\ vouched' \in {vouched, vouched \cup {req[p]}}
      /\ req' = [req EXCEPT ![p] = no_request]
      /\ pc' = [pc EXCEPT ![p] = "open"] /\ writer' = {}
  BY DEF append_recorded, append_refused, write_half_line, append_done, disk
<1>3. Rest'
  BY <1>1, <1>2 DEF Rest
<1>4. Still(p)
  BY <1>1, <1>2 DEF Still, Rest
<1>5. \E B : Answers(B)
  <2>1. CASE append_recorded(p)
    <3>1. pc[p] = "validate" /\ verified[p] = Full /\ synced = Len(journal)
      BY <2>1 DEF append_recorded, StoreInv, HolderInv, Loaded, Synced
    <3>2. req[p] \in batch_holding_keys(Full, req[p])
      BY <2>1, <3>1 DEF append_recorded
    <3>3. \E i \in 1 .. Len(journal) : journal[i] = req[p]
      BY <1>1, <3>2, InJournal
    <3>4. Answers({req[p]})
      BY <1>2, <2>1, <3>1, <3>3 DEF Answers, append_recorded
    <3> QED BY <3>4
  <2>2. CASE append_done(p)
    <3>1. /\ pc[p] = "mark" /\ synced = Len(journal) /\ Len(journal) # 0
          /\ journal[Len(journal)] = req[p]
      BY <2>2 DEF append_done, StoreInv, HolderInv, Synced
    <3>2. Len(journal) \in 1 .. synced'
      BY <1>1, <1>2, <3>1, Segments
    <3>3. Answers({req[p]})
      BY <1>2, <2>2, <3>1, <3>2 DEF Answers, append_done
    <3> QED BY <3>3
  <2>3. CASE append_refused(p) \/ write_half_line(p)
    BY <2>3, NoAnswer DEF append_refused, write_half_line
  <2> QED BY <2>1, <2>2, <2>3
<1>6. pc[p] \in Holding /\ verified' = [verified EXCEPT ![p] = verified[p]]
  BY <1>1, <1>2, Places DEF Records
<1> QED BY <1>1, <1>2, <1>3, <1>4, <1>5, <1>6, IdleStep

LEMMA ReadStepKeeps ==
    ASSUME StoreInv, NEW p \in Procs, ReadStep(p)
    PROVE  StoreInv'
<1>1. /\ Rest /\ Lock /\ Records /\ Grounds
      /\ load_state(verified[p]) = Full /\ Full \in Prefixes /\ Faithful(Full)
  BY Context
<1>2. /\ pc[p] = "open" /\ sealSynced' = Len(seals) /\ Len(seals) \in Nat /\ Len(journal) \in Nat
      /\ verified' = [verified EXCEPT ![p] = Full]
      /\ UNCHANGED <<journal, seals, states, blob, markers, writer, pc, recover, req, temp,
                     watermark, crashes>>
  BY <1>1, Segments DEF ReadStep, read_stream, committed_events_for_idempotency
<1>3. /\ synced' \in {synced, Len(journal)} /\ tail' \in {"clean", "torn", "cut"}
      /\ vouched' \subseteq Requests
      /\ \E B : Answers(B)
  <2>1. CASE read_stream(p)
    BY <1>1, <2>1, NoAnswer DEF read_stream, Rest
  <2>2. ASSUME NEW r \in Requests, NEW k \in r.keys, committed_events_for_idempotency(p, r, k)
        PROVE  /\ synced' = Len(journal) /\ tail' \in {"clean", "torn", "cut"}
               /\ vouched' \subseteq Requests
               /\ \E B : Answers(B)
    <3>1. PICK B : B = batch_holding_keys(Full, [r EXCEPT !.keys = {k}])
      OBVIOUS
    <3>2. sync_loaded_journal(Full) /\ vouched' = vouched \cup B
      BY <1>1, <2>2, <3>1 DEF committed_events_for_idempotency
    <3>3. synced' = Len(journal) /\ tail' \in {"clean", "torn", "cut"}
      BY <1>1, <3>2, SyncLoaded
    <3>4. B \subseteq Entries(journal)
      BY <1>1, <3>1, InJournal
    <3>5. \A b \in B : b \in Requests /\ \E i \in 1 .. Len(journal) : journal[i] = b
      BY <1>1, <3>4, InJournal
    <3>6. Answers(B)
      BY <3>2, <3>3, <3>5 DEF Answers
    <3>7. vouched' \subseteq Requests
      BY <1>1, <3>2, <3>5 DEF Rest
    <3> QED BY <3>3, <3>6, <3>7
  <2> QED BY <2>1, <2>2 DEF ReadStep
<1>4. Rest'
  BY <1>1, <1>2, <1>3 DEF Rest
<1>5. Still(p)
  BY <1>2, <1>3 DEF Still
<1>6. pc' = [pc EXCEPT ![p] = "open"] /\ pc[p] \notin Holding
  BY <1>1, <1>2, Places DEF Lock
<1> QED BY <1>1, <1>2, <1>3, <1>4, <1>5, <1>6, IdleStep

LEMMA FailureStep ==
    ASSUME StoreInv, NEW p \in Procs, io_error(p) \/ kill(p)
    PROVE  StoreInv'
<1>1. /\ Rest /\ Lock /\ Records /\ Grounds /\ no_request \in Requests
      /\ NoPrefix \in Prefixes /\ Faithful(NoPrefix)
      /\ verified[p] \in Prefixes /\ Faithful(verified[p])
      /\ kept(p) \in Prefixes /\ Faithful(kept(p))
  BY Context
<1>2. /\ UNCHANGED <<journal, synced, tail, seals, sealSynced, states, blob, markers, vouched>>
      /\ req' = [req EXCEPT ![p] = no_request] /\ temp' = [temp EXCEPT ![p] = "none"]
  BY DEF io_error, kill, disk
<1>3. Rest'
  <2>1. recover' \in [Procs -> BOOLEAN]
    <3>1. recover \in [Procs -> BOOLEAN]
      BY <1>1 DEF Rest
    <3>2. recover' = recover \/ recover' = [recover EXCEPT ![p] = FALSE]
      BY DEF io_error, kill
    <3> QED BY <3>1, <3>2, Zenon
  <2>2. crashes' \in 0 .. MaxCrashes
    BY <1>1, CrashAssumption DEF Rest, io_error, kill
  <2> QED BY <1>1, <1>2, <2>1, <2>2 DEF Rest
<1>4. Still(p) /\ \E B : Answers(B)
  BY <1>1, <1>2, NoAnswer DEF Still, Rest
<1>5. PICK x, v : x = pc'[p] /\ v = verified'[p]
  OBVIOUS
<1>6. x \in {"down", "closed", "open"} /\ pc' = [pc EXCEPT ![p] = x]
  BY <1>1, <1>5, Places DEF Lock, io_error, kill
<1>7. v \in {NoPrefix, kept(p), verified[p]} /\ verified' = [verified EXCEPT ![p] = v]
  BY <1>1, <1>5 DEF Records, io_error, kill
<1>8. /\ watermark' = watermark \/ watermark' = [watermark EXCEPT ![p] = NoMark]
      /\ (writer' = {} /\ pc[p] \in Holding) \/ writer' = writer \ {p}
  BY Places DEF io_error, kill
<1>9. v \in Prefixes /\ Faithful(v)
  BY <1>1, <1>7
<1> QED BY <1>3, <1>4, <1>6, <1>7, <1>8, <1>9, IdleStep

\* The shared fast path leaves the extent it loaded durable, and may note that.
LEMMA CleanOpenStep ==
    ASSUME StoreInv, NEW p \in Procs, open_shared_clean(p)
    PROVE  StoreInv'
<1>1. /\ Rest /\ Lock /\ Records /\ Grounds
      /\ load_state(verified[p]) = Full /\ Full \in Prefixes /\ Faithful(Full)
      /\ NoPrefix \in Prefixes /\ Faithful(NoPrefix)
      /\ watermark[p] \in Marks /\ Covered(watermark[p])
  BY Context
<1>2. /\ pc[p] = "walked" /\ sealSynced' = Len(seals) /\ Len(seals) \in Nat
      /\ Len(journal) \in Nat /\ synced \in Nat /\ synced <= Len(journal)
      /\ sync_journal_beyond_watermark(p, Full)
      /\ UNCHANGED <<journal, seals, states, blob, markers, writer, recover, req, temp, vouched,
                     crashes>>
  BY <1>1, Segments DEF open_shared_clean
<1>3. /\ synced' \in {synced, Len(journal)} /\ tail' \in {"clean", "torn", "cut"}
      /\ \/ watermark' = watermark
         \/ watermark' = [watermark EXCEPT ![p] = Mark(Full)] /\ synced' = Len(journal)
  <2>1. sync_loaded_journal(Full) => synced' = Len(journal) /\ tail' \in {"clean", "torn", "cut"}
    BY <1>1, SyncLoaded
  <2>2. tail \in {"clean", "torn", "cut"}
    BY <1>1 DEF Rest
  <2> QED BY <1>2, <2>1, <2>2 DEF sync_journal_beyond_watermark
<1>4. Mark(Full) \in Marks /\ Mark(Full).seg = Len(seals)
      /\ FirstOf(Mark(Full).seg) + Mark(Full).lines = Len(journal)
  <2>1. Full.seg = Len(seals) /\ FirstOf(Full.seg) + Len(Full.batches) = Len(journal)
    BY <1>1, FullFacts
  <2>2. Len(Full.batches) \in Nat
    BY <1>1 DEF Prefixes
  <2> QED BY <1>2, <2>1, <2>2 DEF Mark, Marks
<1>5. Rest'
  BY <1>1, <1>2, <1>3 DEF Rest
<1>6. Still(p) /\ \E B : Answers(B)
  BY <1>2, <1>3, NoAnswer DEF Still
<1>7. PICK x, v, w : x = pc'[p] /\ v = verified'[p] /\ w = watermark'[p]
  OBVIOUS
<1>8. x \in {"closed", "open"} /\ pc' = [pc EXCEPT ![p] = x]
  BY <1>1, <1>7 DEF Lock, open_shared_clean
<1>9. v \in {NoPrefix, Full} /\ verified' = [verified EXCEPT ![p] = v]
  BY <1>1, <1>7 DEF Records, open_shared_clean
<1>10. /\ w \in Marks /\ watermark' = [watermark EXCEPT ![p] = w] /\ w.seg <= Len(seals)
       /\ FirstOf(w.seg) + w.lines <= synced'
  <2>1. CASE watermark' = watermark
    <3>1. w = watermark[p] /\ watermark' = [watermark EXCEPT ![p] = w] /\ w \in Marks
      BY <1>1, <1>7, <2>1 DEF Records
    <3>2. /\ w.seg \in Nat /\ w.lines \in Nat /\ w.seg <= Len(seals)
          /\ FirstOf(w.seg) + w.lines <= synced
      BY <1>1, <3>1 DEF Covered, Marks
    <3>3. FirstOf(w.seg) \in Nat
      BY <1>1, <1>2, <3>2, Segments
    <3> QED BY <1>2, <1>3, <3>1, <3>2, <3>3
  <2>2. CASE watermark' = [watermark EXCEPT ![p] = Mark(Full)] /\ synced' = Len(journal)
    <3>1. w = Mark(Full)
      BY <1>1, <1>7, <2>2 DEF Records
    <3> QED BY <1>2, <1>4, <2>2, <3>1
  <2> QED BY <1>3, <2>1, <2>2
<1>11. Covered(watermark[p])'
  BY <1>2, <1>7, <1>10 DEF Covered, FirstOf
<1>12. pc[p] \notin Holding /\ x \in PcValues /\ x \notin Holding
  BY <1>2, <1>8, Places
<1>13. v \in Prefixes /\ Faithful(v)
  BY <1>1, <1>9
<1> QED BY <1>2, <1>5, <1>6, <1>8, <1>9, <1>10, <1>11, <1>12, <1>13, HolderStep

---------------------------------------------------------------------------
(* Steps of the process that holds the lock *)

\* The same lock step and the same verified prefix: what the holder knows is all there is to show.
LEMMA KeepsWatermark ==
    ASSUME StoreInv, NEW p \in Procs, Rest', Still(p), vouched' = vouched, watermark' = watermark,
           NEW v \in Prefixes, Faithful(v), verified' = [verified EXCEPT ![p] = v],
           NEW x \in Holding, pc' = [pc EXCEPT ![p] = x],
           \/ writer' = writer /\ pc[p] \in Holding
           \/ writer' = {p} /\ writer = {},
           HolderInv(p)'
    PROVE  StoreInv'
<1>1. Rest /\ Records /\ Grounds /\ watermark[p] \in Marks /\ Covered(watermark[p])
  BY Context
<1>2. watermark' = [watermark EXCEPT ![p] = watermark[p]]
  BY <1>1 DEF Records
<1>3. Covered(watermark[p])'
  <2> DEFINE w == watermark[p]
  <2>1. /\ seals' = seals /\ synced \in Nat /\ synced' \in Nat /\ synced <= synced'
        /\ Len(seals) \in Nat
    BY <1>1, Segments DEF Still
  <2>2. /\ w.seg \in Nat /\ w.lines \in Nat /\ w.seg <= Len(seals)
        /\ FirstOf(w.seg) + w.lines <= synced
    BY <1>1 DEF Covered, Marks
  <2>3. FirstOf(w.seg) \in Nat /\ FirstOf(watermark[p].seg)' = FirstOf(w.seg)
    BY <1>1, <2>1, <2>2, Segments DEF FirstOf
  <2> QED BY <2>1, <2>2, <2>3 DEF Covered
<1>4. x \in PcValues /\ \E B : Answers(B)
  BY Places, NoAnswer
<1> QED BY <1>1, <1>2, <1>3, <1>4, HolderStep

LEMMA SameFull ==
    ASSUME journal' = journal, seals' = seals
    PROVE  Full' = Full
BY DEF Full, SealedLines, ActiveLines

\* What recovery knows.
LEMMA OpeningHolder ==
    ASSUME NEW p \in Procs, journal' = journal, seals' = seals, pc'[p] \in Opening,
           pc'[p] \in {"resync", "reconcile"} => verified'[p] = Full
    PROVE  HolderInv(p)'
BY SameFull DEF HolderInv, Opening, Loaded, Synced

LEMMA UpgradeStep ==
    ASSUME StoreInv, NEW p \in Procs, open_upgrade(p)
    PROVE  StoreInv'
<1>1. /\ Rest /\ Lock /\ Records /\ Grounds /\ load_state(NoPrefix) = Full
      /\ Full \in Prefixes /\ Faithful(Full)
      /\ verified[p] \in Prefixes /\ Faithful(verified[p])
  BY Context
<1>2. PICK x, v : x = pc'[p] /\ v = verified'[p]
  OBVIOUS
<1>3. /\ pc' = [pc EXCEPT ![p] = x] /\ verified' = [verified EXCEPT ![p] = v]
      /\ (x = "resync" /\ v = Full) \/ (x = "trim" /\ v = verified[p])
  BY <1>1, <1>2 DEF open_upgrade, Lock, Records
<1>4. Rest'
  <2>1. /\ sealSynced' = Len(seals) /\ Len(seals) \in Nat
        /\ UNCHANGED <<journal, synced, tail, seals, states, blob, markers, recover, req, temp,
                       vouched, crashes>>
    BY <1>1 DEF Records, open_upgrade
  <2> QED BY <1>1, <2>1 DEF Rest
<1>5. /\ Still(p) /\ vouched' = vouched /\ watermark' = watermark /\ writer' = {p} /\ writer = {}
      /\ journal' = journal /\ seals' = seals
  BY DEF Still, open_upgrade
<1>6. HolderInv(p)'
  <2>1. pc'[p] \in Opening /\ (pc'[p] \in {"resync", "reconcile"} => verified'[p] = Full)
    BY <1>2, <1>3 DEF Opening
  <2> QED BY <1>5, <2>1, OpeningHolder
<1>7. x \in Holding /\ v \in Prefixes /\ Faithful(v)
  BY <1>1, <1>3, Places
<1> QED BY <1>3, <1>4, <1>5, <1>6, <1>7, KeepsWatermark

LEMMA RecoveryStep ==
    ASSUME StoreInv, NEW p \in Procs, trim_torn_tail(p) \/ trim_sync(p) \/ open_resync(p)
    PROVE  StoreInv'
<1>1. /\ Rest /\ Lock /\ Records /\ Grounds /\ load_state(NoPrefix) = Full
      /\ Full \in Prefixes /\ Faithful(Full)
      /\ verified[p] \in Prefixes /\ Faithful(verified[p])
  BY Context
<1>2. PICK x, v : x = pc'[p] /\ v = verified'[p]
  OBVIOUS
<1>3. /\ pc[p] \in {"trim", "trimsync", "resync"}
      /\ UNCHANGED <<journal, seals, sealSynced, states, blob, markers, writer, recover, req, temp,
                     watermark, vouched, crashes>>
      /\ pc' = [pc EXCEPT ![p] = x] /\ verified' = [verified EXCEPT ![p] = v]
      /\ x \in {"trimsync", "resync", "reconcile"}
      /\ v \in {Full, verified[p]}
  BY <1>1, <1>2 DEF trim_torn_tail, trim_sync, open_resync, Lock, Records
<1>4. x # "trimsync" => v = Full
  <2>1. pc[p] = "resync" => verified[p] = Full
    BY DEF StoreInv, HolderInv, Loaded
  <2> QED BY <1>1, <1>2, <2>1 DEF trim_torn_tail, trim_sync, open_resync, Lock, Records
<1>5. synced' \in {synced, Len(journal)} /\ tail' \in {"clean", "torn", "cut"}
  <2>1. tail \in {"clean", "torn", "cut"}
    BY <1>1 DEF Rest
  <2> QED BY <2>1 DEF trim_torn_tail, trim_sync, open_resync, sync_data, sync_loaded_journal
<1>6. Rest'
  BY <1>1, <1>3, <1>5, Segments DEF Rest
<1>7. Still(p)
  BY <1>3, <1>5 DEF Still
<1>8. HolderInv(p)'
  <2>1. pc'[p] \in Opening /\ (pc'[p] \in {"resync", "reconcile"} => verified'[p] = Full)
    BY <1>2, <1>3, <1>4 DEF Opening
  <2> QED BY <1>3, <2>1, OpeningHolder
<1>9. x \in Holding /\ pc[p] \in Holding /\ v \in Prefixes /\ Faithful(v)
  BY <1>1, <1>3, Places
<1> QED BY <1>3, <1>6, <1>7, <1>8, <1>9, KeepsWatermark

LEMMA AppendLoadStep ==
    ASSUME StoreInv, NEW p \in Procs, NEW r \in Requests, append_load(p, r)
    PROVE  StoreInv'
<1>1. /\ Rest /\ Lock /\ Records /\ Grounds /\ load_state(verified[p]) = Full
      /\ Full \in Prefixes /\ Faithful(Full)
  BY Context
<1>2. PICK x : x = pc'[p]
  OBVIOUS
<1>3. /\ sync_loaded_journal(Full) /\ sealSynced' = Len(seals) /\ Len(seals) \in Nat
      /\ Len(journal) \in Nat
      /\ req' = [req EXCEPT ![p] = r]
      /\ verified' = [verified EXCEPT ![p] = Full] /\ writer' = {p} /\ writer = {}
      /\ pc' = [pc EXCEPT ![p] = x] /\ x \in {"rotate", "validate"}
      /\ UNCHANGED <<journal, seals, states, blob, markers, recover, temp, watermark, vouched,
                     crashes>>
  BY <1>1, <1>2, Segments DEF append_load, Lock
<1>4. synced' = Len(journal) /\ tail' \in {"clean", "torn", "cut"}
  BY <1>1, <1>3, SyncLoaded
<1>5. Rest'
  BY <1>1, <1>3, <1>4 DEF Rest
<1>6. Still(p)
  BY <1>1, <1>3, <1>4 DEF Still, Rest
<1>7. HolderInv(p)'
  <2>1. pc'[p] = x /\ verified'[p] = Full'
    BY <1>1, <1>2, <1>3, SameFull DEF Records
  <2> QED BY <1>3, <1>4, <2>1 DEF HolderInv
<1>8. x \in Holding
  BY <1>3, Places
<1> QED BY <1>1, <1>3, <1>5, <1>6, <1>7, <1>8, KeepsWatermark

LEMMA RotateStateStep ==
    ASSUME StoreInv, NEW p \in Procs, rotate_state(p)
    PROVE  StoreInv'
<1>1. /\ Rest /\ Lock /\ Records /\ Grounds /\ verified[p] \in Prefixes /\ Faithful(verified[p])
  BY Context
<1>2. pc[p] = "rotate" /\ verified[p] = Full
  BY DEF rotate_state, StoreInv, HolderInv, Loaded
<1>3. /\ synced' = Len(journal) /\ states' = states \cup {Len(seals)}
      /\ Len(seals) \in Nat /\ Len(journal) \in Nat /\ tail' \in {"clean", "torn", "cut"}
      /\ pc' = [pc EXCEPT ![p] = "seal"]
      /\ UNCHANGED <<journal, seals, sealSynced, blob, markers, writer, recover, req, temp,
                     verified, watermark, vouched, crashes>>
  BY <1>1, Segments DEF rotate_state, sync_data, Rest
<1>4. Rest'
  <2>1. states' \subseteq Nat
    BY <1>1, <1>3 DEF Rest
  <2>2. synced' \in 0 .. Len(journal')
    BY <1>3
  <2> QED BY <1>1, <1>3, <2>1, <2>2 DEF Rest
<1>5. Still(p)
  BY <1>3 DEF Still
<1>6. HolderInv(p)'
  <2>1. pc'[p] = "seal" /\ verified'[p] = Full'
    BY <1>1, <1>2, <1>3, SameFull DEF Lock
  <2> QED BY <1>3, <2>1 DEF HolderInv
<1>7. "seal" \in Holding /\ pc[p] \in Holding
  BY <1>2, Places
<1>8. verified' = [verified EXCEPT ![p] = verified[p]]
  BY <1>1, <1>3 DEF Records
<1> QED BY <1>1, <1>3, <1>4, <1>5, <1>6, <1>7, <1>8, KeepsWatermark

LEMMA RotateNextStep ==
    ASSUME StoreInv, NEW p \in Procs, rotate_next(p)
    PROVE  StoreInv'
<1>1. /\ Rest /\ Lock /\ Records /\ Grounds /\ load_state(NoPrefix) = Full
      /\ Full \in Prefixes /\ Faithful(Full)
  BY Context
<1>2. pc[p] = "next" /\ synced = Len(journal)
  BY DEF rotate_next, StoreInv, HolderInv, Synced
<1>3. /\ sealSynced' = Len(seals) /\ Len(seals) \in Nat
      /\ verified' = [verified EXCEPT ![p] = Full]
      /\ pc' = [pc EXCEPT ![p] = "validate"]
      /\ UNCHANGED <<journal, synced, tail, seals, states, blob, markers, writer, recover, req,
                     temp, watermark, vouched, crashes>>
  BY <1>1, Segments DEF rotate_next
<1>4. Rest'
  BY <1>1, <1>3 DEF Rest
<1>5. Still(p)
  BY <1>3 DEF Still
<1>6. HolderInv(p)'
  <2>1. pc'[p] = "validate" /\ verified'[p] = Full'
    BY <1>1, <1>3, SameFull DEF Lock, Records
  <2> QED BY <1>2, <1>3, <2>1 DEF HolderInv
<1>7. "validate" \in Holding /\ pc[p] \in Holding
  BY <1>2, Places
<1> QED BY <1>1, <1>3, <1>4, <1>5, <1>6, <1>7, KeepsWatermark

\* What the append checks against the loaded state is what the walk will ask of the line.
LEMMA AdmissibleFits ==
    ASSUME Grounds, NEW r \in Requests, admissible(Full, r)
    PROVE  Fits(At(journal, Len(journal)), r)
<1> DEFINE st == At(journal, Len(journal))
<1>1. Summary(Full) = st /\ history(Full) = journal
  BY FullFacts
<1>2. Len(journal) \in Nat /\ journal \in Seq(Requests)
  BY Segments DEF Grounds, TypeOK
<1>3. st.keys = UNION {Identities(journal[i]) : i \in 1 .. Len(journal)}
  <2>1. Len(journal) \in 0 .. Len(journal)
    BY <1>2
  <2> QED BY <1>2, <2>1, AtHolds
<1> HIDE DEF st
<1>4. Identities(r) \cap st.keys = {}
  <2>1. SUFFICES ASSUME NEW x, x \in Identities(r), x \in st.keys PROVE FALSE
    OBVIOUS
  <2>2. PICK i \in 1 .. Len(journal) : x \in Identities(journal[i])
    BY <1>3, <2>1
  <2>3. journal[i] \in Entries(journal)
    BY <1>2 DEF Entries
  <2>4. journal[i] \in batch_holding_keys(Full, r)
    BY <1>1, <2>1, <2>2, <2>3 DEF batch_holding_keys
  <2> QED BY <2>4 DEF admissible
<1>5. r.refs \subseteq r.evidence \cup st.evidence
  BY <1>1 DEF admissible, references_available
<1>6. r.expected = st.next[r.stream] /\ (r.version # 0 => r.version = st.version[r.stream] + 1)
  BY <1>1 DEF admissible, graph_successor, sequence_matches
<1> QED BY <1>4, <1>5, <1>6 DEF Fits, st

LEMMA StageStep ==
    ASSUME StoreInv, NEW p \in Procs, stage_evidence(p) \/ sync_staged(p)
    PROVE  StoreInv'
<1>1. /\ Rest /\ Lock /\ Records /\ Grounds /\ verified[p] \in Prefixes /\ Faithful(verified[p])
      /\ req[p] \in Requests
  BY Context
<1>2. PICK x, t : x = pc'[p] /\ t = temp'[p]
  OBVIOUS
<1>3. /\ pc[p] \in {"validate", "staged"} /\ x \in {"staged", "publish"}
      /\ t \in {"cached", "synced"} /\ (x = "publish" => t = "synced")
      /\ pc' = [pc EXCEPT ![p] = x] /\ temp' = [temp EXCEPT ![p] = t]
      /\ UNCHANGED <<journal, synced, tail, seals, sealSynced, states, blob, markers, writer,
                     recover, req, verified, watermark, vouched, crashes>>
  BY <1>1, <1>2 DEF stage_evidence, sync_staged, disk, Lock, Rest
<1>4. verified[p] = Full /\ synced = Len(journal)
  BY <1>3 DEF StoreInv, HolderInv, Loaded, Synced
<1>5. Fits(At(journal, Len(journal)), req[p])
  <2>1. CASE stage_evidence(p)
    <3>1. admissible(Full, req[p])
      BY <1>4, <2>1 DEF stage_evidence
    <3> QED BY <1>1, <3>1, AdmissibleFits
  <2>2. CASE sync_staged(p)
    BY <2>2 DEF sync_staged, StoreInv, HolderInv
  <2> QED BY <2>1, <2>2
<1>6. Rest'
  BY <1>1, <1>3 DEF Rest
<1>7. Still(p)
  BY <1>1, <1>3 DEF Still, Rest
<1>8. HolderInv(p)'
  <2>1. pc'[p] = x /\ temp'[p] = t /\ req'[p] = req[p] /\ verified'[p] = Full'
    BY <1>2, <1>3, <1>4, SameFull
  <2>2. Fits(At(journal, Len(journal)), req[p])'
    BY <1>3, <1>5
  <2> QED BY <1>3, <1>4, <2>1, <2>2 DEF HolderInv
<1>9. x \in Holding /\ pc[p] \in Holding /\ verified' = [verified EXCEPT ![p] = verified[p]]
  BY <1>1, <1>3, Places DEF Records
<1> QED BY <1>1, <1>3, <1>6, <1>7, <1>8, <1>9, KeepsWatermark

\* The line is durable before the watermark covers it.
LEMMA SyncLineStep ==
    ASSUME StoreInv, NEW p \in Procs, sync_line(p)
    PROVE  StoreInv'
<1>1. /\ Rest /\ Lock /\ Records /\ Grounds /\ verified[p] \in Prefixes /\ Faithful(verified[p])
      /\ watermark[p] \in Marks /\ Covered(watermark[p])
  BY Context
<1>2. /\ pc[p] = "written" /\ Len(journal) # 0 /\ journal[Len(journal)] = req[p]
  BY DEF sync_line, StoreInv, HolderInv
<1>3. /\ synced' = Len(journal) /\ Len(journal) \in Nat /\ tail' \in {"clean", "torn", "cut"}
      /\ pc' = [pc EXCEPT ![p] = "mark"]
      /\ UNCHANGED <<journal, seals, sealSynced, states, blob, markers, writer, recover, req, temp,
                     verified, vouched, crashes>>
  BY <1>1, Segments DEF sync_line, sync_data, Rest
<1>4. PICK m, w : m = [seg |-> Len(seals), lines |-> Len(ActiveLines)] /\ w = watermark'[p]
  OBVIOUS
<1>5. w \in {m, watermark[p]} /\ watermark' = [watermark EXCEPT ![p] = w]
  BY <1>1, <1>4 DEF sync_line, raise_watermark, Records
<1>6. /\ synced \in Nat /\ synced <= Len(journal) /\ Len(seals) \in Nat
      /\ Len(ActiveLines) \in Nat
      /\ FirstOf(Len(seals)) + Len(ActiveLines) = Len(journal)
      /\ \A i \in 0 .. Len(seals) : FirstOf(i) \in Nat
  BY <1>1, Segments
<1>7. w \in Marks /\ w.seg <= Len(seals) /\ FirstOf(w.seg) + w.lines <= Len(journal)
  <2>1. CASE w = m
    BY <1>4, <1>6, <2>1 DEF Marks
  <2>2. CASE w = watermark[p]
    <3>1. /\ w.seg \in Nat /\ w.lines \in Nat /\ w.seg <= Len(seals)
          /\ FirstOf(w.seg) + w.lines <= synced
      BY <1>1, <2>2 DEF Covered, Marks
    <3>2. FirstOf(w.seg) \in Nat
      BY <1>6, <3>1
    <3> QED BY <1>1, <1>6, <2>2, <3>1, <3>2
  <2> QED BY <1>5, <2>1, <2>2
<1>8. Covered(watermark[p])'
  BY <1>3, <1>4, <1>7 DEF Covered, FirstOf
<1>9. Rest'
  BY <1>1, <1>3 DEF Rest
<1>10. Still(p) /\ \E B : Answers(B)
  BY <1>3, NoAnswer DEF Still
<1>11. HolderInv(p)'
  <2>1. pc'[p] = "mark"
    BY <1>1, <1>3 DEF Lock
  <2> QED BY <1>2, <1>3, <2>1 DEF HolderInv, Loaded
<1>12. "mark" \in Holding /\ pc[p] \in Holding /\ "mark" \in PcValues
  BY <1>2, Places
<1>13. verified' = [verified EXCEPT ![p] = verified[p]] /\ writer' = writer
  BY <1>1, <1>3 DEF Records
<1> QED BY <1>1, <1>3, <1>5, <1>7, <1>8, <1>9, <1>10, <1>11, <1>12, <1>13, HolderStep

---------------------------------------------------------------------------
(* Steps that change the blobs, the lines or the seals *)

LEMMA OthersIdle ==
    ASSUME Lock, NEW p \in Procs, pc[p] \in Holding, NEW q \in Procs, q # p, pc'[q] = pc[q]
    PROVE  HolderInv(q)'
<1>1. pc'[q] \notin Holding
  BY DEF Lock
<1>2. /\ pc'[q] \notin Loaded /\ pc'[q] \notin Synced /\ pc'[q] # "seal" /\ pc'[q] # "publish"
      /\ pc'[q] # "write" /\ pc'[q] \notin {"staged", "publish", "write"}
      /\ pc'[q] \notin {"written", "mark"}
  BY <1>1, Places
<1> QED BY <1>2 DEF HolderInv

LEMMA BlobStep ==
    ASSUME StoreInv, NEW p \in Procs, pc[p] \in Holding, Rest', Lock',
           UNCHANGED <<journal, synced, seals, states, verified, watermark, vouched>>,
           \A q \in Procs : q # p => pc'[q] = pc[q],
           BlobsWhole', RefsDurable', HolderInv(p)'
    PROVE  StoreInv'
<1>1. Lock /\ Records
  BY Context
<1>2. Records'
  BY <1>1 DEF Records
<1>3. TypeOK' /\ Shapes'
  BY <1>2, TypesSplit, PTL
<1>4. LinesFit' /\ ChainInv' /\ CacheInv' /\ Vouched'
  BY DEF StoreInv, LinesFit, ChainInv, CacheInv, Vouched, Faithful, Covered, FirstOf, LastOf
<1>5. \A q \in Procs : HolderInv(q)'
  BY <1>1, OthersIdle
<1> QED BY <1>3, <1>4, <1>5 DEF StoreInv

\* The evidence of the state after n lines is what the lines refer to.
LEMMA EvidenceOf ==
    ASSUME Grounds
    PROVE  \A e : e \in At(journal, Len(journal)).evidence
                    <=> \E i \in 1 .. Len(journal) : e \in journal[i].refs
<1>1. Len(journal) \in Nat /\ Len(journal) \in 0 .. Len(journal)
  BY Segments
<1>2. At(journal, Len(journal)).evidence = UNION {journal[i].refs : i \in 1 .. Len(journal)}
  BY <1>1, AtHolds
<1> QED BY <1>2

LEMMA ReconcileStep ==
    ASSUME StoreInv, NEW p \in Procs, reconcile_orphans(p)
    PROVE  StoreInv'
<1>1. Rest /\ Lock /\ Records /\ Grounds
  BY Context
<1>2. pc[p] = "reconcile" /\ verified[p] = Full /\ pc[p] \in Holding
  BY Places DEF reconcile_orphans, StoreInv, HolderInv, Loaded
<1>3. PICK e \in orphans(Full) : blob' = [blob EXCEPT ![e] = [entry |-> "none", bytes |-> "cached"]]
  BY <1>2 DEF reconcile_orphans
<1>4. UNCHANGED <<journal, synced, tail, seals, sealSynced, states, markers, writer, pc, recover,
                  req, temp, verified, watermark, vouched, crashes>>
  BY DEF reconcile_orphans
<1>5. e \in Evidence /\ \A i \in 1 .. Len(journal) : e \notin journal[i].refs
  BY <1>1, <1>3, FullFacts, EvidenceOf DEF orphans
<1>6. blob \in [Evidence -> Blobs] /\ blob' \in [Evidence -> Blobs]
  BY <1>1, <1>3, <1>5 DEF Rest, Blobs
<1>7. Rest' /\ Lock'
  BY <1>1, <1>4, <1>6 DEF Rest, Lock
<1>8. BlobsWhole'
  BY <1>3, <1>5, <1>6 DEF StoreInv, BlobsWhole
<1>9. RefsDurable'
  <2>1. ASSUME NEW i \in 1 .. Len(journal), NEW f \in journal[i].refs PROVE blob'[f].entry = "durable"
    <3>1. f # e /\ blob[f].entry = "durable"
      BY <1>5 DEF StoreInv, RefsDurable
    <3>2. blob'[f] = blob[f]
      BY <1>3, <1>6, <3>1
    <3> QED BY <3>1, <3>2
  <2> QED BY <1>4, <2>1 DEF RefsDurable
<1>10. HolderInv(p)'
  <2>1. Full' = Full
    BY <1>4, SameFull
  <2> QED BY <1>2, <1>4, <2>1 DEF HolderInv, Synced
<1> QED BY <1>2, <1>4, <1>7, <1>8, <1>9, <1>10, BlobStep

LEMMA PublishLinkStep ==
    ASSUME StoreInv, NEW p \in Procs, publish_link(p)
    PROVE  StoreInv'
<1>1. Rest /\ Lock /\ Records /\ Grounds /\ req[p] \in Requests
  BY Context
<1>2. /\ pc[p] = "publish" /\ verified[p] = Full /\ pc[p] \in Holding /\ temp[p] = "synced"
      /\ synced = Len(journal) /\ Fits(At(journal, Len(journal)), req[p])
  BY Places DEF publish_link, StoreInv, HolderInv, Loaded, Synced
<1>3. PICK e \in req[p].evidence : /\ blob[e].entry = "none"
                                  /\ blob' = [blob EXCEPT ![e] = [entry |-> "linked", bytes |-> temp[p]]]
  BY DEF publish_link
<1>4. UNCHANGED <<journal, synced, tail, seals, sealSynced, states, markers, writer, pc, recover,
                  req, temp, verified, watermark, vouched, crashes>>
  BY DEF publish_link
<1>5. e \in Evidence
  BY <1>1, <1>3, RequestsAssumption DEF RequestShape
<1>6. blob \in [Evidence -> Blobs] /\ blob' \in [Evidence -> Blobs]
  BY <1>1, <1>2, <1>3, <1>5 DEF Rest, Blobs
<1>7. Rest' /\ Lock'
  BY <1>1, <1>4, <1>6 DEF Rest, Lock
<1>8. BlobsWhole'
  BY <1>2, <1>3, <1>5, <1>6 DEF StoreInv, BlobsWhole
<1>9. RefsDurable'
  <2>1. ASSUME NEW i \in 1 .. Len(journal), NEW f \in journal[i].refs PROVE blob'[f].entry = "durable"
    <3>1. blob[f].entry = "durable"
      BY DEF StoreInv, RefsDurable
    <3>2. f # e
      BY <1>3, <3>1
    <3>3. blob'[f] = blob[f]
      BY <1>3, <1>6, <3>2
    <3> QED BY <3>1, <3>3
  <2> QED BY <1>4, <2>1 DEF RefsDurable
<1>10. HolderInv(p)'
  <2>1. Full' = Full /\ Fits(At(journal, Len(journal)), req[p])'
    BY <1>2, <1>4, SameFull
  <2> QED BY <1>2, <1>4, <2>1 DEF HolderInv
<1> QED BY <1>2, <1>4, <1>7, <1>8, <1>9, <1>10, BlobStep

LEMMA PublishStagedStep ==
    ASSUME StoreInv, NEW p \in Procs, publish_staged(p)
    PROVE  StoreInv'
<1>1. Rest /\ Lock /\ Records /\ Grounds /\ req[p] \in Requests
  BY Context
<1>2. /\ pc[p] = "publish" /\ verified[p] = Full /\ pc[p] \in Holding
      /\ synced = Len(journal) /\ Fits(At(journal, Len(journal)), req[p])
  BY Places DEF publish_staged, StoreInv, HolderInv, Loaded, Synced
<1>3. /\ pc' = [pc EXCEPT ![p] = "write"] /\ temp' = [temp EXCEPT ![p] = "none"]
      /\ UNCHANGED <<journal, synced, tail, seals, sealSynced, states, markers, writer, recover,
                     req, verified, watermark, vouched, crashes>>
  BY DEF publish_staged
<1>4. blob \in [Evidence -> Blobs]
  BY <1>1 DEF Rest
<1>5. ASSUME NEW e \in Evidence
      PROVE  /\ blob'[e] \in Blobs /\ blob'[e].bytes = blob[e].bytes
             /\ blob'[e].entry = (IF blob[e].entry = "none" THEN "none" ELSE "durable")
  <2>1. blob'[e] = IF blob[e].entry = "linked" THEN [blob[e] EXCEPT !.entry = "durable"] ELSE blob[e]
    BY DEF publish_staged
  <2>2. blob[e] \in Blobs
    BY <1>4
  <2> QED BY <2>1, <2>2 DEF Blobs
<1>6. blob' \in [Evidence -> Blobs]
  <2>1. blob' = [e \in Evidence |-> blob'[e]]
    BY DEF publish_staged
  <2> QED BY <1>5, <2>1
<1>7. Rest'
  BY <1>1, <1>3, <1>6 DEF Rest
<1>8. Lock' /\ pc'[p] = "write" /\ \A q \in Procs : q # p => pc'[q] = pc[q]
  <2>1. "write" \in Holding /\ "write" \in PcValues
    BY Places
  <2> QED BY <1>1, <1>2, <1>3, <2>1, LockStep DEF Lock
<1>9. BlobsWhole'
  BY <1>5 DEF StoreInv, BlobsWhole
<1>10. RefsDurable'
  <2>1. ASSUME NEW i \in 1 .. Len(journal), NEW f \in journal[i].refs PROVE blob'[f].entry = "durable"
    <3>1. blob[f].entry = "durable"
      BY DEF StoreInv, RefsDurable
    <3>2. f \in Evidence
      BY <1>1, RequestsAssumption DEF RequestShape, Rest
    <3> QED BY <1>5, <3>1, <3>2
  <2> QED BY <1>3, <2>1 DEF RefsDurable
<1>11. HolderInv(p)'
  <2>1. Full' = Full /\ Fits(At(journal, Len(journal)), req[p])'
    BY <1>2, <1>3, SameFull
  <2>2. ASSUME NEW e \in req[p].evidence PROVE blob'[e].entry = "durable"
    <3>1. e \in Evidence
      BY <1>1, RequestsAssumption DEF RequestShape
    <3> QED BY <1>5, <3>1 DEF publish_staged
  <2> QED BY <1>2, <1>3, <1>8, <2>1, <2>2 DEF HolderInv
<1> QED BY <1>2, <1>3, <1>7, <1>8, <1>9, <1>10, <1>11, BlobStep

LEMMA WriteLineStep ==
    ASSUME StoreInv, NEW p \in Procs, write_line(p)
    PROVE  StoreInv'
<1> DEFINE n == Len(journal)
<1>1. Rest /\ Lock /\ Records /\ Grounds /\ req[p] \in Requests /\ journal \in Seq(Requests)
  BY Context DEF Rest
<1>2. /\ pc[p] = "write" /\ pc[p] \in Holding /\ synced = n
      /\ Fits(At(journal, n), req[p])
      /\ \A e \in req[p].evidence : blob[e].entry = "durable"
  BY Places DEF write_line, StoreInv, HolderInv, Loaded, Synced
<1>3. /\ journal' = Append(journal, req[p]) /\ pc' = [pc EXCEPT ![p] = "written"]
      /\ UNCHANGED <<synced, tail, seals, sealSynced, states, blob, markers, writer, recover, req,
                     temp, verified, watermark, vouched, crashes>>
  BY DEF write_line
<1>4. /\ n \in Nat /\ journal' \in Seq(Requests) /\ Len(journal') = n + 1
      /\ journal'[n + 1] = req[p] /\ \A i \in 1 .. n : journal'[i] = journal[i]
  BY <1>1, <1>3
<1>5. \A i \in 0 .. n : At(journal', i) = At(journal, i)
  BY <1>1, <1>3, AtKept
<1>6. Rest'
  BY <1>1, <1>3, <1>4 DEF Rest
<1>7. Lock' /\ pc'[p] = "written" /\ \A q \in Procs : q # p => pc'[q] = pc[q]
  <2>1. "written" \in Holding /\ "written" \in PcValues
    BY Places
  <2> QED BY <1>1, <1>2, <1>3, <2>1, LockStep DEF Lock
<1>8. TypeOK' /\ Shapes'
  <2>1. Records'
    BY <1>1, <1>3 DEF Records
  <2> QED BY <1>6, <1>7, <2>1, TypesSplit, PTL
<1> HIDE DEF n
<1>9. LinesFit'
  <2>1. ASSUME NEW i \in 1 .. n + 1 PROVE Fits(At(journal', i - 1), journal'[i])
    <3>1. CASE i \in 1 .. n
      <4>1. i - 1 \in 0 .. n /\ Fits(At(journal, i - 1), journal[i])
        BY <1>4, <3>1 DEF StoreInv, LinesFit, n
      <4> QED BY <1>4, <1>5, <3>1, <4>1
    <3>2. CASE i = n + 1
      <4>1. i - 1 = n /\ n \in 0 .. n
        BY <1>4, <3>2
      <4> QED BY <1>2, <1>4, <1>5, <3>2, <4>1
    <3> QED BY <1>4, <3>1, <3>2
  <2> QED BY <1>4, <2>1 DEF LinesFit
<1>10. BlobsWhole'
  BY <1>3 DEF StoreInv, BlobsWhole
<1>11. RefsDurable'
  <2>0. \A i \in 1 .. n : \A f \in journal[i].refs : blob[f].entry = "durable"
    BY DEF StoreInv, RefsDurable, n
  <2>1. ASSUME NEW i \in 1 .. n + 1, NEW f \in journal'[i].refs PROVE blob[f].entry = "durable"
    <3>1. CASE i \in 1 .. n
      BY <1>4, <2>0, <3>1
    <3>2. CASE i = n + 1
      <4>1. f \in req[p].evidence \/ f \in At(journal, n).evidence
        BY <1>2, <1>4, <2>1, <3>2 DEF Fits
      <4>2. f \in At(journal, n).evidence => \E j \in 1 .. n : f \in journal[j].refs
        BY <1>1, EvidenceOf DEF n
      <4> QED BY <1>2, <2>0, <4>1, <4>2
    <3> QED BY <1>4, <3>1, <3>2
  <2> QED BY <1>3, <1>4, <2>1 DEF RefsDurable
<1>12. ASSUME NEW i \in 0 .. Len(seals)
       PROVE  FirstOf(i) \in Nat /\ FirstOf(i) <= n /\ FirstOf(i)' = FirstOf(i)
  <2>1. FirstOf(i) \in Nat /\ FirstOf(i) <= synced
    BY <1>1, Segments
  <2>2. FirstOf(i)' = FirstOf(i)
    BY <1>3 DEF FirstOf
  <2> QED BY <1>2, <2>1, <2>2
<1>13. ChainInv'
  <2>1. ASSUME NEW i \in 1 .. Len(seals) PROVE seals[i].state = At(journal', seals[i].upto)
    <3>1. seals[i].state = At(journal, seals[i].upto)
      BY DEF StoreInv, ChainInv
    <3>2. i \in 0 .. Len(seals) /\ FirstOf(i) = seals[i].upto
      BY <1>1, Segments DEF FirstOf
    <3>3. seals[i].upto \in 0 .. n
      BY <1>4, <1>12, <3>2
    <3> QED BY <1>5, <3>1, <3>3
  <2> QED BY <1>3, <2>1 DEF StoreInv, ChainInv
<1>14. CacheInv'
  <2>1. ASSUME NEW q \in Procs PROVE Faithful(verified[q])'
    <3>1. PICK v, a, m : v = verified[q] /\ a = FirstOf(v.seg) /\ m = a + Len(v.batches)
      OBVIOUS
    <3>2. /\ v \in Prefixes /\ Faithful(v) /\ verified'[q] = v
          /\ v.seg \in Nat /\ Len(v.batches) \in Nat
      BY <1>3, <3>1, Context DEF Prefixes
    <3>3. /\ v.seg <= Len(seals) /\ v.seed = At(journal, a) /\ m <= LastOf(v.seg)
          /\ v.batches = SubSeq(journal, a + 1, m)
      BY <3>1, <3>2 DEF Faithful
    <3>4. a \in Nat /\ a <= n /\ FirstOf(v.seg)' = a /\ Len(seals) \in Nat
      BY <1>1, <1>12, <3>1, <3>2, <3>3, Segments
    <3>5. LastOf(v.seg) \in Nat /\ LastOf(v.seg) <= n /\ LastOf(v.seg) <= LastOf(v.seg)'
      <4>1. CASE v.seg = Len(seals)
        BY <1>3, <1>4, <4>1 DEF LastOf, n
      <4>2. CASE v.seg # Len(seals)
        <5>1. v.seg + 1 \in 0 .. Len(seals)
          BY <3>2, <3>3, <3>4, <4>2
        <5>2. FirstOf(v.seg + 1)' = FirstOf(v.seg + 1) /\ FirstOf(v.seg + 1) \in Nat
              /\ FirstOf(v.seg + 1) <= n
          BY <1>12, <5>1
        <5> QED BY <1>3, <4>2, <5>2 DEF LastOf
      <4> QED BY <4>1, <4>2
    <3>6. LastOf(v.seg)' \in Nat
      <4>1. CASE v.seg = Len(seals)
        BY <1>3, <1>4, <4>1 DEF LastOf
      <4>2. CASE v.seg # Len(seals)
        <5>1. v.seg + 1 \in 0 .. Len(seals)
          BY <3>2, <3>3, <3>4, <4>2
        <5>2. FirstOf(v.seg + 1)' \in Nat
          BY <1>12, <5>1
        <5> QED BY <1>3, <4>2, <5>2 DEF LastOf
      <4> QED BY <4>1, <4>2
    <3>7. m \in Nat /\ m <= n /\ m <= LastOf(v.seg)' /\ a <= m
      <4>1. m \in Nat /\ a <= m
        BY <3>1, <3>2, <3>4
      <4>2. PICK k, j : k = LastOf(v.seg) /\ j = LastOf(v.seg)'
        OBVIOUS
      <4>3. k \in Nat /\ j \in Nat /\ k <= n /\ k <= j /\ m <= k
        BY <3>3, <3>5, <3>6, <4>2
      <4>4. m <= n /\ m <= j
        BY <1>4, <4>1, <4>3
      <4> QED BY <4>1, <4>2, <4>4
    <3>8. SubSeq(journal', a + 1, m) = SubSeq(journal, a + 1, m)
      <4>1. /\ SubSeq(journal, a + 1, m) \in Seq(Requests) /\ Len(SubSeq(journal, a + 1, m)) = m - a
            /\ \A i \in 1 .. m - a : SubSeq(journal, a + 1, m)[i] = journal[a + i]
        BY <1>1, <3>4, <3>7, Part DEF n
      <4>2. /\ SubSeq(journal', a + 1, m) \in Seq(Requests) /\ Len(SubSeq(journal', a + 1, m)) = m - a
            /\ \A i \in 1 .. m - a : SubSeq(journal', a + 1, m)[i] = journal'[a + i]
        <5>1. m <= Len(journal')
          BY <1>4, <3>7
        <5> QED BY <1>4, <3>4, <3>7, <5>1, Part
      <4>3. \A i \in 1 .. m - a : journal'[a + i] = journal[a + i]
        <5>1. \A i \in 1 .. m - a : a + i \in 1 .. n
          BY <1>4, <3>4, <3>7
        <5> QED BY <1>4, <5>1
      <4>4. PICK x, y : x = SubSeq(journal', a + 1, m) /\ y = SubSeq(journal, a + 1, m)
        OBVIOUS
      <4>5. /\ x \in Seq(Requests) /\ y \in Seq(Requests) /\ Len(x) = Len(y)
            /\ \A i \in 1 .. Len(x) : x[i] = y[i]
        BY <4>1, <4>2, <4>3, <4>4
      <4> QED BY <4>4, <4>5, SameSeq
    <3>9. At(journal', a) = At(journal, a)
      BY <1>4, <1>5, <3>4
    <3> QED BY <1>3, <3>1, <3>2, <3>3, <3>4, <3>7, <3>8, <3>9 DEF Faithful
  <2>2. ASSUME NEW q \in Procs PROVE Covered(watermark[q])'
    BY <1>3 DEF StoreInv, CacheInv, Covered, FirstOf
  <2> QED BY <2>1, <2>2 DEF CacheInv
<1>15. Vouched'
  <2>1. ASSUME NEW b \in vouched PROVE \E i \in 1 .. synced : journal'[i] = b
    <3>1. PICK i \in 1 .. synced : journal[i] = b
      BY DEF StoreInv, Vouched
    <3> QED BY <1>2, <1>4, <3>1
  <2> QED BY <1>3, <2>1 DEF Vouched
<1>16. ASSUME NEW q \in Procs PROVE HolderInv(q)'
  <2>1. CASE q = p
    <3>1. HolderInv(p)'
      BY <1>3, <1>4, <1>7 DEF HolderInv, Loaded, Synced
    <3> QED BY <2>1, <3>1
  <2>2. CASE q # p
    BY <1>1, <1>2, <1>7, <2>2, OthersIdle
  <2> QED BY <2>1, <2>2
<1> QED BY <1>8, <1>9, <1>10, <1>11, <1>13, <1>14, <1>15, <1>16 DEF StoreInv

LEMMA RotateSealStep ==
    ASSUME StoreInv, NEW p \in Procs, rotate_seal(p)
    PROVE  StoreInv'
<1>0. PICK n, k : n = Len(journal) /\ k = Len(seals)
  OBVIOUS
<1>1. Rest /\ Lock /\ Records /\ Grounds /\ journal \in Seq(Requests) /\ seals \in Seq(Seals)
  BY Context DEF Rest, Records
<1>2. /\ pc[p] = "seal" /\ pc[p] \in Holding /\ synced = n /\ verified[p] = Full /\ k \in states
  BY <1>0, Places DEF rotate_seal, StoreInv, HolderInv, Loaded, Synced
<1>3. PICK s : s = [upto |-> n, state |-> At(journal, n)]
  OBVIOUS
<1>4. /\ seals' = Append(seals, s) /\ pc' = [pc EXCEPT ![p] = "next"]
      /\ UNCHANGED <<journal, synced, tail, sealSynced, states, blob, markers, writer, recover, req,
                     temp, verified, watermark, vouched, crashes>>
  BY <1>0, <1>1, <1>2, <1>3, FullFacts DEF rotate_seal
<1>5. n \in Nat /\ k \in Nat /\ s \in Seals /\ s.upto = n /\ s.state = At(journal, n)
  <2>1. n \in Nat /\ k \in Nat
    BY <1>0, <1>1
  <2>2. At(journal, n) \in Reached
    BY <1>1, <2>1 DEF Reached
  <2> QED BY <1>3, <2>1, <2>2 DEF Seals
<1>6. /\ seals' \in Seq(Seals) /\ Len(seals') = k + 1
      /\ seals'[k + 1] = s /\ \A i \in 1 .. k : seals'[i] = seals[i]
  BY <1>0, <1>1, <1>4, <1>5
<1>7. Lock' /\ pc'[p] = "next" /\ \A q \in Procs : q # p => pc'[q] = pc[q]
  <2>1. "next" \in Holding /\ "next" \in PcValues
    BY Places
  <2> QED BY <1>1, <1>2, <1>4, <2>1, LockStep DEF Lock
<1>8. TypeOK' /\ Shapes'
  <2>1. Records'
    BY <1>1, <1>4, <1>6 DEF Records
  <2>2. sealSynced' \in 0 .. Len(seals')
    BY <1>0, <1>1, <1>4, <1>5, <1>6 DEF Rest
  <2>3. Rest'
    BY <1>1, <1>4, <2>2 DEF Rest
  <2> QED BY <1>7, <2>1, <2>3, TypesSplit, PTL
<1>9. LinesFit' /\ BlobsWhole' /\ RefsDurable' /\ Vouched'
  BY <1>4 DEF StoreInv, LinesFit, BlobsWhole, RefsDurable, Vouched
<1>10. \A i \in 0 .. k : FirstOf(i) \in Nat /\ FirstOf(i) <= n
  BY <1>0, <1>1, <1>2, Segments
<1>11. /\ \A i \in 0 .. k : FirstOf(i)' = FirstOf(i)
       /\ FirstOf(k + 1)' = n
  <2>1. ASSUME NEW i \in 0 .. k PROVE FirstOf(i)' = FirstOf(i)
    BY <1>0, <1>5, <1>6 DEF FirstOf
  <2>2. FirstOf(k + 1)' = seals'[k + 1].upto
    BY <1>0, <1>5 DEF FirstOf
  <2> QED BY <1>5, <1>6, <2>1, <2>2
<1>12. ChainInv'
  <2>1. ASSUME NEW i \in 1 .. k
        PROVE  /\ seals[i].upto \in Nat /\ seals[i].upto <= n
               /\ seals[i].state = At(journal, seals[i].upto) /\ i - 1 \in states
    <3>1. seals[i].upto = FirstOf(i) /\ i \in 0 .. k
      BY <1>0, <1>5 DEF FirstOf
    <3>2. seals[i].state = At(journal, seals[i].upto) /\ i - 1 \in states
      BY <1>0 DEF StoreInv, ChainInv
    <3> QED BY <1>10, <3>1, <3>2
  <2>2. ASSUME NEW i \in 1 .. k + 1
        PROVE  /\ seals'[i].upto \in Nat /\ seals'[i].upto <= n
               /\ seals'[i].state = At(journal, seals'[i].upto) /\ i - 1 \in states
    <3>1. CASE i \in 1 .. k
      BY <1>6, <2>1, <3>1
    <3>2. CASE i = k + 1
      BY <1>2, <1>5, <1>6, <3>2
    <3> QED BY <1>5, <3>1, <3>2
  <2>3. ASSUME NEW i \in 1 .. k + 1, NEW j \in 1 .. k + 1, i <= j
        PROVE  seals'[i].upto <= seals'[j].upto
    <3>1. CASE j = k + 1
      BY <1>5, <1>6, <2>2, <3>1
    <3>2. CASE j \in 1 .. k
      <4>1. i \in 1 .. k
        BY <1>5, <2>3, <3>2
      <4>2. seals[i].upto <= seals[j].upto
        BY <1>0, <2>3, <3>2, <4>1 DEF StoreInv, ChainInv
      <4> QED BY <1>6, <3>2, <4>1, <4>2
    <3> QED BY <1>5, <3>1, <3>2
  <2> QED BY <1>0, <1>2, <1>4, <1>6, <2>2, <2>3 DEF ChainInv
<1>13. CacheInv'
  <2>1. ASSUME NEW q \in Procs PROVE Faithful(verified[q])'
    <3>1. PICK v : v = verified[q]
      OBVIOUS
    <3>2. v \in Prefixes /\ Faithful(v) /\ verified'[q] = v /\ v.seg \in Nat
      BY <1>4, <3>1, Context DEF Prefixes
    <3>3. v.seg <= k /\ v.seg \in 0 .. k
      BY <1>0, <1>5, <3>2 DEF Faithful
    <3>4. LastOf(v.seg)' = LastOf(v.seg)
      <4>1. v.seg # Len(seals') /\ LastOf(v.seg)' = FirstOf(v.seg + 1)'
        <5>1. v.seg # Len(seals')
          BY <1>5, <1>6, <3>2, <3>3
        <5> QED BY <5>1 DEF LastOf
      <4>2. CASE v.seg = k
        BY <1>0, <1>11, <4>1, <4>2 DEF LastOf
      <4>3. CASE v.seg # k
        <5>1. v.seg + 1 \in 0 .. k
          BY <1>5, <3>2, <3>3, <4>3
        <5> QED BY <1>0, <1>11, <4>1, <4>3, <5>1 DEF LastOf
      <4> QED BY <4>2, <4>3
    <3>5. FirstOf(v.seg)' = FirstOf(v.seg)
      BY <1>11, <3>3
    <3>6. v.seg <= Len(seals')
      BY <1>5, <1>6, <3>3
    <3>7. /\ v.seed = At(journal, FirstOf(v.seg))
          /\ FirstOf(v.seg) + Len(v.batches) <= LastOf(v.seg)
          /\ v.batches = SubSeq(journal, FirstOf(v.seg) + 1, FirstOf(v.seg) + Len(v.batches))
      BY <3>2 DEF Faithful
    <3> QED BY <1>4, <3>2, <3>4, <3>5, <3>6, <3>7 DEF Faithful
  <2>2. ASSUME NEW q \in Procs PROVE Covered(watermark[q])'
    <3>1. PICK w : w = watermark[q]
      OBVIOUS
    <3>2. w \in Marks /\ Covered(w) /\ watermark'[q] = w /\ w.seg \in Nat
      BY <1>4, <3>1, Context DEF Marks
    <3>3. w.seg \in 0 .. k /\ FirstOf(w.seg) + w.lines <= synced
      BY <1>0, <1>5, <3>2 DEF Covered
    <3>4. w.seg <= Len(seals') /\ FirstOf(w.seg)' = FirstOf(w.seg)
      BY <1>5, <1>6, <1>11, <3>3
    <3> QED BY <1>4, <3>2, <3>3, <3>4 DEF Covered
  <2> QED BY <2>1, <2>2 DEF CacheInv
<1>14. ASSUME NEW q \in Procs PROVE HolderInv(q)'
  <2>1. CASE q = p
    <3>1. HolderInv(p)'
      BY <1>0, <1>2, <1>4, <1>7 DEF HolderInv, Loaded
    <3> QED BY <2>1, <3>1
  <2>2. CASE q # p
    BY <1>1, <1>2, <1>7, <2>2, OthersIdle
  <2> QED BY <2>1, <2>2
<1> QED BY <1>8, <1>9, <1>12, <1>13, <1>14 DEF StoreInv

LEMMA FreshPrefix == Grounds => Faithful(NoPrefix) /\ Covered(NoMark)
BY NoPrefixFaithful

\* Only an unsynced end of the lines and of the seals can go, and every process starts anew.
LEMMA PowerLossStep ==
    ASSUME StoreInv, power_loss
    PROVE  StoreInv'
<1>1. PICK p \in Procs : TRUE
  BY ProcsAssumption
<1>2. /\ Rest /\ Lock /\ Records /\ Grounds /\ journal \in Seq(Requests) /\ seals \in Seq(Seals)
      /\ NoPrefix \in Prefixes /\ NoMark \in Marks /\ no_request \in Requests
  BY Context, <1>1 DEF Rest, Records
<1>3. PICK n \in synced .. Len(journal) :
        /\ journal' = SubSeq(journal, 1, n) /\ synced' = n
        /\ tail' \in {"clean"} \cup (IF n < Len(journal) \/ tail # "clean" THEN {"torn"} ELSE {})
  BY DEF power_loss
<1>4. PICK k \in sealSynced .. Len(seals) : seals' = SubSeq(seals, 1, k) /\ sealSynced' = k
  BY DEF power_loss
<1>5. /\ synced \in Nat /\ Len(journal) \in Nat /\ Len(seals) \in Nat /\ sealSynced \in Nat
      /\ n \in Nat /\ k \in Nat /\ n <= Len(journal) /\ k <= Len(seals) /\ synced <= n
  BY <1>2, <1>3, <1>4 DEF Rest
<1>6. /\ journal' \in Seq(Requests) /\ Len(journal') = n /\ \A i \in 1 .. n : journal'[i] = journal[i]
      /\ seals' \in Seq(Seals) /\ Len(seals') = k /\ \A i \in 1 .. k : seals'[i] = seals[i]
  BY <1>2, <1>3, <1>4, <1>5
<1>7. \A i \in 0 .. n : At(journal', i) = At(journal, i)
  BY <1>2, <1>3, <1>5, AtKept
<1>8. /\ blob \in [Evidence -> Blobs] /\ blob' \in [Evidence -> Blobs]
      /\ \A e \in Evidence : blob_after_loss(blob[e], blob'[e])
  BY <1>2 DEF power_loss, Rest
<1>9. /\ pc' = [q \in Procs |-> "down"] /\ writer' = {} /\ states' = states /\ vouched' = vouched
      /\ verified' = [q \in Procs |-> NoPrefix] /\ watermark' = [q \in Procs |-> NoMark]
  BY DEF power_loss
<1>10. Rest'
  <2>1. /\ crashes' \in 0 .. MaxCrashes /\ markers' \subseteq Requests
        /\ tail' \in {"clean", "torn", "cut"}
    BY <1>2, <1>3, CrashAssumption DEF power_loss, Rest
  <2>2. /\ req' \in [Procs -> Requests] /\ temp' \in [Procs -> {"none", "cached", "synced"}]
        /\ recover' \in [Procs -> BOOLEAN]
    BY <1>2 DEF power_loss
  <2>3. synced' \in 0 .. Len(journal') /\ sealSynced' \in 0 .. Len(seals')
    BY <1>3, <1>4, <1>5, <1>6
  <2> QED BY <1>2, <1>6, <1>8, <1>9, <2>1, <2>2, <2>3 DEF Rest
<1>11. Lock' /\ Records'
  <2>1. "down" \in PcValues /\ "down" \notin Holding
    BY Places
  <2> QED BY <1>2, <1>6, <1>9, <2>1 DEF Lock, Records
<1>12. TypeOK' /\ Shapes'
  BY <1>10, <1>11, TypesSplit, PTL
<1>13. LinesFit'
  <2>1. ASSUME NEW i \in 1 .. n PROVE Fits(At(journal', i - 1), journal'[i])
    <3>1. i \in 1 .. Len(journal) /\ i - 1 \in 0 .. n
      BY <1>5
    <3>2. Fits(At(journal, i - 1), journal[i])
      BY <3>1 DEF StoreInv, LinesFit
    <3> QED BY <1>6, <1>7, <3>1, <3>2
  <2> QED BY <1>6, <2>1 DEF LinesFit
<1>14. BlobsWhole' /\ RefsDurable'
  <2>1. ASSUME NEW e \in Evidence
        PROVE  /\ blob[e].entry = "durable" => blob'[e].entry = "durable"
               /\ blob'[e].entry # "none" => blob'[e].bytes = "synced"
    <3>1. blob[e] \in Blobs /\ (blob[e].entry # "none" => blob[e].bytes = "synced")
      BY <1>8 DEF StoreInv, BlobsWhole
    <3>2. blob_after_loss(blob[e], blob'[e])
      BY <1>8
    <3> QED BY <3>1, <3>2 DEF blob_after_loss, Blobs
  <2>2. ASSUME NEW i \in 1 .. n, NEW f \in journal'[i].refs PROVE blob'[f].entry = "durable"
    <3>1. i \in 1 .. Len(journal) /\ journal'[i] = journal[i] /\ journal[i] \in Requests
      BY <1>2, <1>5, <1>6
    <3>2. f \in Evidence
      BY <2>2, <3>1, RequestsAssumption DEF RequestShape
    <3>3. blob[f].entry = "durable"
      BY <2>2, <3>1 DEF StoreInv, RefsDurable
    <3> QED BY <2>1, <3>2, <3>3
  <2> QED BY <1>6, <2>1, <2>2 DEF BlobsWhole, RefsDurable
<1>15. ChainInv'
  <2>1. ASSUME NEW i \in 1 .. k
        PROVE  /\ seals'[i].upto <= n /\ seals'[i].state = At(journal', seals'[i].upto)
               /\ i - 1 \in states
    <3>1. i \in 1 .. Len(seals) /\ seals'[i] = seals[i] /\ seals[i] \in Seals
      BY <1>2, <1>5, <1>6
    <3>2. /\ seals[i].upto <= synced /\ seals[i].state = At(journal, seals[i].upto)
          /\ i - 1 \in states
      BY <3>1 DEF StoreInv, ChainInv
    <3>3. seals[i].upto \in Nat
      BY <3>1 DEF Seals
    <3>4. seals[i].upto <= n /\ seals[i].upto \in 0 .. n
      BY <1>5, <3>2, <3>3
    <3> QED BY <1>7, <3>1, <3>2, <3>4
  <2>2. \A i, j \in 1 .. k : i <= j => seals'[i].upto <= seals'[j].upto
    <3>1. \A i \in 1 .. k : i \in 1 .. Len(seals)
      BY <1>5
    <3> QED BY <1>6, <3>1 DEF StoreInv, ChainInv
  <2> QED BY <1>3, <1>6, <1>9, <2>1, <2>2 DEF ChainInv
<1>16. CacheInv'
  <2>1. Faithful(NoPrefix)' /\ Covered(NoMark)'
    <3>1. Grounds'
      BY <1>12, <1>15 DEF Grounds
    <3> QED BY <3>1, FreshPrefix, PTL
  <2> QED BY <1>9, <2>1 DEF CacheInv, Faithful, Covered
<1>17. Vouched'
  <2>1. ASSUME NEW b \in vouched PROVE \E i \in 1 .. n : journal'[i] = b
    <3>1. PICK i \in 1 .. synced : journal[i] = b
      BY DEF StoreInv, Vouched
    <3>2. i \in 1 .. n
      BY <1>5
    <3> QED BY <1>6, <3>1, <3>2
  <2> QED BY <1>3, <1>9, <2>1 DEF Vouched
<1>18. \A q \in Procs : HolderInv(q)'
  BY <1>9 DEF HolderInv, Loaded, Synced
<1> QED BY <1>12, <1>13, <1>14, <1>15, <1>16, <1>17, <1>18 DEF StoreInv

---------------------------------------------------------------------------
(* The invariant *)

LEMMA InitStore ==
    ASSUME Init
    PROVE  StoreInv
<1>1. NoPrefix \in Prefixes /\ NoMark \in Marks /\ no_request \in Requests
  BY NoPrefixFacts, RequestsAssumption DEF no_request
<1>2. /\ journal = <<>> /\ seals = <<>> /\ vouched = {} /\ synced = 0
      /\ Len(journal) = 0 /\ Len(seals) = 0 /\ 1 .. 0 = {}
  BY DEF Init
<1>3. Rest
  BY <1>1, <1>2, CrashAssumption DEF Init, Rest, Blobs
<1>4. Lock /\ Records
  <2>1. "down" \in PcValues /\ "down" \notin Holding
    BY Places
  <2> QED BY <1>1, <1>2, <2>1 DEF Init, Lock, Records
<1>5. TypeOK /\ Shapes
  BY <1>3, <1>4, TypesSplit
<1>6. LinesFit /\ BlobsWhole /\ RefsDurable /\ ChainInv /\ Vouched
  BY <1>2 DEF Init, LinesFit, BlobsWhole, RefsDurable, ChainInv, Vouched
<1>7. CacheInv
  <2>1. Faithful(NoPrefix) /\ Covered(NoMark)
    BY <1>5, <1>6, NoPrefixFaithful DEF Grounds
  <2> QED BY <2>1 DEF Init, CacheInv
<1>8. \A p \in Procs : HolderInv(p)
  BY DEF Init, HolderInv, Loaded, Synced
<1> QED BY <1>5, <1>6, <1>7, <1>8 DEF StoreInv

LEMMA NextStore ==
    ASSUME StoreInv, [Next]_vars
    PROVE  StoreInv'
<1>1. ASSUME NEW p \in Procs, OpenStep(p) PROVE StoreInv'
  BY <1>1, WalkStep, CleanOpenStep, RefusalStep, UpgradeStep, RecoveryStep, ReconcileStep,
     OpenDoneStep, CloseStep DEF OpenStep
<1>2. ASSUME NEW p \in Procs, AppendStep(p) PROVE StoreInv'
  BY <1>2, AppendLoadStep, RefusalStep, RotateStateStep, RotateSealStep, RotateNextStep,
     AppendEndStep, StageStep, PublishLinkStep, PublishStagedStep, WriteLineStep, SyncLineStep
     DEF AppendStep
<1>3. ASSUME NEW p \in Procs, ReadStep(p) \/ io_error(p) \/ kill(p) PROVE StoreInv'
  BY <1>3, ReadStepKeeps, FailureStep
<1>4. CASE UNCHANGED vars
  BY <1>4 DEF vars, StoreInv, TypeOK, Shapes, LinesFit, BlobsWhole, RefsDurable, ChainInv, CacheInv,
     Vouched, HolderInv, Faithful, Covered, FirstOf, LastOf, Full, SealedLines, ActiveLines
<1> QED BY <1>1, <1>2, <1>3, <1>4, PowerLossStep DEF Next

\* StoreInv is inductive: whatever the processes do and whenever they die or the power fails, the
\* lines fit each other, their evidence is durable, the seals and the verified prefixes tell the
\* truth, and the process in the middle of an append knows what it checked.
THEOREM StoreInvariant == Spec => []StoreInv
BY InitStore, NextStore, PTL DEF Spec

\* Every variable keeps its shape, and one process at most holds the exclusive lock.
THEOREM TypeInvariant == Spec => []TypeOK
<1>1. StoreInv => TypeOK
  BY DEF StoreInv
<1> QED BY <1>1, StoreInvariant, PTL

\* What append_atomic or an idempotency look-up ever answered survives kills and power losses.
THEOREM VouchedDurableAlways == Spec => []VouchedDurable
<1>1. ASSUME StoreInv PROVE VouchedDurable
  <2>1. journal \in Seq(Requests) /\ synced \in 0 .. Len(journal)
    BY <1>1 DEF StoreInv, TypeOK
  <2>2. /\ Len(SubSeq(journal, 1, synced)) = synced
        /\ \A i \in 1 .. synced : /\ i \in DOMAIN SubSeq(journal, 1, synced)
                                 /\ SubSeq(journal, 1, synced)[i] = journal[i]
    BY <2>1
  <2>3. ASSUME NEW b \in vouched PROVE b \in Entries(DurableLines)
    <3>1. PICK i \in 1 .. synced : journal[i] = b
      BY <1>1 DEF StoreInv, Vouched
    <3> QED BY <2>2, <3>1 DEF Entries, DurableLines
  <2> QED BY <2>3 DEF VouchedDurable
<1> QED BY <1>1, StoreInvariant, PTL

LEMMA LinesReadable ==
    ASSUME StoreInv, NEW i \in 1 .. Len(journal), NEW e \in journal[i].refs
    PROVE  e \in Readable /\ blob[e] = [entry |-> "durable", bytes |-> "synced"]
<1>1. journal[i] \in Requests /\ blob \in [Evidence -> Blobs]
  BY DEF StoreInv, TypeOK
<1>2. e \in Evidence
  BY <1>1, RequestsAssumption DEF RequestShape
<1>3. blob[e] \in Blobs /\ blob[e].entry = "durable" /\ blob[e].bytes = "synced"
  BY <1>1, <1>2 DEF StoreInv, RefsDurable, BlobsWhole
<1>4. blob[e] = [entry |-> "durable", bytes |-> "synced"]
  BY <1>3 DEF Blobs
<1> QED BY <1>2, <1>3, <1>4 DEF Readable

\* The evidence that a line refers to is on disk, whole and durable, as long as the line is.
THEOREM EvidenceKeptAlways == Spec => []EvidenceKept
<1>1. ASSUME StoreInv PROVE EvidenceKept
  <2>1. ASSUME NEW b \in Entries(journal) PROVE \E i \in 1 .. Len(journal) : b = journal[i]
    BY <1>1 DEF Entries, StoreInv, TypeOK
  <2> QED BY <1>1, <2>1, LinesReadable DEF EvidenceKept
<1> QED BY <1>1, StoreInvariant, PTL

\* No failure leaves a store that its own verifier refuses, a torn tail apart.
THEOREM ReopensAlways == Spec => []Reopens
<1>1. ASSUME StoreInv PROVE Reopens
  <2> DEFINE k == SealedLines
             n == Len(journal)
  <2>1. Grounds
    BY <1>1 DEF StoreInv, Grounds
  <2>2. /\ k \in Nat /\ n \in Nat /\ k <= n /\ Len(seals) \in Nat /\ Len(ActiveLines) = n - k
        /\ \A i \in 1 .. Len(ActiveLines) : ActiveLines[i] = journal[k + i]
        /\ journal \in Seq(Requests)
    BY <2>1, Segments DEF Grounds, TypeOK
  <2>3. seal_chain_reads
    <3>1. seals # <<>> => Len(seals) \in 1 .. Len(seals)
      BY <2>1, <2>2 DEF Grounds, Shapes
    <3> QED BY <2>1, <3>1 DEF seal_chain_reads, Grounds, ChainInv
  <2>4. seeded_ctx.seed = At(journal, k)
    BY <2>1, SeedOf
  <2>5. \A i \in 0 .. n - k : walked(At(journal, k), ActiveLines)[i] = At(journal, k + i)
    <3>1. \A i \in 0 .. n - k : walked(At(journal, k), SubSeq(journal, k + 1, n))[i] = At(journal, k + i)
      BY <2>2, AtPart
    <3> QED BY <3>1 DEF ActiveLines
  <2> HIDE DEF k, n
  <2>6. ASSUME NEW i \in 1 .. Len(ActiveLines)
        PROVE  line_verifies(walked(seeded_ctx.seed, ActiveLines)[i - 1], ActiveLines[i])
    <3>1. /\ i - 1 \in 0 .. n - k /\ k + i \in 1 .. n /\ k + (i - 1) = (k + i) - 1
      BY <2>2
    <3>2. PICK j : j = k + i
      OBVIOUS
    <3>3. Fits(At(journal, j - 1), journal[j]) /\ j \in 1 .. Len(journal)
      BY <1>1, <3>1, <3>2 DEF StoreInv, LinesFit, n
    <3>4. walked(seeded_ctx.seed, ActiveLines)[i - 1] = At(journal, j - 1) /\ ActiveLines[i] = journal[j]
      BY <2>2, <2>4, <2>5, <3>1, <3>2
    <3>5. \A e \in journal[j].refs : e \in Readable
      BY <1>1, <3>3, LinesReadable
    <3>6. line_verifies(At(journal, j - 1), journal[j])
      BY <3>3, <3>5 DEF Fits, line_verifies
    <3> QED BY <3>4, <3>6
  <2> QED BY <2>3, <2>6 DEF Reopens, verify_lines
<1> QED BY <1>1, StoreInvariant, PTL

LEMMA StateAfterIsAt ==
    ASSUME Grounds, NEW n \in Nat, n <= Len(journal)
    PROVE  StateAfter(n) = At(journal, n)
<1>1. journal \in Seq(Requests) /\ n \in 0 .. Len(journal) /\ n \in 0 .. n
  BY DEF Grounds, TypeOK
<1>2. At(SubSeq(journal, 1, n), n) = At(journal, n)
  BY <1>1, AtKept
<1> QED BY <1>2 DEF StateAfter, At

\* Seals, verified prefixes and watermarks agree with the journal they stand for.
THEOREM CacheFaithfulAlways == Spec => []CacheFaithful
<1>1. ASSUME StoreInv PROVE CacheFaithful
  <2>1. Grounds
    BY <1>1 DEF StoreInv, Grounds
  <2>2. /\ \A i \in 0 .. Len(seals) : FirstOf(i) \in Nat /\ FirstOf(i) <= synced
        /\ Len(journal) \in Nat /\ synced \in Nat /\ synced <= Len(journal) /\ Len(seals) \in Nat
        /\ DOMAIN seals = 1 .. Len(seals)
    BY <2>1, Segments DEF Grounds, Shapes
  <2>3. \A i \in 0 .. Len(seals) : StateAfter(FirstOf(i)) = At(journal, FirstOf(i))
    <3>1. \A i \in 0 .. Len(seals) : FirstOf(i) <= Len(journal)
      BY <2>2
    <3> QED BY <2>1, <2>2, <3>1, StateAfterIsAt
  <2>4. SealsFaithful
    <3>1. ASSUME NEW i \in DOMAIN seals
          PROVE  seals[i].upto <= synced /\ seals[i].state = StateAfter(seals[i].upto)
      <4>1. i \in 1 .. Len(seals) /\ i \in 0 .. Len(seals) /\ FirstOf(i) = seals[i].upto
        BY <2>2 DEF FirstOf
      <4>2. seals[i].state = At(journal, seals[i].upto)
        BY <1>1, <4>1 DEF StoreInv, ChainInv
      <4> QED BY <2>2, <2>3, <4>1, <4>2
    <3> QED BY <3>1 DEF SealsFaithful
  <2>5. ASSUME NEW p \in Procs
        PROVE  LET v == verified[p]
                   m == FirstOf(v.seg) + Len(v.batches)
               IN  /\ v.seg <= Len(seals)
                   /\ v.seed = StateAfter(FirstOf(v.seg))
                   /\ m <= (IF v.seg = Len(seals) THEN Len(journal) ELSE FirstOf(v.seg + 1))
                   /\ v.batches = SubSeq(journal, FirstOf(v.seg) + 1, m)
                   /\ watermark[p].seg <= Len(seals)
                   /\ FirstOf(watermark[p].seg) + watermark[p].lines <= synced
    <3>1. PICK v : v = verified[p]
      OBVIOUS
    <3>2. /\ v \in Prefixes /\ Faithful(v) /\ v.seg \in Nat
      BY <1>1, <3>1, Context DEF Prefixes
    <3>3. v.seg \in 0 .. Len(seals)
      BY <2>2, <3>2 DEF Faithful
    <3>4. v.seed = StateAfter(FirstOf(v.seg))
      BY <2>3, <3>2, <3>3 DEF Faithful
    <3>5. Covered(watermark[p])
      BY <1>1, Context
    <3> QED BY <3>1, <3>2, <3>4, <3>5 DEF Faithful, Covered, LastOf
  <2> QED BY <2>4, <2>5 DEF CacheFaithful
<1> QED BY <1>1, StoreInvariant, PTL

\* An open that returns a handle leaves the active marker of every publication on disk.
THEOREM MarkersRepairedAlways == Spec => MarkersRepaired
<1> DEFINE A == \A p \in Procs : pc[p] \in {"walked", "reconcile"} /\ pc'[p] = "open" =>
                                   {b \in Entries(journal') : b.version # 0} \subseteq markers'
<1>1. ASSUME StoreInv, Next PROVE A
  <2>1. SUFFICES ASSUME NEW p \in Procs, pc[p] \in {"walked", "reconcile"}, pc'[p] = "open"
                 PROVE  {b \in Entries(journal') : b.version # 0} \subseteq markers'
    OBVIOUS
  <2>2. Lock /\ Grounds /\ load_state(verified[p]) = Full /\ pc[p] # pc'[p]
    BY <1>1, <2>1, Context
  <2>3. publications(Full) = {b \in Entries(journal) : b.version # 0}
    BY <2>2, FullFacts DEF publications
  <2>4. open_shared_clean(p) \/ open_done(p)
    <3>1. ASSUME NEW q \in Procs, q # p, pc' = [pc EXCEPT ![q] = pc'[q]] PROVE FALSE
      BY <2>1, <2>2, <3>1 DEF Lock
    <3>2. ~ power_loss
      BY <2>1 DEF power_loss
    <3>3. PICK q \in Procs : OpenStep(q) \/ AppendStep(q) \/ ReadStep(q) \/ io_error(q) \/ kill(q)
      BY <1>1, <3>2 DEF Next
    <3>4. pc' = [pc EXCEPT ![q] = pc'[q]]
      <4>1. CASE OpenStep(q)
        BY <2>2, <4>1 DEF OpenStep, Lock, walk_before_lock, open_shared_clean, open_shared_dirty,
           open_refused, open_upgrade, trim_torn_tail, trim_sync, open_resync, reconcile_orphans,
           open_done, close
      <4>2. CASE AppendStep(q)
        BY <2>2, <4>2 DEF AppendStep, Lock, append_load, load_refused, rotate_state, rotate_seal,
           rotate_next, append_recorded, append_refused, stage_evidence, sync_staged,
           publish_link, publish_staged, write_line, write_half_line, sync_line, append_done
      <4>3. CASE ReadStep(q) \/ io_error(q) \/ kill(q)
        BY <2>2, <4>3 DEF ReadStep, Lock, read_stream, committed_events_for_idempotency, io_error,
           kill
      <4> QED BY <3>3, <4>1, <4>2, <4>3
    <3>5. q = p
      BY <3>1, <3>4
    <3>6. CASE OpenStep(p)
      <4>1. Shut(p) # "open"
        BY DEF Shut
      <4> QED BY <2>1, <2>2, <3>6, <4>1 DEF OpenStep, Lock, walk_before_lock, open_shared_dirty,
           open_refused, open_upgrade, trim_torn_tail, trim_sync, open_resync, reconcile_orphans,
           close
    <3>7. ~ AppendStep(p)
      BY <2>1, <2>2 DEF AppendStep, append_load, load_refused, rotate_state, rotate_seal,
           rotate_next, append_recorded, append_refused, stage_evidence, sync_staged,
           publish_link, publish_staged, write_line, write_half_line, sync_line, append_done
    <3>8. ~ (ReadStep(p) \/ io_error(p) \/ kill(p))
      <4>1. Shut(p) # "open" /\ "reconcile" \in Opening
        BY DEF Shut, Opening
      <4>2. pc[p] # "walked" \/ pc[p] \notin Opening \cup Appending
        BY DEF Opening, Appending
      <4> QED BY <2>1, <2>2, <4>1, <4>2 DEF ReadStep, Lock, read_stream,
                 committed_events_for_idempotency, io_error, kill
    <3> QED BY <3>3, <3>5, <3>6, <3>7, <3>8
  <2>5. CASE open_shared_clean(p)
    BY <2>2, <2>3, <2>5 DEF open_shared_clean, active_markers_clean
  <2>6. CASE open_done(p)
    <3>1. verified[p] = Full
      BY <1>1, <2>6 DEF open_done, StoreInv, HolderInv, Loaded
    <3> QED BY <2>3, <2>6, <3>1 DEF open_done
  <2> QED BY <2>4, <2>5, <2>6
<1>2. StoreInv /\ [Next]_vars => [A]_vars
  BY <1>1
<1> QED BY <1>2, StoreInvariant, PTL DEF Spec, MarkersRepaired

---------------------------------------------------------------------------
(* The refinement of AppendLog *)

\* The idempotency keys of the first n lines of a stream.
KeysTo(n, s) == UNION {journal[i].keys : i \in {j \in 1 .. n : journal[j].stream = s}}

\* A stream's next sequence number counts its keys, because no key enters twice.
LEMMA NextCounts ==
    ASSUME StoreInv
    PROVE  \A n \in 0 .. Len(journal) :
             /\ At(journal, n).next \in [Streams -> Nat]
             /\ \A s \in Streams : /\ IsFiniteSet(KeysTo(n, s))
                                   /\ At(journal, n).next[s] = Cardinality(KeysTo(n, s)) + 1
<1> DEFINE T == {n \in Nat : /\ At(journal, n).next \in [Streams -> Nat]
                             /\ \A s \in Streams :
                                  /\ IsFiniteSet(KeysTo(n, s))
                                  /\ At(journal, n).next[s] = Cardinality(KeysTo(n, s)) + 1}
<1>1. journal \in Seq(Requests) /\ Len(journal) \in Nat
  BY DEF StoreInv, TypeOK
<1>2. 0 \in T
  <2>1. At(journal, 0).next = [s \in Streams |-> 1]
    BY <1>1, AtSteps DEF genesis
  <2>2. ASSUME NEW s \in Streams PROVE KeysTo(0, s) = {}
    <3>1. 1 .. 0 = {}
      OBVIOUS
    <3> QED BY <3>1, Zenon DEF KeysTo
  <2>3. IsFiniteSet({}) /\ Cardinality({}) = 0
    BY FS_EmptySet
  <2> QED BY <2>1, <2>2, <2>3
<1>3. ASSUME NEW n \in 0 .. Len(journal), n \in T, n < Len(journal) PROVE n + 1 \in T
  <2>1. PICK b : b = journal[n + 1]
    OBVIOUS
  <2>2. /\ n \in Nat /\ n + 1 \in Nat /\ n + 1 \in 1 .. Len(journal) /\ (n + 1) - 1 = n /\ b \in Requests
        /\ 1 .. n + 1 = (1 .. n) \cup {n + 1}
    BY <1>1, <1>3, <2>1
  <2>3. /\ b.stream \in Streams /\ IsFiniteSet(b.keys)
    BY <2>2, RequestsAssumption DEF RequestShape
  <2>4. PICK c : c = Cardinality(b.keys)
    OBVIOUS
  <2>5. c \in Nat
    BY <2>3, <2>4, FS_CardinalityType
  <2>6. At(journal, n + 1).next = [At(journal, n).next EXCEPT ![b.stream] = @ + c]
    <3>1. At(journal, n + 1) = after_line(At(journal, n), b)
      BY <1>1, <2>1, <2>2, AtSteps
    <3> QED BY <2>4, <3>1 DEF after_line
  <2>7. PICK f : f = At(journal, n).next
    OBVIOUS
  <2>8. f \in [Streams -> Nat] /\ \A s \in Streams : /\ IsFiniteSet(KeysTo(n, s))
                                                     /\ f[s] = Cardinality(KeysTo(n, s)) + 1
    BY <1>3, <2>7
  <2>9. At(journal, n + 1).next = [f EXCEPT ![b.stream] = f[b.stream] + c]
    BY <2>6, <2>7
  <2>10. b.keys \cap KeysTo(n, b.stream) = {}
    <3>1. Identities(b) \cap At(journal, n).keys = {}
      <4>1. Fits(At(journal, (n + 1) - 1), journal[n + 1])
        BY <2>2 DEF StoreInv, LinesFit
      <4> QED BY <2>1, <2>2, <4>1 DEF Fits
    <3>2. At(journal, n).keys = UNION {Identities(journal[i]) : i \in 1 .. n}
      BY <1>1, <1>3, AtHolds
    <3>3. SUFFICES ASSUME NEW x \in b.keys, x \in KeysTo(n, b.stream) PROVE FALSE
      OBVIOUS
    <3>4. PICK i \in 1 .. n : journal[i].stream = b.stream /\ x \in journal[i].keys
      BY <3>3 DEF KeysTo
    <3>5. <<b.stream, x>> \in Identities(b) /\ <<b.stream, x>> \in Identities(journal[i])
      BY <3>3, <3>4 DEF Identities
    <3> QED BY <3>1, <3>2, <3>5
  <2>11. ASSUME NEW s \in Streams
         PROVE  KeysTo(n + 1, s) = KeysTo(n, s) \cup (IF s = b.stream THEN b.keys ELSE {})
    <3>1. CASE s = b.stream
      <4>1. {j \in 1 .. n + 1 : journal[j].stream = s} = {j \in 1 .. n : journal[j].stream = s} \cup {n + 1}
        BY <2>1, <2>2, <3>1
      <4>2. KeysTo(n + 1, s) = KeysTo(n, s) \cup journal[n + 1].keys
        BY <4>1, Zenon DEF KeysTo
      <4> QED BY <2>1, <3>1, <4>2
    <3>2. CASE s # b.stream
      <4>1. {j \in 1 .. n + 1 : journal[j].stream = s} = {j \in 1 .. n : journal[j].stream = s}
        BY <2>1, <2>2, <3>2
      <4>2. KeysTo(n + 1, s) = KeysTo(n, s)
        BY <4>1, Zenon DEF KeysTo
      <4> QED BY <3>2, <4>2
    <3> QED BY <3>1, <3>2
  <2>12. ASSUME NEW s \in Streams
         PROVE  /\ IsFiniteSet(KeysTo(n + 1, s))
                /\ At(journal, n + 1).next[s] = Cardinality(KeysTo(n + 1, s)) + 1
    <3>1. CASE s = b.stream
      <4>1. PICK A, B : A = KeysTo(n, s) /\ B = b.keys
        OBVIOUS
      <4>2. /\ IsFiniteSet(A) /\ IsFiniteSet(B) /\ A \cap B = {} /\ KeysTo(n + 1, s) = A \cup B
            /\ c = Cardinality(B) /\ f[s] = Cardinality(A) + 1
        BY <2>3, <2>4, <2>8, <2>10, <2>11, <3>1, <4>1
      <4>3. /\ IsFiniteSet(A \cup B)
            /\ Cardinality(A \cup B) = Cardinality(A) + Cardinality(B) - Cardinality(A \cap B)
        BY <4>2, FS_Union
      <4>4. Cardinality(A) \in Nat /\ Cardinality(B) \in Nat /\ Cardinality(A \cap B) = 0
        BY <4>2, FS_CardinalityType, FS_EmptySet
      <4>5. At(journal, n + 1).next[s] = f[s] + c
        BY <2>8, <2>9, <3>1
      <4>6. Cardinality(A \cup B) = Cardinality(A) + c
        BY <4>2, <4>3, <4>4
      <4>7. Cardinality(KeysTo(n + 1, s)) = Cardinality(A \cup B) /\ IsFiniteSet(KeysTo(n + 1, s))
        BY <4>2, <4>3, Zenon
      <4>8. At(journal, n + 1).next[s] = (Cardinality(A) + 1) + c
        BY <4>2, <4>5, Zenon
      <4>9. (Cardinality(A) + 1) + c = (Cardinality(A) + c) + 1
        BY <2>5, <4>4
      <4> QED BY <4>6, <4>7, <4>8, <4>9, Zenon
    <3>2. CASE s # b.stream
      <4>1. KeysTo(n + 1, s) = KeysTo(n, s)
        BY <2>11, <3>2
      <4>2. At(journal, n + 1).next[s] = f[s]
        BY <2>8, <2>9, <3>2
      <4> QED BY <2>8, <4>1, <4>2
    <3> QED BY <3>1, <3>2
  <2>13. At(journal, n + 1).next \in [Streams -> Nat]
    <3>1. f[b.stream] + c \in Nat
      BY <2>3, <2>5, <2>8
    <3>2. [f EXCEPT ![b.stream] = f[b.stream] + c] \in [Streams -> Nat]
      BY <2>8, <3>1
    <3> QED BY <2>9, <3>2
  <2> QED BY <2>2, <2>12, <2>13
<1> HIDE DEF T
<1>4. \A n \in 0 .. Len(journal) : n \in T
  BY <1>1, <1>2, <1>3, CountUp
<1> QED BY <1>4 DEF T

\* Every step leaves the lines alone, writes one, or is a power loss; answers are never taken back.
LEMMA LogSteps ==
    ASSUME Next
    PROVE  /\ vouched \subseteq vouched'
           /\ \/ journal' = journal
              \/ vouched' = vouched /\ \E p \in Procs : write_line(p)
              \/ vouched' = vouched /\ power_loss
<1>1. CASE power_loss
  BY <1>1 DEF power_loss
<1>2. ASSUME NEW p \in Procs, OpenStep(p) PROVE journal' = journal /\ vouched' = vouched
  BY <1>2 DEF OpenStep, walk_before_lock, open_shared_clean, open_shared_dirty, open_refused,
     open_upgrade, trim_torn_tail, trim_sync, open_resync, reconcile_orphans, open_done, close, disk
<1>3. ASSUME NEW p \in Procs, AppendStep(p)
      PROVE  /\ vouched \subseteq vouched'
             /\ journal' = journal \/ (vouched' = vouched /\ write_line(p))
  BY <1>3 DEF AppendStep, append_load, load_refused, rotate_state, rotate_seal, rotate_next,
     append_recorded, append_refused, stage_evidence, sync_staged, publish_link, publish_staged,
     write_line, write_half_line, sync_line, append_done, disk
<1>4. ASSUME NEW p \in Procs, ReadStep(p) \/ io_error(p) \/ kill(p)
      PROVE  journal' = journal /\ vouched \subseteq vouched'
  BY <1>4 DEF ReadStep, read_stream, committed_events_for_idempotency, io_error, kill, disk
<1> QED BY <1>1, <1>2, <1>3, <1>4 DEF Next

\* The store implements the append-only log: batches enter whole, in order and once, and a failure
\* drops only an end of the history that no answer named.
THEOREM ImplementsLogAlways == Spec => ImplementsLog
<1>1. Init => Log!Init
  BY DEF Init, Log!Init
<1>2. ASSUME StoreInv, StoreInv', [Next]_vars PROVE [Log!Next]_(Log!vars)
  <2>1. CASE UNCHANGED vars
    BY <2>1 DEF vars, Log!vars
  <2>2. ASSUME NEW p \in Procs, write_line(p), vouched' = vouched PROVE Log!Next
    <3>1. /\ Grounds /\ req[p] \in Requests /\ journal \in Seq(Requests) /\ Len(journal) \in Nat
      BY <1>2, Context, Segments DEF Rest
    <3>2. PICK r, n : r = req[p] /\ n = Len(journal)
      OBVIOUS
    <3>3. Fits(At(journal, n), r) /\ journal' = Append(journal, r) /\ r \in Requests
      BY <1>2, <2>2, <3>1, <3>2 DEF write_line, StoreInv, HolderInv
    <3>4. r.stream \in Streams
      BY <3>3, RequestsAssumption DEF RequestShape
    <3>5. Log!KeysOf(journal, r.stream) = KeysTo(n, r.stream)
      <4>1. DOMAIN journal = 1 .. n
        BY <3>1, <3>2
      <4>2. ASSUME NEW x PROVE x \in Log!KeysOf(journal, r.stream) <=> x \in KeysTo(n, r.stream)
        BY <4>1, Zenon DEF Log!KeysOf, Log!Entries, KeysTo
      <4> QED BY <4>2
    <3>6. n \in 0 .. Len(journal)
      BY <3>1, <3>2
    <3>7. r.expected = Cardinality(KeysTo(n, r.stream)) + 1
      BY <1>2, <3>3, <3>4, <3>6, NextCounts DEF Fits
    <3>8. r.keys \cap KeysTo(n, r.stream) = {}
      <4>1. At(journal, n).keys = UNION {Identities(journal[i]) : i \in 1 .. n}
        BY <3>1, <3>6, AtHolds
      <4>2. SUFFICES ASSUME NEW x \in r.keys, x \in KeysTo(n, r.stream) PROVE FALSE
        OBVIOUS
      <4>3. PICK i \in 1 .. n : journal[i].stream = r.stream /\ x \in journal[i].keys
        BY <4>2 DEF KeysTo
      <4>4. <<r.stream, x>> \in Identities(r) /\ <<r.stream, x>> \in Identities(journal[i])
        BY <4>2, <4>3 DEF Identities
      <4> QED BY <3>3, <4>1, <4>4 DEF Fits
    <3>9. Log!Commit(r)
      <4>1. /\ r.keys \cap Log!KeysOf(journal, r.stream) = {}
            /\ r.expected = Cardinality(Log!KeysOf(journal, r.stream)) + 1
        BY <3>5, <3>7, <3>8, Zenon
      <4>2. \A S : Log!Cardinality(S) = Cardinality(S)
        BY DEF Log!Cardinality, Cardinality
      <4> QED BY <2>2, <3>3, <4>1, <4>2, Zenon DEF Log!Commit
    <3> QED BY <3>3, <3>9 DEF Log!Next
  <2>3. CASE power_loss /\ vouched' = vouched
    <3>1. /\ synced \in Nat /\ Len(journal) \in Nat /\ journal \in Seq(Requests)
      BY <1>2, Segments DEF StoreInv, Grounds, TypeOK
    <3>2. PICK n \in synced .. Len(journal) : journal' = SubSeq(journal, 1, n) /\ synced' = n
      BY <2>3 DEF power_loss
    <3>3. n \in 0 .. Len(journal) /\ Len(journal') = n /\ DOMAIN journal' = 1 .. n
      BY <3>1, <3>2
    <3>4. vouched \subseteq Log!Entries(SubSeq(journal, 1, n))
      <4>1. \A b \in vouched : \E i \in 1 .. n : journal'[i] = b
        BY <1>2, <2>3, <3>2 DEF StoreInv, Vouched
      <4> QED BY <3>2, <3>3, <4>1 DEF Log!Entries
    <3>5. Log!Lose(n)
      BY <2>3, <3>2, <3>4 DEF Log!Lose
    <3> QED BY <3>3, <3>5 DEF Log!Next
  <2>4. CASE journal' = journal /\ vouched \subseteq vouched'
    <3>1. vouched' \subseteq Log!Entries(journal)
      <4>1. /\ \A b \in vouched' : \E i \in 1 .. synced' : journal'[i] = b
            /\ synced' \in 0 .. Len(journal') /\ journal' \in Seq(Requests)
        BY <1>2 DEF StoreInv, Vouched, TypeOK
      <4>2. \A i \in 1 .. synced' : i \in DOMAIN journal
        BY <2>4, <4>1
      <4> QED BY <2>4, <4>1, <4>2 DEF Log!Entries
    <3>2. vouched' = vouched \cup vouched'
      BY <2>4
    <3>3. Log!Vouch
      BY <2>4, <3>1, <3>2 DEF Log!Vouch
    <3> QED BY <3>3 DEF Log!Next
  <2> QED BY <1>2, <2>1, <2>2, <2>3, <2>4, LogSteps
<1>3. StoreInv /\ StoreInv' /\ [Next]_vars => [Log!Next]_(Log!vars)
  BY <1>2
<1> QED BY <1>1, <1>3, StoreInvariant, PTL DEF Spec, ImplementsLog, Log!Spec
=============================================================================
