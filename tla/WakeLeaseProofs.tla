-------------------------- MODULE WakeLeaseProofs --------------------------
(* What the wake doorbell guarantees for every number of sleepers and sweeps, every audience    *)
(* and every bound, proved with TLAPS.                                                          *)
EXTENDS WakeLease, FiniteSetTheorems, TLAPS

-----------------------------------------------------------------------------
(* The inductive invariant *)

\* A capture is about an arming of the stream that content had reached.
Due(s, a) ==
    /\ a \in 1 .. Len(log) /\ log[a].kind = "lease" /\ s \in log[a].to
    /\ \E j \in log[a].at + 1 .. Len(log) : log[j].kind = "content" /\ s \in log[j].to

\* A sleeper whose arming a was rung: it has the byte, or it is past that arming, or it will be
\* once it reads its lease.
RungSeen(s, a) ==
    /\ sleeper[s].pc = "armed" =>
          \E b \in a + 1 .. Len(log) : log[b].kind = "lease" /\ s \in log[b].to
    /\ sleeper[s].pc = "bind" => sleeper[s].arming # a
    /\ Listening(s) /\ sleeper[s].arming = a => sleeper[s].byte

\* A consumption that some sweep holds or has recorded.
Consumption(e) ==
    \E s \in Sessions, r \in {"rung", "stale_rendezvous"} :
        /\ e = Consumed(s, e.at, r)
        /\ Due(s, e.at)
        /\ r = "rung" => RungSeen(s, e.at)

LogInv ==
    /\ log \in Seq(Events)
    /\ Replays(log)
    /\ BurnsAsCaptured
    /\ \A i \in DOMAIN log : log[i].kind = "consumed" => Consumption(log[i])

SweepInv(t) ==
    /\ \A c \in sweep[t].todo : Due(c.session, c.arming)
    /\ \A e \in sweep[t].done : Consumption(e)
    /\ IsFiniteSet(sweep[t].done)
    /\ \A c, d \in sweep[t].todo : c.session = d.session => c = d
    /\ \A e, f \in sweep[t].done : e.to = f.to => e = f
    /\ \A c \in sweep[t].todo, e \in sweep[t].done : c.session \notin e.to
    /\ sweep[t].next <= Len(log) + 1
    /\ sweep[t].pc = "append" /\ sweep[t].next = Len(log) + 1 =>
          \A e \in sweep[t].done : \E s \in e.to : Live(log, s, e.at)

SleeperInv(s) ==
    /\ sleeper[s].pc \in {"awake", "read"} => sleeper[s].attempts = 0
    /\ sleeper[s].pc = "armHead" => sleeper[s].attempts < MaxAttempts
    /\ sleeper[s].answer.head <= Len(log)
    /\ sleeper[s].answer.result \in {"silent", "refused"} =>
          ~\E i \in 1 .. sleeper[s].answer.head : log[i] = Consumed(s, sleeper[s].answer.arming, "rung")
    /\ sleeper[s].answer.result = "missed" =>
          \E i \in 1 .. sleeper[s].answer.head : log[i] = Consumed(s, sleeper[s].answer.arming, "rung")

Sweep == [pc : {"idle", "due", "ring", "record", "append"}, todo : SUBSET Captures,
          done : SUBSET Events, next : Nat]

WakeInv ==
    /\ LogInv
    /\ sleeper \in [Sessions -> Sleepers]
    /\ sweep \in [Sweeps -> Sweep]
    /\ crashes \in 0 .. MaxCrashes
    /\ \A s \in Sessions : SleeperInv(s)
    /\ \A t \in Sweeps : SweepInv(t)

-----------------------------------------------------------------------------
(* The stream only grows *)

\* The stream stays, or gets longer and keeps what it had.
Extends ==
    /\ log' \in Seq(Events)
    /\ \/ log' = log
       \/ Len(log') > Len(log) /\ \A i \in 1 .. Len(log) : log'[i] = log[i]

\* One lease at most is live.
LEMMA LiveUnique ==
    ASSUME NEW h, NEW n \in Nat, NEW s, NEW a, NEW b, LiveAfter(h, n, s, a), LiveAfter(h, n, s, b)
    PROVE  a = b
<1>1. a \in 1 .. n /\ b \in 1 .. n
  BY DEF LiveAfter
<1>2. CASE a < b
  BY <1>1, <1>2 DEF LiveAfter
<1>3. CASE b < a
  BY <1>1, <1>3 DEF LiveAfter
<1> QED BY <1>1, <1>2, <1>3

LEMMA LiveAfterKept ==
    ASSUME NEW h, NEW g, NEW m \in Nat, \A i \in 1 .. m : g[i] = h[i],
           NEW n \in 0 .. m, NEW s, NEW a
    PROVE  LiveAfter(g, n, s, a) <=> LiveAfter(h, n, s, a)
BY DEF LiveAfter

LEMMA DueKept ==
    ASSUME log \in Seq(Events), Extends, NEW s, NEW a, Due(s, a)
    PROVE  Due(s, a)'
<1>1. CASE log' = log
  BY <1>1 DEF Due
<1>2. CASE Len(log') > Len(log) /\ \A i \in 1 .. Len(log) : log'[i] = log[i]
  <2>1. Len(log) \in Nat /\ Len(log') \in Nat
    BY DEF Extends
  <2>2. a \in 1 .. Len(log) /\ log'[a] = log[a]
    BY <1>2 DEF Due
  <2>3. PICK j \in log[a].at + 1 .. Len(log) : log[j].kind = "content" /\ s \in log[j].to
    BY DEF Due
  <2>4. log[a].at \in Nat
    <3>1. log[a] \in Events
      BY <2>2
    <3> QED BY <3>1 DEF Events
  <2>5. j \in 1 .. Len(log) /\ log'[j] = log[j] /\ j \in log'[a].at + 1 .. Len(log')
    BY <1>2, <2>1, <2>2, <2>3, <2>4
  <2>6. a \in 1 .. Len(log')
    BY <1>2, <2>1, <2>2
  <2> QED BY <2>2, <2>3, <2>5, <2>6 DEF Due
<1> QED BY <1>1, <1>2 DEF Extends

\* The sleepers keep what a ring left with them.
RungKept == \A s \in Sessions : \A a \in 1 .. Len(log) : RungSeen(s, a) => RungSeen(s, a)'

LEMMA RungSame ==
    ASSUME log \in Seq(Events), Extends, NEW s, NEW a \in 1 .. Len(log),
           sleeper'[s] = sleeper[s], RungSeen(s, a)
    PROVE  RungSeen(s, a)'
<1>1. Len(log) \in Nat /\ Len(log') \in Nat /\ Len(log') >= Len(log)
      /\ \A i \in 1 .. Len(log) : log'[i] = log[i]
  BY DEF Extends
<1> QED BY <1>1 DEF RungSeen, Listening

\* A consumption is about one session.
LEMMA ConsumptionShape ==
    ASSUME NEW e, Consumption(e)
    PROVE  \E s \in Sessions : e.to = {s} /\ Due(s, e.at)
<1>1. PICK s, r : s \in Sessions /\ e = Consumed(s, e.at, r) /\ Due(s, e.at)
  BY DEF Consumption
<1>2. Consumed(s, e.at, r).to = {s}
  BY DEF Consumed
<1> QED BY <1>1, <1>2

LEMMA ConsumptionKept ==
    ASSUME log \in Seq(Events), Extends, RungKept, NEW e, Consumption(e)
    PROVE  Consumption(e)'
<1>1. PICK s \in Sessions, r \in {"rung", "stale_rendezvous"} :
          /\ e = Consumed(s, e.at, r)
          /\ Due(s, e.at)
          /\ r = "rung" => RungSeen(s, e.at)
  BY DEF Consumption
<1>2. Due(s, e.at)' /\ e.at \in 1 .. Len(log)
  BY <1>1, DueKept DEF Due
<1>3. r = "rung" => RungSeen(s, e.at)'
  BY <1>1, <1>2 DEF RungKept
<1> QED BY <1>1, <1>2, <1>3 DEF Consumption

\* A burned arming is where its consumption says.
LEMMA BurnedAt ==
    ASSUME LogInv, NEW s \in Sessions, NEW a, NEW i \in 1 .. Len(log), log[i] = Consumed(s, a, "rung")
    PROVE  Burns(log, s, a, i) /\ a \in 1 .. Len(log)
<1>1. /\ i \in DOMAIN log /\ log[i].kind = "consumed" /\ log[i].to = {s} /\ log[i].at = a
      /\ i \in Nat /\ Len(log) \in Nat
  BY DEF Consumed, LogInv
<1>2. PICK b \in 1 .. i - 1 : LiveAfter(log, i - 1, s, b)
  BY <1>1 DEF LogInv, Replays
<1>3. Burns(log, s, b, i)
  BY <1>1, <1>2 DEF Burns
<1>4. b = a
  BY <1>1, <1>3 DEF LogInv, BurnsAsCaptured
<1> QED BY <1>1, <1>2, <1>3, <1>4

-----------------------------------------------------------------------------
(* The stream's invariant *)

LEMMA LogUnchanged ==
    ASSUME LogInv, UNCHANGED log, RungKept
    PROVE  LogInv'
<1>1. log \in Seq(Events) /\ Extends
  BY DEF LogInv, Extends
<1>2. ASSUME NEW i \in DOMAIN log', log'[i].kind = "consumed"
      PROVE  Consumption(log[i])'
  <2>1. PICK e : e = log[i]
    OBVIOUS
  <2>2. Consumption(e)'
    BY <1>1, <1>2, <2>1, ConsumptionKept DEF LogInv
  <2> QED BY <2>1, <2>2
<1>3. Replays(log)' /\ BurnsAsCaptured'
  BY DEF LogInv, Replays, BurnsAsCaptured, Burns, LiveAfter
<1> QED BY <1>1, <1>2, <1>3 DEF LogInv

\* What is appended burns leases that are live by then, as a sweep captured them.
LEMMA LogExtended ==
    ASSUME LogInv, Extends, RungKept,
           \A i \in Len(log) + 1 .. Len(log') : log'[i].kind = "consumed" =>
               \E e, s : /\ e = log'[i] /\ e.to = {s}
                        /\ Consumption(e) /\ LiveAfter(log', i - 1, s, e.at)
    PROVE  LogInv'
<1>0. /\ log \in Seq(Events) /\ log' \in Seq(Events) /\ Len(log) \in Nat /\ Len(log') \in Nat
      /\ \A i \in 1 .. Len(log) : log'[i] = log[i]
      /\ DOMAIN log = 1 .. Len(log) /\ DOMAIN log' = 1 .. Len(log') /\ Len(log) <= Len(log')
  BY DEF LogInv, Extends
<1>1. ASSUME NEW i \in 1 .. Len(log'), log'[i].kind = "consumed"
      PROVE  \E e : e = log'[i] /\ Consumption(e)
  BY <1>0, <1>1 DEF LogInv
<1>2. ASSUME NEW i \in DOMAIN log', log'[i].kind = "consumed"
      PROVE  Consumption(log[i])'
  <2>1. PICK e : e = log'[i] /\ Consumption(e)
    BY <1>0, <1>1, <1>2
  <2>2. Consumption(e)'
    BY <1>0, <2>1, ConsumptionKept
  <2> QED BY <2>1, <2>2
<1>3. ASSUME NEW i \in DOMAIN log', log'[i].kind = "consumed", NEW s \in log'[i].to
      PROVE  \E a \in 1 .. i - 1 : LiveAfter(log', i - 1, s, a)
  <2>1. CASE i \in 1 .. Len(log)
    <3>1. PICK a \in 1 .. i - 1 : LiveAfter(log, i - 1, s, a)
      BY <1>0, <1>3, <2>1 DEF LogInv, Replays
    <3>2. i - 1 \in 0 .. Len(log)
      BY <1>0, <2>1
    <3>3. LiveAfter(log', i - 1, s, a)
      BY <1>0, <3>1, <3>2, LiveAfterKept
    <3> QED BY <3>3
  <2>2. CASE i \in Len(log) + 1 .. Len(log')
    <3>1. PICK e, r : e = log'[i] /\ e.to = {r} /\ LiveAfter(log', i - 1, r, e.at)
      BY <1>3, <2>2
    <3> QED BY <1>3, <3>1 DEF LiveAfter
  <2> QED BY <1>0, <2>1, <2>2
<1>4. ASSUME NEW i \in DOMAIN log', NEW s \in Sessions, NEW a \in 1 .. i - 1, Burns(log', s, a, i)
      PROVE  /\ log'[i].at = a
             /\ \E j \in log'[a].at + 1 .. i - 1 : log'[j].kind = "content" /\ s \in log'[j].to
  <2>0. i \in 1 .. Len(log') /\ i - 1 \in Nat
    BY <1>0
  <2>1. CASE i \in 1 .. Len(log)
    <3>1. i - 1 \in 0 .. Len(log) /\ log'[i] = log[i] /\ log'[a] = log[a] /\ a \in 1 .. Len(log)
      BY <1>0, <2>1
    <3>2. Burns(log, s, a, i)
      BY <1>0, <1>4, <3>1, LiveAfterKept DEF Burns
    <3>3. /\ log[i].at = a
          /\ \E j \in log[a].at + 1 .. i - 1 : log[j].kind = "content" /\ s \in log[j].to
      BY <1>0, <2>1, <3>2 DEF LogInv, BurnsAsCaptured
    <3>4. PICK j \in log[a].at + 1 .. i - 1 : log[j].kind = "content" /\ s \in log[j].to
      BY <3>3
    <3>5. log[a].at \in Nat
      <4>1. log[a] \in Events
        BY <1>0, <3>1
      <4> QED BY <4>1 DEF Events
    <3>6. log'[j] = log[j]
      BY <1>0, <2>1, <3>4, <3>5
    <3> QED BY <3>1, <3>3, <3>4, <3>6
  <2>2. CASE i \in Len(log) + 1 .. Len(log')
    <3>1. PICK e, r : /\ e = log'[i] /\ e.to = {r} /\ Consumption(e)
                      /\ LiveAfter(log', i - 1, r, e.at)
      BY <1>4, <2>2 DEF Burns
    <3>2. r = s
      BY <1>4, <3>1 DEF Burns
    <3>3. e.at = a
      BY <1>4, <2>0, <3>1, <3>2, LiveUnique DEF Burns
    <3>4. Due(s, a)
      <4>1. PICK q, z : q \in Sessions /\ e = Consumed(q, e.at, z) /\ Due(q, e.at)
        BY <3>1 DEF Consumption
      <4>2. e.to = {q}
        BY <4>1 DEF Consumed
      <4> QED BY <3>1, <3>2, <3>3, <4>1, <4>2
    <3>5. PICK j \in log[a].at + 1 .. Len(log) : log[j].kind = "content" /\ s \in log[j].to
      BY <3>4 DEF Due
    <3>6. a \in 1 .. Len(log) /\ log'[a] = log[a]
      BY <1>0, <3>4 DEF Due
    <3>7. log[a].at \in Nat
      <4>1. log[a] \in Events
        BY <1>0, <3>6
      <4> QED BY <4>1 DEF Events
    <3>8. j \in 1 .. Len(log) /\ j \in log'[a].at + 1 .. i - 1 /\ log'[j] = log[j]
      BY <1>0, <2>2, <3>5, <3>6, <3>7
    <3> QED BY <3>1, <3>3, <3>5, <3>8
  <2> QED BY <1>0, <2>1, <2>2
<1>5. Replays(log)'
  BY <1>3 DEF Replays
<1>6. BurnsAsCaptured'
  BY <1>4 DEF BurnsAsCaptured
<1> QED BY <1>0, <1>2, <1>5, <1>6 DEF LogInv

LEMMA AppendExtends ==
    ASSUME LogInv, NEW e \in Events, log' = Append(log, e)
    PROVE  Extends
<1>1. /\ log' \in Seq(Events) /\ Len(log') = Len(log) + 1 /\ Len(log) \in Nat
      /\ \A i \in 1 .. Len(log) : log'[i] = log[i]
  BY DEF LogInv
<1> QED BY <1>1 DEF Extends

\* Content and leases burn nothing.
LEMMA LogAppended ==
    ASSUME LogInv, RungKept, NEW e \in Events, e.kind # "consumed", log' = Append(log, e)
    PROVE  LogInv'
<1>1. /\ log' \in Seq(Events) /\ Len(log') = Len(log) + 1 /\ Len(log) \in Nat
      /\ \A i \in 1 .. Len(log) : log'[i] = log[i]
      /\ log'[Len(log) + 1] = e
  BY DEF LogInv
<1>2. Extends
  BY AppendExtends
<1>3. \A i \in Len(log) + 1 .. Len(log') : log'[i].kind # "consumed"
  BY <1>1
<1> QED BY <1>2, <1>3, LogExtended

LEMMA OrderType ==
    ASSUME NEW S \in SUBSET Events, IsFiniteSet(S), NEW q \in Orders(S)
    PROVE  /\ q \in Seq(Events) /\ Len(q) = Cardinality(S) /\ Len(q) \in Nat
           /\ \A i \in 1 .. Len(q) : q[i] \in S
           /\ \A i, j \in 1 .. Len(q) : i # j => q[i] # q[j]
<1>1. Cardinality(S) \in Nat
  BY FS_CardinalityType
<1>2. q \in [1 .. Cardinality(S) -> S] /\ DOMAIN q = 1 .. Cardinality(S)
  BY DEF Orders
<1>3. q \in [1 .. Cardinality(S) -> Events]
  BY <1>2
<1>4. q \in Seq(Events) /\ Len(q) = Cardinality(S)
  BY <1>1, <1>2, <1>3
<1> QED BY <1>1, <1>2, <1>4 DEF Orders

\* A batch decided on the stream it is appended to, about one lease per session.
LEMMA LogBatch ==
    ASSUME LogInv, RungKept, NEW S \in SUBSET Events, IsFiniteSet(S),
           \A e \in S : Consumption(e),
           \A e, f \in S : e.to = f.to => e = f,
           \A e \in S : \E s \in e.to : Live(log, s, e.at),
           NEW q \in Orders(S), log' = log \o q, Extends
    PROVE  LogInv'
<1>1. /\ q \in Seq(Events) /\ Len(q) \in Nat
      /\ \A i \in 1 .. Len(q) : q[i] \in S
      /\ \A i, j \in 1 .. Len(q) : i # j => q[i] # q[j]
  BY OrderType
<1>2. /\ log \in Seq(Events) /\ Len(log) \in Nat /\ Len(log') = Len(log) + Len(q)
      /\ \A i \in 1 .. Len(log) : log'[i] = log[i]
      /\ \A i \in 1 .. Len(q) : log'[Len(log) + i] = q[i]
  BY <1>1 DEF LogInv
<1>3. ASSUME NEW i \in Len(log) + 1 .. Len(log')
      PROVE  \E e, s : /\ e = log'[i] /\ e.to = {s}
                       /\ Consumption(e) /\ LiveAfter(log', i - 1, s, e.at)
  <2>1. PICK k \in 1 .. Len(q) : i = Len(log) + k
    <3>1. i - Len(log) \in 1 .. Len(q) /\ i = Len(log) + (i - Len(log))
      BY <1>1, <1>2
    <3> QED BY <3>1
  <2>2. log'[i] = q[k] /\ q[k] \in S
    BY <1>1, <1>2, <2>1
  <2>3. PICK e : e = q[k]
    OBVIOUS
  <2>4. PICK s \in e.to : Live(log, s, e.at)
    BY <2>2, <2>3
  <2>5. e.to = {s}
    <3>1. PICK r : e.to = {r}
      BY <2>2, <2>3, ConsumptionShape
    <3> QED BY <2>4, <3>1
  <2>6. /\ e.at \in 1 .. Len(log) /\ log[e.at].kind = "lease" /\ s \in log[e.at].to
        /\ \A j \in e.at + 1 .. Len(log) : log[j].kind # "content" => s \notin log[j].to
    BY <2>4 DEF Live, LiveAfter
  <2>7. ASSUME NEW j \in e.at + 1 .. i - 1, log'[j].kind # "content"
        PROVE  s \notin log'[j].to
    <3>1. CASE j <= Len(log)
      <4>1. j \in 1 .. Len(log) /\ j \in e.at + 1 .. Len(log)
        BY <1>2, <2>6, <3>1
      <4> QED BY <1>2, <2>6, <2>7, <4>1
    <3>2. CASE j > Len(log)
      <4>1. j - Len(log) \in 1 .. Len(q) /\ j = Len(log) + (j - Len(log)) /\ j - Len(log) # k
        BY <1>1, <1>2, <2>1, <2>6, <3>2
      <4>2. PICK l \in 1 .. Len(q) : j = Len(log) + l /\ l # k
        BY <4>1
      <4>3. PICK f : f = q[l]
        OBVIOUS
      <4>4. f \in S /\ f # e /\ log'[j] = f
        BY <1>1, <1>2, <2>3, <4>2, <4>3
      <4>5. PICK r : f.to = {r}
        BY <4>4, ConsumptionShape
      <4>6. f.to # e.to
        BY <2>2, <2>3, <4>4
      <4> QED BY <2>5, <4>4, <4>5, <4>6
    <3> QED BY <1>2, <2>6, <3>1, <3>2
  <2>8. LiveAfter(log', i - 1, s, e.at)
    <3>1. e.at \in 1 .. i - 1 /\ log'[e.at] = log[e.at]
      BY <1>2, <2>1, <2>6
    <3> QED BY <2>6, <2>7, <3>1 DEF LiveAfter
  <2>9. Consumption(e)
    BY <2>2, <2>3
  <2> QED BY <2>2, <2>3, <2>5, <2>8, <2>9
<1> QED BY <1>3, LogExtended

-----------------------------------------------------------------------------
(* Who does not move is not disturbed *)

LEMMA SweepKept ==
    ASSUME LogInv, Extends, RungKept, NEW t \in Sweeps, sweep[t] \in Sweep, SweepInv(t),
           sweep'[t].todo = sweep[t].todo, sweep'[t].done = sweep[t].done,
           sweep'[t].next = sweep[t].next, sweep'[t].pc = "append" => sweep[t].pc = "append"
    PROVE  SweepInv(t)'
<1>1. log \in Seq(Events) /\ Len(log) \in Nat /\ Len(log') \in Nat /\ sweep[t].next \in Nat
  BY DEF LogInv, Extends, Sweep
<1>2. \A c \in sweep'[t].todo : Due(c.session, c.arming)'
  BY <1>1, DueKept DEF SweepInv
<1>3. \A e \in sweep'[t].done : Consumption(e)'
  BY <1>1, ConsumptionKept DEF SweepInv
<1>4. /\ sweep'[t].next <= Len(log') + 1
      /\ sweep'[t].pc = "append" /\ sweep'[t].next = Len(log') + 1 =>
             \A e \in sweep'[t].done : \E s \in e.to : Live(log', s, e.at)
  <2>1. CASE log' = log
    BY <2>1 DEF SweepInv
  <2>2. CASE Len(log') > Len(log)
    BY <1>1, <2>2 DEF SweepInv
  <2> QED BY <2>1, <2>2 DEF Extends
<1>5. /\ IsFiniteSet(sweep'[t].done)
      /\ \A c, d \in sweep'[t].todo : c.session = d.session => c = d
      /\ \A e, f \in sweep'[t].done : e.to = f.to => e = f
      /\ \A c \in sweep'[t].todo, e \in sweep'[t].done : c.session \notin e.to
  BY DEF SweepInv
<1> QED BY <1>2, <1>3, <1>4, <1>5, Zenon DEF SweepInv

LEMMA SleeperKept ==
    ASSUME LogInv, Extends, NEW s \in Sessions, sleeper[s] \in Sleepers, SleeperInv(s),
           sleeper'[s].answer = sleeper[s].answer,
           sleeper'[s].pc \in {"awake", "read"} => sleeper'[s].attempts = 0,
           sleeper'[s].pc = "armHead" => sleeper'[s].attempts < MaxAttempts
    PROVE  SleeperInv(s)'
<1>1. /\ Len(log) \in Nat /\ Len(log') \in Nat /\ Len(log') >= Len(log)
      /\ \A i \in 1 .. Len(log) : log'[i] = log[i]
  BY DEF LogInv, Extends
<1>2. sleeper[s].answer.head \in Nat
  BY DEF Sleepers
<1>3. /\ sleeper[s].answer.head <= Len(log')
      /\ \A i \in 1 .. sleeper[s].answer.head : log'[i] = log[i]
  BY <1>1, <1>2 DEF SleeperInv
<1> QED BY <1>3 DEF SleeperInv

-----------------------------------------------------------------------------
(* The steps of a sleeper *)

\* Only s moves, and keeps what a ring left with it.
LEMMA SleeperMoved ==
    ASSUME WakeInv, NEW s \in Sessions, NEW new \in Sleepers, Set(s, new), Extends,
           \A a \in 1 .. Len(log) : RungSeen(s, a) => RungSeen(s, a)'
    PROVE  /\ sleeper' \in [Sessions -> Sleepers] /\ sleeper'[s] = new
           /\ RungKept
           /\ \A r \in Sessions \ {s} : SleeperInv(r)'
<1>1. /\ log \in Seq(Events) /\ LogInv /\ sleeper \in [Sessions -> Sleepers]
      /\ \A r \in Sessions : SleeperInv(r)
  BY DEF WakeInv, LogInv
<1>2. /\ sleeper' \in [Sessions -> Sleepers] /\ sleeper'[s] = new
      /\ \A r \in Sessions \ {s} : sleeper'[r] = sleeper[r]
  BY <1>1 DEF Set
<1>3. RungKept
  <2>1. SUFFICES ASSUME NEW r \in Sessions, NEW a \in 1 .. Len(log), RungSeen(r, a)
                 PROVE  RungSeen(r, a)'
    BY DEF RungKept
  <2>2. CASE r = s
    BY <2>1, <2>2
  <2>3. CASE r # s
    BY <1>1, <1>2, <2>1, <2>3, RungSame
  <2> QED BY <2>2, <2>3
<1>4. ASSUME NEW r \in Sessions \ {s} PROVE SleeperInv(r)'
  <2>1. sleeper'[r] = sleeper[r] /\ sleeper[r] \in Sleepers /\ SleeperInv(r)
    BY <1>1, <1>2
  <2>2. /\ sleeper'[r].pc \in {"awake", "read"} => sleeper'[r].attempts = 0
        /\ sleeper'[r].pc = "armHead" => sleeper'[r].attempts < MaxAttempts
    BY <2>1 DEF SleeperInv
  <2> QED BY <1>1, <2>1, <2>2, SleeperKept
<1> QED BY <1>2, <1>3, <1>4

\* A sleeper that neither listens nor is about to owes nothing to a ring.
LEMMA QuietRung ==
    ASSUME NEW s, NEW a, sleeper'[s].pc \in {"awake", "read", "armHead", "armAppend", "matured"}
    PROVE  RungSeen(s, a)'
BY DEF RungSeen, Listening

\* A step of a sleeper that leaves the stream alone.
LEMMA SleeperAlone ==
    ASSUME WakeInv, NEW s \in Sessions, NEW new \in Sleepers, Set(s, new),
           UNCHANGED <<log, sweep, crashes>>,
           \A a \in 1 .. Len(log) : RungSeen(s, a) => RungSeen(s, a)',
           SleeperInv(s)'
    PROVE  WakeInv'
<1>1. LogInv /\ Extends /\ log' = log
  BY DEF WakeInv, LogInv, Extends
<1>2. /\ sleeper' \in [Sessions -> Sleepers] /\ sleeper'[s] = new
      /\ RungKept
      /\ \A r \in Sessions \ {s} : SleeperInv(r)'
  BY <1>1, SleeperMoved
<1>3. LogInv'
  BY <1>1, <1>2, LogUnchanged
<1>4. ASSUME NEW t \in Sweeps PROVE SweepInv(t)'
  <2>1. sweep[t] \in Sweep /\ SweepInv(t)
    BY DEF WakeInv
  <2> QED BY <1>1, <1>2, <2>1, SweepKept
<1> QED BY <1>2, <1>3, <1>4 DEF WakeInv

\* The same, of a sleeper that ends up quiet and answers nothing new.
LEMMA QuietStep ==
    ASSUME WakeInv, NEW s \in Sessions, NEW new \in Sleepers, Set(s, new),
           UNCHANGED <<log, sweep, crashes>>,
           new.pc \in {"awake", "read", "armHead", "armAppend", "matured"},
           new.answer \in {sleeper[s].answer, NoAnswer},
           new.pc \in {"awake", "read"} => new.attempts = 0,
           new.pc = "armHead" => new.attempts < MaxAttempts
    PROVE  WakeInv'
<1>1. LogInv /\ Extends /\ sleeper[s] \in Sleepers /\ SleeperInv(s) /\ Len(log) \in Nat /\ log' = log
  BY DEF WakeInv, LogInv, Extends
<1>2. sleeper'[s] = new
  BY DEF WakeInv, Set
<1>3. \A a \in 1 .. Len(log) : RungSeen(s, a) => RungSeen(s, a)'
  BY <1>2, QuietRung
<1>4. SleeperInv(s)'
  <2>1. CASE new.answer = sleeper[s].answer
    BY <1>1, <1>2, <2>1, SleeperKept
  <2>2. CASE new.answer = NoAnswer
    BY <1>1, <1>2, <2>2 DEF SleeperInv, NoAnswer
  <2> QED BY <2>1, <2>2
<1> QED BY <1>3, <1>4, SleeperAlone

LEMMA RestedType ==
    ASSUME NEW s \in Sessions, sleeper[s] \in Sleepers
    PROVE  /\ Rested(s) \in Sleepers /\ Rested(s).pc = "awake" /\ Rested(s).attempts = 0
           /\ Rested(s).answer = NoAnswer
<1>1. sleeper[s].seen \in Nat /\ MaxAttempts \in Nat /\ 0 \in 0 .. MaxAttempts
  BY BoundsAssumption DEF Sleepers
<1> QED BY <1>1 DEF Rested, Awake, NoAnswer, Sleepers

LEMMA HostReadInv == ASSUME WakeInv, NEW s \in Sessions, HostRead(s) PROVE WakeInv'
<1> DEFINE new == [sleeper[s] EXCEPT !.pc = "read", !.seen = Len(log), !.answer = NoAnswer]
<1>1. sleeper[s] \in Sleepers /\ SleeperInv(s) /\ Len(log) \in Nat
  BY DEF WakeInv, LogInv
<1>2. new \in Sleepers /\ new.pc = "read" /\ new.attempts = sleeper[s].attempts /\ new.answer = NoAnswer
  BY <1>1 DEF Sleepers, NoAnswer
<1>3. sleeper[s].attempts = 0
  BY <1>1 DEF SleeperInv, HostRead
<1>4. Set(s, new) /\ UNCHANGED <<log, sweep, crashes>>
  BY DEF HostRead
<1> QED BY <1>2, <1>3, <1>4, QuietStep

LEMMA ArmReadInv == ASSUME WakeInv, NEW s \in Sessions, ArmRead(s) PROVE WakeInv'
<1>1. /\ sleeper[s] \in Sleepers /\ SleeperInv(s) /\ Len(log) \in Nat /\ sleeper[s].seen \in Nat
      /\ MaxAttempts \in Nat \ {0}
  BY BoundsAssumption DEF WakeInv, LogInv, Sleepers
<1>2. PICK cursor \in Nat : Set(s, [sleeper[s] EXCEPT !.pc = "armHead", !.cursor = cursor])
  BY <1>1 DEF ArmRead
<1> DEFINE new == [sleeper[s] EXCEPT !.pc = "armHead", !.cursor = cursor]
<1>3. /\ new \in Sleepers /\ new.pc = "armHead" /\ new.attempts = sleeper[s].attempts
      /\ new.answer = sleeper[s].answer
  BY <1>1 DEF Sleepers, ArmPcs, WaitPcs
<1>4. sleeper[s].attempts = 0
  BY <1>1 DEF SleeperInv, ArmRead
<1>5. Set(s, new) /\ UNCHANGED <<log, sweep, crashes>> /\ new.attempts < MaxAttempts
  BY <1>1, <1>2, <1>3, <1>4 DEF ArmRead
<1> QED BY <1>3, <1>5, QuietStep

LEMMA ArmHeadInv == ASSUME WakeInv, NEW s \in Sessions, ArmHead(s) PROVE WakeInv'
<1> DEFINE new == [sleeper[s] EXCEPT !.pc = "armAppend", !.next = Len(log) + 1, !.attempts = @ + 1]
<1>1. /\ sleeper[s] \in Sleepers /\ SleeperInv(s) /\ Len(log) \in Nat
      /\ MaxAttempts \in Nat \ {0}
  BY BoundsAssumption DEF WakeInv, LogInv
<1>2. sleeper[s].attempts \in 0 .. MaxAttempts /\ sleeper[s].attempts < MaxAttempts
  BY <1>1 DEF SleeperInv, ArmHead, Sleepers
<1>3. PICK n \in Nat, k \in 0 .. MaxAttempts : n = Len(log) + 1 /\ k = sleeper[s].attempts + 1
  BY <1>1, <1>2
<1>4. new \in Sleepers /\ new.pc = "armAppend" /\ new.answer = sleeper[s].answer
  <2>1. new = [sleeper[s] EXCEPT !.pc = "armAppend", !.next = n, !.attempts = k]
    BY <1>3, Zenon
  <2>2. [sleeper[s] EXCEPT !.pc = "armAppend", !.next = n, !.attempts = k] \in Sleepers
    BY <1>1 DEF Sleepers, ArmPcs
  <2>3. new.pc = "armAppend" /\ new.answer = sleeper[s].answer
    BY <1>1 DEF Sleepers
  <2> QED BY <2>1, <2>2, <2>3, Zenon
<1>5. Set(s, new) /\ UNCHANGED <<log, sweep, crashes>>
  BY DEF ArmHead
<1> QED BY <1>4, <1>5, QuietStep

LEMMA ArmConflictInv == ASSUME WakeInv, NEW s \in Sessions, ArmConflict(s) PROVE WakeInv'
<1>1. sleeper[s] \in Sleepers /\ UNCHANGED <<log, sweep, crashes>>
  BY DEF WakeInv, ArmConflict
<1>2. CASE sleeper[s].attempts < MaxAttempts
  <2> DEFINE new == [sleeper[s] EXCEPT !.pc = "armHead", !.next = 0]
  <2>1. /\ new \in Sleepers /\ new.pc = "armHead" /\ new.answer = sleeper[s].answer
        /\ new.attempts = sleeper[s].attempts
    BY <1>1 DEF Sleepers, ArmPcs, WaitPcs
  <2>2. Set(s, new)
    BY <1>2 DEF ArmConflict
  <2> QED BY <1>1, <1>2, <2>1, <2>2, QuietStep
<1>3. CASE ~(sleeper[s].attempts < MaxAttempts)
  <2>1. Set(s, Rested(s))
    BY <1>3 DEF ArmConflict
  <2> QED BY <1>1, <2>1, RestedType, QuietStep
<1> QED BY <1>2, <1>3

LEMMA DeadlineInv == ASSUME WakeInv, NEW s \in Sessions, Deadline(s) PROVE WakeInv'
<1> DEFINE new == [sleeper[s] EXCEPT !.pc = "matured", !.byte = FALSE]
<1>1. sleeper[s] \in Sleepers
  BY DEF WakeInv
<1>2. new \in Sleepers /\ new.pc = "matured" /\ new.answer = sleeper[s].answer
  BY <1>1 DEF Sleepers, ArmPcs, WaitPcs
<1>3. Set(s, new) /\ UNCHANGED <<log, sweep, crashes>>
  BY DEF Deadline
<1> QED BY <1>2, <1>3, QuietStep

LEMMA BindInv == ASSUME WakeInv, NEW s \in Sessions, Bind(s) PROVE WakeInv'
<1> DEFINE new == [sleeper[s] EXCEPT !.pc = "validate"]
<1>1. sleeper[s] \in Sleepers /\ SleeperInv(s) /\ LogInv /\ Extends
  BY DEF WakeInv, Extends, LogInv, Bind
<1>2. /\ new \in Sleepers /\ new.pc = "validate" /\ new.answer = sleeper[s].answer
      /\ new.arming = sleeper[s].arming
  BY <1>1 DEF Sleepers, WaitPcs
<1>3. Set(s, new) /\ UNCHANGED <<log, sweep, crashes>> /\ sleeper[s].pc = "bind"
  BY DEF Bind
<1>4. sleeper'[s] = new
  BY <1>3 DEF WakeInv, Set
<1>5. \A a \in 1 .. Len(log) : RungSeen(s, a) => RungSeen(s, a)'
  BY <1>2, <1>3, <1>4 DEF RungSeen, Listening
<1>6. SleeperInv(s)'
  BY <1>1, <1>2, <1>4, SleeperKept
<1> QED BY <1>2, <1>3, <1>5, <1>6, SleeperAlone

LEMMA ValidateInv == ASSUME WakeInv, NEW s \in Sessions, Validate(s) PROVE WakeInv'
<1>1. sleeper[s] \in Sleepers /\ SleeperInv(s) /\ LogInv /\ Extends
  BY DEF WakeInv, Extends, LogInv, Validate
<1>2. PICK pc \in {"wait", "receipt"} : Set(s, [sleeper[s] EXCEPT !.pc = pc])
  BY DEF Validate
<1> DEFINE new == [sleeper[s] EXCEPT !.pc = pc]
<1>3. /\ new \in Sleepers /\ new.pc = pc /\ new.answer = sleeper[s].answer
      /\ new.arming = sleeper[s].arming /\ new.byte = sleeper[s].byte
  BY <1>1 DEF Sleepers, WaitPcs
<1>4. Set(s, new) /\ UNCHANGED <<log, sweep, crashes>> /\ sleeper[s].pc = "validate"
  BY <1>2 DEF Validate
<1>5. sleeper'[s] = new
  BY <1>4 DEF WakeInv, Set
<1>6. \A a \in 1 .. Len(log) : RungSeen(s, a) => RungSeen(s, a)'
  BY <1>3, <1>4, <1>5 DEF RungSeen, Listening
<1>7. SleeperInv(s)'
  BY <1>1, <1>3, <1>5, SleeperKept
<1> QED BY <1>3, <1>4, <1>6, <1>7, SleeperAlone

\* wake-wait answers result about arming from the stream as it is.
LEMMA AnsweredInv ==
    ASSUME WakeInv, NEW s \in Sessions, NEW arming \in Nat,
           NEW result \in {"rung", "missed", "silent", "refused"}, Answered(s, arming, result),
           UNCHANGED <<log, sweep, crashes>>,
           result \in {"silent", "refused"} =>
               ~\E i \in 1 .. Len(log) : log[i] = Consumed(s, arming, "rung"),
           result = "missed" => \E i \in 1 .. Len(log) : log[i] = Consumed(s, arming, "rung")
    PROVE  WakeInv'
<1> DEFINE ans == [arming |-> arming, result |-> result, head |-> Len(log)]
           new == [Rested(s) EXCEPT !.answer = ans]
<1>1. sleeper[s] \in Sleepers /\ Len(log) \in Nat
  BY DEF WakeInv, LogInv
<1>2. /\ Rested(s) \in Sleepers /\ Rested(s).pc = "awake" /\ Rested(s).attempts = 0
  BY <1>1, RestedType
<1>3. /\ new \in Sleepers /\ new.pc = "awake" /\ new.attempts = 0 /\ new.answer = ans
  BY <1>1, <1>2 DEF Sleepers
<1>4. Set(s, new)
  BY DEF Answered
<1>5. sleeper'[s] = new
  BY <1>4 DEF WakeInv, Set
<1>6. \A a \in 1 .. Len(log) : RungSeen(s, a) => RungSeen(s, a)'
  <2>1. sleeper'[s].pc = "awake"
    BY <1>3, <1>5, Zenon
  <2> QED BY <2>1, QuietRung
<1>7. SleeperInv(s)'
  <2>1. ans.arming = arming /\ ans.result = result /\ ans.head = Len(log)
    OBVIOUS
  <2> HIDE DEF ans, new
  <2> QED BY <1>1, <1>3, <1>5, <2>1 DEF SleeperInv
<1> QED BY <1>3, <1>4, <1>6, <1>7, SleeperAlone

\* The receipt is exact: it is there when the log holds this arming's own ring, and only then.
LEMMA ReceiptExact ==
    ASSUME LogInv, NEW s \in Sessions, NEW a \in Nat
    PROVE  missed_ring(log, s, a) <=> \E i \in 1 .. Len(log) : log[i] = Consumed(s, a, "rung")
<1>0. log \in Seq(Events) /\ Len(log) \in Nat /\ DOMAIN log = 1 .. Len(log)
  BY DEF LogInv
<1>1. ASSUME missed_ring(log, s, a)
      PROVE  \E i \in 1 .. Len(log) : log[i] = Consumed(s, a, "rung")
  <2>1. PICK i \in DOMAIN log : Burns(log, s, a, i) /\ log[i].reason = "rung" /\ log[i].at = a
    BY <1>1 DEF missed_ring
  <2>2. PICK e : e = log[i] /\ Consumption(e) /\ s \in e.to
    BY <2>1 DEF LogInv, Burns
  <2>3. PICK r, z : r \in Sessions /\ e = Consumed(r, e.at, z)
    BY <2>2 DEF Consumption
  <2>4. e.to = {r} /\ e.reason = z
    BY <2>3 DEF Consumed
  <2> QED BY <1>0, <2>1, <2>2, <2>3, <2>4
<1>2. ASSUME NEW i \in 1 .. Len(log), log[i] = Consumed(s, a, "rung")
      PROVE  missed_ring(log, s, a)
  <2>1. Burns(log, s, a, i) /\ a \in 1 .. Len(log)
    BY <1>2, BurnedAt
  <2>2. log[i].reason = "rung" /\ log[i].at = a
    BY <1>2 DEF Consumed
  <2> QED BY <1>0, <2>1, <2>2 DEF missed_ring, LogInv
<1> QED BY <1>1, <1>2

LEMMA ReadReceiptInv == ASSUME WakeInv, NEW s \in Sessions, ReadReceipt(s) PROVE WakeInv'
<1>1. LogInv /\ sleeper[s] \in Sleepers /\ sleeper[s].arming \in Nat
  BY DEF WakeInv, Sleepers
<1>2. /\ UNCHANGED <<log, sweep, crashes>>
      /\ \E result \in {"rung", "missed", "silent", "refused"} :
             /\ Answered(s, sleeper[s].arming, result)
             /\ result \in {"rung", "missed"} <=> missed_ring(log, s, sleeper[s].arming)
  <2>1. UNCHANGED <<log, sweep, crashes>>
    BY DEF ReadReceipt
  <2>2. CASE missed_ring(log, s, sleeper[s].arming) /\ sleeper[s].pc = "receipt"
    BY <2>2 DEF ReadReceipt
  <2>3. CASE missed_ring(log, s, sleeper[s].arming) /\ sleeper[s].pc # "receipt"
    BY <2>3 DEF ReadReceipt
  <2>4. CASE ~missed_ring(log, s, sleeper[s].arming) /\ sleeper[s].pc = "receipt"
    BY <2>4 DEF ReadReceipt
  <2>5. CASE ~missed_ring(log, s, sleeper[s].arming) /\ sleeper[s].pc # "receipt"
    BY <2>5 DEF ReadReceipt
  <2> QED BY <2>1, <2>2, <2>3, <2>4, <2>5
<1>3. PICK result \in {"rung", "missed", "silent", "refused"} :
             /\ Answered(s, sleeper[s].arming, result)
             /\ result \in {"rung", "missed"} <=> missed_ring(log, s, sleeper[s].arming)
  BY <1>2
<1>4. missed_ring(log, s, sleeper[s].arming) <=>
          \E i \in 1 .. Len(log) : log[i] = Consumed(s, sleeper[s].arming, "rung")
  BY <1>1, ReceiptExact
<1> QED BY <1>1, <1>2, <1>3, <1>4, AnsweredInv

LEMMA AcceptInv == ASSUME WakeInv, NEW s \in Sessions, Accept(s) PROVE WakeInv'
<1>1. sleeper[s].arming \in Nat
  BY DEF WakeInv, Sleepers
<1>2. Answered(s, sleeper[s].arming, "rung") /\ UNCHANGED <<log, sweep, crashes>>
  BY DEF Accept
<1> QED BY <1>1, <1>2, AnsweredInv

LEMMA ReadOwnLeaseInv == ASSUME WakeInv, NEW s \in Sessions, ReadOwnLease(s) PROVE WakeInv'
<1>1. /\ LogInv /\ sleeper[s] \in Sleepers /\ SleeperInv(s) /\ Len(log) \in Nat
      /\ DOMAIN log = 1 .. Len(log) /\ Extends
  <2>1. log' = log
    BY DEF ReadOwnLease
  <2> QED BY <2>1 DEF WakeInv, LogInv, Extends
<1>2. UNCHANGED <<log, sweep, crashes>> /\ sleeper[s].pc = "armed"
  BY DEF ReadOwnLease
<1>3. ASSUME NEW b \in DOMAIN log, NEW pc \in {"bind", "matured"}, Live(log, s, b),
             Set(s, [sleeper[s] EXCEPT !.pc = pc, !.arming = b])
      PROVE  WakeInv'
  <2> DEFINE new == [sleeper[s] EXCEPT !.pc = pc, !.arming = b]
  <2>1. b \in Nat
    BY <1>1
  <2>2. /\ new \in Sleepers /\ new.pc = pc /\ new.arming = b /\ new.answer = sleeper[s].answer
    BY <1>1, <2>1 DEF Sleepers, WaitPcs
  <2>3. sleeper'[s] = new
    BY <1>3 DEF WakeInv, Set
  <2>4. ASSUME NEW a \in 1 .. Len(log), RungSeen(s, a) PROVE RungSeen(s, a)'
    <3>1. PICK d \in a + 1 .. Len(log) : log[d].kind = "lease" /\ s \in log[d].to
      BY <1>2, <2>4 DEF RungSeen
    <3>2. b # a
      BY <1>1, <1>3, <3>1 DEF Live, LiveAfter
    <3> QED BY <2>2, <2>3, <3>2 DEF RungSeen, Listening
  <2>5. SleeperInv(s)'
    BY <1>1, <2>2, <2>3, SleeperKept
  <2> QED BY <1>2, <1>3, <2>2, <2>4, <2>5, SleeperAlone
<1>4. ASSUME Answered(s, 0, "refused") PROVE WakeInv'
  <2>1. ASSUME NEW i \in 1 .. Len(log), log[i] = Consumed(s, 0, "rung") PROVE FALSE
    <3>1. 0 \in 1 .. Len(log)
      BY <1>1, <2>1, BurnedAt
    <3> QED BY <1>1, <3>1
  <2> QED BY <1>2, <1>4, <2>1, AnsweredInv
<1> QED BY <1>3, <1>4 DEF ReadOwnLease

LEMMA KillInv == ASSUME WakeInv, NEW s \in Sessions, Kill(s) PROVE WakeInv'
<1>1. LogInv /\ Extends /\ sleeper[s] \in Sleepers /\ SleeperInv(s) /\ Len(log) \in Nat /\ log' = log
  BY DEF WakeInv, LogInv, Extends, Kill
<1>2. /\ Rested(s) \in Sleepers /\ Rested(s).pc = "awake" /\ Rested(s).attempts = 0
      /\ Rested(s).answer = NoAnswer
  BY <1>1, RestedType
<1>3. Set(s, Rested(s)) /\ UNCHANGED <<log, sweep>>
  BY DEF Kill
<1>4. sleeper'[s] = Rested(s)
  BY <1>3 DEF WakeInv, Set
<1>5. \A a \in 1 .. Len(log) : RungSeen(s, a) => RungSeen(s, a)'
  BY <1>2, <1>4, QuietRung
<1>6. /\ sleeper' \in [Sessions -> Sleepers]
      /\ RungKept
      /\ \A r \in Sessions \ {s} : SleeperInv(r)'
  BY <1>1, <1>2, <1>3, <1>5, SleeperMoved
<1>7. SleeperInv(s)'
  BY <1>1, <1>2, <1>4 DEF SleeperInv, NoAnswer
<1>8. LogInv'
  BY <1>1, <1>6, LogUnchanged
<1>9. ASSUME NEW t \in Sweeps PROVE SweepInv(t)'
  <2>1. sweep[t] \in Sweep /\ SweepInv(t) /\ sweep'[t] = sweep[t]
    BY <1>3 DEF WakeInv
  <2> QED BY <1>1, <1>6, <2>1, SweepKept
<1>10. crashes' \in 0 .. MaxCrashes
  BY BoundsAssumption DEF Kill, WakeInv
<1> QED BY <1>3, <1>6, <1>7, <1>8, <1>9, <1>10 DEF WakeInv

-----------------------------------------------------------------------------
(* Appends that start a sweep *)

LEMMA SpawnInv ==
    ASSUME LogInv, Extends, RungKept, Spawn, sweep \in [Sweeps -> Sweep],
           \A t \in Sweeps : SweepInv(t)
    PROVE  sweep' \in [Sweeps -> Sweep] /\ \A t \in Sweeps : SweepInv(t)'
<1>1. PICK u \in Sweeps : sweep' = [sweep EXCEPT ![u].pc = "due"]
  <2>1. PICK u : u = CHOOSE t \in {t \in Sweeps : sweep[t].pc = "idle"} : TRUE
    OBVIOUS
  <2>2. u \in Sweeps /\ sweep' = [sweep EXCEPT ![u].pc = "due"]
    BY <2>1 DEF Spawn
  <2> QED BY <2>2
<1>2. sweep' \in [Sweeps -> Sweep]
  <2>1. sweep[u] \in Sweep
    OBVIOUS
  <2>2. [sweep[u] EXCEPT !.pc = "due"] \in Sweep
    BY <2>1 DEF Sweep
  <2> QED BY <1>1, <2>2
<1>3. ASSUME NEW t \in Sweeps PROVE SweepInv(t)'
  <2>1. sweep[t] \in Sweep /\ SweepInv(t)
    OBVIOUS
  <2>2. /\ sweep'[t].todo = sweep[t].todo /\ sweep'[t].done = sweep[t].done
        /\ sweep'[t].next = sweep[t].next
        /\ sweep'[t].pc = "append" => sweep[t].pc = "append"
    BY <1>1, <2>1 DEF Sweep
  <2> QED BY <2>1, <2>2, SweepKept
<1> QED BY <1>2, <1>3

LEMMA ArmAppendInv == ASSUME WakeInv, NEW s \in Sessions, ArmAppend(s) PROVE WakeInv'
<1> DEFINE new == [Rested(s) EXCEPT !.pc = "armed"]
           e == Lease(s, sleeper[s].cursor)
<1>1. LogInv /\ sleeper[s] \in Sleepers /\ SleeperInv(s) /\ Len(log) \in Nat /\ log \in Seq(Events)
  BY DEF WakeInv, LogInv
<1>2. log' = Append(log, e) /\ Set(s, new) /\ Spawn /\ UNCHANGED crashes
  BY DEF ArmAppend
<1>3. e \in Events /\ e.kind = "lease" /\ e.to = {s}
  <2>1. sleeper[s].cursor \in Nat
    BY <1>1 DEF Sleepers
  <2> QED BY <2>1 DEF Events, Lease
<1> HIDE DEF e
<1>4. Extends
  BY <1>1, <1>2, <1>3, AppendExtends
<1>5. /\ Rested(s) \in Sleepers /\ Rested(s).attempts = 0 /\ Rested(s).answer = NoAnswer
  BY <1>1, RestedType
<1>6. new \in Sleepers /\ new.pc = "armed" /\ new.attempts = 0 /\ new.answer = NoAnswer
  BY <1>5 DEF Sleepers, WaitPcs
<1> HIDE DEF new
<1>7. sleeper'[s] = new
  BY <1>2 DEF WakeInv, Set
<1>8. ASSUME NEW a \in 1 .. Len(log) PROVE RungSeen(s, a)'
  <2>1. /\ Len(log') = Len(log) + 1 /\ log'[Len(log')] = e /\ Len(log') \in a + 1 .. Len(log')
    BY <1>1, <1>2, <1>3
  <2> QED BY <1>3, <1>6, <1>7, <2>1 DEF RungSeen, Listening
<1>9. /\ sleeper' \in [Sessions -> Sleepers]
      /\ RungKept
      /\ \A r \in Sessions \ {s} : SleeperInv(r)'
  BY <1>2, <1>4, <1>6, <1>8, SleeperMoved
<1>10. SleeperInv(s)'
  <2>1. Len(log') \in Nat
    BY <1>4 DEF Extends
  <2> QED BY <1>6, <1>7, <2>1 DEF SleeperInv, NoAnswer
<1>11. LogInv'
  BY <1>1, <1>2, <1>3, <1>9, LogAppended
<1>12. sweep' \in [Sweeps -> Sweep] /\ \A t \in Sweeps : SweepInv(t)'
  BY <1>1, <1>2, <1>4, <1>9, SpawnInv DEF WakeInv
<1> QED BY <1>2, <1>9, <1>10, <1>11, <1>12 DEF WakeInv

\* Content, from a mutation route or from a drive.
LEMMA ContentInv ==
    ASSUME WakeInv, NEW to \in SUBSET Sessions, log' = Append(log, Content(to)),
           UNCHANGED <<sleeper, crashes>>
    PROVE  /\ LogInv' /\ Extends /\ RungKept
           /\ \A s \in Sessions : SleeperInv(s)'
<1>1. LogInv /\ log \in Seq(Events) /\ sleeper \in [Sessions -> Sleepers]
      /\ \A s \in Sessions : SleeperInv(s)
  BY DEF WakeInv, LogInv
<1>2. Content(to) \in Events /\ Content(to).kind = "content"
  BY DEF Events, Content
<1>3. Extends
  BY <1>1, <1>2, AppendExtends
<1>4. RungKept
  BY <1>1, <1>3, RungSame DEF RungKept
<1>5. LogInv'
  BY <1>1, <1>2, <1>4, LogAppended
<1>6. ASSUME NEW s \in Sessions PROVE SleeperInv(s)'
  <2>1. /\ sleeper[s] \in Sleepers /\ SleeperInv(s) /\ sleeper'[s] = sleeper[s]
    BY <1>1
  <2>2. /\ sleeper'[s].pc \in {"awake", "read"} => sleeper'[s].attempts = 0
        /\ sleeper'[s].pc = "armHead" => sleeper'[s].attempts < MaxAttempts
    BY <2>1 DEF SleeperInv
  <2> QED BY <1>1, <1>3, <2>1, <2>2, SleeperKept
<1> QED BY <1>3, <1>4, <1>5, <1>6

LEMMA MutateInv == ASSUME WakeInv, NEW to \in Audiences, Mutate(to) PROVE WakeInv'
<1>1. /\ LogInv' /\ Extends /\ RungKept
      /\ \A s \in Sessions : SleeperInv(s)'
  BY AudiencesAssumption, ContentInv DEF Mutate
<1>2. sweep' \in [Sweeps -> Sweep] /\ \A t \in Sweeps : SweepInv(t)'
  BY <1>1, SpawnInv DEF Mutate, WakeInv
<1> QED BY <1>1, <1>2 DEF WakeInv, Mutate

LEMMA DriveAppendInv == ASSUME WakeInv, NEW to \in Audiences, DriveAppend(to) PROVE WakeInv'
<1>1. /\ LogInv' /\ Extends /\ RungKept
      /\ \A s \in Sessions : SleeperInv(s)'
  BY AudiencesAssumption, ContentInv DEF DriveAppend
<1>2. ASSUME NEW t \in Sweeps PROVE SweepInv(t)'
  <2>1. sweep[t] \in Sweep /\ SweepInv(t) /\ sweep'[t] = sweep[t] /\ LogInv
    BY DEF WakeInv, DriveAppend
  <2> QED BY <1>1, <2>1, SweepKept
<1> QED BY <1>1, <1>2 DEF WakeInv, DriveAppend

-----------------------------------------------------------------------------
(* The steps of a sweep *)

\* Only t moves; the stream stays.
LEMMA SweepMoved ==
    ASSUME WakeInv, NEW t \in Sweeps, NEW new \in Sweep, sweep' = [sweep EXCEPT ![t] = new],
           LogInv', Extends, RungKept, UNCHANGED crashes, sleeper' \in [Sessions -> Sleepers],
           \A s \in Sessions : SleeperInv(s)', SweepInv(t)'
    PROVE  WakeInv'
<1>1. LogInv /\ sweep \in [Sweeps -> Sweep] /\ \A u \in Sweeps : SweepInv(u)
  BY DEF WakeInv
<1>2. ASSUME NEW u \in Sweeps, u # t PROVE SweepInv(u)'
  <2>1. sweep[u] \in Sweep /\ sweep'[u] = sweep[u] /\ SweepInv(u)
    BY <1>1, <1>2
  <2> QED BY <1>1, <2>1, SweepKept
<1>3. sweep' \in [Sweeps -> Sweep]
  BY <1>1
<1> QED BY <1>2, <1>3 DEF WakeInv

\* The same, when neither the stream nor a sleeper moves.
LEMMA SweepAlone ==
    ASSUME WakeInv, NEW t \in Sweeps, NEW new \in Sweep, sweep' = [sweep EXCEPT ![t] = new],
           UNCHANGED <<log, sleeper, crashes>>, SweepInv(t)'
    PROVE  WakeInv'
<1>1. LogInv /\ Extends /\ log \in Seq(Events)
  BY DEF WakeInv, LogInv, Extends
<1>2. RungKept
  BY <1>1, RungSame DEF RungKept
<1>3. LogInv'
  BY <1>1, <1>2, LogUnchanged
<1>4. sleeper' \in [Sessions -> Sleepers] /\ \A s \in Sessions : SleeperInv(s)'
  BY DEF WakeInv, SleeperInv
<1> QED BY <1>1, <1>2, <1>3, <1>4, SweepMoved

LEMMA IdleInv ==
    ASSUME NEW t \in Sweeps, sweep'[t] = IdleSweep, log' \in Seq(Events)
    PROVE  SweepInv(t)'
<1>1. /\ IdleSweep.todo = {} /\ IdleSweep.done = {} /\ IdleSweep.next = 0 /\ IdleSweep.pc = "idle"
  BY DEF IdleSweep
<1>2. IsFiniteSet({})
  BY FS_EmptySet
<1>3. Len(log') \in Nat
  OBVIOUS
<1> QED BY <1>1, <1>2, <1>3 DEF SweepInv

LEMMA IdleType == IdleSweep \in Sweep
BY DEF IdleSweep, Sweep

LEMMA CaptureInv == ASSUME WakeInv, NEW t \in Sweeps, Capture(t) PROVE WakeInv'
<1>1. /\ LogInv /\ log \in Seq(Events) /\ Len(log) \in Nat /\ DOMAIN log = 1 .. Len(log)
      /\ sweep \in [Sweeps -> Sweep]
  BY DEF WakeInv, LogInv
<1>2. UNCHANGED <<log, sleeper, crashes>>
  BY DEF Capture
<1>3. PICK due : due = due_leases(log)
  OBVIOUS
<1>4. CASE due = {}
  <2>1. sweep' = [sweep EXCEPT ![t] = IdleSweep]
    BY <1>3, <1>4 DEF Capture
  <2>2. SweepInv(t)'
    BY <1>1, <1>2, <2>1, IdleInv
  <2> QED BY <1>2, <2>1, <2>2, IdleType, SweepAlone
<1>5. CASE due # {}
  <2> DEFINE new == [IdleSweep EXCEPT !.pc = "ring", !.todo = due]
  <2>1. sweep' = [sweep EXCEPT ![t] = new]
    BY <1>3, <1>5 DEF Capture
  <2>2. /\ due \subseteq Captures
        /\ \A c \in due : /\ c.arming \in 1 .. Len(log) /\ Live(log, c.session, c.arming)
                          /\ \E i \in DOMAIN log : /\ i > log[c.arming].at /\ log[i].kind = "content"
                                                  /\ c.session \in log[i].to
    BY <1>1, <1>3 DEF due_leases, Captures
  <2>3. new \in Sweep /\ new.pc = "ring" /\ new.todo = due /\ new.done = {} /\ new.next = 0
    BY <2>2 DEF IdleSweep, Sweep
  <2> HIDE DEF new
  <2>4. ASSUME NEW c \in due PROVE Due(c.session, c.arming)
    <3>1. log[c.arming].at \in Nat
      <4>1. log[c.arming] \in Events
        BY <1>1, <2>2
      <4> QED BY <4>1 DEF Events
    <3>2. PICK i \in DOMAIN log : i > log[c.arming].at /\ log[i].kind = "content" /\ c.session \in log[i].to
      BY <2>2
    <3>3. i \in log[c.arming].at + 1 .. Len(log)
      BY <1>1, <3>1, <3>2
    <3> QED BY <2>2, <3>2, <3>3 DEF Due, Live, LiveAfter
  <2>5. ASSUME NEW c \in due, NEW d \in due, c.session = d.session PROVE c = d
    <3>1. c.arming = d.arming
      BY <1>1, <2>2, <2>5, LiveUnique DEF Live
    <3>2. c \in Captures /\ d \in Captures
      BY <2>2
    <3> QED BY <2>5, <3>1, <3>2 DEF Captures
  <2>6. sweep'[t] = new
    BY <1>1, <2>1
  <2>7. \A c \in due : Due(c.session, c.arming)'
    BY <1>2, <2>4 DEF Due
  <2>8. SweepInv(t)'
    <3>1. IsFiniteSet({})
      BY FS_EmptySet
    <3>2. /\ sweep'[t].todo = due /\ sweep'[t].done = {} /\ sweep'[t].pc # "append"
          /\ sweep'[t].next <= Len(log') + 1
      BY <1>1, <1>2, <2>3, <2>6
    <3> QED BY <2>5, <2>7, <3>1, <3>2, Zenon DEF SweepInv
  <2> QED BY <1>2, <2>1, <2>3, <2>8, SweepAlone
<1> QED BY <1>4, <1>5

\* A ring came back: what it reports is a consumption of the lease it was captured from.
LEMMA JoinedInv ==
    ASSUME WakeInv, NEW t \in Sweeps, NEW c \in sweep[t].todo,
           NEW reason \in {"rung", "stale_rendezvous"}, Joined(t, c, reason),
           UNCHANGED <<log, crashes>>, RungKept, sleeper' \in [Sessions -> Sleepers],
           \A s \in Sessions : SleeperInv(s)',
           reason = "rung" => RungSeen(c.session, c.arming)'
    PROVE  WakeInv'
<1>1. /\ LogInv /\ log \in Seq(Events) /\ Len(log) \in Nat /\ Extends
      /\ sweep \in [Sweeps -> Sweep] /\ sweep[t] \in Sweep /\ SweepInv(t)
  BY DEF WakeInv, LogInv, Extends
<1>2. c \in Captures /\ c.session \in Sessions /\ c.arming \in Nat
  BY <1>1 DEF Sweep, Captures
<1>3. PICK e : e = Consumed(c.session, c.arming, reason)
  OBVIOUS
<1>4. e \in Events /\ e.to = {c.session} /\ e.at = c.arming
  BY <1>2, <1>3 DEF Consumed, Events
<1>5. PICK pc \in {"record", "ring"} : pc = IF sweep[t].todo = {c} THEN "record" ELSE "ring"
  OBVIOUS
<1> DEFINE new == [sweep[t] EXCEPT !.todo = @ \ {c}, !.pc = pc, !.done = @ \cup {e}]
<1>6. sweep' = [sweep EXCEPT ![t] = new]
  BY <1>1, <1>3, <1>5 DEF Joined, Sweep
<1>7. /\ new \in Sweep /\ new.todo = sweep[t].todo \ {c} /\ new.pc = pc
      /\ new.done = sweep[t].done \cup {e} /\ new.next = sweep[t].next
  BY <1>1, <1>4 DEF Sweep
<1> HIDE DEF new
<1>8. sweep'[t] = new
  BY <1>1, <1>6
<1>9. Consumption(e)'
  <2>1. Due(c.session, e.at)'
    <3>1. Due(c.session, c.arming)
      BY <1>1 DEF SweepInv
    <3>2. Due(c.session, c.arming)'
      BY <1>1, <3>1, DueKept
    <3> QED BY <1>4, <3>2, Zenon
  <2>2. reason = "rung" => RungSeen(c.session, e.at)'
    BY <1>4, Zenon
  <2>3. e = Consumed(c.session, e.at, reason)
    BY <1>3, <1>4
  <2> QED BY <1>2, <2>1, <2>2, <2>3 DEF Consumption
<1>10. \A d \in new.todo : Due(d.session, d.arming)'
  BY <1>1, <1>7, DueKept DEF SweepInv
<1>11. \A f \in new.done : Consumption(f)'
  BY <1>1, <1>7, <1>9, ConsumptionKept DEF SweepInv
<1>12. IsFiniteSet(new.done)
  <2>1. IsFiniteSet(sweep[t].done)
    BY <1>1 DEF SweepInv
  <2>2. IsFiniteSet(sweep[t].done \cup {e})
    BY <2>1, FS_AddElement
  <2> QED BY <1>7, <2>2, Zenon
<1>13. /\ \A d, f \in new.todo : d.session = f.session => d = f
       /\ \A d \in new.todo, f \in new.done : d.session \notin f.to
  BY <1>1, <1>4, <1>7 DEF SweepInv
<1>14. \A d, f \in new.done : d.to = f.to => d = f
  <2>1. ASSUME NEW f \in sweep[t].done PROVE f.to # e.to
    BY <1>1, <1>4 DEF SweepInv
  <2> QED BY <1>1, <1>7, <2>1 DEF SweepInv
<1>15. new.next <= Len(log) + 1
  BY <1>1, <1>7 DEF SweepInv
<1>16. SweepInv(t)'
  BY <1>7, <1>8, <1>10, <1>11, <1>12, <1>13, <1>14, <1>15 DEF SweepInv
<1>17. LogInv'
  BY <1>1, LogUnchanged
<1> QED BY <1>1, <1>6, <1>7, <1>16, <1>17, SweepMoved

LEMMA RingInv ==
    ASSUME WakeInv, NEW t \in Sweeps, NEW c \in sweep[t].todo, Ring(t, c) PROVE WakeInv'
<1> DEFINE s == c.session
           new == [sleeper[s] EXCEPT !.byte = TRUE]
<1>1. s \in Sessions /\ LogInv /\ Extends
  BY DEF WakeInv, Sweep, Captures, LogInv, Extends, Ring
<1>2. sleeper[s] \in Sleepers /\ SleeperInv(s)
  BY <1>1 DEF WakeInv
<1>3. Set(s, new) /\ Listening(s) /\ Joined(t, c, "rung") /\ UNCHANGED <<log, crashes>>
  BY DEF Ring
<1>4. /\ new \in Sleepers /\ new.byte = TRUE /\ new.pc = sleeper[s].pc
      /\ new.attempts = sleeper[s].attempts /\ new.answer = sleeper[s].answer
  BY <1>2 DEF Sleepers
<1> HIDE DEF new
<1>5. sleeper'[s] = new
  BY <1>1, <1>3 DEF WakeInv, Set
<1>6. \A a : RungSeen(s, a)'
  BY <1>3, <1>4, <1>5 DEF RungSeen, Listening
<1>7. /\ sleeper' \in [Sessions -> Sleepers]
      /\ RungKept
      /\ \A r \in Sessions \ {s} : SleeperInv(r)'
  BY <1>1, <1>3, <1>4, <1>6, SleeperMoved
<1>8. SleeperInv(s)'
  <2>1. /\ sleeper'[s].pc \in {"awake", "read"} => sleeper'[s].attempts = 0
        /\ sleeper'[s].pc = "armHead" => sleeper'[s].attempts < MaxAttempts
        /\ sleeper'[s].answer = sleeper[s].answer
    BY <1>2, <1>4, <1>5 DEF SleeperInv
  <2> QED BY <1>1, <1>2, <2>1, SleeperKept
<1>9. RungSeen(c.session, c.arming)'
  BY <1>6
<1> QED BY <1>3, <1>7, <1>8, <1>9, JoinedInv

LEMMA GiveUpInv ==
    ASSUME WakeInv, NEW t \in Sweeps, NEW c \in sweep[t].todo, GiveUp(t, c) PROVE WakeInv'
<1>1. log \in Seq(Events) /\ Extends /\ sleeper' = sleeper /\ log' = log
  BY DEF WakeInv, LogInv, Extends, GiveUp
<1>2. RungKept
  BY <1>1, RungSame DEF RungKept
<1>3. sleeper' \in [Sessions -> Sleepers] /\ \A s \in Sessions : SleeperInv(s)'
  BY <1>1 DEF WakeInv, SleeperInv
<1> QED BY <1>2, <1>3, JoinedInv DEF GiveUp

LEMMA RecordInv == ASSUME WakeInv, NEW t \in Sweeps, Record(t) PROVE WakeInv'
<1>1. /\ LogInv /\ log \in Seq(Events) /\ Len(log) \in Nat /\ Extends
      /\ sweep \in [Sweeps -> Sweep] /\ sweep[t] \in Sweep /\ SweepInv(t)
  <2>1. log' = log
    BY DEF Record
  <2> QED BY <2>1 DEF WakeInv, LogInv, Extends
<1>2. UNCHANGED <<log, sleeper, crashes>>
  BY DEF Record
<1>3. PICK batch : batch = IF Replays(log) THEN still_live(log, sweep[t].done) ELSE {}
  OBVIOUS
<1>4. CASE batch = {}
  <2>1. sweep' = [sweep EXCEPT ![t] = IdleSweep]
    BY <1>3, <1>4 DEF Record
  <2>2. SweepInv(t)'
    BY <1>1, <1>2, <2>1, IdleInv
  <2> QED BY <1>2, <2>1, <2>2, IdleType, SweepAlone
<1>5. CASE batch # {}
  <2> DEFINE new == [pc |-> "append", todo |-> {}, done |-> batch, next |-> Len(log) + 1]
  <2>1. sweep' = [sweep EXCEPT ![t] = new]
    BY <1>3, <1>5 DEF Record
  <2>2. batch \subseteq sweep[t].done /\ \A e \in batch : \E s \in e.to : Live(log, s, e.at)
    BY <1>3, <1>5 DEF still_live
  <2>3. new \in Sweep /\ new.todo = {} /\ new.done = batch /\ new.next = Len(log) + 1
    BY <1>1, <2>2 DEF Sweep
  <2> HIDE DEF new
  <2>4. sweep'[t] = new
    BY <1>1, <2>1
  <2>5. RungKept
    BY <1>1, <1>2, RungSame DEF RungKept
  <2>6. \A e \in batch : Consumption(e)'
    BY <1>1, <2>2, <2>5, ConsumptionKept DEF SweepInv
  <2>7. IsFiniteSet(batch)
    BY <1>1, <2>2, FS_Subset DEF SweepInv
  <2>8. \A e, f \in batch : e.to = f.to => e = f
    BY <1>1, <2>2 DEF SweepInv
  <2>9. SweepInv(t)'
    BY <1>1, <1>2, <2>2, <2>3, <2>4, <2>6, <2>7, <2>8 DEF SweepInv
  <2> QED BY <1>2, <2>1, <2>3, <2>9, SweepAlone
<1> QED BY <1>4, <1>5

LEMMA RecordAppendInv == ASSUME WakeInv, NEW t \in Sweeps, RecordAppend(t) PROVE WakeInv'
<1>1. /\ LogInv /\ log \in Seq(Events) /\ Len(log) \in Nat
      /\ sweep \in [Sweeps -> Sweep] /\ sweep[t] \in Sweep /\ SweepInv(t)
      /\ sleeper \in [Sessions -> Sleepers] /\ \A s \in Sessions : SleeperInv(s)
  BY DEF WakeInv, LogInv
<1>2. /\ sweep' = [sweep EXCEPT ![t] = IdleSweep] /\ UNCHANGED <<sleeper, crashes>>
      /\ sweep[t].pc = "append"
  BY DEF RecordAppend
<1>3. CASE sweep[t].next = Len(log) + 1
  <2>1. PICK S : S = sweep[t].done
    OBVIOUS
  <2>2. /\ S \in SUBSET Events /\ IsFiniteSet(S)
        /\ \A e \in S : Consumption(e)
        /\ \A e, f \in S : e.to = f.to => e = f
        /\ \A e \in S : \E s \in e.to : Live(log, s, e.at)
    BY <1>1, <1>2, <1>3, <2>1 DEF SweepInv, Sweep
  <2>3. PICK q \in Orders(S) : log' = log \o q
    BY <1>3, <2>1 DEF RecordAppend
  <2>4. q \in Seq(Events) /\ Len(q) \in Nat
    BY <2>2, OrderType
  <2>5. Extends
    <3>1. /\ log' \in Seq(Events) /\ Len(log') = Len(log) + Len(q)
          /\ \A i \in 1 .. Len(log) : log'[i] = log[i]
      BY <1>1, <2>3, <2>4
    <3>2. CASE Len(q) = 0
      <4>1. q = <<>>
        BY <2>4, <3>2
      <4>2. log' = log
        BY <1>1, <2>3, <4>1
      <4> QED BY <3>1, <4>2 DEF Extends
    <3>3. CASE Len(q) > 0
      BY <1>1, <2>4, <3>1, <3>3 DEF Extends
    <3> QED BY <2>4, <3>2, <3>3
  <2>6. RungKept
    BY <1>1, <1>2, <2>5, RungSame DEF RungKept
  <2>7. LogInv'
    BY <1>1, <2>2, <2>3, <2>5, <2>6, LogBatch
  <2>8. SweepInv(t)'
    <3>1. log' \in Seq(Events)
      BY <2>5 DEF Extends
    <3>2. sweep'[t] = IdleSweep
      BY <1>1, <1>2
    <3> QED BY <3>1, <3>2, IdleInv
  <2>9. ASSUME NEW s \in Sessions PROVE SleeperInv(s)'
    <3>1. sleeper[s] \in Sleepers /\ SleeperInv(s) /\ sleeper'[s] = sleeper[s]
      BY <1>1, <1>2
    <3>2. /\ sleeper'[s].pc \in {"awake", "read"} => sleeper'[s].attempts = 0
          /\ sleeper'[s].pc = "armHead" => sleeper'[s].attempts < MaxAttempts
      BY <3>1 DEF SleeperInv
    <3> QED BY <1>1, <2>5, <3>1, <3>2, SleeperKept
  <2>10. sleeper' \in [Sessions -> Sleepers]
    BY <1>1, <1>2
  <2> QED BY <1>2, <2>5, <2>6, <2>7, <2>8, <2>9, <2>10, IdleType, SweepMoved
<1>4. CASE sweep[t].next # Len(log) + 1
  <2>1. log' = log
    BY <1>4 DEF RecordAppend
  <2>2. SweepInv(t)'
    BY <1>1, <1>2, <2>1, IdleInv
  <2> QED BY <1>2, <2>1, <2>2, IdleType, SweepAlone
<1> QED BY <1>3, <1>4

-----------------------------------------------------------------------------

LEMMA ServeCrashInv == ASSUME WakeInv, ServeCrash PROVE WakeInv'
<1>1. /\ LogInv /\ log \in Seq(Events) /\ Len(log) \in Nat
      /\ sleeper \in [Sessions -> Sleepers] /\ \A s \in Sessions : SleeperInv(s)
  BY DEF WakeInv, LogInv
<1>2. log' = log /\ Extends
  BY <1>1 DEF ServeCrash, Extends
<1>3. ASSUME NEW s \in Sessions
      PROVE  /\ sleeper'[s] \in Sleepers /\ SleeperInv(s)'
             /\ \A a \in 1 .. Len(log) : RungSeen(s, a) => RungSeen(s, a)'
  <2>0. sleeper[s] \in Sleepers /\ SleeperInv(s)
    BY <1>1
  <2>1. CASE sleeper[s].pc \in ArmPcs
    <3>1. sleeper'[s] = Rested(s)
      BY <2>1 DEF ServeCrash
    <3>2. /\ Rested(s) \in Sleepers /\ Rested(s).pc = "awake" /\ Rested(s).attempts = 0
          /\ Rested(s).answer = NoAnswer
      BY <2>0, RestedType
    <3>3. SleeperInv(s)'
      BY <1>1, <1>2, <3>1, <3>2 DEF SleeperInv, NoAnswer
    <3> QED BY <3>1, <3>2, <3>3, QuietRung
  <2>2. CASE sleeper[s].pc \notin ArmPcs
    <3>1. sleeper'[s] = sleeper[s]
      BY <2>2 DEF ServeCrash
    <3>2. SleeperInv(s)'
      BY <1>2, <2>0, <3>1 DEF SleeperInv
    <3> QED BY <1>1, <1>2, <2>0, <3>1, <3>2, RungSame
  <2> QED BY <2>1, <2>2
<1>4. RungKept
  BY <1>3 DEF RungKept
<1>5. LogInv'
  BY <1>1, <1>2, <1>4, LogUnchanged
<1>6. ASSUME NEW t \in Sweeps PROVE SweepInv(t)'
  <2>1. sweep'[t] = IdleSweep /\ log' \in Seq(Events)
    BY <1>1, <1>2 DEF ServeCrash
  <2> QED BY <2>1, IdleInv
<1>7. sweep' \in [Sweeps -> Sweep]
  BY IdleType DEF ServeCrash
<1>8. sleeper' \in [Sessions -> Sleepers]
  <2>1. sleeper' = [s \in Sessions |-> sleeper'[s]]
    BY DEF ServeCrash
  <2> QED BY <1>3, <2>1
<1>9. crashes' \in 0 .. MaxCrashes
  BY BoundsAssumption DEF ServeCrash, WakeInv
<1> QED BY <1>3, <1>5, <1>6, <1>7, <1>8, <1>9 DEF WakeInv

LEMMA InitInv == Init => WakeInv
<1> SUFFICES ASSUME Init PROVE WakeInv
  OBVIOUS
<1>1. log = <<>> /\ log \in Seq(Events) /\ Len(log) = 0 /\ DOMAIN log = {}
  BY DEF Init
<1>2. LogInv
  BY <1>1 DEF LogInv, Replays, BurnsAsCaptured
<1>3. ASSUME NEW s \in Sessions PROVE sleeper[s] = Awake /\ sleeper[s] \in Sleepers /\ SleeperInv(s)
  <2>1. sleeper[s] = Awake
    BY DEF Init
  <2>2. 0 \in 0 .. MaxAttempts
    BY BoundsAssumption
  <2>3. Awake \in Sleepers
    BY <2>2 DEF Awake, Sleepers, NoAnswer
  <2>4. /\ Awake.pc = "awake" /\ Awake.attempts = 0 /\ Awake.answer.head = 0
        /\ Awake.answer.result = "none"
    BY DEF Awake, NoAnswer
  <2> QED BY <1>1, <2>1, <2>3, <2>4 DEF SleeperInv
<1>4. sleeper \in [Sessions -> Sleepers]
  BY <1>3 DEF Init
<1>5. sweep \in [Sweeps -> Sweep]
  BY IdleType DEF Init
<1>6. ASSUME NEW t \in Sweeps PROVE SweepInv(t)
  <2>1. /\ sweep[t] = IdleSweep /\ IdleSweep.todo = {} /\ IdleSweep.done = {}
        /\ IdleSweep.next = 0 /\ IdleSweep.pc = "idle"
    BY DEF Init, IdleSweep
  <2>2. IsFiniteSet({})
    BY FS_EmptySet
  <2> QED BY <1>1, <2>1, <2>2 DEF SweepInv
<1>7. crashes \in 0 .. MaxCrashes
  BY BoundsAssumption DEF Init
<1> QED BY <1>2, <1>3, <1>4, <1>5, <1>6, <1>7 DEF WakeInv

LEMMA NextInv == WakeInv /\ [Next]_vars => WakeInv'
<1> SUFFICES ASSUME WakeInv, [Next]_vars PROVE WakeInv'
  OBVIOUS
<1>1. ASSUME NEW s \in Sessions, SleeperStep(s) PROVE WakeInv'
  BY <1>1, HostReadInv, ArmHeadInv, ArmAppendInv, ArmConflictInv, ReadOwnLeaseInv, BindInv,
     ValidateInv, ReadReceiptInv, AcceptInv, DeadlineInv DEF SleeperStep
<1>2. ASSUME NEW t \in Sweeps, SweepStep(t) PROVE WakeInv'
  BY <1>2, CaptureInv, RingInv, GiveUpInv, RecordInv, RecordAppendInv DEF SweepStep
<1>3. ASSUME UNCHANGED vars PROVE WakeInv'
  <2>1. /\ log' = log /\ sleeper' = sleeper /\ sweep' = sweep /\ crashes' = crashes
        /\ LogInv /\ log \in Seq(Events) /\ Extends
    BY <1>3 DEF vars, WakeInv, LogInv, Extends
  <2>2. RungKept
    BY <2>1, RungSame DEF RungKept
  <2>3. LogInv'
    BY <2>1, <2>2, LogUnchanged
  <2>4. \A s \in Sessions : SleeperInv(s)'
    BY <2>1 DEF WakeInv, SleeperInv
  <2>5. ASSUME NEW t \in Sweeps PROVE SweepInv(t)'
    BY <2>1, <2>2, SweepKept DEF WakeInv
  <2> QED BY <2>1, <2>3, <2>4, <2>5 DEF WakeInv
<1> QED BY <1>1, <1>2, <1>3, ArmReadInv, KillInv, MutateInv, DriveAppendInv, ServeCrashInv DEF Next

-----------------------------------------------------------------------------
(* The theorems *)

\* The invariant holds of every run of the doorbell: every sleeper, every sweep, every stream.
THEOREM WakeInvariant == Spec => []WakeInv
BY InitInv, NextInv, PTL DEF Spec

\* Every variable keeps its type; in particular an arming never tries more than
\* ARM_APPEND_ATTEMPTS times.
THEOREM TypeInvariant == Spec => []TypeOK
<1>1. WakeInv => TypeOK
  BY DEF WakeInv, LogInv, Sweep, TypeOK
<1> QED BY <1>1, WakeInvariant, PTL

\* The stream replays, whichever sweeps and re-armings raced for it.
THEOREM ReplayableAlways == Spec => []Replayable
<1>1. WakeInv => Replayable
  BY DEF WakeInv, LogInv, Replayable
<1> QED BY <1>1, WakeInvariant, PTL

\* A consumption burns the arming its sweep captured, and only for content past that arming's
\* cursor.
THEOREM BurnsAsCapturedAlways == Spec => []BurnsAsCaptured
<1>1. WakeInv => BurnsAsCaptured
  BY DEF WakeInv, LogInv
<1> QED BY <1>1, WakeInvariant, PTL

\* wake-wait's answers agree with the stream they were read from, and a waiter still blocked on a
\* rung arming has its byte.
THEOREM HonestAnswersAlways == Spec => []HonestAnswers
<1>1. ASSUME WakeInv, NEW s \in Sessions, sleeper[s].pc = "wait",
             NEW i \in 1 .. Len(log), log[i] = Consumed(s, sleeper[s].arming, "rung")
      PROVE  sleeper[s].byte
  <2>1. PICK e : e = log[i] /\ e = Consumed(s, sleeper[s].arming, "rung")
    BY <1>1
  <2>2. e.kind = "consumed" /\ e.to = {s} /\ e.at = sleeper[s].arming /\ e.reason = "rung"
    BY <2>1 DEF Consumed
  <2>3. Consumption(e)
    BY <1>1, <2>1, <2>2 DEF WakeInv, LogInv
  <2>4. PICK r, z : r \in Sessions /\ e = Consumed(r, e.at, z) /\ (z = "rung" => RungSeen(r, e.at))
    BY <2>3 DEF Consumption
  <2>5. Consumed(r, e.at, z).to = {r} /\ Consumed(r, e.at, z).reason = z
    BY DEF Consumed
  <2>6. RungSeen(s, sleeper[s].arming)
    BY <2>2, <2>4, <2>5
  <2> QED BY <1>1, <2>6 DEF RungSeen, Listening
<1>2. WakeInv => \A s \in Sessions :
          sleeper[s].pc = "wait" /\ (\E i \in 1 .. Len(log) : log[i] = Consumed(s, sleeper[s].arming, "rung"))
              => sleeper[s].byte
  BY <1>1, Zenon
<1>3. WakeInv => HonestAnswers
  BY <1>2, Zenon DEF HonestAnswers, WakeInv, SleeperInv
<1> QED BY <1>3, WakeInvariant, PTL
=============================================================================
