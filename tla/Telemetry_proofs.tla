-------------------------- MODULE Telemetry_proofs --------------------------
(***************************************************************************)
(* Theorems about Telemetry: the rings are the sliding window promised,    *)
(* and what the agent sees of it is current and in order, for any number   *)
(* of GPUs and samples, and any sizes of the windows.                      *)
(***************************************************************************)
EXTENDS Telemetry, SequenceTheorems, TLAPS

-----------------------------------------------------------------------------
(* Rings                                                                   *)

LEMMA ModWindow ==
    ASSUME NEW x \in 0..(2 * Window - 1)
    PROVE  x % Window = IF x < Window THEN x ELSE x - Window
  BY RingAssumption

LEMMA NewRingExact == NewRing \in Rings /\ Exact(NewRing, 0)
  BY RingAssumption DEF NewRing, Rings, Slot, Exact

\* The slot where the i-th newest sample is.
At(r, i) == (r.head + Window - i) % Window

LEMMA AtWindow ==
    ASSUME NEW r \in Rings, NEW i \in 1..Window
    PROVE  At(r, i) = IF i <= r.head THEN r.head - i ELSE r.head + Window - i
<1>1. r.head \in 0..(Window - 1)
  BY DEF Rings, Slot
<1>2. r.head + Window - i \in 0..(2 * Window - 1)
  BY <1>1, RingAssumption
<1>3. (r.head + Window - i) % Window
        = IF r.head + Window - i < Window THEN r.head + Window - i
                                          ELSE r.head + Window - i - Window
  BY <1>1, <1>2, ModWindow, RingAssumption
<1> QED
  BY <1>1, <1>3, RingAssumption DEF At

\* A push adds one number and keeps the others, whether the ring was full or not.
LEMMA PushExact ==
    ASSUME NEW r \in Rings, NEW n \in Nat, Exact(r, n)
    PROVE  Push(r, n + 1) \in Rings /\ Exact(Push(r, n + 1), n + 1)
<1> DEFINE p == Push(r, n + 1)
<1>1. /\ r.head \in 0..(Window - 1) /\ r.len \in 0..Window
      /\ r.buf \in [0..(Window - 1) -> Nat \cup {Empty}]
  BY DEF Rings, Slot
<1>2. /\ p.buf = [r.buf EXCEPT ![r.head] = n + 1]
      /\ p.head = IF r.head + 1 < Window THEN r.head + 1 ELSE 0
      /\ p.len = IF n + 1 < Window THEN n + 1 ELSE Window
  <2>1. (r.head + 1) % Window = IF r.head + 1 < Window THEN r.head + 1 ELSE r.head + 1 - Window
    BY <1>1, ModWindow, RingAssumption
  <2>2. p.len = IF n + 1 < Window THEN n + 1 ELSE Window
    BY RingAssumption DEF Push, Exact
  <2> QED
    BY <1>1, <2>1, <2>2, RingAssumption DEF Push
<1>3. p \in Rings
  <2>1. p.buf \in [Slot -> Nat \cup {Empty}]
    <3>1. n + 1 \in Nat \cup {Empty} /\ r.buf \in [Slot -> Nat \cup {Empty}]
      BY <1>1 DEF Slot
    <3> QED
      BY ONLY <1>2, <3>1
  <2>2. p.head \in Slot /\ p.len \in 0..Window
    BY <1>1, <1>2, RingAssumption DEF Slot
  <2> QED
    BY <2>1, <2>2 DEF Rings, Push
<1> HIDE DEF p
<1>4. ASSUME NEW i \in 1..p.len PROVE p.buf[At(p, i)] = n + 2 - i
  <2>0. i \in 1..Window
    BY <1>2, RingAssumption
  <2>1. At(p, i) = IF i <= p.head THEN p.head - i ELSE p.head + Window - i
    BY <1>3, <2>0, AtWindow
  <2>2. CASE i = 1
    <3>1. At(p, i) = r.head
      BY <1>1, <1>2, <2>1, <2>2, RingAssumption
    <3>2. p.buf[r.head] = n + 1
      BY <1>1, <1>2 DEF Slot
    <3> QED
      BY <2>2, <3>1, <3>2
  <2>3. CASE i # 1
    <3>1. i - 1 \in 1..r.len /\ i - 1 \in 1..(Window - 1)
      BY <1>2, <2>0, <2>3, RingAssumption DEF Exact
    <3>2. At(r, i - 1) = IF i - 1 <= r.head THEN r.head - (i - 1) ELSE r.head + Window - (i - 1)
      BY <3>1, AtWindow, RingAssumption
    <3>3. At(p, i) = At(r, i - 1) /\ At(p, i) # r.head
      <4>1. CASE r.head + 1 < Window
        <5>1. p.head = r.head + 1
          BY <1>2, <4>1
        <5> QED
          BY <1>1, <2>0, <2>1, <3>1, <3>2, <5>1, RingAssumption
      <4>2. CASE ~(r.head + 1 < Window)
        <5>1. p.head = 0 /\ r.head = Window - 1
          BY <1>1, <1>2, <4>2, RingAssumption
        <5> QED
          BY <2>0, <2>1, <3>1, <3>2, <5>1, RingAssumption
      <4> QED
        BY <4>1, <4>2
    <3>4. r.buf[At(r, i - 1)] = n + 1 - (i - 1)
      BY <3>1 DEF Exact, At
    <3>5. At(p, i) \in 0..(Window - 1)
      BY <1>1, <1>2, <2>0, <2>1, RingAssumption
    <3> QED
      BY <1>1, <1>2, <2>0, <3>3, <3>4, <3>5
  <2> QED
    BY <2>2, <2>3
<1>5. Exact(p, n + 1)
  BY <1>2, <1>4, RingAssumption DEF Exact, At
<1> QED
  BY <1>3, <1>5 DEF p

\* The numbers of the last k of n samples.
Numbers(n, k) == LET t == IF k < n THEN k ELSE n IN [i \in 1..t |-> n - t + i]

\* Reading skips from the oldest to where the samples asked for begin.
LEMMA RecentExact ==
    ASSUME NEW r \in Rings, NEW n \in Nat, Exact(r, n), NEW k \in 0..Window
    PROVE  Recent(r, k) = Numbers(n, k)
<1>1. /\ r.head \in 0..(Window - 1) /\ r.len \in 0..Window /\ r.len <= n
      /\ Take(r, k) = (IF k < n THEN k ELSE n) /\ Take(r, k) \in 0..r.len
  BY RingAssumption DEF Rings, Slot, Exact, Take
<1>2. ASSUME NEW i \in 1..Take(r, k)
      PROVE  r.buf[(Oldest(r) + (r.len - Take(r, k)) + i - 1) % Window] = n - Take(r, k) + i
  <2> DEFINE j == Take(r, k) + 1 - i
  <2>1. j \in 1..r.len /\ j \in 1..Window
    BY <1>1, RingAssumption
  <2>2. r.len \in 1..Window
    BY <1>1, RingAssumption
  <2>3. Oldest(r) = IF r.len <= r.head THEN r.head - r.len ELSE r.head + Window - r.len
    BY <2>2, AtWindow DEF At, Oldest
  <2>4. At(r, j) = IF j <= r.head THEN r.head - j ELSE r.head + Window - j
    BY <2>1, AtWindow
  <2>5. Oldest(r) + (r.len - Take(r, k)) + i - 1 = Oldest(r) + (r.len - j)
    BY <1>1, <2>3, RingAssumption
  <2>6. (Oldest(r) + (r.len - j)) % Window = At(r, j)
    <3>1. Oldest(r) + (r.len - j) \in 0..(2 * Window - 1)
      BY <1>1, <2>1, <2>3, RingAssumption
    <3>2. (Oldest(r) + (r.len - j)) % Window
            = IF Oldest(r) + (r.len - j) < Window THEN Oldest(r) + (r.len - j)
                                                  ELSE Oldest(r) + (r.len - j) - Window
      BY <1>1, <2>1, <2>3, <3>1, ModWindow, RingAssumption
    <3> QED
      BY <1>1, <2>1, <2>3, <2>4, <3>2, RingAssumption
  <2>7. r.buf[At(r, j)] = n + 1 - j
    BY <2>1 DEF Exact, At
  <2> QED
    BY <1>1, <2>5, <2>6, <2>7
<1> QED
  BY <1>1, <1>2 DEF Recent, Numbers

-----------------------------------------------------------------------------
(* The inductive invariant                                                 *)

LEMMA InitInductive == Init => Inductive
<1> SUFFICES ASSUME Init PROVE Inductive
  OBVIOUS
<1>1. TypeOK
  BY TelemetryAssumption DEF Init, TypeOK
<1>2. RingExact /\ SnapshotCurrent
  BY DEF Init, RingExact, SnapshotCurrent
<1>3. AgentCurrent /\ InOrder
  BY TelemetryAssumption DEF Init, AgentCurrent, InOrder, Newest
<1> QED
  BY <1>1, <1>2, <1>3 DEF Inductive

LEMMA ElementIn == ASSUME NEW S, NEW s \in Seq(S), NEW i \in 1..Len(s) PROVE s[i] \in S
  OBVIOUS

\* What the invariant says of the entries of the snapshot and of the numbers.
LEMMA Entries ==
    ASSUME Inductive
    PROVE  /\ \A i \in 1..Len(latest) : latest[i].gpu \in Gpu /\ latest[i].sample \in Nat
           /\ \A g \in Gpu : ingested[g] \in Nat /\ atPoll[g] \in Nat /\ Newest(g) \in Nat
<1>1. \A i \in 1..Len(latest) : latest[i] \in [gpu : Gpu, sample : Nat]
  BY ElementIn DEF Inductive, TypeOK
<1>2. \A g \in Gpu : ingested[g] \in Nat /\ atPoll[g] \in Nat
  BY DEF Inductive, TypeOK
<1>3. \A g \in Gpu : Newest(g) \in Nat
  BY DEF Inductive, TypeOK, Newest
<1> QED
  BY <1>1, <1>2, <1>3

LEMMA StepIngest ==
    ASSUME Inductive, NEW g \in Gpu, Ingest(g)
    PROVE  Inductive'
<1>1. /\ ingested[g] \in Nat /\ ingested' = [ingested EXCEPT ![g] = ingested[g] + 1]
      /\ ingested' \in [Gpu -> Nat]
      /\ \A h \in Gpu : ingested'[h] = IF h = g THEN ingested[h] + 1 ELSE ingested[h]
      /\ UNCHANGED <<agent, todo, latest, windows, failures, atPoll>>
  BY DEF Inductive, TypeOK, Ingest
<1> DEFINE old == IF g \in DOMAIN rings THEN rings[g] ELSE NewRing
<1>2. old \in Rings /\ Exact(old, ingested[g])
  BY NewRingExact DEF Inductive, TypeOK, RingExact
<1>3. Push(old, ingested[g] + 1) \in Rings /\ Exact(Push(old, ingested[g] + 1), ingested[g] + 1)
  BY <1>1, <1>2, PushExact
<1>4. /\ DOMAIN rings' = DOMAIN rings \cup {g}
      /\ rings'[g] = Push(old, ingested[g] + 1)
      /\ \A h \in DOMAIN rings \ {g} : rings'[h] = rings[h]
  BY DEF Ingest
<1>5. TypeOK'
  BY <1>1, <1>3, <1>4 DEF Inductive, TypeOK
<1>6. RingExact'
  <2> SUFFICES ASSUME NEW h \in Gpu
               PROVE  IF h \in DOMAIN rings' THEN ingested'[h] > 0 /\ Exact(rings'[h], ingested'[h])
                      ELSE ingested'[h] = 0
    BY DEF RingExact, Exact
  <2>1. CASE h = g
    BY <1>1, <1>3, <1>4, <2>1
  <2>2. CASE h # g
    BY <1>1, <1>4, <2>2 DEF Inductive, RingExact
  <2> QED
    BY <2>1, <2>2
<1>7. \A i \in 1..Len(latest) : Between(latest[i]) => Between(latest[i])'
  BY <1>1, Entries DEF Between
<1>8. SnapshotCurrent'
  BY <1>1, <1>7 DEF Inductive, SnapshotCurrent, Read
<1>9. AgentCurrent'
  BY <1>1 DEF Inductive, AgentCurrent, Newest
<1>10. InOrder'
  <2>1. \A h \in Gpu : Newest(h)' = Newest(h) /\ Newest(h) \in Nat
    BY <1>1 DEF Inductive, TypeOK, Newest
  <2>2. \A h \in Gpu :
           /\ atPoll'[h] <= ingested'[h]
           /\ Len(windows'[h]) <= SEQ_LEN /\ Newest(h)' <= ingested'[h]
           /\ agent' = "poll" => Newest(h)' <= atPoll'[h]
    BY <1>1, <2>1, Entries DEF Inductive, InOrder
  <2>3. \A i \in 1..Len(latest) :
           Between(latest[i])' /\ latest[i].sample >= Newest(latest[i].gpu)'
    BY <1>1, <1>7, <2>1, Entries DEF Inductive, InOrder
  <2>4. (agent = "publish" => latest # << >> /\ Newest(Head(latest).gpu) = Head(latest).sample)'
    BY <1>1 DEF Inductive, InOrder, Newest
  <2> QED
    <3>1. /\ \A i, j \in 1..Len(latest) : latest[i].gpu = latest[j].gpu => i = j
          /\ agent = "sleep" => latest = << >> /\ todo = {}
      BY DEF Inductive, InOrder
    <3> QED
      BY <1>1, <2>2, <2>3, <2>4, <3>1 DEF InOrder
<1> QED
  BY <1>5, <1>6, <1>8, <1>9, <1>10 DEF Inductive

\* The agent's steps leave the store alone.
LEMMA StoreKept ==
    ASSUME Inductive, UNCHANGED store
    PROVE  /\ RingExact'
           /\ DOMAIN rings' \subseteq Gpu /\ \A g \in DOMAIN rings' : rings'[g] \in Rings
           /\ ingested' \in [Gpu -> Nat]
  BY DEF Inductive, TypeOK, RingExact, Exact, store

LEMMA StepPoll ==
    ASSUME Inductive, Poll
    PROVE  Inductive'
<1>1. /\ UNCHANGED store /\ UNCHANGED <<latest, windows, failures>>
      /\ agent' = "poll" /\ todo' = DOMAIN rings /\ atPoll' = ingested /\ latest = << >>
  BY DEF Poll, Inductive, InOrder
<1>2. TypeOK'
  BY <1>1, StoreKept DEF Inductive, TypeOK
<1>3. SnapshotCurrent'
  BY <1>1 DEF Inductive, TypeOK, RingExact, SnapshotCurrent, Read
<1>4. AgentCurrent'
  BY <1>1 DEF Inductive, AgentCurrent, Newest
<1>5. InOrder'
  BY <1>1 DEF Inductive, TypeOK, InOrder, Newest, store
<1> QED
  BY <1>1, <1>2, <1>3, <1>4, <1>5, StoreKept DEF Inductive

LEMMA StepReadLatest ==
    ASSUME Inductive, NEW g \in Gpu, ReadLatest(g)
    PROVE  Inductive'
<1> DEFINE e == [gpu |-> g, sample |-> Recent(rings[g], 1)[1]]
<1>1. /\ UNCHANGED store /\ UNCHANGED <<agent, windows, failures, atPoll>>
      /\ agent = "poll" /\ g \in todo /\ todo' = todo \ {g} /\ latest' = Append(latest, e)
  BY DEF ReadLatest
<1>2. g \in DOMAIN rings /\ ingested[g] > 0 /\ ingested[g] \in Nat /\ rings[g] \in Rings
      /\ Exact(rings[g], ingested[g])
  BY <1>1 DEF Inductive, TypeOK, RingExact, SnapshotCurrent, InOrder
<1>3. e = [gpu |-> g, sample |-> ingested[g]]
  <2>1. Recent(rings[g], 1) = Numbers(ingested[g], 1)
    BY <1>2, RecentExact, RingAssumption
  <2> QED
    BY <1>2, <2>1 DEF Numbers
<1> HIDE DEF e
<1>4. /\ latest \in Seq([gpu : Gpu, sample : Nat])
      /\ latest' \in Seq([gpu : Gpu, sample : Nat])
      /\ Len(latest') = Len(latest) + 1 /\ latest'[Len(latest')] = e
      /\ \A i \in 1..Len(latest) : latest'[i] = latest[i]
  BY <1>1, <1>2, <1>3 DEF Inductive, TypeOK
<1>5. TypeOK'
  BY <1>1, <1>4, StoreKept DEF Inductive, TypeOK
<1>6. /\ Between(e) /\ e.sample >= Newest(g) /\ e.gpu = g
      /\ \A i \in 1..Len(latest) : Between(latest[i]) /\ latest[i].gpu # g
      /\ todo \cup Read = {h \in Gpu : atPoll[h] > 0}
  <2>1. Between(e) /\ e.sample >= Newest(g) /\ e.gpu = g
    BY <1>1, <1>2, <1>3, Entries DEF Inductive, InOrder, Between
  <2> QED
    BY <1>1, <2>1 DEF Inductive, SnapshotCurrent
<1>7. (\A i \in 1..Len(latest) : Between(latest[i]) /\ latest[i].gpu \notin todo)'
  <2> SUFFICES ASSUME NEW i \in 1..Len(latest')
               PROVE  (Between(latest[i]) /\ latest[i].gpu \notin todo)'
    OBVIOUS
  <2>1. CASE i = Len(latest')
    BY <1>1, <1>4, <1>6, <2>1 DEF Between, store
  <2>2. CASE i # Len(latest')
    <3>1. i \in 1..Len(latest) /\ latest'[i] = latest[i]
      BY <1>4, <2>2
    <3>2. Between(latest[i]) /\ latest[i].gpu \notin todo
      BY <1>1, <3>1 DEF Inductive, SnapshotCurrent
    <3> QED
      BY <1>1, <3>1, <3>2 DEF Between, store
  <2> QED
    BY <2>1, <2>2
<1>8. \A i, j \in 1..Len(latest') : latest'[i].gpu = latest'[j].gpu => i = j
  BY <1>1, <1>4, <1>6 DEF Inductive, SnapshotCurrent
<1>9. SnapshotCurrent'
  <2>1. Read' = Read \cup {g}
    <3>1. Read' \subseteq Read \cup {g}
      BY <1>4, <1>6 DEF Read
    <3>2. g \in Read' /\ Read \subseteq Read'
      BY <1>4, <1>6 DEF Read
    <3> QED
      BY <3>1, <3>2
  <2>2. (todo \cup Read)' = {h \in Gpu : atPoll'[h] > 0}
    BY <1>1, <1>6, <2>1
  <2> QED
    BY <1>7, <1>8, <2>2 DEF SnapshotCurrent
<1>10. AgentCurrent'
  BY <1>1 DEF Inductive, AgentCurrent, Newest
<1>11. InOrder'
  <2>1. \A h \in Gpu : Newest(h)' = Newest(h)
    BY <1>1 DEF Newest
  <2>2. (\A i \in 1..Len(latest) : latest[i].sample >= Newest(latest[i].gpu))'
    <3>1. \A i \in 1..Len(latest) : latest[i].sample >= Newest(latest[i].gpu)
      BY DEF Inductive, InOrder
    <3>2. \A i \in 1..Len(latest') : latest'[i].sample >= Newest(latest'[i].gpu)
      <4> SUFFICES ASSUME NEW i \in 1..Len(latest')
                   PROVE  latest'[i].sample >= Newest(latest'[i].gpu)
        OBVIOUS
      <4>1. CASE i = Len(latest')
        BY <1>4, <1>6, <4>1
      <4>2. CASE i # Len(latest')
        <5>1. i \in 1..Len(latest) /\ latest'[i] = latest[i]
          BY <1>4, <4>2
        <5> QED
          BY <3>1, <5>1
      <4> QED
        BY <4>1, <4>2
    <3> QED
      BY <1>1, <3>2 DEF Newest
  <2>4. \A h \in Gpu :
           /\ atPoll'[h] <= ingested'[h]
           /\ Len(windows'[h]) <= SEQ_LEN /\ Newest(h)' <= ingested'[h]
           /\ agent' = "poll" => Newest(h)' <= atPoll'[h]
    BY <1>1, <2>1 DEF Inductive, InOrder, store
  <2> QED
    BY <1>1, <1>7, <1>8, <2>2, <2>4 DEF InOrder
<1> QED
  BY <1>1, <1>5, <1>9, <1>10, <1>11, StoreKept DEF Inductive

LEMMA StepSnapshot ==
    ASSUME Inductive, Snapshot
    PROVE  Inductive'
<1>1. /\ UNCHANGED store /\ UNCHANGED <<todo, latest, windows, failures, atPoll>>
      /\ agent' = "append"
  BY DEF Snapshot
<1>2. TypeOK'
  BY <1>1, StoreKept DEF Inductive, TypeOK
<1>3. SnapshotCurrent' /\ AgentCurrent'
  BY <1>1 DEF Inductive, SnapshotCurrent, AgentCurrent, Newest
<1>4. InOrder'
  BY <1>1 DEF Inductive, InOrder, Newest, Between, store
<1> QED
  BY <1>1, <1>2, <1>3, <1>4, StoreKept DEF Inductive

Ordered(w) == \A i, j \in 1..Len(w) : i <= j => w[i] <= w[j]

LEMMA BoundedAppend ==
    ASSUME NEW w \in Seq(Nat), Len(w) <= SEQ_LEN, NEW x \in Nat
    PROVE  LET v == Bounded(Append(w, x))
           IN  /\ v \in Seq(Nat) /\ v # << >> /\ Len(v) <= SEQ_LEN /\ v[Len(v)] = x
               /\ Ordered(w) /\ (w = << >> \/ w[Len(w)] <= x) => Ordered(v)
<1> DEFINE a == Append(w, x)
           v == Bounded(a)
<1>1. /\ a \in Seq(Nat) /\ Len(a) = Len(w) + 1 /\ a[Len(a)] = x
      /\ \A i \in 1..Len(w) : a[i] = w[i] /\ w[i] \in Nat
  BY ElementIn
<1>2. ASSUME Ordered(w), w = << >> \/ w[Len(w)] <= x PROVE Ordered(a)
  <2> SUFFICES ASSUME NEW i \in 1..Len(a), NEW j \in 1..Len(a), i <= j PROVE a[i] <= a[j]
    BY DEF Ordered
  <2>1. CASE j \in 1..Len(w)
    BY <1>1, <1>2, <2>1 DEF Ordered
  <2>2. CASE j = Len(a) /\ i \in 1..Len(w)
    <3>1. w[i] <= w[Len(w)] /\ w[Len(w)] <= x /\ w[Len(w)] \in Nat
      BY <1>1, <1>2, <2>2 DEF Ordered
    <3> QED
      BY <1>1, <2>2, <3>1
  <2>3. CASE i = j
    BY <1>1, <2>3
  <2> QED
    BY <1>1, <2>1, <2>2, <2>3
<1> HIDE DEF a
<1>3. CASE Len(a) > SEQ_LEN
  <2>1. v = Tail(a) /\ a # << >>
    BY <1>3, <1>1 DEF Bounded
  <2>2. /\ v \in Seq(Nat) /\ Len(v) = Len(a) - 1
        /\ \A i \in 1..Len(v) : v[i] = a[i + 1]
    BY <1>1, <2>1
  <2>3. Len(v) = SEQ_LEN /\ Len(v) > 0 /\ v[Len(v)] = x
    BY <1>1, <1>3, <2>2, TelemetryAssumption
  <2>4. Ordered(a) => Ordered(v)
    <3>1. \A i \in 1..Len(v) : i + 1 \in 1..Len(a)
      BY <1>1, <2>2
    <3>2. \A i, j \in 1..Len(v) : i <= j => i + 1 <= j + 1
      BY <1>1, <2>2
    <3> QED
      BY <2>2, <3>1, <3>2 DEF Ordered
  <2> QED
    BY <1>2, <2>2, <2>3, <2>4 DEF a
<1>4. CASE ~(Len(a) > SEQ_LEN)
  <2>1. v = a
    BY <1>4 DEF Bounded
  <2> QED
    BY <1>1, <1>2, <1>4, <2>1, TelemetryAssumption DEF a
<1> QED
  BY <1>3, <1>4

\* What is left of the snapshot is entries of it, in their order.
LEMMA TailOfLatest ==
    ASSUME Inductive, latest # << >>
    PROVE  /\ Tail(latest) \in Seq([gpu : Gpu, sample : Nat])
           /\ Len(Tail(latest)) = Len(latest) - 1 /\ Head(latest) = latest[1]
           /\ 1 \in 1..Len(latest)
           /\ \A i \in 1..Len(Tail(latest)) :
                  i + 1 \in 1..Len(latest) /\ Tail(latest)[i] = latest[i + 1]
<1> DEFINE E == [gpu : Gpu, sample : Nat]
<1>1. latest \in Seq(E)
  BY DEF Inductive, TypeOK
<1> HIDE DEF E
<1>2. /\ Tail(latest) \in Seq(E)
      /\ Len(Tail(latest)) = Len(latest) - 1 /\ Head(latest) = latest[1] /\ Len(latest) \in Nat \ {0}
      /\ \A i \in 1..Len(Tail(latest)) : Tail(latest)[i] = latest[i + 1]
  BY <1>1
<1> QED
  BY <1>2 DEF E

\* Taking the first entry away leaves what InOrder says of the others.
LEMMA StepTail ==
    ASSUME Inductive, latest # << >>, latest' = Tail(latest),
           UNCHANGED store, UNCHANGED atPoll,
           \A g \in Gpu : g # Head(latest).gpu => Newest(g)' = Newest(g)
    PROVE  (/\ \A i, j \in 1..Len(latest) : latest[i].gpu = latest[j].gpu => i = j
            /\ \A i \in 1..Len(latest) :
                   Between(latest[i]) /\ latest[i].sample >= Newest(latest[i].gpu))'
<1>1. \A i, j \in 1..Len(latest') : latest'[i].gpu = latest'[j].gpu => i = j
  <2> SUFFICES ASSUME NEW i \in 1..Len(latest'), NEW j \in 1..Len(latest'),
                      latest'[i].gpu = latest'[j].gpu
               PROVE  i = j
    OBVIOUS
  <2>1. /\ i + 1 \in 1..Len(latest) /\ j + 1 \in 1..Len(latest)
        /\ latest[i + 1].gpu = latest[j + 1].gpu
    BY TailOfLatest
  <2>2. i + 1 = j + 1
    BY <2>1 DEF Inductive, InOrder
  <2> QED
    BY <2>2
<1>2. ASSUME NEW i \in 1..Len(latest')
      PROVE  (Between(latest[i]) /\ latest[i].sample >= Newest(latest[i].gpu))'
  <2>1. i + 1 \in 1..Len(latest) /\ latest'[i] = latest[i + 1] /\ i + 1 # 1 /\ 1 \in 1..Len(latest)
    BY TailOfLatest
  <2>2. latest[i + 1].gpu \in Gpu /\ latest[i + 1].gpu # Head(latest).gpu
    BY <2>1, Entries, TailOfLatest DEF Inductive, InOrder
  <2>3. Between(latest[i + 1]) /\ latest[i + 1].sample >= Newest(latest[i + 1].gpu)
    BY <2>1 DEF Inductive, InOrder
  <2>4. (Newest(latest[i].gpu))' = Newest(latest[i + 1].gpu)
    BY <2>1, <2>2 DEF Newest
  <2> QED
    BY <2>1, <2>3, <2>4 DEF Between, store
<1> QED
  BY <1>1, <1>2

LEMMA StepAppendSample ==
    ASSUME Inductive, AppendSample
    PROVE  Inductive'
<1>0. latest # << >> /\ 1 \in 1..Len(latest) /\ Head(latest) = latest[1]
  BY TailOfLatest DEF AppendSample
<1> PICK g \in Gpu, x \in Nat : g = Head(latest).gpu /\ x = Head(latest).sample
  BY <1>0, Entries
<1> DEFINE v == Bounded(Append(windows[g], x))
<1>1. /\ UNCHANGED store /\ UNCHANGED <<todo, failures, atPoll>>
      /\ agent = "append" /\ windows' = [windows EXCEPT ![g] = v]
      /\ \/ latest' = Tail(latest) /\ agent' = "append"
         \/ Len(windows'[g]) >= SEQ_LEN /\ agent' = "publish" /\ latest' = latest
  BY DEF AppendSample
<1>2. /\ atPoll[g] <= x /\ x <= ingested[g] /\ x >= Newest(g)
      /\ windows[g] \in Seq(Nat) /\ Len(windows[g]) <= SEQ_LEN
  BY <1>0 DEF Inductive, TypeOK, InOrder, Between
<1>3. Ordered(windows[g]) /\ (windows[g] = << >> \/ windows[g][Len(windows[g])] <= x)
  <2>1. Ordered(windows[g])
    BY <1>2 DEF Inductive, AgentCurrent, Ordered
  <2>2. windows[g] # << >> => windows[g][Len(windows[g])] <= x
    <3>1. windows[g] # << >> => Newest(g) = windows[g][Len(windows[g])]
      BY DEF Newest
    <3> QED
      BY <1>2, <3>1, Entries
  <2> QED
    BY <2>1, <2>2
<1>4. v \in Seq(Nat) /\ v # << >> /\ Len(v) <= SEQ_LEN /\ v[Len(v)] = x /\ Ordered(v)
  BY <1>2, <1>3, BoundedAppend
<1> HIDE DEF v
<1>5. /\ windows' \in [Gpu -> Seq(Nat)] /\ windows'[g] = v
      /\ \A h \in Gpu \ {g} : windows'[h] = windows[h]
  BY <1>1, <1>2, <1>4 DEF Inductive, TypeOK
<1>6. Newest(g)' = x /\ \A h \in Gpu : h # g => Newest(h)' = Newest(h)
  <2>1. windows'[g] = v /\ v # << >> /\ v[Len(v)] = x
    BY <1>4, <1>5
  <2>2. (IF windows'[g] = << >> THEN 0 ELSE windows'[g][Len(windows'[g])]) = x
    BY <2>1
  <2> QED
    BY <1>5, <2>2 DEF Newest
<1>7. latest' \in Seq([gpu : Gpu, sample : Nat])
  BY <1>0, <1>1, TailOfLatest DEF Inductive, TypeOK
<1>8. TypeOK'
  BY <1>1, <1>5, <1>7, StoreKept DEF Inductive, TypeOK
<1>9. SnapshotCurrent'
  BY <1>1 DEF SnapshotCurrent
<1>10. agent' = "publish" => latest' = latest /\ Newest(g)' = x /\ Len(windows'[g]) = SEQ_LEN
  BY <1>1, <1>4, <1>5, <1>6, TelemetryAssumption
<1>11. AgentCurrent'
  <2>1. \A h \in Gpu : Ordered(windows'[h])
    BY <1>4, <1>5 DEF Inductive, AgentCurrent, Ordered
  <2>2. (agent = "publish" => LET h == Head(latest).gpu
                              IN  Len(windows[h]) = SEQ_LEN /\ atPoll[h] <= Newest(h))'
    <3> SUFFICES ASSUME agent' = "publish"
                 PROVE  (Len(windows[Head(latest).gpu]) = SEQ_LEN
                         /\ atPoll[Head(latest).gpu] <= Newest(Head(latest).gpu))'
      OBVIOUS
    <3>1. Head(latest') = Head(latest)
      BY <1>10
    <3>2. (Newest(Head(latest).gpu))' = Newest(g)'
      BY <3>1 DEF Newest
    <3> QED
      BY <1>1, <1>2, <1>10, <3>1, <3>2
  <2> QED
    BY <2>1, <2>2 DEF AgentCurrent, Ordered
<1>12. InOrder'
  <2>1. \A h \in Gpu :
           /\ atPoll'[h] <= ingested'[h]
           /\ Len(windows'[h]) <= SEQ_LEN /\ Newest(h)' <= ingested'[h]
           /\ agent' = "poll" => Newest(h)' <= atPoll'[h]
    BY <1>1, <1>2, <1>4, <1>5, <1>6 DEF Inductive, InOrder, store
  <2>2. (/\ \A i, j \in 1..Len(latest) : latest[i].gpu = latest[j].gpu => i = j
         /\ \A i \in 1..Len(latest) :
                Between(latest[i]) /\ latest[i].sample >= Newest(latest[i].gpu))'
    <3>1. CASE latest' = Tail(latest)
      BY <1>0, <1>1, <1>6, <3>1, StepTail
    <3>2. CASE latest' = latest
      <4>1. ASSUME NEW i \in 1..Len(latest)
            PROVE  (latest[i].sample >= Newest(latest[i].gpu))'
        <5>1. latest[i].sample >= Newest(latest[i].gpu) /\ latest[i].gpu \in Gpu
          BY Entries DEF Inductive, InOrder
        <5>2. latest[i].gpu = g => i = 1
          BY <1>0 DEF Inductive, InOrder
        <5>3. CASE latest[i].gpu = g
          <6>1. (Newest(latest[i].gpu))' = Newest(g)'
            BY <3>2, <5>3 DEF Newest
          <6> QED
            BY <1>0, <1>6, <3>2, <5>2, <5>3, <6>1
        <5>4. CASE latest[i].gpu # g
          <6>1. (Newest(latest[i].gpu))' = Newest(latest[i].gpu)
            BY <1>5, <3>2, <5>1, <5>4 DEF Newest
          <6> QED
            BY <3>2, <5>1, <6>1
        <5> QED
          BY <5>3, <5>4
      <4>2. /\ \A i, j \in 1..Len(latest) : latest[i].gpu = latest[j].gpu => i = j
            /\ \A i \in 1..Len(latest) : Between(latest[i])
        BY DEF Inductive, InOrder
      <4> QED
        BY <1>1, <3>2, <4>1, <4>2 DEF Between, store
    <3> QED
      BY <1>1, <3>1, <3>2
  <2>3. (agent = "publish" => latest # << >> /\ Newest(Head(latest).gpu) = Head(latest).sample)'
    <3> SUFFICES ASSUME agent' = "publish"
                 PROVE  (latest # << >> /\ Newest(Head(latest).gpu) = Head(latest).sample)'
      OBVIOUS
    <3>1. (Newest(Head(latest).gpu))' = Newest(g)'
      BY <1>10 DEF Newest
    <3> QED
      BY <1>0, <1>10, <3>1
  <2>4. agent' # "sleep"
    BY <1>1
  <2> QED
    BY <2>1, <2>2, <2>3, <2>4 DEF InOrder
<1> QED
  BY <1>1, <1>8, <1>9, <1>11, <1>12, StoreKept DEF Inductive

LEMMA StepPublished ==
    ASSUME Inductive, Published
    PROVE  Inductive'
<1>1. /\ UNCHANGED store /\ UNCHANGED <<todo, windows, failures, atPoll>>
      /\ agent = "publish" /\ agent' = "append" /\ latest # << >> /\ latest' = Tail(latest)
  BY DEF Published, Inductive, InOrder
<1>2. TypeOK'
  BY <1>1, TailOfLatest, StoreKept DEF Inductive, TypeOK
<1>3. SnapshotCurrent' /\ AgentCurrent'
  BY <1>1 DEF Inductive, SnapshotCurrent, AgentCurrent
<1>4. InOrder'
  <2>1. \A g : Newest(g)' = Newest(g)
    BY <1>1 DEF Newest
  <2>2. \A g \in Gpu :
           /\ atPoll'[g] <= ingested'[g]
           /\ Len(windows'[g]) <= SEQ_LEN /\ Newest(g)' <= ingested'[g]
           /\ agent' = "poll" => Newest(g)' <= atPoll'[g]
    BY <1>1, <2>1 DEF Inductive, InOrder, store
  <2> QED
    BY <1>1, <2>1, <2>2, StepTail DEF InOrder
<1> QED
  BY <1>1, <1>2, <1>3, <1>4, StoreKept DEF Inductive

\* A poll that is over, or has failed, leaves the windows as they are.
LEMMA StepOver ==
    ASSUME Inductive, PollDone \/ RpcFails
    PROVE  Inductive'
<1>1. /\ UNCHANGED store /\ UNCHANGED windows /\ failures' \in 0..MaxFailures
      /\ agent' = "sleep" /\ latest' = << >> /\ todo' = {} /\ atPoll' = [g \in Gpu |-> 0]
  BY TelemetryAssumption DEF PollDone, RpcFails, Forget, Inductive, TypeOK
<1>2. TypeOK'
  BY <1>1, StoreKept DEF Inductive, TypeOK
<1>3. SnapshotCurrent' /\ AgentCurrent'
  BY <1>1 DEF Inductive, SnapshotCurrent, AgentCurrent
<1>4. InOrder'
  <2>1. \A g \in Gpu : atPoll'[g] = 0 /\ ingested'[g] \in Nat /\ Newest(g)' = Newest(g)
    BY <1>1, Entries DEF Newest, store
  <2> QED
    BY <1>1, <2>1 DEF Inductive, InOrder, store
<1> QED
  BY <1>1, <1>2, <1>3, <1>4, StoreKept DEF Inductive

\* Rings, snapshots, windows and the agent agree with what was ingested, at any
\* point of a poll.
THEOREM TelemetryInductive == Spec => []Inductive
<1>1. Inductive /\ [Next]_vars => Inductive'
  <2> SUFFICES ASSUME Inductive, [Next]_vars PROVE Inductive'
    OBVIOUS
  <2>1. CASE Next
    BY <2>1, StepIngest, StepPoll, StepReadLatest, StepSnapshot, StepAppendSample, StepPublished,
       StepOver DEF Next, Agent
  <2>2. CASE UNCHANGED vars
    <3>1. /\ UNCHANGED store
          /\ UNCHANGED <<ingested, agent, todo, latest, windows, failures, atPoll>>
      BY <2>2 DEF vars, store
    <3>2. TypeOK'
      BY <3>1, StoreKept DEF Inductive, TypeOK
    <3>3. SnapshotCurrent' /\ AgentCurrent'
      BY <3>1 DEF Inductive, SnapshotCurrent, Read, Between, AgentCurrent, Newest
    <3>4. InOrder'
      BY <3>1 DEF Inductive, InOrder, Between, Newest
    <3> QED
      BY <3>1, <3>2, <3>3, <3>4, StoreKept DEF Inductive
  <2> QED
    BY <2>1, <2>2
<1> QED
  BY <1>1, InitInductive, PTL DEF Spec

\* A snapshot is current although samples come while it is put together, for
\* any GPUs and any sizes of rings.
THEOREM TelemetryCurrent == Spec => []SnapshotCurrent
<1>1. Inductive => SnapshotCurrent
  BY DEF Inductive
<1> QED
  BY <1>1, TelemetryInductive, PTL

\* What the agent makes of snapshots is in order and current although polls
\* fail half way, for any GPUs and any sizes of rings and windows.
THEOREM TelemetryAgentCurrent == Spec => []AgentCurrent
<1>1. Inductive => AgentCurrent
  BY DEF Inductive
<1> QED
  BY <1>1, TelemetryInductive, PTL

-----------------------------------------------------------------------------
(* The sliding window                                                      *)

LEMMA KeptNumbers ==
    ASSUME Inductive
    PROVE  Kept = [g \in Gpu |-> Numbers(ingested[g], Window)]
<1> SUFFICES ASSUME NEW g \in Gpu PROVE Kept[g] = Numbers(ingested[g], Window)
  BY DEF Kept
<1>1. CASE g \in DOMAIN rings
  <2>1. rings[g] \in Rings /\ ingested[g] \in Nat /\ Exact(rings[g], ingested[g])
    BY <1>1 DEF Inductive, TypeOK, RingExact
  <2>2. Recent(rings[g], Window) = Numbers(ingested[g], Window)
    BY <2>1, RecentExact, RingAssumption
  <2> QED
    BY <1>1, <2>2 DEF Kept
<1>2. CASE g \notin DOMAIN rings
  <2>1. ingested[g] = 0
    BY <1>2 DEF Inductive, RingExact
  <2>2. Numbers(0, Window) = << >>
    BY RingAssumption DEF Numbers
  <2> QED
    BY <1>2, <2>1, <2>2 DEF Kept
<1> QED
  BY <1>1, <1>2

LEMMA NumbersSeq ==
    ASSUME NEW n \in Nat, NEW k \in Nat
    PROVE  LET t == IF k < n THEN k ELSE n
           IN  /\ Numbers(n, k) \in Seq(Nat) /\ Len(Numbers(n, k)) = t
               /\ \A i \in 1..t : Numbers(n, k)[i] = n - t + i
<1> DEFINE t == IF k < n THEN k ELSE n
<1>1. t \in Nat /\ t <= n
  OBVIOUS
<1>2. Numbers(n, k) = [i \in 1..t |-> n - t + i]
  BY DEF Numbers
<1> HIDE DEF t
<1>3. Numbers(n, k) \in [1..t -> Nat]
  BY <1>1, <1>2
<1>4. Numbers(n, k) \in Seq(Nat) /\ Len(Numbers(n, k)) = t
  BY <1>1, <1>3
<1> QED
  BY <1>1, <1>2, <1>4 DEF t

\* The window after one more sample.
LEMMA NumbersNext ==
    ASSUME NEW n \in Nat
    PROVE  SW!Last(Append(Numbers(n, Window), n + 1), Window) = Numbers(n + 1, Window)
<1> DEFINE k == IF Window < n THEN Window ELSE n
           m == IF Window < n + 1 THEN Window ELSE n + 1
           old == Numbers(n, Window)
           new == Numbers(n + 1, Window)
           s == Append(old, n + 1)
<1>1. /\ Window \in Nat /\ Window > 0 /\ k \in Nat /\ m \in Nat
      /\ n < Window => k = n /\ m = n + 1
      /\ ~(n < Window) => k = Window /\ m = Window
  BY RingAssumption
<1>2. /\ old \in Seq(Nat) /\ Len(old) = k /\ \A i \in 1..k : old[i] = n - k + i
      /\ new \in Seq(Nat) /\ Len(new) = m /\ \A i \in 1..m : new[i] = n + 1 - m + i
  <2>1. old \in Seq(Nat) /\ Len(old) = k /\ \A i \in 1..k : old[i] = n - k + i
    BY <1>1, NumbersSeq
  <2>2. PICK p \in Nat : p = n + 1
    OBVIOUS
  <2>3. new \in Seq(Nat) /\ Len(new) = m /\ \A i \in 1..m : new[i] = p - m + i
    <3>1. new = Numbers(p, Window) /\ m = IF Window < p THEN Window ELSE p
      BY <2>2
    <3> DEFINE u == IF Window < p THEN Window ELSE p
    <3>2. Numbers(p, Window) \in Seq(Nat) /\ Len(Numbers(p, Window)) = u
          /\ \A i \in 1..u : Numbers(p, Window)[i] = p - u + i
      BY <1>1, NumbersSeq
    <3> HIDE DEF new, m, u
    <3>3. m = u
      BY <3>1 DEF u
    <3> QED
      BY ONLY <3>1, <3>2, <3>3
  <2> QED
    BY <2>1, <2>2, <2>3
<1> HIDE DEF old, new, k, m
<1>3. s \in Seq(Nat) /\ Len(s) = k + 1 /\ \A i \in 1..(k + 1) : s[i] = n - k + i
  <2>1. s \in Seq(Nat) /\ Len(s) = k + 1 /\ s[k + 1] = n + 1 /\ \A i \in 1..k : s[i] = old[i]
    <3>1. n + 1 \in Nat
      OBVIOUS
    <3> QED
      BY <1>2, <3>1, AppendProperties
  <2>2. ASSUME NEW i \in 1..(k + 1) PROVE s[i] = n - k + i
    <3>1. CASE i = k + 1
      BY <1>1, <2>1, <3>1
    <3>2. CASE i # k + 1
      <4>1. i \in 1..k
        BY <1>1, <3>2
      <4> QED
        BY <1>2, <2>1, <4>1
    <3> QED
      BY <3>1, <3>2
  <2> QED
    BY <2>1, <2>2
<1> HIDE DEF s
<1>4. CASE n < Window
  <2>1. k = n /\ m = n + 1 /\ Len(s) <= Window
    BY <1>1, <1>3, <1>4
  <2>2. SW!Last(s, Window) = s
    BY <2>1 DEF SW!Last
  <2>3. s = new
    BY <1>2, <1>3, <2>1, SeqEqual
  <2> QED
    BY <2>2, <2>3 DEF s, old, new
<1>5. CASE ~(n < Window)
  <2>1. k = Window /\ m = Window /\ Len(s) = Window + 1
    BY <1>1, <1>3, <1>5
  <2> DEFINE last == SubSeq(s, 2, Window + 1)
  <2>2. SW!Last(s, Window) = last
    BY <1>1, <2>1 DEF SW!Last
  <2>3. last \in Seq(Nat) /\ Len(last) = Window /\ \A i \in 1..Window : last[i] = s[i + 1]
    BY <1>1, <1>3, <2>1
  <2> HIDE DEF last
  <2>4. \A i \in 1..Window : last[i] = new[i]
    <3> SUFFICES ASSUME NEW i \in 1..Window PROVE last[i] = new[i]
      OBVIOUS
    <3>1. i + 1 \in 1..(k + 1) /\ i \in 1..m
      BY <1>1, <2>1
    <3>2. s[i + 1] = n - k + (i + 1) /\ new[i] = n + 1 - m + i /\ last[i] = s[i + 1]
      BY <1>2, <1>3, <2>3, <3>1
    <3> QED
      BY <1>1, <2>1, <3>2
  <2>5. last = new
    BY <1>2, <2>1, <2>3, <2>4, SeqEqual
  <2> QED
    BY <2>2, <2>5 DEF s, old, new
<1> QED
  BY <1>4, <1>5

LEMMA KeptPrimed == Inductive' => Kept' = [g \in Gpu |-> Numbers(ingested'[g], Window)]
<1>1. (Inductive => Kept = [g \in Gpu |-> Numbers(ingested[g], Window)])'
  BY KeptNumbers, PTL
<1> QED
  BY <1>1

\* However often the rings have wrapped, the store keeps of each GPU the last
\* samples, in order: it implements the sliding window.
THEOREM TelemetryImplementsWindow == Spec => ImplementsWindow
<1>1. Init => SW!Init
  BY DEF Init, SW!Init, Kept
<1>2. Inductive /\ Inductive' /\ [Next]_vars => [SW!Next]_Kept
  <2> SUFFICES ASSUME Inductive, Inductive', [Next]_vars PROVE [SW!Next]_Kept
    OBVIOUS
  <2>1. /\ Kept = [g \in Gpu |-> Numbers(ingested[g], Window)]
        /\ Kept' = [g \in Gpu |-> Numbers(ingested'[g], Window)]
    BY KeptNumbers, KeptPrimed
  <2>2. ASSUME NEW g \in Gpu, Ingest(g) PROVE SW!Next
    <3>1. /\ ingested[g] \in Nat /\ ingested[g] < MaxSamples[g] /\ MaxSamples[g] \in Nat
          /\ ingested' = [ingested EXCEPT ![g] = ingested[g] + 1] /\ ingested \in [Gpu -> Nat]
      BY <2>2, TelemetryAssumption DEF Ingest, Inductive, TypeOK
    <3>2. ingested[g] + 1 \in Number
      BY <3>1 DEF Number
    <3>3. Kept' = [Kept EXCEPT ![g] = SW!Last(Append(Kept[g], ingested[g] + 1), Window)]
      BY <2>1, <3>1, NumbersNext
    <3> QED
      BY <3>2, <3>3 DEF SW!Next, SW!Ingest
  <2>3. CASE UNCHANGED ingested
    BY <2>1, <2>3
  <2>4. Agent \/ RpcFails \/ UNCHANGED vars => UNCHANGED ingested
    BY DEF Agent, Poll, ReadLatest, Snapshot, AppendSample, Published, PollDone, RpcFails, vars, store
  <2> QED
    BY <2>2, <2>3, <2>4 DEF Next
<1> QED
  BY <1>1, <1>2, TelemetryInductive, PTL DEF Spec, ImplementsWindow, SW!Spec
=============================================================================
