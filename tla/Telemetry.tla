----------------------------- MODULE Telemetry ------------------------------
(***************************************************************************)
(* The way of a sample: it is pushed into the ring of its GPU, read from   *)
(* there into a cluster snapshot, and appended to a window of the          *)
(* telemetry agent, which may publish a prediction.  The store's lock is   *)
(* held for one push or one read only: samples go on coming while a        *)
(* snapshot is put together.                                               *)
(*                                                                         *)
(* What the predictor finds is left open.  Left out: the values measured,  *)
(* the topology in the snapshot, and what becomes of a published event,    *)
(* which is EventBus's.                                                    *)
(***************************************************************************)
EXTENDS MetricRing

CONSTANTS
    Gpu,
    SEQ_LEN,       \* the samples the predictor needs
    MaxSamples,    \* bound: the samples of each GPU
    MaxFailures    \* bound: the RPCs of the agent that fail

ASSUME TelemetryAssumption ==
    SEQ_LEN \in Nat \ {0} /\ MaxSamples \in [Gpu -> Nat] /\ MaxFailures \in Nat

VARIABLES
    rings,     \* the ring of each GPU that has sent a sample
    agent,     \* "sleep", "poll" while it waits for a snapshot, then "append", "publish"
    todo,      \* the GPUs still to be read for the snapshot
    latest,    \* what is in the snapshot, and then what the agent has not done with
    windows,   \* the agent's window of each GPU
    failures,
    ingested,  \* history: how many samples of each GPU have come
    atPoll     \* history: how many there were when the snapshot was begun

store == <<rings, ingested>>
vars  == <<store, agent, todo, latest, windows, failures, atPoll>>

TypeOK ==
    /\ DOMAIN rings \subseteq Gpu /\ \A g \in DOMAIN rings : rings[g] \in Rings
    /\ agent \in {"sleep", "poll", "append", "publish"}
    /\ todo \subseteq Gpu
    /\ latest \in Seq([gpu : Gpu, sample : Nat])
    /\ windows \in [Gpu -> Seq(Nat)]
    /\ failures \in 0..MaxFailures
    /\ ingested \in [Gpu -> Nat] /\ atPoll \in [Gpu -> Nat]

Init ==
    /\ rings = [g \in {} |-> NewRing]
    /\ agent = "sleep"
    /\ todo = {}
    /\ latest = << >>
    /\ windows = [g \in Gpu |-> << >>]
    /\ failures = 0
    /\ ingested = [g \in Gpu |-> 0]
    /\ atPoll = [g \in Gpu |-> 0]

\* A sample arrives, from a client's stream or from the simulator's task; the
\* first of a GPU makes its ring.
Ingest(g) ==
    /\ ingested[g] < MaxSamples[g]
    /\ ingested' = [ingested EXCEPT ![g] = @ + 1]
    /\ rings' = [x \in DOMAIN rings \cup {g} |->
                    IF x = g
                    THEN Push(IF g \in DOMAIN rings THEN rings[g] ELSE NewRing, ingested[g] + 1)
                    ELSE rings[x]]
    /\ UNCHANGED <<agent, todo, latest, windows, failures, atPoll>>

-----------------------------------------------------------------------------
(* GetClusterState, for the agent                                          *)

\* gpu_ids
Poll ==
    /\ agent = "sleep"
    /\ agent' = "poll"
    /\ todo' = DOMAIN rings
    /\ atPoll' = ingested
    /\ UNCHANGED <<store, latest, windows, failures>>

\* window(id, 1), in the order of a hash map.
ReadLatest(g) ==
    /\ agent = "poll" /\ g \in todo
    /\ todo' = todo \ {g}
    /\ latest' = Append(latest, [gpu |-> g, sample |-> Recent(rings[g], 1)[1]])
    /\ UNCHANGED <<store, agent, windows, failures, atPoll>>

Snapshot ==
    /\ agent = "poll" /\ todo = {}
    /\ agent' = "append"
    /\ UNCHANGED <<store, todo, latest, windows, failures, atPoll>>

-----------------------------------------------------------------------------
(* The agent                                                               *)

\* A deque that drops what is beyond its length at the other end.
Bounded(s) == IF Len(s) > SEQ_LEN THEN Tail(s) ELSE s

\* One sample of the snapshot; a full window may call for a prediction.
AppendSample ==
    /\ agent = "append" /\ latest # << >>
    /\ LET g == Head(latest).gpu
       IN  /\ windows' = [windows EXCEPT ![g] = Bounded(Append(@, Head(latest).sample))]
           /\ \/ latest' = Tail(latest) /\ UNCHANGED agent
              \/ Len(windows'[g]) >= SEQ_LEN /\ agent' = "publish" /\ UNCHANGED latest
    /\ UNCHANGED <<store, todo, failures, atPoll>>

Published ==
    /\ agent = "publish"
    /\ agent' = "append"
    /\ latest' = Tail(latest)
    /\ UNCHANGED <<store, todo, windows, failures, atPoll>>

Forget == todo' = {} /\ atPoll' = [g \in Gpu |-> 0]

PollDone ==
    /\ agent = "append" /\ latest = << >>
    /\ agent' = "sleep"
    /\ Forget
    /\ UNCHANGED <<store, latest, windows, failures>>

\* Mutant: an error ends the loop.
RpcFailsForGood ==
    /\ agent \in {"poll", "publish"}
    /\ agent' = "ended"
    /\ failures < MaxFailures
    /\ failures' = failures + 1
    /\ Forget /\ latest' = << >>
    /\ UNCHANGED <<store, windows>>

\* Mutant: the rest of the snapshot is looked at after the next poll.
RpcFailsKeepsRest ==
    /\ agent \in {"poll", "publish"}
    /\ agent' = "sleep"
    /\ failures < MaxFailures
    /\ failures' = failures + 1
    /\ Forget
    /\ UNCHANGED <<store, latest, windows>>

\* An error of either RPC ends the poll: the rest of the snapshot is not
\* looked at, and the next poll comes after the sleep.
RpcFails ==
    /\ agent \in {"poll", "publish"}
    /\ agent' = "sleep"
    /\ failures < MaxFailures
    /\ failures' = failures + 1
    /\ Forget /\ latest' = << >>
    /\ UNCHANGED <<store, windows>>

-----------------------------------------------------------------------------
Agent ==
    \/ Poll \/ Snapshot \/ AppendSample \/ Published \/ PollDone
    \/ \E g \in Gpu : ReadLatest(g)

Next == Agent \/ RpcFails \/ \E g \in Gpu : Ingest(g)

Spec == Init /\ [][Next]_vars

\* The agent's loop goes on, and the server answers; samples come if they do.
FairSpec == Spec /\ WF_vars(Agent)

-----------------------------------------------------------------------------
\* A ring into which n samples were pushed: the newest are there, the last of
\* them before head.
Exact(r, n) ==
    /\ r.len = IF n < Window THEN n ELSE Window
    /\ \A i \in 1..r.len : r.buf[(r.head + Window - i) % Window] = n + 1 - i

RingExact ==
    \A g \in Gpu : IF g \in DOMAIN rings THEN ingested[g] > 0 /\ Exact(rings[g], ingested[g])
                   ELSE ingested[g] = 0

\* The rings together are a sliding window over the samples of each GPU
\* (ring.rs:3-7), however often they have wrapped.
Kept == [g \in Gpu |-> IF g \in DOMAIN rings THEN Recent(rings[g], Window) ELSE << >>]

\* The numbers of samples.
Number == UNION {1..MaxSamples[g] : g \in Gpu}

SW == INSTANCE SlidingWindow WITH Sample <- Number, window <- Kept
ImplementsWindow == SW!Spec

\* A snapshot has one sample for each GPU known when it was begun, the newest
\* there was then or one that came since (service.rs:116-117).
Read == {latest[i].gpu : i \in 1..Len(latest)}
Between(e) == atPoll[e.gpu] <= e.sample /\ e.sample <= ingested[e.gpu]
SnapshotCurrent ==
    agent = "poll" =>
        /\ todo \cup Read = {g \in Gpu : atPoll[g] > 0}
        /\ \A i, j \in 1..Len(latest) : latest[i].gpu = latest[j].gpu => i = j
        /\ \A i \in 1..Len(latest) : latest[i].gpu \notin todo /\ Between(latest[i])

\* The agent's windows are in the order the samples came, whatever polls have
\* failed half way; a prediction is made on a full window that ends with a
\* sample no older than the poll (telemetry.py:64-89).
Newest(g) == IF windows[g] = << >> THEN 0 ELSE windows[g][Len(windows[g])]
AgentCurrent ==
    /\ \A g \in Gpu : \A i, j \in 1..Len(windows[g]) : i <= j => windows[g][i] <= windows[g][j]
    /\ agent = "publish" =>
           LET g == Head(latest).gpu
           IN  Len(windows[g]) = SEQ_LEN /\ atPoll[g] <= Newest(g)

\* What makes the two inductive.
InOrder ==
    /\ \A g \in Gpu :
           /\ atPoll[g] <= ingested[g]
           /\ Len(windows[g]) <= SEQ_LEN /\ Newest(g) <= ingested[g]
           /\ agent = "poll" => Newest(g) <= atPoll[g]
    /\ \A i, j \in 1..Len(latest) : latest[i].gpu = latest[j].gpu => i = j
    /\ \A i \in 1..Len(latest) :
           Between(latest[i]) /\ latest[i].sample >= Newest(latest[i].gpu)
    /\ agent = "sleep" => latest = << >> /\ todo = {}
    /\ agent = "publish" => latest # << >> /\ Newest(Head(latest).gpu) = Head(latest).sample

Inductive == TypeOK /\ RingExact /\ SnapshotCurrent /\ AgentCurrent /\ InOrder

\* The newest sample of each GPU, or a newer one, reaches the agent, although
\* polls fail and leave GPUs out, as long as not all of them do.
NewestSeen ==
    \A g \in Gpu : \A n \in 1..MaxSamples[g] : ingested[g] >= n ~> Newest(g) >= n
=============================================================================
