------------------------------ MODULE EventBus ------------------------------
(***************************************************************************)
(* The hardware-event bus of the telemetry service: a broadcast channel    *)
(* that keeps the newest events for its subscribers.  A subscriber sees    *)
(* what is sent after it subscribed; one that falls too far behind loses   *)
(* the oldest events it has not read and goes on behind them.  The stream  *)
(* to a client adds no state of its own here: what it buffers counts as    *)
(* not yet received.                                                       *)
(***************************************************************************)
EXTENDS Integers, Sequences

CONSTANTS
    Subscriber,   \* the streams of SubscribeEvents
    Event,        \* the events that are published
    Capacity,     \* how many events the channel keeps, 1024 in the code
    MaxEvents     \* bound: the events published in a behaviour

ASSUME BusAssumption == Capacity \in Nat \ {0} /\ MaxEvents \in Nat

VARIABLES
    log,    \* all that was published
    next,   \* where each subscriber reads on in the log; 0: not subscribed
    lost    \* history: the last event each subscriber was made to skip

bus == <<log, next, lost>>

BusTypeOK ==
    /\ log \in Seq(Event) /\ Len(log) <= MaxEvents
    /\ next \in [Subscriber -> 0..(MaxEvents + 1)]
    /\ lost \in [Subscriber -> 0..MaxEvents]

BusInit ==
    /\ log = << >>
    /\ next = [s \in Subscriber |-> 0]
    /\ lost = [s \in Subscriber |-> 0]

\* The oldest event the channel still holds.
Oldest == IF Len(log) > Capacity THEN Len(log) - Capacity + 1 ELSE 1

\* Nobody waits for subscribers; without any the event is gone.
Publish(e) ==
    /\ Len(log) < MaxEvents
    /\ log' = Append(log, e)
    /\ UNCHANGED <<next, lost>>

\* The filter of the request is ignored: every event is sent to everybody.
Subscribe(s) ==
    /\ next[s] = 0
    /\ next' = [next EXCEPT ![s] = Len(log) + 1]
    /\ UNCHANGED <<log, lost>>

Unsubscribe(s) ==
    /\ next' = [next EXCEPT ![s] = 0]
    /\ UNCHANGED <<log, lost>>

CanReceive(s) == next[s] # 0 /\ next[s] <= Len(log) /\ next[s] >= Oldest

Receive(s) ==
    /\ CanReceive(s)
    /\ next' = [next EXCEPT ![s] = @ + 1]
    /\ UNCHANGED <<log, lost>>

\* Lagged: the gap is logged on the server and the stream goes on.
Skip(s) ==
    /\ next[s] # 0 /\ next[s] < Oldest
    /\ next' = [next EXCEPT ![s] = Oldest]
    /\ lost' = [lost EXCEPT ![s] = Oldest - 1]
    /\ UNCHANGED log
=============================================================================
