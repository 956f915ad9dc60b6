----------------------------- MODULE StreamHub -----------------------------
(***************************************************************************)
(* The event hub (internal/stream/stream.go) and the SSE handlers that     *)
(* subscribe to it (JobHandler.Events).                                    *)
(*                                                                         *)
(* Events of one job are numbered in the order in which the hub takes      *)
(* them.  A stream is one SSE request: its handler, its subscription and   *)
(* the buffered channel between the hub and the handler.  The hub's mutex  *)
(* is a variable, because Subscribe sends to a channel while it holds it.  *)
(***************************************************************************)
EXTENDS Integers, Sequences, FiniteSets

CONSTANTS
    Jobs,
    Streams,      \* SSE requests
    JobOf,        \* [Streams -> Jobs], the job a stream watches
    Closers,      \* callers of Hub.Close
    Buffer,       \* subscriberBuffer
    MaxEvents,    \* bound: events published per job
    Nobody        \* the mutex is free

ASSUME HubAssumption ==
    /\ JobOf \in [Streams -> Jobs]
    /\ Buffer \in Nat \ {0} /\ MaxEvents \in Nat
    /\ Nobody \notin Streams /\ IsFiniteSet(Streams)

VARIABLES
    mu,           \* the stream whose Subscribe holds the mutex, or Nobody
    closed,       \* the atomic flag
    subs,         \* registered streams (Hub.subs of all jobs)
    chan,         \* channel of a stream: not made, open or closed
    buf,          \* events buffered in the channel
    history,      \* the last events of a job, for replay
    published,    \* events taken so far, per job (eventsTotal is their sum)
    subscribers, dropsTotal,   \* the hub's counters
    hpc,          \* control state of the handlers
    replayed,     \* history events Subscribe has sent so far
    received,     \* events written to the client
    cpc           \* control state of the Close callers

hubVars    == <<closed, subs, chan, history, published, subscribers, dropsTotal>>
streamVars == <<hpc, replayed, received>>

vars == <<mu, closed, subs, chan, buf, history, published, subscribers, dropsTotal,
          hpc, replayed, received, cpc>>

Init ==
    /\ mu = Nobody /\ closed = FALSE /\ subs = {}
    /\ chan = [s \in Streams |-> "nil"]
    /\ buf = [s \in Streams |-> <<>>]
    /\ history = [j \in Jobs |-> <<>>]
    /\ published = [j \in Jobs |-> 0]
    /\ subscribers = 0 /\ dropsTotal = 0
    /\ hpc = [s \in Streams |-> "new"]
    /\ replayed = [s \in Streams |-> 0]
    /\ received = [s \in Streams |-> <<>>]
    /\ cpc = [c \in Closers |-> "idle"]

-----------------------------------------------------------------------------
(* Publish *)

\* Variant with a bug: the history is not trimmed.
recordHistoryUntrimmed(h, ev) == Append(h, ev)

recordHistory(h, ev) ==
    LET grown == Append(h, ev)
    IN  IF Len(grown) > Buffer
        THEN SubSeq(grown, Len(grown) - Buffer + 1, Len(grown))
        ELSE grown

Watchers(j) == {s \in subs : JobOf[s] = j}

Full(s) == Len(buf[s]) = Buffer

\* Variant with a bug: a full channel is not counted as a drop.
PublishUncounted(j) ==
    /\ mu = Nobody /\ ~closed /\ published[j] < MaxEvents
    /\ LET ev == published[j] + 1
       IN  /\ published' = [published EXCEPT ![j] = ev]
           /\ history' = [history EXCEPT ![j] = recordHistory(@, ev)]
           /\ buf' = [s \in Streams |->
                         IF s \in Watchers(j) /\ ~Full(s) THEN Append(buf[s], ev) ELSE buf[s]]
    /\ UNCHANGED <<mu, closed, subs, chan, subscribers, dropsTotal, streamVars, cpc>>

\* On a closed hub Publish does nothing.
Publish(j) ==
    /\ mu = Nobody /\ ~closed /\ published[j] < MaxEvents
    /\ LET ev == published[j] + 1
       IN  /\ published' = [published EXCEPT ![j] = ev]
           /\ history' = [history EXCEPT ![j] = recordHistory(@, ev)]
           /\ buf' = [s \in Streams |->
                         IF s \in Watchers(j) /\ ~Full(s) THEN Append(buf[s], ev) ELSE buf[s]]
           /\ dropsTotal' = dropsTotal + Cardinality({s \in Watchers(j) : Full(s)})
    /\ UNCHANGED <<mu, closed, subs, chan, subscribers, streamVars, cpc>>

-----------------------------------------------------------------------------
(* Subscribe, and the function it returns *)

\* Variant with a bug: the mutex is not held during the replay.
SubscribeUnlocked(s) ==
    /\ hpc[s] = "new" /\ mu = Nobody /\ ~closed
    /\ subs' = subs \cup {s}
    /\ chan' = [chan EXCEPT ![s] = "open"]
    /\ hpc' = [hpc EXCEPT ![s] = "replay"]
    /\ UNCHANGED <<mu, closed, buf, history, published, subscribers, dropsTotal, replayed,
                   received, cpc>>

Subscribe(s) ==
    /\ hpc[s] = "new" /\ mu = Nobody /\ ~closed
    /\ mu' = s
    /\ subs' = subs \cup {s}
    /\ chan' = [chan EXCEPT ![s] = "open"]
    /\ hpc' = [hpc EXCEPT ![s] = "replay"]
    /\ UNCHANGED <<closed, buf, history, published, subscribers, dropsTotal, replayed,
                   received, cpc>>

SubscribeRefused(s) ==
    /\ hpc[s] = "new" /\ mu = Nobody /\ closed
    /\ hpc' = [hpc EXCEPT ![s] = "done"]
    /\ UNCHANGED <<mu, hubVars, buf, replayed, received, cpc>>

\* One send of the replay; it blocks when the channel is full.
Replay(s) ==
    /\ hpc[s] = "replay" /\ replayed[s] < Len(history[JobOf[s]]) /\ ~Full(s)
    /\ buf' = [buf EXCEPT ![s] = Append(@, history[JobOf[s]][replayed[s] + 1])]
    /\ replayed' = [replayed EXCEPT ![s] = @ + 1]
    /\ UNCHANGED <<mu, hubVars, hpc, received, cpc>>

SubscribeReturn(s) ==
    /\ hpc[s] = "replay" /\ replayed[s] = Len(history[JobOf[s]])
    /\ subscribers' = subscribers + 1
    /\ mu' = Nobody
    /\ hpc' = [hpc EXCEPT ![s] = "loop"]
    /\ UNCHANGED <<closed, subs, chan, buf, history, published, dropsTotal, replayed,
                   received, cpc>>

\* Variant with a bug: the count goes down without a look at the map.
unsubscribeUnchecked(s) ==
    /\ hpc[s] = "leave" /\ mu = Nobody
    /\ subs' = subs \ {s}
    /\ subscribers' = subscribers - 1
    /\ hpc' = [hpc EXCEPT ![s] = "done"]
    /\ UNCHANGED <<mu, closed, chan, buf, history, published, dropsTotal, replayed, received,
                   cpc>>

\* The deferred call of the handler.  The hub may have dropped the stream.
unsubscribe(s) ==
    /\ hpc[s] = "leave" /\ mu = Nobody
    /\ subs' = subs \ {s}
    /\ subscribers' = IF s \in subs THEN subscribers - 1 ELSE subscribers
    /\ hpc' = [hpc EXCEPT ![s] = "done"]
    /\ UNCHANGED <<mu, closed, chan, buf, history, published, dropsTotal, replayed, received,
                   cpc>>

-----------------------------------------------------------------------------
(* The loop of JobHandler.Events *)

\* The handler takes an event and writes it; a write that fails ends it.
WriteEvent(s) ==
    /\ hpc[s] = "loop" /\ buf[s] # <<>>
    /\ buf' = [buf EXCEPT ![s] = Tail(@)]
    /\ \/ received' = [received EXCEPT ![s] = Append(@, Head(buf[s]))] /\ UNCHANGED hpc
       \/ hpc' = [hpc EXCEPT ![s] = "leave"] /\ UNCHANGED received
    /\ UNCHANGED <<mu, hubVars, replayed, cpc>>

SubscriptionClosed(s) ==
    /\ hpc[s] = "loop" /\ buf[s] = <<>> /\ chan[s] = "closed"
    /\ hpc' = [hpc EXCEPT ![s] = "leave"]
    /\ UNCHANGED <<mu, hubVars, buf, replayed, received, cpc>>

\* The client is gone: the request's context is done or a heartbeat fails.
ClientGone(s) ==
    /\ hpc[s] = "loop"
    /\ hpc' = [hpc EXCEPT ![s] = "leave"]
    /\ UNCHANGED <<mu, hubVars, buf, replayed, received, cpc>>

-----------------------------------------------------------------------------
(* Close *)

\* The flag is set before the mutex is taken.
CloseFlag(c) ==
    /\ cpc[c] = "idle"
    /\ closed' = TRUE
    /\ cpc' = [cpc EXCEPT ![c] = IF closed THEN "done" ELSE "flagged"]
    /\ UNCHANGED <<mu, subs, chan, buf, history, published, subscribers, dropsTotal,
                   streamVars>>

\* Variant with a bug: the streams stay in the map.
CloseChannelsKept(c) ==
    /\ cpc[c] = "flagged" /\ mu = Nobody
    /\ chan' = [s \in Streams |-> IF s \in subs THEN "closed" ELSE chan[s]]
    /\ subscribers' = 0
    /\ cpc' = [cpc EXCEPT ![c] = "done"]
    /\ UNCHANGED <<mu, closed, subs, buf, history, published, dropsTotal, streamVars>>

\* Variant with a bug: the streams are forgotten but not closed.
CloseChannelsForgotten(c) ==
    /\ cpc[c] = "flagged" /\ mu = Nobody
    /\ subs' = {}
    /\ subscribers' = 0
    /\ cpc' = [cpc EXCEPT ![c] = "done"]
    /\ UNCHANGED <<mu, closed, chan, buf, history, published, dropsTotal, streamVars>>

CloseChannels(c) ==
    /\ cpc[c] = "flagged" /\ mu = Nobody
    /\ chan' = [s \in Streams |-> IF s \in subs THEN "closed" ELSE chan[s]]
    /\ subs' = {}
    /\ subscribers' = 0
    /\ cpc' = [cpc EXCEPT ![c] = "done"]
    /\ UNCHANGED <<mu, closed, buf, history, published, dropsTotal, streamVars>>

-----------------------------------------------------------------------------
SubscribeStep(s) == Subscribe(s) \/ SubscribeRefused(s) \/ Replay(s) \/ SubscribeReturn(s)

HandlerStep(s) == SubscribeStep(s) \/ WriteEvent(s) \/ SubscriptionClosed(s) \/ unsubscribe(s)

Next ==
    \/ \E j \in Jobs : Publish(j)
    \/ \E s \in Streams : HandlerStep(s) \/ ClientGone(s)
    \/ \E c \in Closers : CloseFlag(c) \/ CloseChannels(c)

Spec == Init /\ [][Next]_vars

\* Handlers and Close callers keep running, and a mutex that is free again
\* and again is obtained.  Clients, publishers and the first call of Close
\* are not fair.
Fairness ==
    /\ \A s \in Streams : /\ WF_vars(Replay(s) \/ SubscribeReturn(s))
                          /\ WF_vars(WriteEvent(s) \/ SubscriptionClosed(s))
                          /\ SF_vars(unsubscribe(s))
    /\ \A c \in Closers : SF_vars(CloseChannels(c))

FairSpec == Spec /\ Fairness

-----------------------------------------------------------------------------
(* Properties *)

Delivered(s) == received[s] \o buf[s]

\* Publish never sends on a closed channel, whatever Close, Subscribe and
\* unsubscribe it races with ("shutdown of the event hub without `send on
\* closed channel`", docs/streaming-protocol.md).
RegisteredChannelIsOpen == \A s \in subs : chan[s] = "open"

\* Whenever the mutex is free, the subscribers counter (and sse_subscribers)
\* is the number of registered streams: a stream dropped by Close is not
\* counted down again by its own unsubscribe.
SubscribersCounted == mu = Nobody => subscribers = Cardinality(subs)

\* A client sees the events of its job in the order they were published and
\* none twice: the replay of Subscribe and the events published meanwhile do
\* not overlap.
DeliveredInOrder ==
    \A s \in Streams : \A i, j \in 1 .. Len(Delivered(s)) :
        i < j => Delivered(s)[i] < Delivered(s)[j]

\* Events a live stream has missed since the first one it got.
Missed(s) ==
    IF Delivered(s) = <<>> THEN 1 .. published[JobOf[s]]
    ELSE {e \in Delivered(s)[1] .. published[JobOf[s]] :
             \A i \in 1 .. Len(Delivered(s)) : Delivered(s)[i] # e}

Lost == {d \in subs \X (1 .. MaxEvents) : hpc[d[1]] = "loop" /\ d[2] \in Missed(d[1])}

\* Every event missing from a live stream is counted in sse_drops_total: the
\* switch from replay to live events loses none.
MissedIsCounted == Cardinality(Lost) <= dropsTotal

\* Subscribe returns although it sends to a bounded channel nobody reads yet
\* while it holds the hub's mutex: the history never outgrows the channel.
SubscribeReturns == \A s \in Streams : (hpc[s] = "replay") ~> (hpc[s] # "replay")

\* After Close every SSE handler ends ("The SSE loop must terminate on ...
\* event hub shutdown", docs/streaming-protocol.md), the one that was
\* subscribing while Close ran included.
StreamsEndAfterClose == closed ~> \A s \in Streams : hpc[s] \in {"new", "done"}
=============================================================================
