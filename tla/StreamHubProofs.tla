-------------------------- MODULE StreamHubProofs ---------------------------
(***************************************************************************)
(* The event hub for any finite set of streams, any buffer and any number  *)
(* of events: its channels, its counters and the order of delivery.        *)
(*                                                                         *)
(* The invariant says of each stream where its Subscribe is: while it      *)
(* replays, it holds the mutex and its channel is a prefix of the history, *)
(* and the history is a window on the latest events.  What a live stream   *)
(* misses are the gaps in its delivery; only a drop makes a gap.           *)
(***************************************************************************)
EXTENDS StreamHub, FiniteSetTheorems, SequenceTheorems, TLAPS

-----------------------------------------------------------------------------
(* Sequences of events                                                      *)

\* What a client has (a) and what waits for it (b): increasing throughout and
\* up to n.
Ordered(a, b, n) ==
    /\ \A i, k \in 1 .. Len(a) : i < k => a[i] < a[k]
    /\ \A i, k \in 1 .. Len(b) : i < k => b[i] < b[k]
    /\ \A i \in 1 .. Len(a), k \in 1 .. Len(b) : a[i] < b[k]
    /\ \A i \in 1 .. Len(a) : a[i] <= n
    /\ \A i \in 1 .. Len(b) : b[i] <= n

\* The hub sends a later event.
LEMMA OrderedSend ==
    ASSUME NEW a \in Seq(Nat), NEW b \in Seq(Nat), NEW n \in Nat, NEW m \in Nat, NEW e \in Nat,
           Ordered(a, b, n), n <= m, e <= m,
           \A i \in 1 .. Len(a) : a[i] < e, \A i \in 1 .. Len(b) : b[i] < e
    PROVE  Append(b, e) \in Seq(Nat) /\ Ordered(a, Append(b, e), m)
<1>1. /\ Append(b, e) \in Seq(Nat) /\ Len(Append(b, e)) = Len(b) + 1
      /\ \A i \in 1 .. Len(b) + 1 : Append(b, e)[i] = IF i = Len(b) + 1 THEN e ELSE b[i]
  OBVIOUS
<1>2. \A i \in 1 .. Len(a) : a[i] \in Nat
  OBVIOUS
<1>3. \A i \in 1 .. Len(b) : b[i] \in Nat
  OBVIOUS
<1>4. Len(b) \in Nat /\ Len(a) \in Nat
  OBVIOUS
<1> DEFINE c == Append(b, e)
<1> HIDE DEF c
<1>5. Len(c) = Len(b) + 1 /\ \A i \in 1 .. Len(b) + 1 : c[i] = IF i = Len(b) + 1 THEN e ELSE b[i]
  BY <1>1 DEF c
<1>6. Ordered(a, c, m)
  <2>1. ASSUME NEW i \in 1 .. Len(c)
        PROVE  \/ i \in 1 .. Len(b) /\ c[i] = b[i]
               \/ i = Len(b) + 1 /\ c[i] = e
    BY <1>4, <1>5
  <2>2. ASSUME NEW i \in 1 .. Len(c), NEW k \in 1 .. Len(c), i < k PROVE c[i] < c[k]
    <3>1. i \in 1 .. Len(b) /\ c[i] = b[i]
      BY <1>4, <1>5, <2>2
    <3>2. CASE k = Len(b) + 1
      BY <2>1, <3>1, <3>2, <1>4, <1>5
    <3>3. CASE k \in 1 .. Len(b)
      BY <2>2, <3>1, <3>3, <1>4, <1>5 DEF Ordered
    <3> QED BY <2>1, <3>2, <3>3
  <2>3. \A i \in 1 .. Len(a), k \in 1 .. Len(c) : a[i] < c[k]
    BY <2>1 DEF Ordered
  <2>4. \A i \in 1 .. Len(a) : a[i] <= m
    BY <1>2 DEF Ordered
  <2>5. ASSUME NEW i \in 1 .. Len(c) PROVE c[i] <= m
    <3>1. CASE i \in 1 .. Len(b) /\ c[i] = b[i]
      <4>1. b[i] \in Nat /\ b[i] <= n
        BY <1>3, <3>1 DEF Ordered
      <4> QED BY <3>1, <4>1
    <3>2. CASE c[i] = e
      BY <3>2
    <3> QED BY <2>1, <3>1, <3>2
  <2>6. \A i, k \in 1 .. Len(a) : i < k => a[i] < a[k]
    BY DEF Ordered
  <2> QED BY <2>2, <2>3, <2>4, <2>5, <2>6 DEF Ordered
<1> QED BY <1>1, <1>6 DEF c

\* The handler takes the next event, and writes it or fails to.
LEMMA OrderedTake ==
    ASSUME NEW a \in Seq(Nat), NEW b \in Seq(Nat), NEW n \in Nat, Ordered(a, b, n), b # <<>>
    PROVE  /\ Tail(b) \in Seq(Nat) /\ Append(a, Head(b)) \in Seq(Nat)
           /\ Ordered(a, Tail(b), n) /\ Ordered(Append(a, Head(b)), Tail(b), n)
<1>1. /\ Tail(b) \in Seq(Nat) /\ Len(Tail(b)) = Len(b) - 1 /\ Len(b) \in Nat \ {0}
      /\ \A i \in 1 .. Len(b) - 1 : Tail(b)[i] = b[i + 1]
  BY HeadTailProperties
<1>2. Head(b) = b[1] /\ b[1] \in Nat /\ Append(a, b[1]) \in Seq(Nat)
      /\ Len(Append(a, b[1])) = Len(a) + 1 /\ Len(a) \in Nat
      /\ \A i \in 1 .. Len(a) + 1 : Append(a, b[1])[i] = IF i = Len(a) + 1 THEN b[1] ELSE a[i]
  BY <1>1
<1>3. \A i \in 1 .. Len(a) : a[i] \in Nat
  OBVIOUS
<1>4. \A i \in 1 .. Len(b) : b[i] \in Nat
  OBVIOUS
<1> DEFINE c == Append(a, b[1])
           d == Tail(b)
<1>5. Len(c) = Len(a) + 1 /\ \A i \in 1 .. Len(a) + 1 : c[i] = IF i = Len(a) + 1 THEN b[1] ELSE a[i]
  BY <1>2
<1>6. Len(d) = Len(b) - 1 /\ \A i \in 1 .. Len(b) - 1 : d[i] = b[i + 1]
  BY <1>1
<1> HIDE DEF c, d
<1>7. Ordered(a, d, n)
  BY <1>1, <1>2, <1>3, <1>4, <1>6, SMTT(60) DEF Ordered
<1>8. Ordered(c, d, n)
  <2>1. \A i \in 1 .. Len(c) : \/ i \in 1 .. Len(a) /\ c[i] = a[i]
                               \/ i = Len(a) + 1 /\ c[i] = b[1]
    BY <1>2, <1>5
  <2>2. \A k \in 1 .. Len(d) : k + 1 \in 1 .. Len(b) /\ 1 < k + 1 /\ d[k] = b[k + 1]
    BY <1>1, <1>6
  <2>3. 1 \in 1 .. Len(b)
    BY <1>1
  <2>4. ASSUME NEW i \in 1 .. Len(c), NEW k \in 1 .. Len(c), i < k PROVE c[i] < c[k]
    <3>1. i \in 1 .. Len(a) /\ c[i] = a[i]
      BY <1>2, <1>5, <2>4
    <3>2. CASE k = Len(a) + 1
      BY <2>1, <2>3, <3>1, <3>2, <1>2, <1>5 DEF Ordered
    <3>3. CASE k \in 1 .. Len(a)
      <4>1. c[k] = a[k]
        BY <3>3, <1>2, <1>5
      <4> QED BY <2>4, <3>1, <3>3, <4>1 DEF Ordered
    <3> QED BY <2>1, <3>2, <3>3
  <2>5. ASSUME NEW i \in 1 .. Len(c), NEW k \in 1 .. Len(d) PROVE c[i] < d[k]
    <3>1. k + 1 \in 1 .. Len(b) /\ 1 < k + 1 /\ d[k] = b[k + 1]
      BY <2>2
    <3>2. CASE i \in 1 .. Len(a) /\ c[i] = a[i]
      BY <3>1, <3>2 DEF Ordered
    <3>3. CASE i = Len(a) + 1 /\ c[i] = b[1]
      BY <2>3, <3>1, <3>3 DEF Ordered
    <3> QED BY <2>1, <3>2, <3>3
  <2>6. \A i \in 1 .. Len(c) : c[i] <= n
    BY <2>1, <2>3 DEF Ordered
  <2> QED BY <1>7, <2>4, <2>5, <2>6 DEF Ordered
<1> QED BY <1>1, <1>2, <1>7, <1>8 DEF c, d

\* What is ordered in two parts is ordered as one.
LEMMA OrderedWhole ==
    ASSUME NEW a \in Seq(Nat), NEW b \in Seq(Nat), NEW n \in Nat, Ordered(a, b, n)
    PROVE  \A i, k \in 1 .. Len(a \o b) : i < k => (a \o b)[i] < (a \o b)[k]
<1>1. /\ Len(a \o b) = Len(a) + Len(b) /\ Len(a) \in Nat /\ Len(b) \in Nat
      /\ \A i \in 1 .. Len(a) + Len(b) :
            (a \o b)[i] = IF i <= Len(a) THEN a[i] ELSE b[i - Len(a)]
  BY ConcatProperties
<1> DEFINE c == a \o b
<1>2. Len(c) = Len(a) + Len(b)
      /\ \A i \in 1 .. Len(a) + Len(b) : c[i] = IF i <= Len(a) THEN a[i] ELSE b[i - Len(a)]
  BY <1>1
<1> HIDE DEF c
<1>3. ASSUME NEW i \in 1 .. Len(c), NEW k \in 1 .. Len(c), i < k PROVE c[i] < c[k]
  <2>1. CASE k <= Len(a)
    <3>1. i \in 1 .. Len(a) /\ k \in 1 .. Len(a) /\ c[i] = a[i] /\ c[k] = a[k]
      BY <1>1, <1>2, <1>3, <2>1
    <3> QED BY <1>3, <3>1 DEF Ordered
  <2>2. CASE i <= Len(a) /\ ~(k <= Len(a))
    <3>1. i \in 1 .. Len(a) /\ k - Len(a) \in 1 .. Len(b) /\ c[i] = a[i] /\ c[k] = b[k - Len(a)]
      BY <1>1, <1>2, <2>2
    <3> QED BY <3>1 DEF Ordered
  <2>3. CASE ~(i <= Len(a))
    <3>1. /\ i - Len(a) \in 1 .. Len(b) /\ k - Len(a) \in 1 .. Len(b)
          /\ i - Len(a) < k - Len(a) /\ c[i] = b[i - Len(a)] /\ c[k] = b[k - Len(a)]
      BY <1>1, <1>2, <1>3, <2>3
    <3> QED BY <3>1 DEF Ordered
  <2> QED BY <1>1, <1>2, <2>1, <2>2, <2>3
<1> QED BY <1>3 DEF c

\* The history is the window of the latest events, and empty before the first.
Window(h, n) ==
    /\ h \in Seq(Nat) /\ Len(h) <= Buffer /\ Len(h) <= n
    /\ Len(h) = 0 => n = 0
    /\ \A i \in 1 .. Len(h) : h[i] = n - Len(h) + i

\* recordHistory moves the window on.
LEMMA WindowMoves ==
    ASSUME NEW h, NEW n \in Nat, Window(h, n)
    PROVE  Window(recordHistory(h, n + 1), n + 1)
<1> DEFINE grown == Append(h, n + 1)
<1>1. h \in Seq(Nat) /\ Len(h) \in Nat /\ Buffer \in Nat \ {0}
  BY HubAssumption DEF Window
<1>2. /\ grown \in Seq(Nat) /\ Len(grown) = Len(h) + 1
      /\ \A i \in 1 .. Len(h) + 1 : grown[i] = IF i = Len(h) + 1 THEN n + 1 ELSE h[i]
  BY <1>1
<1>3. \A i \in 1 .. Len(grown) : grown[i] = (n + 1) - Len(grown) + i
  BY <1>1, <1>2 DEF Window
<1> HIDE DEF grown
<1>4. CASE Len(grown) <= Buffer
  <2>1. recordHistory(h, n + 1) = grown
    BY <1>1, <1>2, <1>4 DEF recordHistory, grown
  <2>2. Len(grown) <= n + 1 /\ Len(grown) # 0
    BY <1>1, <1>2 DEF Window
  <2>3. Window(grown, n + 1)
    BY <1>2, <1>3, <1>4, <2>2 DEF Window
  <2> QED BY <2>1, <2>3
<1>5. CASE Len(grown) > Buffer
  <2> DEFINE from == Len(grown) - Buffer + 1
             cut == SubSeq(grown, from, Len(grown))
  <2>1. recordHistory(h, n + 1) = cut
    BY <1>5 DEF recordHistory, grown
  <2>2. from \in 1 .. Len(grown) /\ Len(grown) \in Nat
    BY <1>1, <1>2, <1>5 DEF Window
  <2>3. /\ cut \in Seq(Nat) /\ Len(cut) = Buffer
        /\ \A i \in 1 .. Buffer : cut[i] = grown[from + i - 1]
    BY <1>1, <1>2, <2>2, SubSeqProperties
  <2> HIDE DEF cut
  <2>4. \A i \in 1 .. Buffer : from + i - 1 \in 1 .. Len(grown)
    BY <1>1, <2>2
  <2>5. \A i \in 1 .. Buffer : cut[i] = (n + 1) - Buffer + i
    BY <1>1, <1>2, <1>3, <2>3, <2>4
  <2>6. Buffer <= n + 1
    BY <1>1, <1>2, <1>5 DEF Window
  <2>7. Len(cut) <= Buffer /\ Len(cut) <= n + 1 /\ Len(cut) # 0
        /\ \A i \in 1 .. Len(cut) : cut[i] = (n + 1) - Len(cut) + i
    BY <1>1, <2>3, <2>5, <2>6
  <2>8. Window(cut, n + 1)
    BY <2>3, <2>7 DEF Window
  <2> QED BY <2>1, <2>8
<1> QED BY <1>1, <1>2, <1>4, <1>5

-----------------------------------------------------------------------------
(* Who is registered                                                        *)

HandlerStages == {"new", "replay", "loop", "leave", "done"}

\* Streams that Subscribe has counted.
Joined == {s \in subs : hpc[s] # "replay"}

\* The stream that replays, and no other, holds the mutex; a registered
\* stream has an open channel and a handler; the counter lags behind the map
\* by the stream that replays.
RegistryInv ==
    /\ mu \in Streams \cup {Nobody} /\ subs \in SUBSET Streams
    /\ chan \in [Streams -> {"nil", "open", "closed"}]
    /\ hpc \in [Streams -> HandlerStages]
    /\ \A s \in Streams : hpc[s] = "replay" <=> mu = s
    /\ \A s \in Streams : hpc[s] = "replay" => s \in subs
    /\ \A s \in subs : chan[s] = "open" /\ hpc[s] \in {"replay", "loop", "leave"}
    /\ subscribers = Cardinality(Joined)

\* Adding a stream to a set, and taking it out.
LEMMA Counting ==
    ASSUME NEW A \in SUBSET Streams, NEW s \in Streams
    PROVE  /\ Cardinality(A) \in Nat
           /\ s \notin A => Cardinality(A \cup {s}) = Cardinality(A) + 1
           /\ s \in A => Cardinality(A \ {s}) = Cardinality(A) - 1
<1>1. IsFiniteSet(A)
  BY HubAssumption, FS_Subset
<1> QED BY <1>1, FS_CardinalityType, FS_AddElement, FS_RemoveElement

\* Publish, Replay and the handler's loop leave the registry alone, but for
\* the end of a loop.
LEMMA LoopKeepsRegistry ==
    ASSUME RegistryInv, NEW s \in Streams, UNCHANGED <<mu, subs, chan, subscribers>>,
           \/ UNCHANGED hpc
           \/ hpc[s] = "loop" /\ hpc' = [hpc EXCEPT ![s] = "leave"]
           \/ hpc[s] = "new" /\ hpc' = [hpc EXCEPT ![s] = "done"]
    PROVE  RegistryInv'
<1>1. hpc' \in [Streams -> HandlerStages]
  BY DEF RegistryInv, HandlerStages
<1>2. Joined' = Joined
  BY DEF RegistryInv, Joined
<1>3. \A t \in Streams : /\ hpc'[t] = "replay" <=> hpc[t] = "replay"
                         /\ t \in subs => hpc'[t] \in {"replay", "loop", "leave"}
  BY DEF RegistryInv
<1> QED BY <1>1, <1>2, <1>3 DEF RegistryInv

\* Subscribe: registration under the mutex, ...
LEMMA SubscribeKeepsRegistry ==
    ASSUME RegistryInv, NEW s \in Streams, Subscribe(s)
    PROVE  RegistryInv'
<1>1. /\ mu = Nobody /\ mu' = s /\ subs' = subs \cup {s} /\ hpc[s] = "new"
      /\ chan' = [chan EXCEPT ![s] = "open"] /\ hpc' = [hpc EXCEPT ![s] = "replay"]
      /\ subscribers' = subscribers
  BY DEF Subscribe
<1>2. hpc' \in [Streams -> HandlerStages] /\ chan' \in [Streams -> {"nil", "open", "closed"}]
  BY <1>1 DEF RegistryInv, HandlerStages
<1>3. s \notin subs /\ \A t \in Streams : hpc[t] # "replay"
  BY <1>1, HubAssumption DEF RegistryInv
<1>4. \A t \in Streams : /\ t = s => hpc'[t] = "replay" /\ chan'[t] = "open"
                         /\ t # s => hpc'[t] = hpc[t] /\ chan'[t] = chan[t]
  BY <1>1 DEF RegistryInv
<1>5. Joined' = Joined
  BY <1>1, <1>3, <1>4 DEF RegistryInv, Joined
<1>6. \A t \in Streams : hpc'[t] = "replay" <=> mu' = t
  BY <1>1, <1>3, <1>4
<1>7. \A t \in subs' : chan'[t] = "open" /\ hpc'[t] \in {"replay", "loop", "leave"}
  BY <1>1, <1>4 DEF RegistryInv
<1>8. \A t \in Streams : hpc'[t] = "replay" => t \in subs'
  BY <1>1, <1>6
<1> QED BY <1>1, <1>2, <1>5, <1>6, <1>7, <1>8 DEF RegistryInv

\* ... and the count, when it returns.
LEMMA ReturnKeepsRegistry ==
    ASSUME RegistryInv, NEW s \in Streams, SubscribeReturn(s)
    PROVE  RegistryInv'
<1>1. /\ mu' = Nobody /\ subs' = subs /\ hpc[s] = "replay" /\ chan' = chan
      /\ hpc' = [hpc EXCEPT ![s] = "loop"] /\ subscribers' = subscribers + 1
  BY DEF SubscribeReturn
<1>2. hpc' \in [Streams -> HandlerStages]
  BY <1>1 DEF RegistryInv, HandlerStages
<1>3. \A t \in Streams : /\ t = s => hpc'[t] = "loop"
                         /\ t # s => hpc'[t] = hpc[t] /\ hpc[t] # "replay"
  BY <1>1 DEF RegistryInv
<1>4. s \notin Joined /\ Joined' = Joined \cup {s} /\ Joined \in SUBSET Streams
  BY <1>1, <1>3 DEF RegistryInv, Joined
<1>5. subscribers' = Cardinality(Joined')
  BY <1>1, <1>4, Counting DEF RegistryInv
<1> QED BY <1>1, <1>2, <1>3, <1>5, HubAssumption DEF RegistryInv

\* unsubscribe, of a stream that Close may have dropped.
LEMMA UnsubscribeKeepsRegistry ==
    ASSUME RegistryInv, NEW s \in Streams, unsubscribe(s)
    PROVE  RegistryInv'
<1>1. /\ mu = Nobody /\ mu' = mu /\ subs' = subs \ {s} /\ hpc[s] = "leave" /\ chan' = chan
      /\ hpc' = [hpc EXCEPT ![s] = "done"]
      /\ subscribers' = IF s \in subs THEN subscribers - 1 ELSE subscribers
  BY DEF unsubscribe
<1>2. hpc' \in [Streams -> HandlerStages]
  BY <1>1 DEF RegistryInv, HandlerStages
<1>3. \A t \in Streams : /\ t = s => hpc'[t] = "done"
                         /\ t # s => hpc'[t] = hpc[t]
  BY <1>1 DEF RegistryInv
<1>4. Joined' = Joined \ {s} /\ (s \in subs <=> s \in Joined) /\ Joined \in SUBSET Streams
  BY <1>1, <1>3 DEF RegistryInv, Joined
<1>5. s \notin Joined => Joined \ {s} = Joined
  OBVIOUS
<1>6. subscribers' = Cardinality(Joined')
  BY <1>1, <1>4, <1>5, Counting DEF RegistryInv
<1> QED BY <1>1, <1>2, <1>3, <1>6, HubAssumption DEF RegistryInv

\* Close drops every stream at once.
LEMMA CloseKeepsRegistry ==
    ASSUME RegistryInv, NEW c \in Closers, CloseChannels(c)
    PROVE  RegistryInv'
<1>1. /\ mu = Nobody /\ mu' = mu /\ subs' = {} /\ hpc' = hpc /\ subscribers' = 0
      /\ chan' = [s \in Streams |-> IF s \in subs THEN "closed" ELSE chan[s]]
  BY DEF CloseChannels, streamVars
<1>2. Joined' = {}
  BY <1>1 DEF Joined
<1>3. subscribers' = Cardinality(Joined')
  BY <1>1, <1>2, FS_EmptySet
<1>4. chan' \in [Streams -> {"nil", "open", "closed"}]
  BY <1>1 DEF RegistryInv
<1> QED BY <1>1, <1>3, <1>4, HubAssumption DEF RegistryInv

\* No step breaks the registry.
LEMMA RegistryStep == RegistryInv /\ [Next]_vars => RegistryInv'
<1> SUFFICES ASSUME RegistryInv, [Next]_vars PROVE RegistryInv'
  OBVIOUS
<1>1. CASE UNCHANGED <<mu, subs, chan, subscribers, hpc>>
  BY <1>1 DEF RegistryInv, Joined
<1>2. ASSUME NEW s \in Streams, HandlerStep(s) \/ ClientGone(s) PROVE RegistryInv'
  <2>1. CASE Subscribe(s)
    BY <2>1, SubscribeKeepsRegistry
  <2>2. CASE SubscribeReturn(s)
    BY <2>2, ReturnKeepsRegistry
  <2>3. CASE unsubscribe(s)
    BY <2>3, UnsubscribeKeepsRegistry
  <2>4. CASE SubscribeRefused(s) \/ Replay(s) \/ WriteEvent(s) \/ SubscriptionClosed(s) \/ ClientGone(s)
    BY <2>4, LoopKeepsRegistry
    DEF SubscribeRefused, Replay, WriteEvent, SubscriptionClosed, ClientGone, hubVars
  <2> QED BY <1>2, <2>1, <2>2, <2>3, <2>4 DEF HandlerStep, SubscribeStep
<1>3. ASSUME NEW c \in Closers, CloseFlag(c) \/ CloseChannels(c) PROVE RegistryInv'
  BY <1>1, <1>3, CloseKeepsRegistry DEF CloseFlag, streamVars
<1>4. ASSUME NEW j \in Jobs, Publish(j) PROVE RegistryInv'
  BY <1>1, <1>4 DEF Publish, streamVars
<1> QED BY <1>1, <1>2, <1>3, <1>4 DEF Next, vars

-----------------------------------------------------------------------------
(* What flows through a channel                                             *)

Fresh(s) == buf[s] = <<>> /\ received[s] = <<>> /\ replayed[s] = 0

\* The channel holds the part of the history replayed so far.
Replaying(s) ==
    /\ received[s] = <<>> /\ Len(buf[s]) = replayed[s]
    /\ replayed[s] <= Len(history[JobOf[s]])
    /\ \A i \in 1 .. Len(buf[s]) : buf[s][i] = history[JobOf[s]][i]

Flow(s) ==
    /\ hpc[s] = "new" => Fresh(s)
    /\ hpc[s] = "replay" => Replaying(s)
    /\ Ordered(received[s], buf[s], published[JobOf[s]])

FlowTypes ==
    /\ buf \in [Streams -> Seq(Nat)] /\ received \in [Streams -> Seq(Nat)]
    /\ replayed \in [Streams -> Nat] /\ published \in [Jobs -> Nat]
    /\ history \in [Jobs -> Seq(Nat)]

FlowInv ==
    /\ FlowTypes
    /\ \A j \in Jobs : Window(history[j], published[j])
    /\ \A s \in Streams : Flow(s)

\* More events change nothing for a stream that gets none of them.
LEMMA OrderedLater ==
    ASSUME NEW a \in Seq(Nat), NEW b \in Seq(Nat), NEW n \in Nat, NEW m \in Nat,
           Ordered(a, b, n), n <= m
    PROVE  Ordered(a, b, m)
<1>1. (\A i \in 1 .. Len(a) : a[i] \in Nat) /\ (\A i \in 1 .. Len(b) : b[i] \in Nat)
  OBVIOUS
<1>2. (\A i \in 1 .. Len(a) : a[i] <= m) /\ (\A i \in 1 .. Len(b) : b[i] <= m)
  BY <1>1 DEF Ordered
<1> QED BY <1>2 DEF Ordered

\* A stream that a step does not touch.
LEMMA FlowElsewhere ==
    ASSUME NEW s \in Streams, Flow(s), buf'[s] = buf[s], received'[s] = received[s],
           replayed'[s] = replayed[s], hpc'[s] = hpc[s], UNCHANGED <<history, published>>
    PROVE  Flow(s)'
BY DEF Flow, Fresh, Replaying

\* Publish: to the channels with room, past the others.
LEMMA PublishKeepsFlow ==
    ASSUME RegistryInv, FlowInv, NEW j \in Jobs, Publish(j)
    PROVE  FlowInv'
<1> DEFINE n == published[j]
<1>1. /\ published' = [published EXCEPT ![j] = n + 1]
      /\ history' = [history EXCEPT ![j] = recordHistory(history[j], n + 1)]
      /\ buf' = [s \in Streams |->
                    IF s \in Watchers(j) /\ ~Full(s) THEN Append(buf[s], n + 1) ELSE buf[s]]
      /\ UNCHANGED <<received, replayed, hpc>> /\ mu = Nobody
  BY DEF Publish, streamVars
<1>2. n \in Nat /\ n + 1 \in Nat /\ n <= n + 1 /\ Window(history[j], n)
  BY DEF FlowInv, FlowTypes
<1> HIDE DEF n
<1>3. Window(recordHistory(history[j], n + 1), n + 1)
  BY <1>2, WindowMoves
<1>4. history' \in [Jobs -> Seq(Nat)] /\ published' \in [Jobs -> Nat]
  BY <1>1, <1>2, <1>3 DEF FlowInv, FlowTypes, Window
<1>5. \A k \in Jobs : Window(history'[k], published'[k])
  BY <1>1, <1>3 DEF FlowInv, FlowTypes
<1>6. ASSUME NEW s \in Streams
      PROVE  /\ buf'[s] \in Seq(Nat) /\ hpc[s] # "replay" /\ (hpc[s] = "new" => buf'[s] = buf[s])
             /\ Ordered(received[s], buf'[s], published'[JobOf[s]])
  <2>1. buf[s] \in Seq(Nat) /\ received[s] \in Seq(Nat) /\ JobOf[s] \in Jobs
        /\ Ordered(received[s], buf[s], published[JobOf[s]]) /\ published[JobOf[s]] \in Nat
    BY HubAssumption DEF FlowInv, FlowTypes, Flow
  <2>2. hpc[s] # "replay" /\ (hpc[s] = "new" => s \notin subs)
    BY <1>1, HubAssumption DEF RegistryInv
  <2>3. CASE s \in Watchers(j) /\ ~Full(s)
    <3>1. buf'[s] = Append(buf[s], n + 1) /\ JobOf[s] = j /\ s \in subs /\ published'[j] = n + 1
      BY <1>1, <2>3 DEF Watchers, FlowInv, FlowTypes
    <3>2. /\ \A i \in 1 .. Len(received[s]) : received[s][i] < n + 1
          /\ \A i \in 1 .. Len(buf[s]) : buf[s][i] < n + 1
      <4>1. \A a \in Seq(Nat) : (\A i \in 1 .. Len(a) : a[i] <= n) => \A i \in 1 .. Len(a) : a[i] < n + 1
        BY <1>2
      <4>2. /\ \A i \in 1 .. Len(received[s]) : received[s][i] <= n
            /\ \A i \in 1 .. Len(buf[s]) : buf[s][i] <= n
        BY <2>1, <3>1 DEF Ordered, n
      <4> QED BY <2>1, <4>1, <4>2
    <3>3. Ordered(received[s], buf[s], n)
      BY <2>1, <3>1 DEF n
    <3>4. n + 1 <= n + 1
      BY <1>2
    <3>5. Append(buf[s], n + 1) \in Seq(Nat) /\ Ordered(received[s], Append(buf[s], n + 1), n + 1)
      BY <1>2, <2>1, <3>2, <3>3, <3>4, OrderedSend
    <3> QED BY <2>2, <3>1, <3>5
  <2>4. CASE ~(s \in Watchers(j) /\ ~Full(s))
    <3>1. buf'[s] = buf[s]
      BY <1>1, <2>4
    <3>2. published'[JobOf[s]] \in Nat /\ published[JobOf[s]] <= published'[JobOf[s]]
      BY <1>1, <1>2, <2>1 DEF FlowInv, FlowTypes, n
    <3> QED BY <2>1, <2>2, <3>1, <3>2, OrderedLater
  <2> QED BY <2>3, <2>4
<1>7. ASSUME NEW s \in Streams PROVE Flow(s)'
  <2>1. hpc'[s] = "new" => Fresh(s)'
    BY <1>1, <1>6 DEF FlowInv, Flow, Fresh
  <2> QED BY <1>1, <1>6, <2>1 DEF Flow
<1>8. FlowTypes'
  BY <1>1, <1>4, <1>6 DEF FlowInv, FlowTypes
<1> QED BY <1>5, <1>7, <1>8 DEF FlowInv

\* Replay: the next event of the history is later than those sent before.
LEMMA ReplayKeepsFlow ==
    ASSUME RegistryInv, FlowInv, NEW s \in Streams, Replay(s)
    PROVE  FlowInv'
<1> DEFINE h == history[JobOf[s]]
           n == published[JobOf[s]]
           k == replayed[s] + 1
           b == buf[s]
<1>1. /\ hpc[s] = "replay" /\ replayed[s] < Len(h)
      /\ buf' = [buf EXCEPT ![s] = Append(b, h[k])]
      /\ replayed' = [replayed EXCEPT ![s] = k]
      /\ UNCHANGED <<history, published, received, hpc>>
  BY DEF Replay, hubVars
<1>2. /\ JobOf[s] \in Jobs /\ n \in Nat /\ b \in Seq(Nat) /\ replayed[s] \in Nat
      /\ Window(h, n) /\ Replaying(s) /\ Ordered(<<>>, b, n)
  BY <1>1, HubAssumption DEF FlowInv, FlowTypes, Flow, Replaying
<1>3. h \in Seq(Nat) /\ Len(h) \in Nat /\ Len(h) <= n /\ Len(b) = replayed[s]
      /\ \A i \in 1 .. Len(h) : h[i] = n - Len(h) + i
  <2>1. /\ h \in Seq(Nat) /\ Len(h) <= n /\ Len(b) = replayed[s]
        /\ \A i \in 1 .. Len(h) : h[i] = n - Len(h) + i
    BY <1>2, Zenon DEF Window, Replaying
  <2>2. Len(h) \in Nat
    BY <2>1, LenProperties, Zenon
  <2> QED BY <2>1, <2>2, Zenon
<1>4. \A i \in 1 .. Len(b) : b[i] = h[i]
  BY <1>2 DEF Replaying
<1>5. received[s] = <<>>
  BY <1>2 DEF Replaying
<1> HIDE DEF h, n, b
<1>6. k \in 1 .. Len(h) /\ h[k] = n - Len(h) + k /\ h[k] \in Nat /\ h[k] <= n
  BY <1>1, <1>2, <1>3, SMTT(60)
<1>7. \A i \in 1 .. Len(b) : b[i] < h[k]
  <2> SUFFICES ASSUME NEW i \in 1 .. Len(b) PROVE b[i] < h[k]
    OBVIOUS
  <2>1. i \in 1 .. Len(h) /\ i < k
    BY <1>1, <1>2, <1>3
  <2>2. b[i] = n - Len(h) + i
    BY <1>3, <1>4, <2>1
  <2> QED BY <1>2, <1>3, <1>6, <2>1, <2>2, SMTT(60)
<1>8. Append(b, h[k]) \in Seq(Nat) /\ Ordered(<<>>, Append(b, h[k]), n)
  <2>1. <<>> \in Seq(Nat) /\ \A i \in 1 .. Len(<<>>) : <<>>[i] < h[k]
    OBVIOUS
  <2>2. n <= n
    BY <1>2
  <2> QED BY <1>2, <1>6, <1>7, <2>1, <2>2, OrderedSend
<1>9. /\ Len(Append(b, h[k])) = k
      /\ \A i \in 1 .. k : Append(b, h[k])[i] = h[i]
  <2>1. /\ Len(Append(b, h[k])) = Len(b) + 1
        /\ \A i \in 1 .. Len(b) + 1 : Append(b, h[k])[i] = IF i = Len(b) + 1 THEN h[k] ELSE b[i]
    BY <1>2, <1>6
  <2>2. Len(b) + 1 = k /\ Len(b) \in Nat
    BY <1>2, <1>3
  <2>3. ASSUME NEW i \in 1 .. k PROVE Append(b, h[k])[i] = h[i]
    <3>1. CASE i = k
      BY <2>1, <2>2, <3>1
    <3>2. CASE i # k
      <4>1. i \in 1 .. Len(b) /\ i \in 1 .. Len(b) + 1 /\ i # Len(b) + 1
        BY <2>2, <3>2
      <4> QED BY <1>4, <2>1, <4>1
    <3> QED BY <3>1, <3>2
  <2> QED BY <2>1, <2>2, <2>3
<1>10. FlowTypes'
  <2>1. buf' \in [Streams -> Seq(Nat)]
    BY <1>1, <1>8 DEF FlowInv, FlowTypes
  <2>2. replayed' \in [Streams -> Nat]
    BY <1>1, <1>2 DEF FlowInv, FlowTypes
  <2> QED BY <1>1, <2>1, <2>2 DEF FlowInv, FlowTypes
<1>11. buf'[s] = Append(b, h[k]) /\ replayed'[s] = k
  BY <1>1 DEF FlowInv, FlowTypes
<1>12. Flow(s)'
  <2>1. Replaying(s)'
    <3>1. received'[s] = <<>> /\ Len(buf'[s]) = replayed'[s]
      BY <1>1, <1>5, <1>9, <1>11, Zenon
    <3>2. replayed'[s] <= Len(h)
      BY <1>6, <1>11
    <3>3. \A i \in 1 .. Len(buf'[s]) : buf'[s][i] = h[i]
      BY <1>9, <1>11, SMTT(60), ZenonT(60)
    <3> QED BY <1>1, <3>1, <3>2, <3>3, SMTT(60), ZenonT(60) DEF Replaying, h
  <2>2. Ordered(received[s], buf[s], published[JobOf[s]])'
    BY <1>1, <1>5, <1>8, <1>11 DEF n
  <2> QED BY <1>1, <2>1, <2>2 DEF Flow
<1>13. ASSUME NEW t \in Streams, t # s PROVE Flow(t)'
  <2>1. buf'[t] = buf[t] /\ replayed'[t] = replayed[t]
    BY <1>1, <1>13 DEF FlowInv, FlowTypes
  <2> QED BY <1>1, <2>1, FlowElsewhere DEF FlowInv
<1> QED BY <1>1, <1>10, <1>12, <1>13 DEF FlowInv

\* The handler takes an event from its channel.
LEMMA WriteKeepsFlow ==
    ASSUME RegistryInv, FlowInv, NEW s \in Streams, WriteEvent(s)
    PROVE  FlowInv'
<1>1. /\ hpc[s] = "loop" /\ buf[s] # <<>> /\ buf' = [buf EXCEPT ![s] = Tail(buf[s])]
      /\ UNCHANGED <<history, published, replayed>>
      /\ \/ received' = [received EXCEPT ![s] = Append(received[s], Head(buf[s]))] /\ hpc' = hpc
         \/ hpc' = [hpc EXCEPT ![s] = "leave"] /\ received' = received
  BY DEF WriteEvent, hubVars
<1>2. /\ buf[s] \in Seq(Nat) /\ received[s] \in Seq(Nat) /\ published[JobOf[s]] \in Nat
      /\ Ordered(received[s], buf[s], published[JobOf[s]])
  BY HubAssumption DEF FlowInv, FlowTypes, Flow
<1>3. /\ Tail(buf[s]) \in Seq(Nat) /\ Append(received[s], Head(buf[s])) \in Seq(Nat)
      /\ Ordered(received[s], Tail(buf[s]), published[JobOf[s]])
      /\ Ordered(Append(received[s], Head(buf[s])), Tail(buf[s]), published[JobOf[s]])
  BY <1>1, <1>2, OrderedTake
<1>4. buf' \in [Streams -> Seq(Nat)] /\ received' \in [Streams -> Seq(Nat)]
  BY <1>1, <1>3 DEF FlowInv, FlowTypes
<1>5. /\ buf'[s] = Tail(buf[s]) /\ hpc'[s] \in {"loop", "leave"}
      /\ received'[s] = received[s] \/ received'[s] = Append(received[s], Head(buf[s]))
  BY <1>1 DEF FlowInv, FlowTypes, RegistryInv
<1>6. Flow(s)'
  BY <1>1, <1>3, <1>5 DEF Flow
<1>7. ASSUME NEW t \in Streams, t # s PROVE Flow(t)'
  <2>1. buf'[t] = buf[t] /\ received'[t] = received[t] /\ hpc'[t] = hpc[t] /\ replayed'[t] = replayed[t]
    BY <1>1, <1>7 DEF FlowInv, FlowTypes, RegistryInv
  <2> QED BY <1>1, <2>1, FlowElsewhere DEF FlowInv
<1> QED BY <1>1, <1>4, <1>6, <1>7 DEF FlowInv, FlowTypes

\* A handler moves on and its channel stays as it is.
LEMMA MoveKeepsFlow ==
    ASSUME RegistryInv, FlowInv, NEW s \in Streams,
           UNCHANGED <<buf, received, replayed, history, published>>,
           \/ hpc[s] = "new" /\ hpc' = [hpc EXCEPT ![s] = "replay"]
           \/ \E stage \in {"loop", "leave", "done"} : hpc' = [hpc EXCEPT ![s] = stage]
    PROVE  FlowInv'
<1>1. hpc'[s] \in {"loop", "leave", "done"} \/ (hpc[s] = "new" /\ hpc'[s] = "replay")
  BY DEF RegistryInv
<1>2. Fresh(s) => Replaying(s)
  <2>1. history[JobOf[s]] \in Seq(Nat)
    BY HubAssumption DEF FlowInv, FlowTypes
  <2> QED BY <2>1 DEF Fresh, Replaying
<1>3. Fresh(s)' = Fresh(s) /\ Replaying(s)' = Replaying(s)
  BY DEF Fresh, Replaying
<1>4. Flow(s)'
  BY <1>1, <1>2, <1>3 DEF FlowInv, Flow
<1>5. ASSUME NEW t \in Streams, t # s PROVE Flow(t)'
  <2>1. hpc'[t] = hpc[t]
    BY <1>5 DEF RegistryInv
  <2> QED BY <2>1, FlowElsewhere DEF FlowInv
<1> QED BY <1>4, <1>5 DEF FlowInv, FlowTypes

\* No step disturbs the flow.
LEMMA FlowStep == RegistryInv /\ FlowInv /\ [Next]_vars => FlowInv'
<1> SUFFICES ASSUME RegistryInv, FlowInv, [Next]_vars PROVE FlowInv'
  OBVIOUS
<1>1. CASE UNCHANGED <<buf, received, replayed, history, published, hpc>>
  BY <1>1 DEF FlowInv, FlowTypes, Flow, Fresh, Replaying
<1>2. ASSUME NEW s \in Streams, HandlerStep(s) \/ ClientGone(s) PROVE FlowInv'
  <2>1. CASE Replay(s)
    BY <2>1, ReplayKeepsFlow
  <2>2. CASE WriteEvent(s)
    BY <2>2, WriteKeepsFlow
  <2>3. CASE \/ Subscribe(s) \/ SubscribeRefused(s) \/ SubscribeReturn(s) \/ unsubscribe(s)
             \/ SubscriptionClosed(s) \/ ClientGone(s)
    BY <2>3, MoveKeepsFlow DEF Subscribe, SubscribeRefused, SubscribeReturn, unsubscribe,
                               SubscriptionClosed, ClientGone, hubVars
  <2> QED BY <1>2, <2>1, <2>2, <2>3 DEF HandlerStep, SubscribeStep
<1>3. ASSUME NEW c \in Closers, CloseFlag(c) \/ CloseChannels(c) PROVE FlowInv'
  BY <1>1, <1>3 DEF CloseFlag, CloseChannels, streamVars
<1>4. ASSUME NEW j \in Jobs, Publish(j) PROVE FlowInv'
  BY <1>4, PublishKeepsFlow
<1> QED BY <1>1, <1>2, <1>3, <1>4 DEF Next, vars

-----------------------------------------------------------------------------
(* Gaps in a delivery                                                       *)

\* What was written to a client (a), what waits for it (b) and how many
\* events there are (n): the events missing since the first one.
Nothing(a, b) == a = <<>> /\ b = <<>>

Has(a, b, e) == (\E i \in 1 .. Len(a) : a[i] = e) \/ (\E i \in 1 .. Len(b) : b[i] = e)

First(a, b) == IF a # <<>> THEN a[1] ELSE b[1]

Gaps(a, b, n) ==
    IF a \o b = <<>> THEN 1 .. n
    ELSE {e \in (a \o b)[1] .. n : \A i \in 1 .. Len(a \o b) : (a \o b)[i] # e}

\* What was delivered, by its parts.
LEMMA ConcatParts ==
    ASSUME NEW a \in Seq(Nat), NEW b \in Seq(Nat)
    PROVE  /\ a \o b = <<>> <=> Nothing(a, b)
           /\ a \o b # <<>> => (a \o b)[1] = First(a, b)
           /\ \A e : (\A i \in 1 .. Len(a \o b) : (a \o b)[i] # e) <=> ~Has(a, b, e)
<1> DEFINE c == a \o b
<1>1. /\ Len(a \o b) = Len(a) + Len(b) /\ Len(a) \in Nat /\ Len(b) \in Nat
      /\ \A i \in 1 .. Len(a) + Len(b) :
            (a \o b)[i] = IF i <= Len(a) THEN a[i] ELSE b[i - Len(a)]
  <2>1. Len(a) \in Nat /\ Len(b) \in Nat
    BY LenProperties, Zenon
  <2> QED BY <2>1, ConcatProperties, SMTT(60), ZenonT(60)
<1>2. /\ c \in Seq(Nat) /\ Len(c) = Len(a) + Len(b)
      /\ \A i \in 1 .. Len(a) + Len(b) : c[i] = IF i <= Len(a) THEN a[i] ELSE b[i - Len(a)]
  BY <1>1
<1> HIDE DEF c
<1>3. (a = <<>> <=> Len(a) = 0) /\ (b = <<>> <=> Len(b) = 0)
  BY EmptySeq
<1>4. c = <<>> <=> Len(c) = 0
  BY <1>2, EmptySeq
<1>5. c = <<>> <=> Nothing(a, b)
  BY <1>1, <1>2, <1>3, <1>4 DEF Nothing
<1>6. c # <<>> => c[1] = First(a, b)
  BY <1>1, <1>2, <1>3, <1>4, SMTT(60) DEF First
<1>7. \A e : (\A i \in 1 .. Len(c) : c[i] # e) <=> ~Has(a, b, e)
  <2>1. \A i \in 1 .. Len(c) : \/ i \in 1 .. Len(a) /\ c[i] = a[i]
                               \/ i - Len(a) \in 1 .. Len(b) /\ c[i] = b[i - Len(a)]
    BY <1>1, <1>2
  <2>2. \A i \in 1 .. Len(a) : i \in 1 .. Len(c) /\ c[i] = a[i]
    BY <1>1, <1>2
  <2>3. ASSUME NEW i \in 1 .. Len(b) PROVE i + Len(a) \in 1 .. Len(c) /\ c[i + Len(a)] = b[i]
    <3>1. /\ i + Len(a) \in 1 .. Len(c) /\ i + Len(a) \in 1 .. Len(a) + Len(b)
          /\ ~(i + Len(a) <= Len(a)) /\ (i + Len(a)) - Len(a) = i
      BY <1>1, <1>2
    <3> QED BY <1>2, <3>1
  <2> QED BY <2>1, <2>2, <2>3 DEF Has
<1> QED BY <1>5, <1>6, <1>7 DEF c

\* The gaps, by the parts of the delivery.
LEMMA GapsMeans ==
    ASSUME NEW a \in Seq(Nat), NEW b \in Seq(Nat), NEW n \in Nat
    PROVE  /\ Nothing(a, b) => Gaps(a, b, n) = 1 .. n
           /\ ~Nothing(a, b) => Gaps(a, b, n) = {e \in First(a, b) .. n : ~Has(a, b, e)}
BY ConcatParts DEF Gaps

\* The first entry of a delivery is one of its entries.
LEMMA FirstIsThere ==
    ASSUME NEW a \in Seq(Nat), NEW b \in Seq(Nat), ~Nothing(a, b)
    PROVE  First(a, b) \in Nat /\ Has(a, b, First(a, b))
<1>1. CASE a # <<>>
  <2>1. 1 \in 1 .. Len(a) /\ a[1] \in Nat
    BY <1>1
  <2> QED BY <1>1, <2>1 DEF First, Has
<1>2. CASE a = <<>>
  <2>1. 1 \in 1 .. Len(b) /\ b[1] \in Nat
    BY <1>2 DEF Nothing
  <2> QED BY <1>2, <2>1 DEF First, Has
<1> QED BY <1>1, <1>2

\* An event that moves from the channel to the client leaves no gap.
LEMMA TakeKeepsGaps ==
    ASSUME NEW a \in Seq(Nat), NEW b \in Seq(Nat), NEW n \in Nat, b # <<>>
    PROVE  /\ Gaps(Append(a, Head(b)), Tail(b), n) = Gaps(a, b, n)
           /\ ~Nothing(Append(a, Head(b)), Tail(b))
<1> DEFINE c == Append(a, Head(b))
           d == Tail(b)
<1>1. /\ Len(b) \in Nat \ {0} /\ Head(b) = b[1] /\ b[1] \in Nat
      /\ d \in Seq(Nat) /\ Len(d) = Len(b) - 1
      /\ \A i \in 1 .. Len(b) - 1 : d[i] = b[i + 1]
  BY HeadTailProperties
<1>2. /\ Len(a) \in Nat /\ c \in Seq(Nat) /\ Len(c) = Len(a) + 1
      /\ \A i \in 1 .. Len(a) + 1 : c[i] = IF i = Len(a) + 1 THEN b[1] ELSE a[i]
  BY <1>1
<1> HIDE DEF c, d
<1>3. c # <<>> /\ (a = <<>> <=> Len(a) = 0)
  BY <1>2, EmptySeq
<1>4. ~Nothing(c, d) /\ ~Nothing(a, b)
  BY <1>3 DEF Nothing
<1>5. First(c, d) = First(a, b)
  BY <1>2, <1>3 DEF First
<1>6. ASSUME NEW e PROVE Has(c, d, e) <=> Has(a, b, e)
  <2>1. (\E i \in 1 .. Len(c) : c[i] = e) <=> b[1] = e \/ \E i \in 1 .. Len(a) : a[i] = e
    <3>1. \A i \in 1 .. Len(c) : c[i] = b[1] \/ (i \in 1 .. Len(a) /\ c[i] = a[i])
      BY <1>2
    <3>2. ASSUME NEW i \in 1 .. Len(a) PROVE i \in 1 .. Len(c) /\ c[i] = a[i]
      <4>1. i \in 1 .. Len(a) + 1 /\ i # Len(a) + 1
        BY <1>2
      <4> QED BY <1>2, <4>1
    <3>3. Len(a) + 1 \in 1 .. Len(c) /\ c[Len(a) + 1] = b[1]
      BY <1>2
    <3> QED BY <3>1, <3>2, <3>3
  <2>2. (\E i \in 1 .. Len(b) : b[i] = e) <=> b[1] = e \/ \E i \in 1 .. Len(d) : d[i] = e
    <3>1. \A i \in 1 .. Len(b) : i = 1 \/ (i - 1 \in 1 .. Len(d) /\ d[i - 1] = b[i])
      BY <1>1
    <3>2. \A i \in 1 .. Len(d) : i + 1 \in 1 .. Len(b) /\ d[i] = b[i + 1]
      BY <1>1
    <3>3. 1 \in 1 .. Len(b)
      BY <1>1
    <3> QED BY <3>1, <3>2, <3>3
  <2> QED BY <2>1, <2>2 DEF Has
<1>7. Gaps(c, d, n) = Gaps(a, b, n)
  <2>1. Gaps(c, d, n) = {e \in First(c, d) .. n : ~Has(c, d, e)}
    BY <1>1, <1>2, <1>4, GapsMeans
  <2>2. Gaps(a, b, n) = {e \in First(a, b) .. n : ~Has(a, b, e)}
    BY <1>4, GapsMeans
  <2> QED BY <1>5, <1>6, <2>1, <2>2
<1> QED BY <1>4, <1>7 DEF c, d

\* Neither does the next event when the channel has room ...
LEMMA SendKeepsGaps ==
    ASSUME NEW a \in Seq(Nat), NEW b \in Seq(Nat), NEW n \in Nat, Nothing(a, b) => n = 0
    PROVE  Gaps(a, Append(b, n + 1), n + 1) \subseteq Gaps(a, b, n) /\ ~Nothing(a, Append(b, n + 1))
<1> DEFINE c == Append(b, n + 1)
<1>1. /\ Len(b) \in Nat /\ c \in Seq(Nat) /\ Len(c) = Len(b) + 1
      /\ \A i \in 1 .. Len(b) + 1 : c[i] = IF i = Len(b) + 1 THEN n + 1 ELSE b[i]
  OBVIOUS
<1> HIDE DEF c
<1>2. c # <<>> /\ (b = <<>> <=> Len(b) = 0)
  BY <1>1, EmptySeq
<1>3. ~Nothing(a, c) /\ Has(a, c, n + 1) /\ \A e : Has(a, b, e) => Has(a, c, e)
  <2>1. Len(b) + 1 \in 1 .. Len(c) /\ c[Len(b) + 1] = n + 1
    BY <1>1
  <2>2. \A i \in 1 .. Len(b) : i \in 1 .. Len(c) /\ c[i] = b[i]
    BY <1>1
  <2> QED BY <1>2, <2>1, <2>2, Zenon DEF Nothing, Has
<1>4. Gaps(a, c, n + 1) = {e \in First(a, c) .. n + 1 : ~Has(a, c, e)}
  BY <1>1, <1>3, GapsMeans
<1>5. CASE Nothing(a, b)
  <2>1. First(a, c) = n + 1
    BY <1>1, <1>2, <1>5 DEF Nothing, First
  <2> QED BY <1>3, <1>4, <2>1 DEF c
<1>6. CASE ~Nothing(a, b)
  <2>1. First(a, c) = First(a, b) /\ First(a, b) \in Nat
    BY <1>1, <1>2, <1>6, FirstIsThere DEF Nothing, First
  <2>2. Gaps(a, b, n) = {e \in First(a, b) .. n : ~Has(a, b, e)}
    BY <1>6, GapsMeans
  <2> QED BY <1>3, <1>4, <2>1, <2>2 DEF c
<1> QED BY <1>5, <1>6

\* ... and when it is full the event is the only new gap.
LEMMA DropAddsOne ==
    ASSUME NEW a \in Seq(Nat), NEW b \in Seq(Nat), NEW n \in Nat, ~Nothing(a, b)
    PROVE  Gaps(a, b, n + 1) \subseteq Gaps(a, b, n) \cup {n + 1}
<1>1. First(a, b) \in Nat
  BY FirstIsThere
<1>2. Gaps(a, b, n) = {e \in First(a, b) .. n : ~Has(a, b, e)}
  BY GapsMeans
<1>3. Gaps(a, b, n + 1) = {e \in First(a, b) .. n + 1 : ~Has(a, b, e)}
  BY GapsMeans
<1> QED BY <1>1, <1>2, <1>3

\* A replayed history has no gaps.
LEMMA WindowHasNoGaps ==
    ASSUME NEW a \in Seq(Nat), NEW b \in Seq(Nat), NEW n \in Nat
    PROVE  a = <<>> /\ Window(b, n) => Gaps(a, b, n) = {} /\ (Nothing(a, b) => n = 0)
<1>1. Len(b) \in Nat /\ (b = <<>> <=> Len(b) = 0)
  BY EmptySeq
<1>2. CASE Nothing(a, b)
  <2>1. Gaps(a, b, n) = 1 .. n
    BY <1>2, GapsMeans
  <2>2. Window(b, n) => n = 0
    BY <1>1, <1>2 DEF Window, Nothing
  <2> QED BY <2>1, <2>2
<1>3. CASE ~Nothing(a, b)
  <2>1. Gaps(a, b, n) = {e \in First(a, b) .. n : ~Has(a, b, e)}
    BY <1>3, GapsMeans
  <2>2. ASSUME a = <<>>, Window(b, n) PROVE Gaps(a, b, n) = {}
    <3>1. First(a, b) = b[1] /\ Len(b) # 0
      BY <1>1, <1>3, <2>2 DEF First, Nothing
    <3>2. b[1] = n - Len(b) + 1
      BY <1>1, <2>2, <3>1 DEF Window
    <3>3. ASSUME NEW e \in b[1] .. n PROVE Has(a, b, e)
      <4>1. e - n + Len(b) \in 1 .. Len(b)
        BY <1>1, <3>2
      <4>2. b[e - n + Len(b)] = n - Len(b) + (e - n + Len(b))
        BY <2>2, <4>1 DEF Window
      <4>3. n - Len(b) + (e - n + Len(b)) = e
        BY <1>1, <3>2
      <4>4. b[e - n + Len(b)] = e
        BY <4>2, <4>3
      <4> QED BY <4>1, <4>4, Zenon DEF Has
    <3>4. {e \in b[1] .. n : ~Has(a, b, e)} = {}
      BY <3>3, Zenon
    <3> QED BY <2>1, <3>1, <3>4
  <2> QED BY <1>3, <2>2
<1> QED BY <1>2, <1>3

-----------------------------------------------------------------------------
(* What the drops count                                                     *)

Live == {s \in subs : hpc[s] = "loop"}

\* A live stream without an event has nothing to miss, and the drops count
\* all that live streams miss.
LossInv ==
    /\ dropsTotal \in Nat
    /\ \A s \in Live : Nothing(received[s], buf[s]) => published[JobOf[s]] = 0
    /\ MissedIsCounted

\* A stream misses the gaps of its delivery.
LEMMA MissedIsGaps ==
    ASSUME NEW s \in Streams
    PROVE  /\ Missed(s) = Gaps(received[s], buf[s], published[JobOf[s]])
           /\ Missed(s)' = Gaps(received'[s], buf'[s], published'[JobOf[s]])
BY Zenon DEF Missed, Delivered, Gaps

\* Lost deliveries are finitely many, and fewer are counted as well.
LEMMA LostFinite ==
    ASSUME RegistryInv
    PROVE  IsFiniteSet(Lost) /\ Cardinality(Lost) \in Nat
<1>1. IsFiniteSet(Streams) /\ IsFiniteSet(1 .. MaxEvents)
  BY HubAssumption, FS_Interval
<1>2. IsFiniteSet(Streams \X (1 .. MaxEvents))
  BY <1>1, FS_Product
<1>3. Lost \subseteq Streams \X (1 .. MaxEvents)
  BY DEF Lost, RegistryInv
<1> QED BY <1>2, <1>3, FS_Subset, FS_CardinalityType

\* When nothing more is lost, the drops still count it.
LEMMA LostShrinks ==
    ASSUME RegistryInv, RegistryInv', LossInv, dropsTotal' = dropsTotal, Lost' \subseteq Lost
    PROVE  MissedIsCounted'
<1>1. Cardinality(Lost') <= Cardinality(Lost)
  BY LostFinite, FS_Subset
<1>2. Cardinality(Lost) \in Nat /\ Cardinality(Lost') \in Nat
  BY LostFinite, FS_Subset, FS_CardinalityType
<1> QED BY <1>1, <1>2 DEF LossInv, MissedIsCounted

\* A step after which no live stream misses more, and the streams it makes
\* live miss nothing.
LEMMA QuietStep ==
    ASSUME RegistryInv, RegistryInv', LossInv, dropsTotal' = dropsTotal,
           \A s \in Live' : /\ s \in Live => Missed(s)' \subseteq Missed(s)
                            /\ s \notin Live => Missed(s)' = {}
                            /\ Nothing(received'[s], buf'[s]) => published'[JobOf[s]] = 0
    PROVE  LossInv'
<1>1. ASSUME NEW d \in Lost' PROVE d \in Lost
  <2>1. PICK s \in subs', e \in 1 .. MaxEvents : d = <<s, e>>
    BY DEF Lost
  <2>2. hpc'[s] = "loop" /\ e \in Missed(s)'
    BY <2>1 DEF Lost
  <2>3. s \in Live'
    BY <2>2 DEF Live
  <2>4. s \in Live /\ e \in Missed(s)
    BY <2>2, <2>3
  <2> QED BY <2>1, <2>4 DEF Lost, Live
<1>2. MissedIsCounted'
  BY <1>1, LostShrinks
<1>3. dropsTotal' \in Nat
  BY DEF LossInv
<1>4. \A s \in Live' : Nothing(received'[s], buf'[s]) => published'[JobOf[s]] = 0
  OBVIOUS
<1> QED BY <1>2, <1>3, <1>4 DEF LossInv

\* A step that touches no delivery, and makes no stream live.
LEMMA MoveKeepsLoss ==
    ASSUME RegistryInv, RegistryInv', LossInv,
           UNCHANGED <<received, buf, published, dropsTotal>>, Live' \subseteq Live
    PROVE  LossInv'
<1>1. ASSUME NEW s \in Live'
      PROVE  /\ s \in Live => Missed(s)' \subseteq Missed(s)
             /\ s \notin Live => Missed(s)' = {}
             /\ Nothing(received'[s], buf'[s]) => published'[JobOf[s]] = 0
  <2>1. s \in Live /\ Missed(s)' = Missed(s)
    BY Zenon DEF Missed, Delivered
  <2>2. received'[s] = received[s] /\ buf'[s] = buf[s] /\ published' = published
    OBVIOUS
  <2> QED BY <2>1, <2>2, Zenon DEF LossInv
<1> QED BY <1>1, QuietStep

\* The handler writes an event, or fails to and ends.
LEMMA WriteKeepsLoss ==
    ASSUME RegistryInv, RegistryInv', FlowInv, LossInv, NEW s \in Streams, WriteEvent(s)
    PROVE  LossInv'
<1>1. /\ hpc[s] = "loop" /\ buf[s] # <<>> /\ buf' = [buf EXCEPT ![s] = Tail(buf[s])]
      /\ UNCHANGED <<subs, published, dropsTotal>>
      /\ \/ received' = [received EXCEPT ![s] = Append(received[s], Head(buf[s]))] /\ UNCHANGED hpc
         \/ hpc' = [hpc EXCEPT ![s] = "leave"] /\ UNCHANGED received
  BY DEF WriteEvent, hubVars
<1>2. ASSUME NEW t \in Live'
      PROVE  /\ t \in Live => Missed(t)' \subseteq Missed(t)
             /\ t \notin Live => Missed(t)' = {}
             /\ Nothing(received'[t], buf'[t]) => published'[JobOf[t]] = 0
  <2>1. t \in Streams /\ t \in Live /\ hpc'[t] = "loop"
    BY <1>1 DEF Live, RegistryInv
  <2>2. /\ buf[t] \in Seq(Nat) /\ received[t] \in Seq(Nat) /\ published[JobOf[t]] \in Nat
        /\ buf \in [Streams -> Seq(Nat)] /\ received \in [Streams -> Seq(Nat)]
    BY <2>1, HubAssumption DEF FlowInv, FlowTypes
  <2>3. CASE t = s
    <3>1. received'[t] = Append(received[t], Head(buf[t])) /\ buf'[t] = Tail(buf[t])
      BY <1>1, <2>1, <2>2, <2>3, SMTT(60), ZenonT(60) DEF RegistryInv
    <3>2. /\ Gaps(Append(received[t], Head(buf[t])), Tail(buf[t]), published[JobOf[t]])
                = Gaps(received[t], buf[t], published[JobOf[t]])
          /\ ~Nothing(Append(received[t], Head(buf[t])), Tail(buf[t]))
      BY <1>1, <2>2, <2>3, TakeKeepsGaps
    <3> QED BY <1>1, <2>1, <3>1, <3>2, MissedIsGaps
  <2>4. CASE t # s
    <3>1. received'[t] = received[t] /\ buf'[t] = buf[t]
      BY <1>1, <2>1, <2>2, <2>4
    <3> QED BY <1>1, <2>1, <3>1, MissedIsGaps DEF LossInv
  <2> QED BY <2>3, <2>4
<1> QED BY <1>1, <1>2, QuietStep

\* Subscribe returns: the stream starts with the whole history.
LEMMA ReturnKeepsLoss ==
    ASSUME RegistryInv, RegistryInv', FlowInv, LossInv, NEW s \in Streams, SubscribeReturn(s)
    PROVE  LossInv'
<1>1. /\ hpc[s] = "replay" /\ replayed[s] = Len(history[JobOf[s]])
      /\ hpc' = [hpc EXCEPT ![s] = "loop"]
      /\ UNCHANGED <<subs, buf, received, published, dropsTotal>>
  BY DEF SubscribeReturn
<1>2. /\ buf[s] \in Seq(Nat) /\ received[s] \in Seq(Nat) /\ published[JobOf[s]] \in Nat
      /\ history[JobOf[s]] \in Seq(Nat) /\ Window(history[JobOf[s]], published[JobOf[s]])
      /\ Replaying(s)
  BY <1>1, HubAssumption DEF FlowInv, FlowTypes, Flow
<1>3. received[s] = <<>> /\ buf[s] = history[JobOf[s]]
  <2>1. /\ received[s] = <<>> /\ Len(buf[s]) = Len(history[JobOf[s]])
        /\ \A i \in 1 .. Len(buf[s]) : buf[s][i] = history[JobOf[s]][i]
    BY <1>1, <1>2 DEF Replaying
  <2> QED BY <1>2, <2>1, SeqEqual
<1>4. /\ Gaps(received[s], buf[s], published[JobOf[s]]) = {}
      /\ Nothing(received[s], buf[s]) => published[JobOf[s]] = 0
  <2>1. Window(buf[s], published[JobOf[s]])
    BY <1>2, <1>3, Zenon
  <2> QED BY <1>2, <1>3, <2>1, WindowHasNoGaps, Zenon
<1>5. ASSUME NEW t \in Live'
      PROVE  /\ t \in Live => Missed(t)' \subseteq Missed(t)
             /\ t \notin Live => Missed(t)' = {}
             /\ Nothing(received'[t], buf'[t]) => published'[JobOf[t]] = 0
  <2>1. t \in Streams /\ (t # s => t \in Live) /\ s \notin Live
    BY <1>1 DEF Live, RegistryInv
  <2>2. received'[t] = received[t] /\ buf'[t] = buf[t] /\ published' = published
    BY <1>1
  <2>3. Missed(t)' = Missed(t)
    BY <2>1, <2>2, MissedIsGaps
  <2>4. CASE t = s
    BY <1>4, <2>1, <2>2, <2>3, <2>4, MissedIsGaps
  <2>5. CASE t # s
    BY <2>1, <2>2, <2>3, <2>5, Zenon DEF LossInv
  <2> QED BY <2>4, <2>5
<1> QED BY <1>1, <1>5, QuietStep

\* Publish: a stream misses the event only when its channel is full, and each
\* of those is counted.
LEMMA PublishKeepsLoss ==
    ASSUME RegistryInv, RegistryInv', FlowInv, LossInv, NEW j \in Jobs, Publish(j)
    PROVE  LossInv'
<1> DEFINE n == published[j]
           D == {s \in Watchers(j) : Full(s)}
<1>1. /\ published' = [published EXCEPT ![j] = n + 1]
      /\ buf' = [s \in Streams |->
                    IF s \in Watchers(j) /\ ~Full(s) THEN Append(buf[s], n + 1) ELSE buf[s]]
      /\ dropsTotal' = dropsTotal + Cardinality(D)
      /\ UNCHANGED <<subs, received, hpc>>
  BY DEF Publish, streamVars
<1>2. n \in Nat /\ published \in [Jobs -> Nat]
  BY DEF FlowInv, FlowTypes
<1>3. IsFiniteSet(D) /\ Cardinality(D) \in Nat
  <2>1. D \subseteq Streams
    BY DEF Watchers, RegistryInv
  <2> QED BY <2>1, HubAssumption, FS_Subset, FS_CardinalityType
<1>4. ASSUME NEW s \in Live
      PROVE  /\ Missed(s)' \subseteq Missed(s) \cup {e \in {n + 1} : s \in D}
             /\ Nothing(received'[s], buf'[s]) => published'[JobOf[s]] = 0
  <2>1. s \in Streams /\ s \in subs /\ JobOf[s] \in Jobs /\ received'[s] = received[s]
    BY <1>1, HubAssumption DEF Live, RegistryInv
  <2>2. /\ buf[s] \in Seq(Nat) /\ received[s] \in Seq(Nat)
        /\ Nothing(received[s], buf[s]) => published[JobOf[s]] = 0
    BY <2>1 DEF FlowInv, FlowTypes, LossInv
  <2>3. CASE JobOf[s] # j
    <3>1. buf'[s] = buf[s] /\ published'[JobOf[s]] = published[JobOf[s]]
      BY <1>1, <1>2, <2>1, <2>3 DEF Watchers
    <3> QED BY <2>1, <2>2, <3>1, MissedIsGaps
  <2>4. CASE JobOf[s] = j /\ ~Full(s)
    <3>1. buf'[s] = Append(buf[s], n + 1) /\ published'[JobOf[s]] = n + 1 /\ published[JobOf[s]] = n
      BY <1>1, <1>2, <2>1, <2>4 DEF Watchers
    <3> HIDE DEF n, D
    <3>2. /\ Gaps(received[s], Append(buf[s], n + 1), n + 1) \subseteq Gaps(received[s], buf[s], n)
          /\ ~Nothing(received[s], Append(buf[s], n + 1))
      BY <1>2, <2>2, <3>1, SendKeepsGaps
    <3>3. Missed(s)' \subseteq Missed(s)
      BY <2>1, <3>1, <3>2, MissedIsGaps
    <3> QED BY <2>1, <3>1, <3>2, <3>3
  <2>5. CASE JobOf[s] = j /\ Full(s)
    <3>1. /\ buf'[s] = buf[s] /\ published'[JobOf[s]] = n + 1 /\ published[JobOf[s]] = n
          /\ s \in D
      BY <1>1, <1>2, <2>1, <2>5 DEF Watchers
    <3>2. ~Nothing(received[s], buf[s])
      BY <2>2, <2>5, HubAssumption DEF Full, Nothing
    <3> HIDE DEF n, D
    <3>3. Gaps(received[s], buf[s], n + 1) \subseteq Gaps(received[s], buf[s], n) \cup {n + 1}
      BY <1>2, <2>2, <3>2, DropAddsOne
    <3>4. Missed(s)' \subseteq Missed(s) \cup {n + 1}
      BY <2>1, <3>1, <3>3, MissedIsGaps
    <3> QED BY <2>1, <3>1, <3>2, <3>4
  <2> QED BY <2>3, <2>4, <2>5
<1>5. Live' = Live
  BY <1>1 DEF Live
<1> HIDE DEF n, D
<1>6. Lost' \subseteq Lost \cup (D \X {n + 1})
  <2> SUFFICES ASSUME NEW d \in Lost' PROVE d \in Lost \/ d \in D \X {n + 1}
    OBVIOUS
  <2>1. PICK s \in subs', e \in 1 .. MaxEvents : d = <<s, e>>
    BY DEF Lost
  <2>2. hpc'[s] = "loop" /\ e \in Missed(s)'
    BY <2>1 DEF Lost
  <2>3. s \in Live'
    BY <2>2 DEF Live
  <2>4. s \in Live /\ (e \in Missed(s) \/ (s \in D /\ e = n + 1))
    BY <1>4, <1>5, <2>2, <2>3
  <2> QED BY <2>1, <2>4 DEF Lost, Live
<1>7. Cardinality(Lost') <= Cardinality(Lost) + Cardinality(D)
  <2>1. IsFiniteSet({n + 1}) /\ Cardinality({n + 1}) = 1
    BY FS_Singleton
  <2>2. IsFiniteSet(D \X {n + 1}) /\ Cardinality(D \X {n + 1}) = Cardinality(D) * 1
    BY <1>3, <2>1, FS_Product
  <2>3. IsFiniteSet(Lost) /\ Cardinality(Lost) \in Nat
    BY LostFinite
  <2>4. /\ IsFiniteSet(Lost \cup (D \X {n + 1})) /\ IsFiniteSet(Lost \cap (D \X {n + 1}))
        /\ Cardinality(Lost \cup (D \X {n + 1}))
              = Cardinality(Lost) + Cardinality(D \X {n + 1}) - Cardinality(Lost \cap (D \X {n + 1}))
    BY <2>2, <2>3, FS_Union, FS_Subset
  <2>5. Cardinality(Lost \cap (D \X {n + 1})) \in Nat
    BY <2>4, FS_CardinalityType
  <2>6. Cardinality(Lost') <= Cardinality(Lost \cup (D \X {n + 1})) /\ Cardinality(Lost') \in Nat
    BY <1>6, <2>4, FS_Subset, FS_CardinalityType
  <2> QED BY <1>3, <2>2, <2>3, <2>4, <2>5, <2>6
<1>8. Cardinality(Lost) \in Nat /\ Cardinality(Lost') \in Nat
  BY <1>6, <1>3, LostFinite, FS_Subset, FS_CardinalityType, FS_Union, FS_Product, FS_Singleton
<1>9. dropsTotal' \in Nat /\ MissedIsCounted'
  <2>1. dropsTotal \in Nat /\ Cardinality(Lost) <= dropsTotal
    BY Zenon DEF LossInv, MissedIsCounted
  <2>2. dropsTotal' = dropsTotal + Cardinality(D)
    BY <1>1, Zenon
  <2>3. dropsTotal' \in Nat /\ Cardinality(Lost') <= dropsTotal'
    BY <1>3, <1>7, <1>8, <2>1, <2>2
  <2> QED BY <2>3, Zenon DEF MissedIsCounted
<1> QED BY <1>4, <1>5, <1>9 DEF LossInv

\* No step loses what it does not count.
LEMMA LossStep ==
    RegistryInv /\ FlowInv /\ RegistryInv' /\ LossInv /\ [Next]_vars => LossInv'
<1> SUFFICES ASSUME RegistryInv, FlowInv, RegistryInv', LossInv, [Next]_vars PROVE LossInv'
  OBVIOUS
<1>1. ASSUME NEW s \in Streams, HandlerStep(s) \/ ClientGone(s) PROVE LossInv'
  <2>1. CASE WriteEvent(s)
    BY <2>1, WriteKeepsLoss
  <2>2. CASE SubscribeReturn(s)
    BY <2>2, ReturnKeepsLoss
  <2>3. CASE Replay(s)
    <3>1. /\ hpc[s] = "replay" /\ UNCHANGED <<hpc, subs, received, published, dropsTotal>>
          /\ buf' = [buf EXCEPT ![s] = Append(buf[s], history[JobOf[s]][replayed[s] + 1])]
      BY <2>3 DEF Replay, hubVars
    <3>2. ASSUME NEW t \in Live'
          PROVE  /\ t \in Live => Missed(t)' \subseteq Missed(t)
                 /\ t \notin Live => Missed(t)' = {}
                 /\ Nothing(received'[t], buf'[t]) => published'[JobOf[t]] = 0
      <4>1. t \in Live /\ t \in Streams /\ t # s
        BY <3>1 DEF Live, RegistryInv
      <4>2. buf'[t] = buf[t] /\ received'[t] = received[t] /\ published' = published
        BY <3>1, <4>1 DEF FlowInv, FlowTypes
      <4> QED BY <4>1, <4>2, MissedIsGaps DEF LossInv
    <3> QED BY <3>1, <3>2, QuietStep
  <2>4. CASE \/ Subscribe(s) \/ SubscribeRefused(s) \/ unsubscribe(s)
             \/ SubscriptionClosed(s) \/ ClientGone(s)
    <3>1. UNCHANGED <<received, buf, published, dropsTotal>>
      BY <2>4 DEF Subscribe, SubscribeRefused, unsubscribe, SubscriptionClosed, ClientGone,
         hubVars
    <3>2. \E stage \in {"replay", "leave", "done"} : hpc' = [hpc EXCEPT ![s] = stage]
      BY <2>4 DEF Subscribe, SubscribeRefused, unsubscribe, SubscriptionClosed, ClientGone
    <3>3. subs' \subseteq subs \cup {s}
      BY <2>4 DEF Subscribe, SubscribeRefused, unsubscribe, SubscriptionClosed, ClientGone,
         hubVars
    <3>4. Live' \subseteq Live
      BY <3>2, <3>3, SMTT(60), ZenonT(60) DEF Live, RegistryInv
    <3> QED BY <3>1, <3>4, MoveKeepsLoss
  <2> QED BY <1>1, <2>1, <2>2, <2>3, <2>4 DEF HandlerStep, SubscribeStep
<1>2. ASSUME NEW c \in Closers, CloseFlag(c) \/ CloseChannels(c) PROVE LossInv'
  <2>1. UNCHANGED <<received, buf, published, dropsTotal, hpc>> /\ subs' \subseteq subs
    BY <1>2 DEF CloseFlag, CloseChannels, streamVars
  <2>2. Live' \subseteq Live
    BY <2>1 DEF Live
  <2> QED BY <2>1, <2>2, MoveKeepsLoss
<1>3. ASSUME NEW j \in Jobs, Publish(j) PROVE LossInv'
  BY <1>3, PublishKeepsLoss
<1>4. CASE UNCHANGED vars
  <2>1. UNCHANGED <<received, buf, published, dropsTotal>> /\ Live' = Live
    BY <1>4 DEF vars, Live
  <2> QED BY <2>1, MoveKeepsLoss
<1> QED BY <1>1, <1>2, <1>3, <1>4 DEF Next

-----------------------------------------------------------------------------
(* What is left after Close *)

\* The call of Close that found the hub open has been through the map.  A call
\* that found it closed returns at once and may be ahead of the first one.
Swept == closed /\ \A c \in Closers : cpc[c] # "flagged"

\* No stream joins once the hub is swept, and a loop whose stream is not in
\* the map has had its channel closed.
SweepInv ==
    /\ cpc \in [Closers -> {"idle", "flagged", "done"}]
    /\ Swept => subs = {}
    /\ \A s \in Streams : hpc[s] = "loop" => s \in subs \/ chan[s] = "closed"

\* The hub as APIServer.Run leaves it.
HubIsDown ==
    Swept => /\ mu = Nobody /\ subs = {} /\ subscribers = 0
             /\ \A s \in Streams : hpc[s] # "replay" /\ (hpc[s] = "loop" => chan[s] = "closed")

\* Each step keeps it.
LEMMA SweepStep == RegistryInv /\ SweepInv /\ [Next]_vars => SweepInv'
<1> SUFFICES ASSUME RegistryInv, SweepInv, [Next]_vars PROVE SweepInv'
  OBVIOUS
<1> USE DEF SweepInv, Swept
<1>1. ASSUME NEW s \in Streams, Subscribe(s) PROVE SweepInv'
  BY <1>1 DEF Subscribe, RegistryInv, HandlerStages
<1>2. ASSUME NEW s \in Streams, SubscribeReturn(s) PROVE SweepInv'
  BY <1>2 DEF SubscribeReturn, RegistryInv, HandlerStages
<1>3. ASSUME NEW s \in Streams, unsubscribe(s) PROVE SweepInv'
  BY <1>3 DEF unsubscribe, RegistryInv, HandlerStages
<1>4. ASSUME NEW s \in Streams,
             \/ SubscribeRefused(s) \/ Replay(s) \/ WriteEvent(s) \/ SubscriptionClosed(s)
             \/ ClientGone(s)
      PROVE  SweepInv'
  <2>1. /\ UNCHANGED <<closed, cpc, subs, chan>>
        /\ UNCHANGED hpc \/ \E stage \in {"leave", "done"} : hpc' = [hpc EXCEPT ![s] = stage]
    BY <1>4, Zenon DEF SubscribeRefused, Replay, WriteEvent, SubscriptionClosed, ClientGone,
       hubVars
  <2> QED BY <2>1 DEF RegistryInv
<1>5. ASSUME NEW c \in Closers, CloseFlag(c) PROVE SweepInv'
  BY <1>5 DEF CloseFlag, streamVars
<1>6. ASSUME NEW c \in Closers, CloseChannels(c) PROVE SweepInv'
  BY <1>6 DEF CloseChannels, streamVars, RegistryInv
<1>7. ASSUME NEW j \in Jobs, Publish(j) PROVE SweepInv'
  BY <1>7 DEF Publish, streamVars
<1>8. CASE UNCHANGED vars
  BY <1>8 DEF vars
<1> QED BY <1>1, <1>2, <1>3, <1>4, <1>5, <1>6, <1>7, <1>8, Zenon
     DEF Next, HandlerStep, SubscribeStep

-----------------------------------------------------------------------------
(* The theorems                                                             *)

\* The hub starts inside both invariants.
LEMMA HubInit == Init => RegistryInv /\ FlowInv
<1> SUFFICES ASSUME Init PROVE RegistryInv /\ FlowInv
  OBVIOUS
<1>1. Joined = {} /\ Cardinality(Joined) = 0
  BY FS_EmptySet DEF Init, Joined
<1>2. RegistryInv
  BY <1>1, HubAssumption DEF Init, RegistryInv, HandlerStages
<1>3. FlowTypes
  BY DEF Init, FlowTypes
<1>4. \A j \in Jobs : Window(history[j], published[j])
  BY HubAssumption DEF Init, Window
<1>5. \A s \in Streams : Flow(s)
  BY HubAssumption DEF Init, Flow, Fresh, Ordered
<1> QED BY <1>2, <1>3, <1>4, <1>5 DEF FlowInv

\* And it stays inside.
LEMMA HubInvariant == Spec => [](RegistryInv /\ FlowInv)
BY HubInit, RegistryStep, FlowStep, PTL DEF Spec

\* No Publish ever sends on a closed channel, for any number of streams,
\* publishers and callers of Close (Hub.Publish, Hub.Close, Subscribe).
THEOREM NoSendOnClosedChannel == Spec => []RegisteredChannelIsOpen
<1>1. RegistryInv => RegisteredChannelIsOpen
  BY DEF RegistryInv, RegisteredChannelIsOpen
<1> QED BY <1>1, HubInvariant, PTL

\* The subscribers counter never drifts from the map it counts, whichever of
\* Close and unsubscribe comes first (Hub.Subscribe, Hub.Close).
THEOREM CounterNeverDrifts == Spec => []SubscribersCounted
<1>1. RegistryInv => SubscribersCounted
  <2> SUFFICES ASSUME RegistryInv, mu = Nobody PROVE subscribers = Cardinality(subs)
    BY DEF SubscribersCounted
  <2>1. Joined = subs
    BY HubAssumption DEF RegistryInv, Joined
  <2> QED BY <2>1 DEF RegistryInv
<1> QED BY <1>1, HubInvariant, PTL

\* Every client sees increasing events, none twice, across the switch from
\* replay to live events and whatever is dropped (Hub.Subscribe, Publish).
THEOREM ClientsSeeOrder == Spec => []DeliveredInOrder
<1>1. FlowInv => DeliveredInOrder
  <2> SUFFICES ASSUME FlowInv, NEW s \in Streams
               PROVE  \A i, k \in 1 .. Len(Delivered(s)) :
                        i < k => Delivered(s)[i] < Delivered(s)[k]
    BY DEF DeliveredInOrder
  <2>1. /\ received[s] \in Seq(Nat) /\ buf[s] \in Seq(Nat) /\ published[JobOf[s]] \in Nat
        /\ Ordered(received[s], buf[s], published[JobOf[s]])
    BY HubAssumption DEF FlowInv, FlowTypes, Flow
  <2> QED BY <2>1, OrderedWhole DEF Delivered
<1> QED BY <1>1, HubInvariant, PTL

\* While Subscribe replays under the hub's mutex its channel has room for the
\* rest of the history: the send never blocks and the mutex is never stuck
\* (Hub.Subscribe, recordHistory).
THEOREM ReplayNeverBlocks ==
    Spec => [](\A s \in Streams :
                hpc[s] = "replay" /\ replayed[s] < Len(history[JobOf[s]]) => ~Full(s))
<1>1. FlowInv => \A s \in Streams :
                hpc[s] = "replay" /\ replayed[s] < Len(history[JobOf[s]]) => ~Full(s)
  <2> SUFFICES ASSUME FlowInv, NEW s \in Streams, hpc[s] = "replay",
                      replayed[s] < Len(history[JobOf[s]])
               PROVE  ~Full(s)
    OBVIOUS
  <2>1. Len(buf[s]) = replayed[s] /\ replayed[s] \in Nat
    BY DEF FlowInv, FlowTypes, Flow, Replaying
  <2>2. Len(history[JobOf[s]]) <= Buffer /\ Len(history[JobOf[s]]) \in Nat
    BY HubAssumption DEF FlowInv, FlowTypes, Window
  <2>3. Len(buf[s]) < Buffer /\ Buffer \in Nat
    BY <2>1, <2>2, HubAssumption
  <2> QED BY <2>1, <2>3 DEF Full
<1> QED BY <1>1, HubInvariant, PTL

\* A subscriber that misses an event is never silent about it: for any number
\* of streams, any buffer and any interleaving of publishers, handlers and
\* Close, dropsTotal is at least the number of events that the registered
\* streams miss (Hub.Publish's default case, Subscribe's replay).
THEOREM DropsAreCounted == Spec => []MissedIsCounted
<1>1. Init => LossInv
  <2> SUFFICES ASSUME Init PROVE LossInv
    OBVIOUS
  <2>1. Lost = {} /\ Live = {}
    BY DEF Init, Lost, Live
  <2> QED BY <2>1, FS_EmptySet DEF Init, LossInv, MissedIsCounted
<1>2. LossInv => MissedIsCounted
  BY DEF LossInv
<1> QED BY <1>1, <1>2, LossStep, HubInvariant, PTL DEF Spec

\* Once the call of Close that found the hub open has returned, no stream is
\* registered or counted, none is subscribing, and every handler still in its
\* loop has a closed channel to end on, whichever Subscribe and unsubscribe
\* calls Close raced with (Hub.Close, JobHandler.Events): the hub that
\* APIServer.Run leaves behind.
THEOREM CloseLetsEveryStreamGo == Spec => []HubIsDown
<1>1. Init => SweepInv
  BY DEF Init, SweepInv, Swept
<1>2. RegistryInv /\ SweepInv => HubIsDown
  <2> SUFFICES ASSUME RegistryInv, SweepInv, Swept
               PROVE  /\ mu = Nobody /\ subs = {} /\ subscribers = 0
                      /\ \A s \in Streams : /\ hpc[s] # "replay"
                                            /\ hpc[s] = "loop" => chan[s] = "closed"
    BY Zenon DEF HubIsDown
  <2>1. subs = {}
    BY DEF SweepInv
  <2>2. mu = Nobody /\ \A s \in Streams : hpc[s] # "replay"
    BY <2>1 DEF RegistryInv
  <2>3. Joined = {}
    BY <2>1 DEF Joined
  <2>4. subscribers = 0
    BY <2>3, FS_EmptySet DEF RegistryInv
  <2> QED BY <2>1, <2>2, <2>4 DEF SweepInv
<1> QED BY <1>1, <1>2, SweepStep, HubInvariant, PTL DEF Spec
=============================================================================
