------------------------- MODULE RequestPathProofs --------------------------
(***************************************************************************)
(* For any number of connections, keys, tokens and limits: the slots of    *)
(* the bulkhead and both gauges are accounted for, data is served to the   *)
(* entitled only, the recorded status names the real cause, and the rate   *)
(* limiter lets through no more than a plain token bucket would.           *)
(*                                                                         *)
(* What one step does to its own request is the subject of                 *)
(* RequestPathHandlers.  Here are the counting, the order of the error     *)
(* mapping, and the limiter's reservations.                                *)
(***************************************************************************)
EXTENDS RequestPathHandlers, FiniteSetTheorems

-----------------------------------------------------------------------------
(* Counting                                                                 *)

One(condition) == IF condition THEN 1 ELSE 0

HoldsSlot(q) == q.path \in ApiPaths /\ q.pc \in Inside \cup {"count"}
IsCounted(q) == q.path \in ApiPaths /\ q.pc \in Inside \cup {"uncount"}
IsBusy(q) == q.pc # "idle"
Busy == {r \in Requests : IsBusy(rq[r])}

\* Two sets of requests that differ at most in r.
LEMMA CountApart ==
    ASSUME NEW A \in SUBSET Requests, NEW B \in SUBSET Requests, NEW r, A \ {r} = B \ {r}
    PROVE  /\ Cardinality(A) \in Nat /\ Cardinality(B) \in Nat
           /\ Cardinality(B) = Cardinality(A) + One(r \in B) - One(r \in A)
<1>0. IsFiniteSet(A) /\ IsFiniteSet(B)
  BY CallersAssumption, FS_Subset
<1>1. Cardinality(A) \in Nat /\ Cardinality(B) \in Nat
  BY <1>0, FS_CardinalityType
<1>2. Cardinality(A \ {r}) = IF r \in A THEN Cardinality(A) - 1 ELSE Cardinality(A)
  BY <1>0, FS_RemoveElement
<1>3. Cardinality(B \ {r}) = IF r \in B THEN Cardinality(B) - 1 ELSE Cardinality(B)
  BY <1>0, FS_RemoveElement
<1> QED BY <1>1, <1>2, <1>3 DEF One

\* When one request moves, each count changes by what that request contributes.
LEMMA CountsMove ==
    ASSUME NEW r \in Requests, Others(r)
    PROVE  /\ Cardinality(Holding) \in Nat /\ Cardinality(Counted) \in Nat
           /\ Cardinality(Busy) \in Nat
           /\ Cardinality(Holding') = Cardinality(Holding)
                    + One(HoldsSlot(rq'[r])) - One(HoldsSlot(rq[r]))
           /\ Cardinality(Counted') = Cardinality(Counted)
                    + One(IsCounted(rq'[r])) - One(IsCounted(rq[r]))
           /\ Cardinality(Busy') = Cardinality(Busy)
                    + One(IsBusy(rq'[r])) - One(IsBusy(rq[r]))
<1>1. /\ Cardinality(Holding) \in Nat /\ Cardinality(Holding')
            = Cardinality(Holding) + One(r \in Holding') - One(r \in Holding)
  <2>1. Holding \in SUBSET Requests /\ Holding' \in SUBSET Requests
    BY DEF Holding
  <2>2. Holding \ {r} = Holding' \ {r}
    BY DEF Holding, Others
  <2> QED BY <2>1, <2>2, CountApart
<1>2. /\ Cardinality(Counted) \in Nat /\ Cardinality(Counted')
            = Cardinality(Counted) + One(r \in Counted') - One(r \in Counted)
  <2>1. Counted \in SUBSET Requests /\ Counted' \in SUBSET Requests
    BY DEF Counted
  <2>2. Counted \ {r} = Counted' \ {r}
    BY DEF Counted, Others
  <2> QED BY <2>1, <2>2, CountApart
<1>3. /\ Cardinality(Busy) \in Nat /\ Cardinality(Busy')
            = Cardinality(Busy) + One(r \in Busy') - One(r \in Busy)
  <2>1. Busy \in SUBSET Requests /\ Busy' \in SUBSET Requests
    BY DEF Busy
  <2>2. Busy \ {r} = Busy' \ {r}
    BY DEF Busy, Others, IsBusy
  <2> QED BY <2>1, <2>2, CountApart
<1>4. /\ r \in Holding <=> HoldsSlot(rq[r])
      /\ r \in Holding' <=> HoldsSlot(rq'[r])
  BY DEF Holding, HoldsSlot
<1>5. /\ r \in Counted <=> IsCounted(rq[r])
      /\ r \in Counted' <=> IsCounted(rq'[r])
  BY DEF Counted, IsCounted
<1>6. /\ r \in Busy <=> IsBusy(rq[r])
      /\ r \in Busy' <=> IsBusy(rq'[r])
  BY DEF Busy, IsBusy
<1> QED BY <1>1, <1>2, <1>3, <1>4, <1>5, <1>6 DEF One

\* A step of r keeps the local invariant, and the semaphore and the gauges
\* move by what r contributes to each.
Balanced(r) ==
    /\ rq' \in [Requests -> RequestRecord] /\ Others(r) /\ RequestInv(rq'[r])
    /\ sem' = sem + One(HoldsSlot(rq'[r])) - One(HoldsSlot(rq[r]))
    /\ inFlight' = inFlight + One(IsCounted(rq'[r])) - One(IsCounted(rq[r]))
    /\ httpInFlight' = httpInFlight + One(IsBusy(rq'[r])) - One(IsBusy(rq[r]))
    /\ maxParallel' = maxParallel /\ sem' <= maxParallel

\* The semaphore and the gauges are numbers within the limit.
LEMMA SlotsAreNumbers ==
    ASSUME IInv
    PROVE  sem \in Nat /\ inFlight \in Nat /\ httpInFlight \in Nat /\ sem <= maxParallel
<1>1. Holding \in SUBSET Requests /\ Counted \in SUBSET Requests
      /\ {r \in Requests : rq[r].pc # "idle"} \in SUBSET Requests
  BY DEF Holding, Counted
<1>2. \A S \in SUBSET Requests : Cardinality(S) \in Nat
  BY CallersAssumption, FS_Subset, FS_CardinalityType
<1> QED BY <1>1, <1>2 DEF IInv, SlotsAccountedFor

\* Behind the limiter a request contributes what it did before.
LEMMA HandlerBalanced ==
    ASSUME IInv, NEW r \in Requests, HandlerStep(r)
    PROVE  Balanced(r)
<1>1. /\ HoldsSlot(rq'[r]) <=> HoldsSlot(rq[r])
      /\ IsCounted(rq'[r]) <=> IsCounted(rq[r])
      /\ IsBusy(rq'[r]) <=> IsBusy(rq[r])
  BY DEF HandlerStep, HoldsSlot, IsCounted, IsBusy, Handlers, Unwind, Inside
<1>2. UNCHANGED <<sem, inFlight, httpInFlight, maxParallel>>
  BY DEF HandlerStep, bulkheadVars
<1> QED BY <1>1, <1>2, SlotsAreNumbers DEF HandlerStep, Balanced, One

\* What the stages outside the handlers contribute.
LEMMA StagesContribute ==
    ASSUME NEW q, q.pc \in Stages
    PROVE  /\ q.pc \in {"bulkhead", "problem", "observe", "idle", "uncount"} => ~HoldsSlot(q)
           /\ q.path \in ApiPaths /\ q.pc \in {"count", "reserve", "delay", "cancel", "authn",
                                               "release"} => HoldsSlot(q)
           /\ q.pc \in {"bulkhead", "problem", "observe", "idle", "count"} => ~IsCounted(q)
           /\ q.path \in ApiPaths /\ q.pc \in {"uncount", "reserve", "delay", "cancel", "authn",
                                               "release"} => IsCounted(q)
           /\ q.path \notin ApiPaths => ~HoldsSlot(q) /\ ~IsCounted(q)
           /\ IsBusy(q) <=> q.pc # "idle"
BY DEF HoldsSlot, IsCounted, IsBusy, Inside

\* The steps of the bulkhead, the limiter and the error mapping are balanced.
LEMMA PassBalanced ==
    ASSUME IInv, NEW r \in Requests
    PROVE  /\ Acquire(r) => Balanced(r)
           /\ Count(r) => Balanced(r)
           /\ Reserve(r) => Balanced(r)
           /\ Delay(r) => Balanced(r)
           /\ Cancel(r) => Balanced(r)
           /\ Release(r) => Balanced(r)
           /\ Uncount(r) => Balanced(r)
           /\ WriteProblem(r) => Balanced(r)
<1>1. LocalInv /\ tokens \in Int /\ maxParallel \in Nat /\ RequestInv(rq[r])
  BY DEF IInv, LocalInv
<1>2. rq[r].pc \in Stages
  BY <1>1 DEF LocalInv, RequestRecord
<1>3. \A from, to : Passes(r, from, to) => rq'[r].pc \in Stages
  BY DEF Passes, RequestRecord
<1>4. rq[r].pc \in {"bulkhead", "count", "reserve", "delay", "cancel", "release", "uncount"}
        => rq[r].path \in ApiPaths
  BY <1>1 DEF RequestInv
<1>5. ASSUME Acquire(r) PROVE Balanced(r)
  <2>1. UNCHANGED <<maxParallel, inFlight, httpInFlight>>
    BY <1>5 DEF Acquire
  <2>2. CASE sem < maxParallel /\ sem' = sem + 1 /\ Passes(r, "bulkhead", "count")
    BY <1>1, <1>2, <1>3, <1>4, <2>1, <2>2, SlotsAreNumbers, StagesContribute
    DEF Passes, Balanced, One
  <2>3. CASE sem' = sem /\ Passes(r, "bulkhead", "problem")
    BY <1>1, <1>2, <1>3, <1>4, <2>1, <2>3, SlotsAreNumbers, StagesContribute
    DEF Passes, Balanced, One
  <2> QED BY <1>1, <1>5, <2>2, <2>3, BulkheadPasses
<1>6. ASSUME Count(r) PROVE Balanced(r)
  <2>1. Passes(r, "count", "reserve") /\ inFlight' = inFlight + 1
        /\ UNCHANGED <<maxParallel, sem, httpInFlight>>
    BY <1>1, <1>6, BulkheadPasses DEF Count
  <2> QED BY <1>1, <1>2, <1>3, <1>4, <2>1, SlotsAreNumbers, StagesContribute
      DEF Passes, Balanced, One
<1>7. ASSUME Release(r) PROVE Balanced(r)
  <2>1. Passes(r, "release", "uncount") /\ sem' = sem - 1
        /\ UNCHANGED <<maxParallel, inFlight, httpInFlight>>
    BY <1>1, <1>7, BulkheadPasses DEF Release
  <2> QED BY <1>1, <1>2, <1>3, <1>4, <2>1, SlotsAreNumbers, StagesContribute
      DEF Passes, Balanced, One
<1>8. ASSUME Uncount(r) PROVE Balanced(r)
  <2>1. Passes(r, "uncount", "problem") /\ inFlight' = inFlight - 1
        /\ UNCHANGED <<maxParallel, sem, httpInFlight>>
    BY <1>1, <1>8, BulkheadPasses DEF Uncount
  <2> QED BY <1>1, <1>2, <1>3, <1>4, <2>1, SlotsAreNumbers, StagesContribute
      DEF Passes, Balanced, One
<1>9. ASSUME NEW from, NEW to, Passes(r, from, to), UNCHANGED <<bulkheadVars, httpInFlight>>,
             \/ from \in {"reserve", "delay", "cancel"} /\ to \in {"delay", "cancel", "authn", "release"}
             \/ from = "problem" /\ to = "observe"
      PROVE  Balanced(r)
  <2>1. UNCHANGED <<maxParallel, sem, inFlight, httpInFlight>>
    BY <1>9 DEF bulkheadVars
  <2> QED BY <1>1, <1>2, <1>3, <1>4, <1>9, <2>1, SlotsAreNumbers, StagesContribute
      DEF Passes, Balanced, One
<1>10. (Reserve(r) \/ Delay(r) \/ Cancel(r)) => Balanced(r)
  BY Zenon, <1>1, <1>9, LimiterPasses DEF Reserve, Delay, Cancel
<1>11. WriteProblem(r) => Balanced(r)
  BY <1>1, <1>9, WriteProblemPasses DEF WriteProblem
<1> QED BY <1>5, <1>6, <1>7, <1>8, <1>10, <1>11

\* Every step of a request is balanced.
LEMMA StepBalanced ==
    ASSUME IInv, NEW r \in Requests, Step(r) \/ Environment(r)
    PROVE  Balanced(r)
<1>1. LocalInv
  BY DEF IInv
<1>2. CASE Arrive(r)
  <2>1. /\ rq' \in [Requests -> RequestRecord] /\ Others(r)
        /\ rq[r].pc = "idle" /\ RequestInv(rq'[r])
        /\ \/ rq'[r].pc \in {"bulkhead", "observe"}
           \/ rq'[r].pc = "authn" /\ rq'[r].path \notin ApiPaths
    BY <1>1, <1>2, ArriveEnters
  <2>2. httpInFlight' = httpInFlight + 1 /\ UNCHANGED <<maxParallel, sem, inFlight>>
    BY <1>2 DEF Arrive, bulkheadVars
  <2>3. rq[r].pc \in Stages /\ rq'[r].pc \in Stages
    BY <2>1 DEF Stages
  <2> QED BY <2>1, <2>2, <2>3, SlotsAreNumbers, StagesContribute DEF Balanced, One
<1>3. CASE Observe(r)
  <2>1. /\ rq' \in [Requests -> RequestRecord] /\ Others(r)
        /\ rq[r].pc = "observe" /\ rq'[r].pc = "idle" /\ RequestInv(rq'[r])
    BY <1>1, <1>3, ObserveForgets
  <2>2. httpInFlight' = httpInFlight - 1 /\ UNCHANGED <<maxParallel, sem, inFlight>>
    BY <1>3 DEF Observe, bulkheadVars
  <2>3. rq[r].pc \in Stages /\ rq'[r].pc \in Stages
    BY <2>1 DEF Stages
  <2> QED BY <2>1, <2>2, <2>3, SlotsAreNumbers, StagesContribute DEF Balanced, One
<1>4. CASE \/ Acquire(r) \/ Count(r) \/ Reserve(r) \/ Delay(r) \/ Cancel(r)
           \/ Release(r) \/ Uncount(r) \/ WriteProblem(r)
  BY <1>4, PassBalanced
<1>5. CASE Authenticate(r) \/ CheckPolicy(r) \/ RefuseMethod(r) \/ RefuseId(r)
  BY <1>1, <1>5, AuthenticateStep, CheckPolicyStep, RefusalStep, HandlerBalanced
<1>6. CASE \/ ServeList(r) \/ ServeUser(r) \/ ServeJob(r)
           \/ StartProfile(r) \/ StartBridge(r) \/ OpenStream(r)
  BY <1>1, <1>6, ServeStep, StartStep, HandlerBalanced
<1>7. CASE \/ NextAttempt(r) \/ AttemptAborted(r) \/ AttemptEnds(r) \/ WakeUp(r)
           \/ BridgeQueries(r) \/ BridgeAborted(r) \/ BridgeReturns(r)
  BY <1>1, <1>7, ProfileStep, BridgeStep, HandlerBalanced
<1>8. CASE \/ StreamWrite(r) \/ StreamDone(r) \/ StreamClosed(r)
           \/ Panic(r) \/ ClientGone(r)
  BY <1>1, <1>8, StreamStep, PanicStep, ClientGoneStep, HandlerBalanced
<1> QED BY Zenon, <1>2, <1>3, <1>4, <1>5, <1>6, <1>7, <1>8 DEF Step, Environment

\* A balanced step keeps the books.
LEMMA BalancedKeeps ==
    ASSUME IInv, NEW r \in Requests, Balanced(r)
    PROVE  LocalInv' /\ maxParallel' \in Nat /\ SlotsAccountedFor'
<1>1. LocalInv'
  BY DEF IInv, LocalInv, Balanced, Others
<1>2. Busy = {o \in Requests : rq[o].pc # "idle"}
      /\ Busy' = {o \in Requests : rq'[o].pc # "idle"}
  BY DEF Busy, IsBusy
<1>3. sem = Cardinality(Holding) /\ inFlight = Cardinality(Counted)
      /\ httpInFlight = Cardinality(Busy)
  BY <1>2 DEF IInv, SlotsAccountedFor
<1>4. sem' = Cardinality(Holding') /\ inFlight' = Cardinality(Counted')
      /\ httpInFlight' = Cardinality(Busy') /\ sem' <= maxParallel'
  BY <1>3, CountsMove DEF Balanced
<1> QED BY <1>1, <1>2, <1>4 DEF SlotsAccountedFor, Balanced, IInv

\* The token bucket stays a number.
LEMMA BucketTypes ==
    ASSUME IInv, Next
    PROVE  tokens' \in Int /\ lastEvent' \in Int
<1>1. tokens \in Int /\ lastEvent \in Int /\ Burst \in Int
  BY EdgeAssumption DEF IInv
<1>2. CASE Tick
  <2>1. /\ tokens' = IF tokens < Burst THEN tokens + 1 ELSE tokens
        /\ lastEvent' = Down(lastEvent, -1)
    BY Zenon, <1>2 DEF Tick
  <2> QED BY <1>1, <2>1 DEF Down
<1>3. ASSUME NEW r \in Requests, Reserve(r) PROVE tokens' \in Int /\ lastEvent' \in Int
  BY <1>1, <1>3 DEF Reserve
<1>4. ASSUME NEW r \in Requests, Cancel(r) PROVE tokens' \in Int /\ lastEvent' \in Int
  <2>1. PICK act \in Int : act = rq[r].act
    <3>1. rq[r].act \in Ticks
      BY DEF IInv, LocalInv, RequestRecord
    <3> QED BY <3>1 DEF Ticks
  <2>2. /\ \/ tokens' = tokens \/ tokens' = Burst
           \/ tokens' = tokens + (1 - (lastEvent - rq[r].act))
        /\ lastEvent' = lastEvent \/ lastEvent' = rq[r].act - 1
    BY Zenon, <1>4 DEF Cancel
  <2> QED BY <1>1, <2>1, <2>2
<1>5. ASSUME NEW r \in Requests, Step(r) \/ Environment(r), ~Reserve(r), ~Cancel(r)
      PROVE  UNCHANGED <<tokens, lastEvent>>
  BY <1>5, Zenon DEF Step, Environment, bucketVars, Arrive, ClientGone, Acquire, Count, Release,
              Uncount, Delay, Authenticate, CheckPolicy, RefuseMethod, RefuseId, Handling,
              ServeList, ServeUser, ServeJob, StartProfile, NextAttempt, AttemptAborted,
              AttemptEnds, WakeUp, StartBridge, BridgeQueries, BridgeAborted, BridgeReturns,
         OpenStream,
              StreamWrite, StreamDone, StreamClosed, Panic, WriteProblem, Observe
<1> QED BY <1>1, <1>2, <1>3, <1>4, <1>5 DEF Next

\* The initial state satisfies the invariant.
LEMMA InitInvariant == Init => IInv
<1> SUFFICES ASSUME Init PROVE IInv
  OBVIOUS
<1>1. LocalInv
  BY IdleIsSound DEF Init, LocalInv
<1>2. maxParallel \in Nat /\ tokens \in Int /\ lastEvent \in Int
  BY EdgeAssumption DEF Init
<1>3. \A r \in Requests : rq[r].pc = "idle"
  BY IdleIsSound DEF Init
<1>4. Holding = {} /\ Counted = {} /\ {r \in Requests : rq[r].pc # "idle"} = {}
  BY <1>3 DEF Holding, Counted, Inside
<1>5. SlotsAccountedFor
  BY <1>2, <1>4, FS_EmptySet DEF SlotsAccountedFor, Init
<1> QED BY <1>1, <1>2, <1>5 DEF IInv

\* Every step keeps it.
LEMMA NextInvariant == IInv /\ [Next]_vars => IInv'
<1> SUFFICES ASSUME IInv, [Next]_vars PROVE IInv'
  OBVIOUS
<1>1. CASE UNCHANGED vars
  BY <1>1 DEF vars, IInv, LocalInv, SlotsAccountedFor, Holding, Counted
<1>2. ASSUME Next PROVE tokens' \in Int /\ lastEvent' \in Int
  BY <1>2, BucketTypes
<1>3. CASE Tick
  <2>1. /\ rq' \in [Requests -> RequestRecord]
        /\ \A r \in Requests : /\ rq'[r].pc = rq[r].pc /\ rq'[r].path = rq[r].path
                               /\ RequestInv(rq'[r])
    BY <1>3, TickKeeps DEF IInv
  <2>2. Holding' = Holding /\ Counted' = Counted
        /\ {r \in Requests : rq'[r].pc # "idle"} = {r \in Requests : rq[r].pc # "idle"}
    BY <2>1 DEF Holding, Counted
  <2>3. UNCHANGED <<maxParallel, sem, inFlight, httpInFlight>>
    BY Zenon, <1>3 DEF Tick, bulkheadVars
  <2>4. SlotsAccountedFor'
    BY Zenon, <2>2, <2>3 DEF IInv, SlotsAccountedFor
  <2> QED BY <1>2, <1>3, <2>1, <2>3, <2>4 DEF Next, IInv, LocalInv
<1>4. ASSUME NEW r \in Requests, Step(r) \/ Environment(r) PROVE IInv'
  BY <1>2, <1>4, StepBalanced, BalancedKeeps DEF Next, IInv
<1> QED BY <1>1, <1>3, <1>4 DEF Next

\* Whatever the number of connections, the limit and the policy of retries,
\* and however requests end - refused, failed, cancelled or by a panic - every
\* slot of the bulkhead and every unit of both gauges belongs to a request
\* that is still inside (bulkhead.go, metrics.go).
THEOREM SlotsAreAccountedFor == Spec => []SlotsAccountedFor
<1>1. IInv => SlotsAccountedFor
  BY DEF IInv
<1> QED BY <1>1, InitInvariant, NextInvariant, PTL DEF Spec

\* For every set of headers and every key ring, no data leaves the service
\* and no work is done but for the bearer of a genuine token that names an
\* administrator or the owner (the authn, rbac and handler chain).
THEOREM DataIsGuarded == Spec => []DataNeedsAuthority
<1>1. IInv => DataNeedsAuthority
  <2> SUFFICES ASSUME IInv, NEW r \in Requests, rq[r].path \in Guarded,
                      \/ rq[r].wire \in {200, 304} /\ rq[r].err = {}
                      \/ rq[r].pc \in {"loop", "attempt", "backoff", "stream"}
               PROVE  rq[r].header.form = "bearer" /\ Entitled(rq[r].header, rq[r].path)
    BY DEF DataNeedsAuthority, Guarded
  <2>1. RequestInv(rq[r])
    BY DEF IInv, LocalInv
  <2>2. Owns(rq[r])
    BY <2>1, SMTT(60) DEF RequestInv, Leaving
  <2> QED BY <2>2 DEF Owns
<1> QED BY <1>1, InitInvariant, NextInvariant, PTL DEF Spec

-----------------------------------------------------------------------------
(* The error mapping                                                        *)

\* A rule that names the cause of its status: 408 a client that has gone, 504
\* the bridge's deadline, 429 the limiter, and none of them a success.
Fair(rule) ==
    /\ rule[2] \notin {0, 200}
    /\ rule[2] = 408 => rule[1] \in Canceled
    /\ rule[2] = 504 => rule[1] = "grpcTimeout"
    /\ rule[2] = 429 => rule[1] = "rateLimit"

\* All thirty do.
LEMMA RulesAreFair == DOMAIN Rules = 1 .. 30 /\ \A i \in 1 .. 30 : Fair(Rules[i])
<1> DEFINE S == {TransportRules[i] : i \in 1 .. 13} \cup {DomainRules[i] : i \in 1 .. 17}
<1>1. /\ Len(TransportRules) = 13 /\ DOMAIN TransportRules = 1 .. 13
      /\ \A i \in 1 .. 13 : Fair(TransportRules[i])
  BY DEF TransportRules, Fair, Canceled
<1>2. /\ Len(DomainRules) = 17 /\ DOMAIN DomainRules = 1 .. 17
      /\ \A i \in 1 .. 17 : Fair(DomainRules[i])
  BY DEF DomainRules, Fair, Canceled
<1>3. TransportRules = [i \in 1 .. 13 |-> TransportRules[i]]
  BY DEF TransportRules
<1>4. DomainRules = [i \in 1 .. 17 |-> DomainRules[i]]
  BY DEF DomainRules
<1>5. TransportRules \in Seq(S) /\ DomainRules \in Seq(S)
  BY <1>3, <1>4
<1>6. PICK a \in Seq(S), b \in Seq(S) : a = TransportRules /\ b = DomainRules
  BY <1>5
<1> HIDE DEF S
<1>7. /\ Len(a) = 13 /\ \A i \in 1 .. 13 : Fair(a[i])
      /\ Len(b) = 17 /\ \A i \in 1 .. 17 : Fair(b[i])
  BY <1>1, <1>2, <1>6
<1>8. PICK c : c = a \o b
  OBVIOUS
<1>9. /\ DOMAIN c = 1 .. Len(a) + Len(b)
      /\ \A i \in 1 .. Len(a) + Len(b) : c[i] = IF i <= Len(a) THEN a[i] ELSE b[i - Len(a)]
  BY <1>8
<1>10. /\ DOMAIN c = 1 .. 30
       /\ \A i \in 1 .. 30 : c[i] = IF i <= 13 THEN a[i] ELSE b[i - 13]
  <2>1. 13 + 17 = 30
    OBVIOUS
  <2> QED BY Zenon, <1>7, <1>9, <2>1
<1>11. ASSUME NEW i \in 1 .. 30 PROVE Fair(c[i])
  <2>1. CASE i <= 13
    <3>1. i \in 1 .. 13
      BY <2>1
    <3> QED BY <1>7, <1>10, <2>1, <3>1
  <2>2. CASE ~(i <= 13)
    <3>1. i - 13 \in 1 .. 17
      BY <2>2
    <3> QED BY <1>7, <1>10, <2>2, <3>1
  <2> QED BY <2>1, <2>2
<1> QED BY Zenon, <1>6, <1>8, <1>10, <1>11 DEF Rules

\* A set of numbers that is not empty has a least element.
LEMMA Smallest ==
    ASSUME NEW S \in SUBSET Nat, S # {}
    PROVE  \E i \in S : \A j \in S : i <= j
<1> DEFINE R == OpToRel(<, Nat)
<1>1. IsWellFoundedOn(R, Nat)
  BY NatLessThanWellFounded
<1>2. \A x, y \in Nat : x < y => <<x, y>> \in R
  BY DEF OpToRel
<1> HIDE DEF R
<1>3. PICK x \in S : \A y \in S : ~(<<y, x>> \in R)
  BY <1>1, WFMin, Zenon
<1>4. ASSUME NEW y \in S PROVE x <= y
  <2>1. ~(y < x)
    BY <1>2, <1>3
  <2> QED BY <2>1
<1> QED BY <1>4

\* The status of an error names its cause (MapError).
LEMMA MapErrorIsFair ==
    ASSUME NEW e
    PROVE  /\ MapError(e) \notin {0, 200}
           /\ MapError(e) = 408 => e \cap Canceled # {}
           /\ MapError(e) = 504 => "grpcTimeout" \in e
           /\ MapError(e) = 429 => "rateLimit" \in e
<1> DEFINE hits == {i \in DOMAIN Rules : Rules[i][1] \in e}
           first == CHOOSE i \in hits : \A j \in hits : i <= j
<1>1. CASE hits = {}
  <2>1. MapError(e) = 500
    BY Zenon, <1>1 DEF MapError
  <2> QED BY <2>1
<1>2. CASE hits # {}
  <2>1. hits \in SUBSET Nat
    BY RulesAreFair
  <2>2. first \in hits
    <3>1. \E i \in hits : \A j \in hits : i <= j
      <4> HIDE DEF hits
      <4> QED BY <1>2, <2>1, Smallest
    <3> QED BY Zenon, <3>1
  <2>3. MapError(e) = Rules[first][2]
    BY Zenon, <1>2 DEF MapError
  <2>4. first \in 1 .. 30 /\ Rules[first][1] \in e
    BY <2>2, RulesAreFair, Zenon
  <2> HIDE DEF first
  <2>5. Fair(Rules[first])
    BY Zenon, <2>4, RulesAreFair
  <2> QED BY <2>3, <2>4, <2>5 DEF Fair
<1> QED BY <1>1, <1>2

-----------------------------------------------------------------------------
(* Honest statuses, after the handlers                                      *)

\* The status the mapping chooses tells the cause of the error.
LEMMA ToldAsMapped ==
    ASSUME NEW p, NEW q, Caused(p), q.wire = MapError(p.err), q.path = p.path,
           q.header = p.header, q.err = p.err, q.gone = p.gone, q.left = p.left, q.query = p.query
    PROVE  Told(q)
BY MapErrorIsFair, SMTT(60), ZenonT(60) DEF Caused, Told

\* The error mapping tells the cause.
LEMMA WriteProblemHonest ==
    ASSUME LocalInv, HonestInv, NEW r \in Requests, WriteProblem(r)
    PROVE  HonestStep(r)
<1> DEFINE q == rq[r]
           status == IF q.err = {} THEN 200
                     ELSE IF "panic" \in q.err THEN 500 ELSE MapError(q.err)
           wire == IF q.wire # 0 THEN q.wire ELSE status
<1>1. q \in RequestRecord /\ q.pc = "problem" /\ Caused(q)
  BY SMTT(60) DEF LocalInv, WriteProblem, At, HonestInv, Honest
<1>2. PICK w \in Statuses : w = wire
  <2>1. q.err \in ErrorSets /\ q.wire \in Statuses
    BY <1>1 DEF RequestRecord
  <2>2. wire \in Statuses
    <3>1. status \in Statuses
      BY <2>1, SMTT(60), ZenonT(60) DEF Statuses
    <3> HIDE DEF status
    <3> QED BY <2>1, <3>1, ZenonT(60)
  <2> HIDE DEF wire
  <2> QED BY <2>2
<1>3. SetWire(r, w, "observe")
  BY <1>2, SMTT(60), ZenonT(60) DEF WriteProblem, SetWire
<1>4. /\ Others(r) /\ rq'[r].pc = "observe" /\ rq'[r].wire = w /\ rq'[r].path = q.path
      /\ rq'[r].header = q.header /\ rq'[r].err = q.err
      /\ rq'[r].gone = q.gone /\ rq'[r].left = q.left /\ rq'[r].query = q.query
  <2>1. "observe" \in Stages
    BY DEF Stages
  <2> QED BY <1>3, <2>1, WriteAndGo, WireKeeps
<1>5. Told(rq'[r])
  <2>1. CASE q.wire # 0
    <3>1. w = q.wire
      BY <1>2, <2>1, ZenonT(60)
    <3> HIDE DEF q
    <3> QED BY <1>1, <1>4, <2>1, <3>1, ToldAsSent, ZenonT(60)
  <2>2. CASE q.wire = 0 /\ (q.err = {} \/ "panic" \in q.err)
    <3>1. w \in {200, 500} /\ (w = 200 => q.err = {})
      BY <1>2, <2>2, SMTT(60), ZenonT(60)
    <3> HIDE DEF q
    <3> QED BY <1>4, <3>1, SMTT(60), ZenonT(60) DEF Told
  <2>3. CASE q.wire = 0 /\ q.err # {} /\ "panic" \notin q.err
    <3>1. w = MapError(q.err)
      BY <1>2, <2>3
    <3> HIDE DEF q
    <3> QED BY <1>1, <1>4, <3>1, ToldAsMapped, ZenonT(60)
  <2> QED BY <2>1, <2>2, <2>3
<1> QED BY <1>4, <1>5 DEF HonestStep, Honest, Leaving

\* A request that arrives, is forgotten, or waits.
LEMMA EdgeHonest ==
    ASSUME LocalInv, HonestInv, NEW r \in Requests, Arrive(r) \/ Observe(r)
    PROVE  HonestStep(r)
<1>1. CASE Arrive(r)
  <2>1. /\ Others(r) /\ rq'[r].err = {} /\ rq'[r].header = NoHeader
        /\ rq'[r].pc \in {"bulkhead", "observe", "authn"}
        /\ rq'[r].pc = "observe" => rq'[r].wire \in EarlyStatuses \ {0}
    BY <1>1, ArriveEnters
  <2> QED BY <2>1 DEF HonestStep, Honest, Told, Leaving, EarlyStatuses
<1>2. CASE Observe(r)
  <2>1. Others(r) /\ rq'[r].pc = "idle" /\ rq'[r].err = {}
    BY <1>2, ObserveForgets, SMTT(60)
  <2> QED BY <2>1 DEF HonestStep, Honest, Leaving
<1> QED BY <1>1, <1>2

\* Time does not change what happened.
LEMMA TickHonest ==
    ASSUME LocalInv, HonestInv, Tick
    PROVE  HonestInv'
<1> SUFFICES ASSUME NEW r \in Requests PROVE Honest(rq'[r])
  BY DEF HonestInv
<1>1. /\ SameButTimers(rq'[r], rq[r])
      /\ rq[r].pc \in Leaving => rq'[r].left = rq[r].left /\ rq'[r].query = rq[r].query
  BY TickKeeps DEF Waiting, Leaving, At
<1>2. Honest(rq[r])
  BY SMTT(60) DEF HonestInv
<1>3. ASSUME rq[r].pc \in Leaving
      PROVE  (Caused(rq[r]) => Caused(rq'[r])) /\ (Told(rq[r]) => Told(rq'[r]))
  <2>1. /\ rq'[r].path = rq[r].path /\ rq'[r].header = rq[r].header
        /\ rq'[r].wire = rq[r].wire /\ rq'[r].err = rq[r].err
        /\ rq'[r].gone = rq[r].gone /\ rq'[r].left = rq[r].left /\ rq'[r].query = rq[r].query
    BY <1>1, <1>3, Zenon DEF SameButTimers
  <2>2. Caused(rq[r]) => Caused(rq'[r])
    BY <2>1, CausedStays, ZenonT(60)
  <2>3. Told(rq[r]) => Told(rq'[r])
    BY <2>1, ToldStays, ZenonT(60)
  <2> QED BY <2>2, <2>3, Zenon
<1> QED BY <1>1, <1>2, <1>3, SMTT(60), ZenonT(60) DEF SameButTimers, Honest, Leaving

\* Every step keeps statuses honest.
LEMMA HonestKept == IInv /\ HonestInv /\ [Next]_vars => HonestInv'
<1> SUFFICES ASSUME IInv, HonestInv, [Next]_vars PROVE HonestInv'
  OBVIOUS
<1>0. LocalInv
  BY DEF IInv
<1>1. CASE UNCHANGED vars
  BY <1>1 DEF vars, HonestInv
<1>2. CASE Tick
  BY <1>0, <1>2, TickHonest
<1>3. ASSUME NEW r \in Requests, Step(r) \/ Environment(r) PROVE HonestInv'
  <2>1. HonestStep(r)
    <3>1. CASE \/ Acquire(r) \/ Count(r) \/ Reserve(r) \/ Delay(r) \/ Cancel(r)
               \/ Release(r) \/ Uncount(r)
      BY <3>1, PassHonest, Zenon
    <3>2. CASE Authenticate(r) \/ CheckPolicy(r) \/ RefuseMethod(r) \/ RefuseId(r)
      BY <1>0, <3>2, AuthHonest, RefusalHonest, Zenon
    <3>3. CASE \/ ServeList(r) \/ ServeUser(r) \/ ServeJob(r)
               \/ StartProfile(r) \/ StartBridge(r) \/ OpenStream(r)
      BY <1>0, <3>3, ServeHonest, Zenon
    <3>4. CASE NextAttempt(r) \/ AttemptAborted(r) \/ AttemptEnds(r) \/ WakeUp(r)
      BY <1>0, <3>4, ProfileHonest, Zenon
    <3>5. CASE BridgeQueries(r) \/ BridgeAborted(r) \/ BridgeReturns(r) \/ ClientGone(r)
      BY <1>0, <3>5, BridgeHonest, ClientGoneHonest, Zenon
    <3>6. CASE StreamWrite(r) \/ StreamDone(r) \/ StreamClosed(r) \/ Panic(r)
      BY <1>0, <3>6, StreamHonest, Zenon
    <3>7. CASE Arrive(r) \/ Observe(r) \/ WriteProblem(r)
      BY <1>0, <3>7, EdgeHonest, WriteProblemHonest, Zenon
    <3> QED BY Zenon, <1>3, <3>1, <3>2, <3>3, <3>4, <3>5, <3>6, <3>7 DEF Step, Environment
  <2> QED BY <2>1, Zenon DEF HonestStep, HonestInv, Others
<1> QED BY <1>1, <1>2, <1>3 DEF Next

\* For any requests, limits and timeouts the recorded status names the real
\* cause: 408 only when the client had gone, 504 only when the deadline of the
\* bridge or of the job query behind it had passed, whichever is shorter, 429
\* only from the limiter, and 200 never for a failure before the header
\* (MapError, AppHandler.ServeHTTP, statusRecorder).
THEOREM StatusesAreHonest == Spec => []StatusIsHonest
<1>1. Init => HonestInv
  <2> SUFFICES ASSUME Init, NEW r \in Requests PROVE Honest(rq[r])
    BY DEF HonestInv
  <2>1. rq[r].pc = "idle" /\ rq[r].err = {}
    BY IdleIsSound DEF Init
  <2> QED BY <2>1 DEF Honest, Leaving
<1>2. HonestInv => StatusIsHonest
  BY SMTT(60), ZenonT(60) DEF HonestInv, Honest, Told, StatusIsHonest, At
<1> QED BY <1>1, <1>2, HonestKept, InitInvariant, NextInvariant, PTL DEF Spec

-----------------------------------------------------------------------------
(* The token bucket                                                         *)

\* A reservation the limiter may still have to give a token back for.
Owed(q) == (q.pc \in {"delay", "cancel"} /\ q.act >= 1) \/ (q.pc = "cancel" /\ q.act = 0)

\* A reservation whose time came between Delay and Cancel.
Overdue(q) == q.pc = "cancel" /\ q.act = 0

\* Reservations that wait act at different times, none after lastEvent, and
\* the bucket owes as many tokens as the last one waits for.  The ideal bucket
\* never has less than the limiter's, and one more for an overdue reservation.
LimiterInv ==
    /\ ideal \in Int /\ tokens <= Burst /\ ideal <= Burst
    /\ lastEvent >= 1 => lastEvent <= -tokens
    /\ \A r \in Requests : Owed(rq[r]) => rq[r].act <= lastEvent
    /\ \A r, o \in Requests : Owed(rq[r]) /\ Owed(rq[o]) /\ rq[r].act = rq[o].act => r = o
    /\ ideal >= 0 /\ ideal >= tokens
    /\ \A r \in Requests : Overdue(rq[r]) => ideal >= 1 /\ ideal >= tokens + 1

\* What the proofs read of the types.
LEMMA BucketNumbers ==
    ASSUME IInv
    PROVE  /\ tokens \in Int /\ lastEvent \in Int /\ Burst \in Nat \ {0}
           /\ \A r \in Requests : rq[r].act \in Int
BY EdgeAssumption, SMTT(60) DEF IInv, LocalInv, RequestRecord, Ticks

\* Outside the limiter's own steps nothing about a reservation changes.
LEMMA LimiterFrame ==
    ASSUME IInv, NEW r \in Requests, Step(r) \/ Environment(r),
           ~Reserve(r), ~Delay(r), ~Cancel(r)
    PROVE  /\ UNCHANGED <<tokens, lastEvent, ideal>> /\ Others(r)
           /\ rq[r].pc \notin {"delay", "cancel"} /\ rq'[r].pc \notin {"delay", "cancel"}
<1>0. LocalInv
  BY DEF IInv
<1>1. UNCHANGED <<tokens, lastEvent, ideal>>
  BY ZenonT(40) DEF Step, Environment, bucketVars, Arrive, ClientGone, Acquire, Count, Release,
         Uncount, Authenticate, CheckPolicy, RefuseMethod, RefuseId, Handling,
         ServeList, ServeUser, ServeJob, StartProfile, NextAttempt, AttemptAborted,
         AttemptEnds, WakeUp, StartBridge, BridgeQueries, BridgeAborted, BridgeReturns,
         OpenStream,
         StreamWrite, StreamDone, StreamClosed, Panic, WriteProblem, Observe
<1>2. HandlerStep(r) => /\ Others(r) /\ rq[r].pc \notin {"delay", "cancel"}
                        /\ rq'[r].pc \notin {"delay", "cancel"}
  BY DEF HandlerStep, Handlers, Unwind
<1>3. \/ HandlerStep(r) \/ Arrive(r) \/ Observe(r) \/ WriteProblem(r)
      \/ Acquire(r) \/ Count(r) \/ Release(r) \/ Uncount(r)
  <2>1. CASE Authenticate(r) \/ CheckPolicy(r) \/ RefuseMethod(r) \/ RefuseId(r)
    BY <1>0, <2>1, AuthenticateStep, CheckPolicyStep, RefusalStep, Zenon
  <2>2. CASE \/ ServeList(r) \/ ServeUser(r) \/ ServeJob(r)
             \/ StartProfile(r) \/ StartBridge(r) \/ OpenStream(r)
    BY <1>0, <2>2, ServeStep, StartStep, Zenon
  <2>3. CASE \/ NextAttempt(r) \/ AttemptAborted(r) \/ AttemptEnds(r) \/ WakeUp(r)
             \/ BridgeQueries(r) \/ BridgeAborted(r) \/ BridgeReturns(r)
    BY <1>0, <2>3, ProfileStep, BridgeStep, Zenon
  <2>4. CASE \/ StreamWrite(r) \/ StreamDone(r) \/ StreamClosed(r)
             \/ Panic(r) \/ ClientGone(r)
    BY <1>0, <2>4, StreamStep, PanicStep, ClientGoneStep, Zenon
  <2> QED BY Zenon, <2>1, <2>2, <2>3, <2>4 DEF Step, Environment
<1>4. ASSUME NEW from, NEW to, Passes(r, from, to), from \notin {"delay", "cancel"},
             to \notin {"delay", "cancel"}
      PROVE  /\ Others(r) /\ rq[r].pc \notin {"delay", "cancel"}
             /\ rq'[r].pc \notin {"delay", "cancel"}
  BY <1>4, SMTT(60) DEF Passes
<1>5. CASE Arrive(r)
  BY <1>0, <1>1, <1>5, ArriveEnters, SMTT(60), ZenonT(60)
<1>6. CASE Observe(r)
  BY <1>0, <1>1, <1>6, ObserveForgets, SMTT(60), ZenonT(60)
<1>7. CASE WriteProblem(r)
  BY <1>0, <1>1, <1>4, <1>7, WriteProblemPasses, SMTT(60), ZenonT(60)
<1>8. CASE Acquire(r) \/ Count(r) \/ Release(r) \/ Uncount(r)
  BY <1>0, <1>1, <1>4, <1>8, BulkheadPasses
<1> QED BY <1>1, <1>2, <1>3, <1>5, <1>6, <1>7, <1>8

\* What the limiter's steps do to the request that takes them.
LEMMA LimiterMoves ==
    ASSUME IInv, NEW r \in Requests, Reserve(r) \/ Delay(r) \/ Cancel(r)
    PROVE  /\ Others(r)
           /\ Reserve(r) => /\ rq[r].pc = "reserve" /\ rq'[r].pc = "delay"
                            /\ rq'[r].act = IF tokens >= 1 THEN 0 ELSE 1 - tokens
           /\ Delay(r) => /\ rq[r].pc = "delay"
                          /\ \/ rq[r].act > 0 /\ rq'[r].act = rq[r].act /\ rq'[r].pc = "cancel"
                             \/ ~(rq[r].act > 0) /\ rq'[r].pc = "authn"
           /\ Cancel(r) => rq[r].pc = "cancel" /\ rq'[r].pc = "release"
<1>0. LocalInv /\ tokens \in Int
  BY DEF IInv
<1>1. ASSUME NEW n \in Ticks, NEW stage \in Stages, SetAct(r, n, stage)
      PROVE  Others(r) /\ rq'[r].pc = stage /\ rq'[r].act = n
  BY <1>0, <1>1 DEF SetAct, LocalInv, RequestRecord, Others
<1>2. {"delay", "cancel", "authn"} \subseteq Stages
  BY DEF Stages
<1>3. CASE Reserve(r)
  <2> DEFINE act == IF tokens >= 1 THEN 0 ELSE 1 - tokens
  <2>1. act \in Ticks
    BY <1>0 DEF Ticks
  <2>2. SetAct(r, act, "delay") /\ rq[r].pc = "reserve"
    BY <1>3, Zenon DEF Reserve, SetAct, At
  <2>3. ~Delay(r) /\ ~Cancel(r)
    BY <2>2 DEF Delay, Cancel, At
  <2> HIDE DEF act
  <2>4. Others(r) /\ rq'[r].pc = "delay" /\ rq'[r].act = act
    BY <1>1, <1>2, <2>1, <2>2, SMTT(60)
  <2> QED BY <2>2, <2>3, <2>4, Zenon DEF act
<1>4. CASE Delay(r)
  <2>1. rq[r].act \in Ticks /\ -1 \in Ticks
    BY <1>0 DEF LocalInv, RequestRecord, Ticks
  <2>2. /\ rq[r].pc = "delay"
        /\ \/ rq[r].act > 0 /\ SetAct(r, rq[r].act, "cancel")
           \/ ~(rq[r].act > 0) /\ SetAct(r, -1, "authn")
    BY <1>4 DEF Delay, SetAct, At
  <2>3. ~Reserve(r) /\ ~Cancel(r)
    BY <2>2 DEF Reserve, Cancel, At
  <2> QED BY <1>1, <1>2, <2>1, <2>2, <2>3
<1>5. CASE Cancel(r)
  <2>1. rq[r].pc = "cancel"
    BY <1>5 DEF Cancel, At
  <2>2. ~Reserve(r) /\ ~Delay(r)
    BY <2>1 DEF Reserve, Delay, At
  <2>3. Passes(r, "cancel", "release")
    BY <1>0, <1>5, LimiterPasses
  <2> QED BY <2>1, <2>2, <2>3 DEF Passes
<1> QED BY <1>3, <1>4, <1>5, Zenon

\* A step that owes nothing new and leaves the bucket alone keeps the books.
LEMMA NothingOwed ==
    ASSUME IInv, LimiterInv, NEW r \in Requests, Others(r),
           UNCHANGED <<tokens, lastEvent, ideal>>, ~Overdue(rq'[r]),
           Owed(rq'[r]) => Owed(rq[r]) /\ rq'[r].act = rq[r].act
    PROVE  LimiterInv'
<1>1. \A o \in Requests : /\ Owed(rq'[o]) => Owed(rq[o]) /\ rq'[o].act = rq[o].act
                          /\ Overdue(rq'[o]) => Overdue(rq[o])
  BY SMTT(60) DEF Others
<1> QED BY <1>1, Zenon DEF LimiterInv

\* Reserve: an immediate token is one the ideal bucket has, and a reservation
\* that waits acts after every other.
LEMMA ReserveConforms ==
    ASSUME IInv, LimiterInv, NEW r \in Requests, Reserve(r)
    PROVE  LimiterInv'
<1>0. /\ tokens \in Int /\ lastEvent \in Int /\ ideal \in Int /\ Burst \in Nat \ {0}
      /\ \A o \in Requests : rq[o].act \in Int
  BY BucketNumbers DEF LimiterInv
<1>1. PICK act \in Int : act = IF tokens >= 1 THEN 0 ELSE 1 - tokens
  BY <1>0
<1>2. /\ Others(r) /\ rq[r].pc = "reserve" /\ rq'[r].pc = "delay" /\ rq'[r].act = act
      /\ lastEvent' = act /\ ideal' = (IF act = 0 THEN ideal - 1 ELSE ideal)
      /\ tokens' = tokens - 1
  <2>1. /\ lastEvent' = act /\ ideal' = (IF act = 0 THEN ideal - 1 ELSE ideal)
        /\ tokens' = tokens - 1
    BY <1>1, Zenon DEF Reserve
  <2>2. /\ Others(r) /\ rq[r].pc = "reserve" /\ rq'[r].pc = "delay" /\ rq'[r].act = act
    BY <1>1, LimiterMoves, Zenon
  <2> QED BY <2>1, <2>2
<1>3. /\ ideal' \in Int /\ tokens' <= Burst /\ ideal' <= Burst /\ ideal' >= 0
      /\ ideal' >= tokens' /\ (lastEvent' >= 1 => lastEvent' <= -tokens')
  BY <1>0, <1>1, <1>2 DEF LimiterInv
<1>4. \A o \in Requests \ {r} : rq'[o] = rq[o]
  BY <1>2 DEF Others
<1>5. ASSUME NEW o \in Requests, Owed(rq[o]) 
      PROVE  rq[o].act < act \/ (act = 0 /\ rq[o].act <= 0)
  <2>1. rq[o].act <= lastEvent
    BY <1>5 DEF LimiterInv
  <2>2. lastEvent >= 1 => lastEvent <= -tokens
    BY DEF LimiterInv
  <2>3. PICK a \in Int : a = rq[o].act
    BY <1>0
  <2>4. CASE tokens >= 1
    <3>1. act = 0 /\ a <= 0
      BY <1>0, <1>1, <2>1, <2>2, <2>3, <2>4
    <3> QED BY <2>3, <3>1
  <2>5. CASE ~(tokens >= 1)
    <3>1. a < act
      BY <1>0, <1>1, <2>1, <2>2, <2>3, <2>5
    <3> QED BY <2>3, <3>1
  <2> QED BY <2>4, <2>5
<1>6. Owed(rq'[r]) => act >= 1
  BY <1>2 DEF Owed
<1>7. ASSUME NEW o \in Requests, Owed(rq'[o]) PROVE rq'[o].act <= lastEvent'
  <2>1. CASE o = r
    BY <1>2, <2>1
  <2>2. CASE o # r
    BY <1>0, <1>1, <1>2, <1>4, <1>5, <1>7, <2>2, SMTT(60)
  <2> QED BY <2>1, <2>2
<1>8. ASSUME NEW o \in Requests, NEW p \in Requests, Owed(rq'[o]), Owed(rq'[p]),
             rq'[o].act = rq'[p].act
      PROVE  o = p
  <2>1. CASE o # r /\ p # r
    BY <1>4, <1>8, <2>1 DEF LimiterInv
  <2>2. ASSUME NEW q \in Requests \ {r}, Owed(rq'[q]), Owed(rq'[r]), rq'[q].act = rq'[r].act
        PROVE  FALSE
    BY <1>0, <1>2, <1>4, <1>5, <1>6, <2>2, SMTT(60)
  <2> QED BY <1>8, <2>1, <2>2
<1>9. ASSUME NEW o \in Requests, Overdue(rq'[o]) PROVE ideal' >= 1 /\ ideal' >= tokens' + 1
  <2>1. o # r
    BY <1>2, <1>9 DEF Overdue
  <2>2. ideal >= 1 /\ ideal >= tokens + 1
    BY <1>4, <1>9, <2>1 DEF LimiterInv
  <2> QED BY <1>0, <1>1, <1>2, <2>2
<1> QED BY <1>3, <1>7, <1>8, <1>9 DEF LimiterInv

\* Cancel gives a token back only for the last reservation, so that the bucket
\* never has more than the ideal one.
LEMMA CancelConforms ==
    ASSUME IInv, LimiterInv, NEW r \in Requests, Cancel(r)
    PROVE  LimiterInv'
<1>0. /\ tokens \in Int /\ lastEvent \in Int /\ ideal \in Int /\ Burst \in Nat \ {0}
      /\ \A o \in Requests : rq[o].act \in Int
  BY BucketNumbers DEF LimiterInv
<1>1. /\ Others(r) /\ rq[r].pc = "cancel" /\ rq'[r].pc = "release" /\ ideal' = ideal
  BY LimiterMoves, Zenon DEF Cancel
<1>2. ~Owed(rq'[r]) /\ ~Overdue(rq'[r])
  BY <1>1 DEF Owed, Overdue
<1>3. PICK act \in Int : act = rq[r].act
  BY <1>0
<1>4. CASE UNCHANGED <<tokens, lastEvent>>
  BY <1>1, <1>2, <1>4, NothingOwed
<1>5. CASE /\ act >= 0 /\ 1 - (lastEvent - act) >= 1
           /\ tokens' = IF tokens + (1 - (lastEvent - act)) > Burst THEN Burst
                        ELSE tokens + (1 - (lastEvent - act))
           /\ lastEvent' = IF act = lastEvent /\ act >= 1 THEN act - 1 ELSE lastEvent
  <2>1. Owed(rq[r]) /\ (act = 0 => Overdue(rq[r]))
    BY <1>0, <1>1, <1>3, <1>5, SMTT(60) DEF Owed, Overdue
  <2>2. act = lastEvent
    <3>1. act <= lastEvent
      BY <1>3, <2>1 DEF LimiterInv
    <3> QED BY <1>0, <1>5, <3>1
  <2>3. /\ tokens' = IF tokens + 1 > Burst THEN Burst ELSE tokens + 1
        /\ lastEvent' = IF act >= 1 THEN act - 1 ELSE 0
    BY <1>0, <1>5, <2>2
  <2>4. /\ act >= 1 => act <= -tokens
        /\ act = 0 => ideal >= 1 /\ ideal >= tokens + 1
        /\ ideal >= 0 /\ ideal >= tokens /\ tokens <= Burst /\ ideal <= Burst
    BY <2>1, <2>2 DEF LimiterInv
  <2>5. /\ ideal' \in Int /\ tokens' <= Burst /\ ideal' <= Burst /\ ideal' >= 0
        /\ ideal' >= tokens' /\ (lastEvent' >= 1 => lastEvent' <= -tokens')
        /\ act >= 1 => tokens' <= 0
    BY <1>0, <1>1, <1>5, <2>3, <2>4, SMTT(60)
  <2>6. ASSUME NEW o \in Requests, Owed(rq'[o])
        PROVE  /\ o # r /\ rq'[o] = rq[o] /\ Owed(rq[o])
               /\ rq[o].act <= act /\ rq[o].act # act
    <3>1. o # r /\ rq'[o] = rq[o] /\ Owed(rq[o])
      BY <1>1, <1>2, <2>6 DEF Others
    <3> QED BY <1>3, <2>1, <2>2, <3>1 DEF LimiterInv
  <2>7. \A o \in Requests : Owed(rq'[o]) => rq'[o].act <= lastEvent'
    BY <1>0, <1>5, <2>3, <2>6
  <2>8. \A o, p \in Requests : Owed(rq'[o]) /\ Owed(rq'[p]) /\ rq'[o].act = rq'[p].act => o = p
    BY <2>6, Zenon DEF LimiterInv
  <2>9. ASSUME NEW o \in Requests, Overdue(rq'[o]) PROVE ideal' >= 1 /\ ideal' >= tokens' + 1
    <3>1. Owed(rq'[o]) /\ rq'[o].act = 0
      BY <2>9 DEF Owed, Overdue
    <3>2. Overdue(rq[o]) /\ act # 0
      BY <2>6, <2>9, <3>1
    <3>3. ideal >= 1
      BY <3>2 DEF LimiterInv
    <3>4. tokens' \in Int
      BY <1>0, <2>3
    <3> QED BY <1>0, <1>1, <1>5, <2>5, <3>2, <3>3, <3>4, SMTT(60)
  <2> QED BY <2>5, <2>7, <2>8, <2>9 DEF LimiterInv
<1>6. ~(act < 0 \/ 1 - (lastEvent - act) <= 0) => act >= 0 /\ 1 - (lastEvent - act) >= 1
  BY <1>0
<1> QED BY <1>3, <1>4, <1>5, <1>6, Zenon DEF Cancel

\* A tick: at most one waiting reservation matures, and the bucket then owed.
LEMMA TickConforms ==
    ASSUME IInv, LimiterInv, Tick
    PROVE  LimiterInv'
<1>0. /\ tokens \in Int /\ lastEvent \in Int /\ ideal \in Int /\ Burst \in Nat \ {0}
      /\ \A r \in Requests : rq[r].act \in Int
  BY BucketNumbers DEF LimiterInv
<1> DEFINE due == {r \in Requests : At(r, "delay") /\ rq[r].act = 1}
<1>1. PICK n : n = Cardinality(due)
  OBVIOUS
<1>2. /\ tokens' = (IF tokens < Burst THEN tokens + 1 ELSE tokens)
      /\ lastEvent' = (IF lastEvent > -1 THEN lastEvent - 1 ELSE lastEvent)
      /\ ideal' = (IF ideal < Burst THEN ideal + 1 ELSE ideal) - n
  BY <1>1, Zenon DEF Tick, Down
<1>3. ASSUME NEW r \in Requests
      PROVE  /\ rq'[r].pc = rq[r].pc
             /\ rq'[r].act = IF rq[r].act > -1 THEN rq[r].act - 1 ELSE rq[r].act
  BY TickKeeps DEF IInv, Down
<1>4. ASSUME NEW r \in Requests, Owed(rq'[r])
      PROVE  Owed(rq[r]) /\ rq[r].act >= 1 /\ rq'[r].act = rq[r].act - 1
  BY <1>0, <1>3, <1>4 DEF Owed
<1>5. ASSUME NEW r \in Requests, Owed(rq[r]), rq[r].act >= 1
      PROVE  rq[r].act <= lastEvent /\ lastEvent >= 1 /\ tokens <= -1
  <2>1. rq[r].act <= lastEvent /\ (lastEvent >= 1 => lastEvent <= -tokens)
    BY <1>5 DEF LimiterInv
  <2> QED BY <1>0, <1>5, <2>1
<1>6. \/ n = 0
      \/ n = 1 /\ \E r \in Requests : rq[r].pc = "delay" /\ rq[r].act = 1
  <2>1. CASE due = {}
    BY <1>1, <2>1, FS_EmptySet
  <2>2. CASE due # {}
    <3>1. PICK r \in due : TRUE
      BY <2>2
    <3>2. \A o \in due : o = r
      <4>1. \A o \in due : o \in Requests /\ Owed(rq[o]) /\ rq[o].act = 1
        BY SMTT(60), ZenonT(60) DEF Owed, At
      <4> QED BY <3>1, <4>1, SMTT(60), ZenonT(60) DEF LimiterInv
    <3>3. due = {r}
      BY <3>1, <3>2, Zenon
    <3>4. rq[r].pc = "delay" /\ rq[r].act = 1 /\ r \in Requests
      BY <3>1 DEF At
    <3> HIDE DEF due
    <3>5. n = 1
      BY <1>1, <3>3, FS_Singleton
    <3> QED BY <3>4, <3>5
  <2> QED BY <2>1, <2>2
<1> HIDE DEF due
<1>7. n = 1 => tokens <= -1 /\ \A o \in Requests : Overdue(rq'[o]) => FALSE
  <2> SUFFICES ASSUME n = 1 PROVE tokens <= -1 /\ \A o \in Requests : ~Overdue(rq'[o])
    OBVIOUS
  <2>1. PICK r \in Requests : rq[r].pc = "delay" /\ rq[r].act = 1
    BY <1>6
  <2>2. Owed(rq[r])
    BY <2>1 DEF Owed
  <2>3. ASSUME NEW o \in Requests, Overdue(rq'[o]) PROVE FALSE
    <3>1. Owed(rq'[o]) /\ rq'[o].act = 0 /\ rq[o].pc = "cancel"
      BY <1>3, <2>3 DEF Owed, Overdue
    <3>2. Owed(rq[o]) /\ rq[o].act = 1
      BY <1>0, <1>4, <3>1
    <3> QED BY <2>1, <2>2, <3>1, <3>2 DEF LimiterInv
  <2> QED BY <1>5, <2>1, <2>2, <2>3
<1>8. n \in {0, 1}
  BY <1>6
<1>9. /\ ideal' \in Int /\ tokens' <= Burst /\ ideal' <= Burst /\ ideal' >= 0
      /\ ideal' >= tokens' /\ (lastEvent' >= 1 => lastEvent' <= -tokens')
  <2>1. /\ ideal >= 0 /\ ideal >= tokens /\ tokens <= Burst /\ ideal <= Burst
        /\ lastEvent >= 1 => lastEvent <= -tokens
    BY DEF LimiterInv
  <2> QED BY <1>0, <1>2, <1>7, <1>8, <2>1
<1>10. \A r \in Requests : Owed(rq'[r]) => rq'[r].act <= lastEvent'
  BY <1>0, <1>2, <1>4, <1>5
<1>11. ASSUME NEW r \in Requests, NEW o \in Requests, Owed(rq'[r]), Owed(rq'[o]),
              rq'[r].act = rq'[o].act
       PROVE  r = o
  <2>1. Owed(rq[r]) /\ Owed(rq[o]) /\ rq[r].act = rq[o].act
    BY <1>0, <1>4, <1>11
  <2> QED BY <2>1 DEF LimiterInv
<1>12. ASSUME NEW r \in Requests, Overdue(rq'[r]) PROVE ideal' >= 1 /\ ideal' >= tokens' + 1
  <2>1. n = 0
    BY <1>7, <1>8, <1>12
  <2>2. Owed(rq'[r])
    BY <1>12 DEF Owed, Overdue
  <2>3. tokens <= -1
    BY <1>4, <1>5, <2>2
  <2>4. ideal >= 0
    BY DEF LimiterInv
  <2> QED BY <1>0, <1>2, <2>1, <2>3, <2>4
<1> QED BY <1>9, <1>10, <1>11, <1>12 DEF LimiterInv

\* Every step keeps the limiter's books.
LEMMA LimiterKept == IInv /\ LimiterInv /\ [Next]_vars => LimiterInv'
<1> SUFFICES ASSUME IInv, LimiterInv, [Next]_vars PROVE LimiterInv'
  OBVIOUS
<1>1. CASE UNCHANGED vars
  BY <1>1, Zenon DEF vars, LimiterInv
<1>2. CASE Tick
  BY <1>2, TickConforms
<1>3. ASSUME NEW r \in Requests, Step(r) \/ Environment(r) PROVE LimiterInv'
  <2>1. CASE Reserve(r)
    BY <2>1, ReserveConforms
  <2>2. CASE Cancel(r)
    BY <2>2, CancelConforms, SMTT(60)
  <2>3. CASE Delay(r)
    <3>1. UNCHANGED <<tokens, lastEvent, ideal>>
      BY <2>3 DEF Delay, bucketVars
    <3>2. rq[r].act \in Int
      BY BucketNumbers
    <3>3. ~Overdue(rq'[r]) /\ (Owed(rq'[r]) => Owed(rq[r]) /\ rq'[r].act = rq[r].act)
      <4>1. /\ rq[r].pc = "delay"
            /\ \/ rq[r].act > 0 /\ rq'[r].act = rq[r].act /\ rq'[r].pc = "cancel"
               \/ ~(rq[r].act > 0) /\ rq'[r].pc = "authn"
        BY <2>3, LimiterMoves, ZenonT(40)
      <4> QED BY <3>2, <4>1, SMTT(60) DEF Overdue, Owed
    <3> QED BY <2>3, <3>1, <3>3, LimiterMoves, NothingOwed
  <2>4. CASE ~Reserve(r) /\ ~Cancel(r) /\ ~Delay(r)
    <3>1. /\ UNCHANGED <<tokens, lastEvent, ideal>> /\ Others(r)
          /\ rq'[r].pc \notin {"delay", "cancel"}
      BY <1>3, <2>4, LimiterFrame
    <3>2. ~Overdue(rq'[r]) /\ ~Owed(rq'[r])
      BY <3>1 DEF Overdue, Owed
    <3> QED BY <3>1, <3>2, NothingOwed
  <2> QED BY <2>1, <2>2, <2>3, <2>4
<1> QED BY <1>1, <1>2, <1>3 DEF Next

\* For every burst and any number of requests, whatever reservations refused
\* requests make and cancel, and in whatever order: those the limiter lets
\* through would have been let through by a plain token bucket that only they
\* draw from (rate_limiter.go, Process).
THEOREM LimiterIsFair == Spec => []LimiterConforms
<1>1. Init => LimiterInv
  <2> SUFFICES ASSUME Init PROVE LimiterInv
    OBVIOUS
  <2>1. \A r \in Requests : ~Owed(rq[r]) /\ ~Overdue(rq[r])
    BY IdleIsSound DEF Init, Owed, Overdue
  <2>2. tokens = Burst /\ lastEvent = -1 /\ ideal = Burst /\ Burst \in Nat
    BY EdgeAssumption DEF Init
  <2> QED BY <2>1, <2>2 DEF LimiterInv
<1>2. LimiterInv => LimiterConforms
  BY DEF LimiterInv, LimiterConforms
<1> QED BY <1>1, <1>2, LimiterKept, InitInvariant, NextInvariant, PTL DEF Spec
=============================================================================
