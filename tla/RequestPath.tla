----------------------------- MODULE RequestPath ----------------------------
(***************************************************************************)
(* The way of an HTTP request through the edge of the service: the CORS    *)
(* check and the router, then bulkhead -> rate limiter -> authentication   *)
(* -> RBAC -> handler, and back out through the deferred releases, the     *)
(* error mapping, the panic recovery and the metrics.  Several requests    *)
(* run at once; they share the bulkhead's semaphore and gauge, the token   *)
(* bucket and the in-flight gauge.  The handlers that wait on something    *)
(* (the profile service with its retries, the gRPC bridge, the event       *)
(* stream) are modelled step by step, the others as one step.              *)
(*                                                                         *)
(* Time is relative: a tick is the time the bucket needs for one token,    *)
(* and every timer counts the ticks it has left.                           *)
(***************************************************************************)
EXTENDS Access, ProblemMap, Integers, FiniteSets

CONSTANTS
    Requests,        \* concurrent connections, each serving one request at a time
    Menu,            \* [Requests -> SUBSET (paths \X methods)]: what they may ask
    Headers,         \* Authorization headers
    Origins,         \* CORS inputs of a request
    Cors,            \* the CORS configuration
    Accepts,         \* Accept headers
    Target,          \* the id in the path: the user, and the owner of the job
    Limits,          \* the values of BULKHEAD_MAX_PARALLEL considered
    Burst,           \* RATE_LIMIT_BURST
    MaxDebt,         \* bound: tokens the bucket may owe
    ProfileTimeout, BridgeTimeout,            \* in ticks
    QueryTimeout,                             \* DB_QUERY_TIMEOUT, in ticks
    MaxAttempts, BaseDelay, MaxDelay,         \* the retry policy
    Width            \* bits of a duration

ASSUME EdgeAssumption ==
    /\ Limits \subseteq Nat \ {0} /\ Burst \in Nat \ {0} /\ MaxDebt \in Nat
    /\ ProfileTimeout \in Nat \ {0} /\ BridgeTimeout \in Nat \ {0}
    /\ QueryTimeout \in Nat \ {0}
    /\ MaxAttempts \in Nat \ {0} /\ BaseDelay \in Nat \ {0}
    /\ MaxDelay \in Nat \ {0} /\ Width \in Nat \ {0}
    /\ Target \in Nat \ {0}

\* What callers may send: a bearer header carries the claims of Access.
ASSUME CallersAssumption ==
    /\ IsFiniteSet(Requests)
    /\ Menu \in [Requests -> SUBSET (STRING \X STRING)]
    /\ \A h \in Headers : h.form = "bearer" =>
        /\ h.exp \in {"future", "past", "absent"} /\ h.nbf \in {"past", "future"}
        /\ h.scope \in BOOLEAN /\ h.sub \in Nat

VARIABLES
    rq,            \* the request each connection serves, see Idle
    maxParallel,   \* capacity of the bulkhead's channel
    sem,           \* elements in that channel
    inFlight,      \* the gauge bulkhead_in_flight
    httpInFlight,  \* the gauge http_in_flight
    tokens,        \* rate.Limiter: tokens, negative when reservations wait
    lastEvent,     \* rate.Limiter: when its latest reservation may act
    ideal          \* history: a bucket that only admitted requests draw from

vars == <<rq, maxParallel, sem, inFlight, httpInFlight, tokens, lastEvent, ideal>>
bulkheadVars == <<maxParallel, sem, inFlight>>
bucketVars == <<tokens, lastEvent, ideal>>

\* A connection between two requests.  wire is the status on the wire (0: no
\* header yet), gone tells that r.Context() was cancelled, act when the
\* limiter's reservation may act, left the time before the handler's own
\* deadline, query the time before that of the job query the bridge's call has
\* led to (-1: none yet), nap the backoff under way.
Idle == [pc |-> "idle", path |-> "", method |-> "", header |-> NoHeader,
         err |-> {}, wire |-> 0, gone |-> FALSE,
         act |-> -1, left |-> 0, query |-> -1, nap |-> 0, attempt |-> 0]

Init ==
    /\ rq = [r \in Requests |-> Idle]
    /\ maxParallel \in Limits
    /\ sem = 0 /\ inFlight = 0 /\ httpInFlight = 0
    /\ tokens = Burst /\ lastEvent = -1 /\ ideal = Burst

-----------------------------------------------------------------------------
Principal(r) == Authenticated(rq[r].header).principal

\* Where control goes when the innermost handler returns or panics: through
\* the bulkhead's deferred calls where the route has a bulkhead.
Unwind(path) == IF path \in ApiPaths THEN "release" ELSE "problem"

\* The handler of r returns with error e (or panics); its locals are gone.
Return(r, status, e) ==
    rq' = [rq EXCEPT ![r].wire = status, ![r].err = e, ![r].pc = Unwind(rq[r].path),
                     ![r].attempt = 0, ![r].nap = 0]

Fail(r, e) == Return(r, rq[r].wire, e)

\* WriteJSON, WriteProtobuf: the header goes out, then the body, whose write
\* may fail.
Answer(r, status) == \E e \in {{}, {"write"}} : Return(r, status, e)

WriteNegotiated(r) ==
    \E accept \in Accepts :
        IF AcceptHeader(accept) = "notAcceptable"
        THEN Fail(r, {"notAcceptable"})
        ELSE Answer(r, 200)

At(r, where) == rq[r].pc = where

-----------------------------------------------------------------------------
(* Metrics, CORS and the routers.  The CORS check guards the API subtree,   *)
(* of which "/" stands for a path no pattern matches.                       *)

Arrive(r) ==
    /\ At(r, "idle")
    /\ \E ask \in Menu[r], q \in Origins :
        LET path == ask[1]
            verdict == IF path \in ApiPaths \cup {"/"} THEN CORS(Cors, q, ask[2])
                       ELSE "next"
            status == IF verdict = "denied" THEN 403
                      ELSE IF verdict = "preflight" THEN 204
                      ELSE IF path = "/" THEN 404
                      ELSE IF path = "/livez" THEN 200
                      ELSE 0
        IN  rq' = [rq EXCEPT ![r] =
                    [Idle EXCEPT !.path = path, !.method = ask[2], !.wire = status,
                        !.pc = IF status # 0 THEN "observe"
                               ELSE IF path \in ApiPaths THEN "bulkhead"
                               ELSE "authn"]]
    /\ httpInFlight' = httpInFlight + 1
    /\ UNCHANGED <<bulkheadVars, bucketVars>>

\* The client closes its connection: r.Context() is cancelled.
ClientGone(r) ==
    /\ rq[r].pc \in {"loop", "attempt", "backoff", "bridge", "stream"}
    /\ ~rq[r].gone
    /\ rq' = [rq EXCEPT ![r].gone = TRUE]
    /\ UNCHANGED <<bulkheadVars, bucketVars, httpInFlight>>

-----------------------------------------------------------------------------
(* The bulkhead: a buffered channel as semaphore, and a gauge beside it.    *)

Acquire(r) ==
    /\ At(r, "bulkhead")
    /\ IF sem < maxParallel
       THEN /\ sem' = sem + 1
            /\ rq' = [rq EXCEPT ![r].pc = "count"]
       ELSE /\ sem' = sem
            /\ rq' = [rq EXCEPT ![r].err = {"bulkheadRejected"}, ![r].pc = "problem"]
    /\ UNCHANGED <<maxParallel, inFlight, httpInFlight, bucketVars>>

Count(r) ==
    /\ At(r, "count")
    /\ inFlight' = inFlight + 1
    /\ rq' = [rq EXCEPT ![r].pc = "reserve"]
    /\ UNCHANGED <<maxParallel, sem, httpInFlight, bucketVars>>

\* The deferred calls run last in, first out: the slot is given back before
\* the gauge is lowered.
Release(r) ==
    /\ At(r, "release")
    /\ sem' = sem - 1
    /\ rq' = [rq EXCEPT ![r].pc = "uncount"]
    /\ UNCHANGED <<maxParallel, inFlight, httpInFlight, bucketVars>>

Uncount(r) ==
    /\ At(r, "uncount")
    /\ inFlight' = inFlight - 1
    /\ rq' = [rq EXCEPT ![r].pc = "problem"]
    /\ UNCHANGED <<maxParallel, sem, httpInFlight, bucketVars>>

-----------------------------------------------------------------------------
(* The rate limiter: Reserve, Delay and Cancel each take the clock and the  *)
(* limiter's lock on their own.                                             *)

Reserve(r) ==
    /\ At(r, "reserve")
    /\ tokens > -MaxDebt
    /\ LET act == IF tokens >= 1 THEN 0 ELSE 1 - tokens
       IN  /\ rq' = [rq EXCEPT ![r].act = act, ![r].pc = "delay"]
           /\ lastEvent' = act
           /\ ideal' = IF act = 0 THEN ideal - 1 ELSE ideal
    /\ tokens' = tokens - 1
    /\ UNCHANGED <<bulkheadVars, httpInFlight>>

Delay(r) ==
    /\ At(r, "delay")
    /\ rq' = [rq EXCEPT ![r].act = IF rq[r].act > 0 THEN @ ELSE -1,
                        ![r].pc = IF rq[r].act > 0 THEN "cancel" ELSE "authn"]
    /\ UNCHANGED <<bulkheadVars, bucketVars, httpInFlight>>

\* Variant with a bug: the token is given back whole, whatever was reserved after it and
\* even when its time has come.
CancelInFull(r) ==
    /\ At(r, "cancel")
    /\ tokens' = IF tokens < Burst THEN tokens + 1 ELSE tokens
    /\ rq' = [rq EXCEPT ![r].act = -1, ![r].err = {"rateLimit"}, ![r].pc = "release"]
    /\ UNCHANGED <<bulkheadVars, httpInFlight, lastEvent, ideal>>

\* Reservation.Cancel gives the token back, less what was reserved after it;
\* a reservation whose time has come gives nothing back.
Cancel(r) ==
    /\ At(r, "cancel")
    /\ LET act == rq[r].act
           restore == 1 - (lastEvent - act)
       IN  IF act < 0 \/ restore <= 0
           THEN UNCHANGED <<tokens, lastEvent>>
           ELSE /\ tokens' = IF tokens + restore > Burst THEN Burst ELSE tokens + restore
                /\ lastEvent' = IF act = lastEvent /\ act >= 1 THEN act - 1 ELSE lastEvent
    /\ rq' = [rq EXCEPT ![r].act = -1, ![r].err = {"rateLimit"}, ![r].pc = "release"]
    /\ UNCHANGED <<bulkheadVars, httpInFlight, ideal>>

-----------------------------------------------------------------------------
(* Authentication and RBAC; both let OPTIONS pass.                          *)

Authenticate(r) ==
    /\ At(r, "authn")
    /\ \/ /\ rq[r].method = "OPTIONS"
          /\ rq' = [rq EXCEPT ![r].pc = "authz"]
       \/ /\ rq[r].method # "OPTIONS"
          /\ \E h \in Headers :
                IF Authenticated(h).principal = NoPrincipal
                THEN Fail(r, {"unauthorized"})
                ELSE rq' = [rq EXCEPT ![r].header = h, ![r].pc = "authz"]
    /\ UNCHANGED <<bulkheadVars, bucketVars, httpInFlight>>

CheckPolicy(r) ==
    /\ At(r, "authz")
    /\ LET q == rq[r]
           e == Authorize(q.method, PatternOf(q.path, q.method), Principal(r))
       IN  IF e = {} THEN rq' = [rq EXCEPT ![r].pc = "handler"] ELSE Fail(r, e)
    /\ UNCHANGED <<bulkheadVars, bucketVars, httpInFlight>>

-----------------------------------------------------------------------------
(* The handlers behind the router.  Item routes serve GET only; the         *)
(* collections serve GET (and HEAD) and POST - the POST handlers are the    *)
(* subject of AsyncJobs; the debug mux serves GET and HEAD and answers      *)
(* other methods by itself.                                                 *)

\* Variant with a bug: the routes check no method.
ServedAnyMethod(path, method) == TRUE

Served(path, method) ==
    IF path \in Collections \cup {"/debug/"} THEN method \in {"GET", "HEAD"}
    ELSE method = "GET"

Handling(r, path) ==
    /\ At(r, "handler")
    /\ rq[r].path = path
    /\ Served(path, rq[r].method)
    /\ UNCHANGED <<bulkheadVars, bucketVars, httpInFlight>>

RefuseMethod(r) ==
    /\ At(r, "handler")
    /\ ~Served(rq[r].path, rq[r].method)
    /\ IF rq[r].path = "/debug/"
       THEN rq' = [rq EXCEPT ![r].wire = 405, ![r].pc = "problem"]
       ELSE Fail(r, {"methodNotAllowed"})
    /\ UNCHANGED <<bulkheadVars, bucketVars, httpInFlight>>

\* An id that is not a positive integer, on the item routes.
RefuseId(r) ==
    /\ \E path \in UserItems \cup JobItems : Handling(r, path)
    /\ Fail(r, {"badRequest"})

\* users.List of both versions, and the debug endpoints.
ServeList(r) ==
    /\ \E path \in Collections \cup {"/debug/"} : Handling(r, path)
    /\ Answer(r, 200) \/ (rq[r].path # "/debug/" /\ Fail(r, {"repository"}))

\* users.GetByID and Export: the caller may read the user, the user exists,
\* and the client may hold its current version already.
ServeUser(r) ==
    /\ \E path \in UserItems \ {"/api/v1/users/{id}/profile"} : Handling(r, path)
    /\ IF ~CanReadUser(Principal(r), Target)
       THEN Fail(r, {"forbidden"})
       ELSE \/ \E e \in {"notFound", "repository"} : Fail(r, {e})
            \/ rq[r].path = "/api/v1/users/{id}" /\ Answer(r, 304)
            \/ IF rq[r].path = "/api/v1/users/{id}" THEN WriteNegotiated(r)
               ELSE Answer(r, 200)

\* JobHandler.GetByID looks the job up before it asks who is calling.
ServeJob(r) ==
    /\ Handling(r, "/api/v1/jobs/{id}")
    /\ \/ \E e \in {"jobNotFound", "repository"} : Fail(r, {e})
       \/ IF CanReadJob(Principal(r), Target) THEN Answer(r, 200)
          ELSE Fail(r, {"forbidden"})

-----------------------------------------------------------------------------
(* GET /users/{id}/profile: UserProfileService.GetUserWithProfile, and the  *)
(* retry loop of RetryingProfileClient.FetchProfile around the              *)
(* instrumented client.                                                     *)

StartProfile(r) ==
    /\ Handling(r, "/api/v1/users/{id}/profile")
    /\ IF ~CanReadUser(Principal(r), Target)
       THEN Fail(r, {"forbidden"})
       ELSE \/ \E e \in {"notFound", "repository"} : Fail(r, {e})
            \/ rq' = [rq EXCEPT ![r].left = ProfileTimeout, ![r].pc = "loop"]

\* What ctx.Err() may say, as a profile error: the client is gone, or the
\* deadline of the profile call has passed.
ctxToProfileError(r) ==
    (IF rq[r].gone THEN {"profileCanceled"} ELSE {})
        \cup (IF rq[r].left = 0 THEN {"profileTimeout"} ELSE {})

isRetryableProfileError(e) == e \in {"profileTimeout", "profileNetwork", "profile5xx"}

\* delay = base * 2^k in a signed integer of Width bits.
Scaled(k) ==
    LET half == 2 ^ (Width - 1)
    IN  ((BaseDelay * 2 ^ k + half) % (2 * half)) - half

\* The ceiling of the jitter: 0 once a doubling has left the positive range.
backoffWithJitter(n) ==
    IF \E k \in 0 .. n - 1 : Scaled(k) <= 0 THEN 0
    ELSE IF Scaled(n - 1) > MaxDelay THEN MaxDelay ELSE Scaled(n - 1)

hasTimeForDelay(r, d) == rq[r].left > d

\* The head of the loop: no attempt on a context that is done.
NextAttempt(r) ==
    /\ At(r, "loop")
    /\ IF ctxToProfileError(r) # {}
       THEN \E e \in ctxToProfileError(r) : Fail(r, {e})
       ELSE rq' = [rq EXCEPT ![r].attempt = @ + 1, ![r].pc = "attempt"]
    /\ UNCHANGED <<bulkheadVars, bucketVars, httpInFlight>>

\* What follows a failed attempt.
Retry(r, e) ==
    IF rq[r].attempt = MaxAttempts \/ ~isRetryableProfileError(e)
    THEN Fail(r, {e})
    ELSE \E d \in 0 .. backoffWithJitter(rq[r].attempt) :
            IF d = 0 THEN rq' = [rq EXCEPT ![r].pc = "loop"]
            ELSE IF ~hasTimeForDelay(r, d) THEN Fail(r, {e})
            ELSE rq' = [rq EXCEPT ![r].nap = d, ![r].pc = "backoff"]

\* ClientImpl.FetchProfile: the context aborts the exchange, ...
AttemptAborted(r) ==
    /\ At(r, "attempt")
    /\ \E e \in ctxToProfileError(r) : Retry(r, e)
    /\ UNCHANGED <<bulkheadVars, bucketVars, httpInFlight>>

\* ... or the profile service answers, well or badly, or not in time.
AttemptEnds(r) ==
    /\ At(r, "attempt")
    /\ \/ WriteNegotiated(r)
       \/ \E e \in {"profileNetwork", "profileTimeout", "profile5xx", "profile4xx",
                    "profileBadResponse", "profileParse"} : Retry(r, e)
    /\ UNCHANGED <<bulkheadVars, bucketVars, httpInFlight>>

\* sleepWithContext: the timer, or the context.
WakeUp(r) ==
    /\ At(r, "backoff")
    /\ \/ rq[r].nap = 0 /\ rq' = [rq EXCEPT ![r].pc = "loop"]
       \/ \E e \in ctxToProfileError(r) : Fail(r, {e})
    /\ UNCHANGED <<bulkheadVars, bucketVars, httpInFlight>>

-----------------------------------------------------------------------------
(* GET /jobs/{id}/grpc: the call to the gRPC server, with the caller's own  *)
(* Authorization header and a timeout.  The server's context ends with the  *)
(* call's; SQLXJobRepository.GetByID adds a deadline of its own to it.      *)

StartBridge(r) ==
    /\ Handling(r, "/api/v1/jobs/{id}/grpc")
    /\ rq' = [rq EXCEPT ![r].left = BridgeTimeout, ![r].pc = "bridge"]

\* Variant with a bug: the call is made without a timeout.
BridgeAbortedByClient(r) ==
    /\ At(r, "bridge") /\ rq[r].gone
    /\ Fail(r, MapGRPCBridgeError("Canceled"))
    /\ UNCHANGED <<bulkheadVars, bucketVars, httpInFlight>>

BridgeAborted(r) ==
    /\ At(r, "bridge")
    /\ \/ rq[r].gone /\ Fail(r, MapGRPCBridgeError("Canceled"))
       \/ rq[r].left = 0 /\ Fail(r, MapGRPCBridgeError("DeadlineExceeded"))
    /\ UNCHANGED <<bulkheadVars, bucketVars, httpInFlight>>

\* The server has taken the call up and asks the repository for the job.
BridgeQueries(r) ==
    /\ At(r, "bridge") /\ rq[r].query = -1
    /\ rq' = [rq EXCEPT ![r].query = QueryTimeout]
    /\ UNCHANGED <<bulkheadVars, bucketVars, httpInFlight>>

\* How the repository may answer: with an error of its context only when the
\* caller has gone, or when the deadline of the call or of the query has passed.
Lookups(r) ==
    {"found", "absent", "broken"}
        \cup (IF rq[r].gone THEN {"canceled"} ELSE {})
        \cup (IF rq[r].left = 0 \/ rq[r].query = 0 THEN {"timeout"} ELSE {})

BridgeReturns(r) ==
    /\ At(r, "bridge")
    /\ \/ Fail(r, MapGRPCBridgeError("Unavailable"))
       \/ /\ rq[r].query # -1
          /\ \E lookup \in Lookups(r) :
                LET code == GetJob(rq[r].header, lookup, Target)
                IN  IF code = "OK" THEN Answer(r, 200)
                    ELSE Fail(r, MapGRPCBridgeError(code))
    /\ UNCHANGED <<bulkheadVars, bucketVars, httpInFlight>>

-----------------------------------------------------------------------------
(* GET /jobs/{id}/events: the stream keeps its bulkhead slot while it       *)
(* lives.  The subscription itself is the subject of StreamHub.             *)

OpenStream(r) ==
    /\ Handling(r, "/api/v1/jobs/{id}/events")
    /\ \/ \E e \in {"jobNotFound", "repository"} : Fail(r, {e})
       \/ IF ~CanReadJob(Principal(r), Target) THEN Fail(r, {"forbidden"})
          ELSE \/ Fail(r, {"hubClosed"})
               \/ rq' = [rq EXCEPT ![r].pc = "stream"]

\* A heartbeat or an event: the first write sends the header; the write
\* deadline may be refused, the write or the flush may fail.
StreamWrite(r) ==
    /\ At(r, "stream")
    /\ \/ rq' = [rq EXCEPT ![r].wire = 200]
       \/ Return(r, 200, {"write"})
       \/ Fail(r, {"write"})
    /\ UNCHANGED <<bulkheadVars, bucketVars, httpInFlight>>

\* The client has gone, or the hub has closed the subscription.
StreamDone(r) ==
    /\ At(r, "stream") /\ rq[r].gone
    /\ Fail(r, {})
    /\ UNCHANGED <<bulkheadVars, bucketVars, httpInFlight>>

StreamClosed(r) ==
    /\ At(r, "stream")
    /\ Fail(r, {})
    /\ UNCHANGED <<bulkheadVars, bucketVars, httpInFlight>>

\* Variant with a bug: the bulkhead gives its slot back in plain code after the handler.
PanicUndeferred(r) ==
    /\ rq[r].pc \in {"handler", "loop", "attempt", "bridge", "stream"}
    /\ rq' = [rq EXCEPT ![r].err = {"panic"}, ![r].pc = "problem"]
    /\ UNCHANGED <<bulkheadVars, bucketVars, httpInFlight>>

\* Anything behind the policy check may panic.
Panic(r) ==
    /\ rq[r].pc \in {"handler", "loop", "attempt", "bridge", "stream"}
    /\ Fail(r, {"panic"})
    /\ UNCHANGED <<bulkheadVars, bucketVars, httpInFlight>>

-----------------------------------------------------------------------------
(* AppHandler.ServeHTTP maps a returned error, the inner Recover answers a  *)
(* panic; the status recorder lets only the first header through, and a     *)
(* handler that wrote nothing has answered 200.                             *)

WriteProblem(r) ==
    /\ At(r, "problem")
    /\ LET q == rq[r]
           status == IF q.err = {} THEN 200
                     ELSE IF "panic" \in q.err THEN 500
                     ELSE MapError(q.err)
       IN  rq' = [rq EXCEPT ![r].wire = IF q.wire # 0 THEN q.wire ELSE status,
                            ![r].pc = "observe"]
    /\ UNCHANGED <<bulkheadVars, bucketVars, httpInFlight>>

\* The logger and the metrics middleware see the recorded status.
Observe(r) ==
    /\ At(r, "observe")
    /\ httpInFlight' = httpInFlight - 1
    /\ rq' = [rq EXCEPT ![r] = Idle]
    /\ UNCHANGED <<bulkheadVars, bucketVars>>

-----------------------------------------------------------------------------
\* The stages at which a context with a deadline of its own is alive.
Waiting == {"loop", "attempt", "backoff", "bridge"}

Down(n, floor) == IF n > floor THEN n - 1 ELSE n

\* A token's worth of time passes.
Tick ==
    /\ rq' = [r \in Requests |->
                [rq[r] EXCEPT !.act = Down(@, -1), !.nap = Down(@, 0),
                    !.left = IF rq[r].pc \in Waiting THEN Down(@, 0) ELSE @,
                    !.query = IF At(r, "bridge") THEN Down(@, 0) ELSE @]]
    /\ tokens' = IF tokens < Burst THEN tokens + 1 ELSE tokens
    /\ lastEvent' = Down(lastEvent, -1)
    /\ ideal' = (IF ideal < Burst THEN ideal + 1 ELSE ideal)
                    - Cardinality({r \in Requests : At(r, "delay") /\ rq[r].act = 1})
    /\ UNCHANGED <<bulkheadVars, httpInFlight>>

\* The steps the process takes by itself, ...
Step(r) ==
    \/ Acquire(r) \/ Count(r) \/ Reserve(r) \/ Delay(r) \/ Cancel(r)
    \/ Authenticate(r) \/ CheckPolicy(r) \/ RefuseMethod(r) \/ RefuseId(r)
    \/ ServeList(r) \/ ServeUser(r) \/ ServeJob(r) \/ StartProfile(r)
    \/ NextAttempt(r) \/ AttemptAborted(r) \/ WakeUp(r) \/ StartBridge(r)
    \/ BridgeAborted(r) \/ OpenStream(r) \/ StreamDone(r)
    \/ Release(r) \/ Uncount(r) \/ WriteProblem(r) \/ Observe(r)

\* ... and those of clients, of the services behind it, and of its defects.
Environment(r) ==
    \/ Arrive(r) \/ ClientGone(r) \/ AttemptEnds(r) \/ BridgeQueries(r)
    \/ BridgeReturns(r) \/ StreamWrite(r) \/ StreamClosed(r) \/ Panic(r)

Next == Tick \/ \E r \in Requests : Step(r) \/ Environment(r)

Spec == Init /\ [][Next]_vars

FairSpec == Spec /\ WF_vars(Tick) /\ \A r \in Requests : WF_vars(Step(r))

-----------------------------------------------------------------------------
(* The stages at which a request holds a slot of the bulkhead, and at which *)
(* it is counted by the gauge.                                              *)
Inside == {"reserve", "delay", "cancel", "authn", "authz", "handler", "loop",
           "attempt", "backoff", "bridge", "stream", "release"}
Holding == {r \in Requests : rq[r].path \in ApiPaths /\ rq[r].pc \in Inside \cup {"count"}}
Counted == {r \in Requests : rq[r].path \in ApiPaths /\ rq[r].pc \in Inside \cup {"uncount"}}

\* Every slot taken is held by a request that is still inside the bulkhead,
\* however requests end - answered, refused, failed, cancelled or by a panic -
\* and both gauges count exactly the requests they are about: nothing is
\* leaked, nothing is given back twice, and the bulkhead never holds more
\* than it may (bulkhead.go, metrics.go).
SlotsAccountedFor ==
    /\ sem = Cardinality(Holding) /\ sem <= maxParallel
    /\ inFlight = Cardinality(Counted)
    /\ httpInFlight = Cardinality({r \in Requests : rq[r].pc # "idle"})

\* The requests the limiter lets through would all have been let through by a
\* plain token bucket of the same burst and rate that only they draw from:
\* reservations made and cancelled by refused requests, in whatever order,
\* never buy an admission (rate_limiter.go, Process).
LimiterConforms == ideal >= 0

\* What a caller must hold, said without reference to how it is verified.
Genuine(t) ==
    /\ t.alg = "HS256" /\ t.exp = "future" /\ t.nbf = "past" /\ t.scope
    /\ t.key \in Range(Ring) /\ t.kid \in {"absent", t.key}
    /\ t.sub > 0 /\ t.role \in {"", "user", "admin"}

Entitled(t, path) ==
    /\ Genuine(t)
    /\ t.role = "admin" \/ (t.sub = Target /\ path \in UserItems
                                \cup {"/api/v1/jobs/{id}/events"})

\* Data leaves the service, or work is done for a caller, only on behalf of a
\* genuine token that names an administrator or the owner; letting OPTIONS
\* pass the authentication and the RBAC check opens no resource.
DataNeedsAuthority ==
    \A r \in Requests :
        (/\ rq[r].path \in ApiPaths \cup {"/debug/"}
         /\ \/ rq[r].wire \in {200, 304} /\ rq[r].err = {}
            \/ rq[r].pc \in {"loop", "attempt", "backoff", "stream"})
        => rq[r].header.form = "bearer"
           /\ Entitled(rq[r].header, rq[r].path)

\* The recorded status names the real cause: 408 only when the client had
\* gone, 504 only when a deadline had passed - the bridge's or, sooner, that of
\* the job query behind it - 429 only from the limiter, and a failure before
\* any header never counts as a success.
StatusIsHonest ==
    \A r \in Requests :
        LET q == rq[r]
        IN  At(r, "observe") =>
                /\ q.wire # 0
                /\ q.wire = 408 => q.gone
                /\ q.wire = 504 => q.left = 0 \/ q.query = 0
                /\ q.wire = 200 /\ "write" \notin q.err /\ "panic" \notin q.err
                        => q.err = {}
                /\ q.wire = 429 => q.path \in ApiPaths /\ q.header = NoHeader

\* Every request is answered and forgotten, even when the services behind it
\* never answer, as long as the code runs and time passes; an event stream
\* may live on, but not without its client.
RequestEnds ==
    \A r \in Requests :
        rq[r].pc # "idle" ~> (At(r, "idle") \/ (At(r, "stream") /\ ~rq[r].gone))
=============================================================================
