------------------------ MODULE RequestPathHandlers -------------------------
(***************************************************************************)
(* The steps of one request: what the verifier and the RBAC middleware     *)
(* establish about a caller, that every step of a handler keeps it and     *)
(* stays behind the bulkhead until it unwinds, that a handler only ever    *)
(* returns an error whose cause has occurred, and what the middleware      *)
(* around the handlers does to a request on its way in and out.            *)
(*                                                                         *)
(* All of it is local to one request: the invariant is a predicate on that *)
(* request's record, and RequestPathProofs adds the counting.              *)
(***************************************************************************)
EXTENDS RequestPath, TLAPS

-----------------------------------------------------------------------------
(* The verifier                                                             *)

\* A token is accepted only if it is genuine, and its principal is the one
\* its claims name (JWTVerifierHS256.Verify).
LEMMA VerifyIsSound ==
    ASSUME NEW t, Verify(t).principal # NoPrincipal,
           t.exp \in {"future", "past", "absent"}, t.nbf \in {"past", "future"},
           t.scope \in BOOLEAN, t.sub \in Nat
    PROVE  Genuine(t) /\ Verify(t).principal = principalFromClaims(t)
<1> DEFINE byKID == tryVerifyByKID(t)
           e == IF "errNoKID" \in byKID THEN VerifyWithRing(t) ELSE byKID
<1>1. e = {} /\ Verify(t).principal = principalFromClaims(t)
  BY DEF Verify
<1>2. \A keyErr, key : WithPrincipal(t, ParseWithClaims(t, keyErr, key)) = {} =>
            /\ principalFromClaims(t) # NoPrincipal
            /\ t.alg = "HS256" /\ keyErr = {} /\ t.key = key /\ ClaimErrors(t) = {}
  BY DEF WithPrincipal, ParseWithClaims
<1>3. /\ principalFromClaims(t) # NoPrincipal /\ t.alg = "HS256" /\ ClaimErrors(t) = {}
      /\ t.key \in Range(Ring) /\ t.kid \in {"absent", t.key}
  <2>1. CASE "errNoKID" \notin byKID
    <3>1. byKID = {}
      BY <1>1, <2>1
    <3>2. t.kid # "absent" /\ t.kid \in Range(Ring) /\ t.key = t.kid
      BY <3>1, <1>2 DEF tryVerifyByKID
    <3> QED BY <3>1, <3>2, <1>2 DEF tryVerifyByKID
  <2>2. CASE "errNoKID" \in byKID
    <3>1. t.kid = "absent"
      BY <2>2 DEF tryVerifyByKID, WithPrincipal, ParseWithClaims, ClaimErrors
    <3> DEFINE tried == {i \in DOMAIN Ring :
                            "signatureInvalid" \notin tryVerifyWithKey(t, Ring[i])}
    <3>2. \A i \in tried : Ring[i] = t.key
      BY DEF tryVerifyWithKey, WithPrincipal, ParseWithClaims
    <3>3. tried # {} /\ tryVerifyWithKey(t, Ring[CHOOSE i \in tried : \A j \in tried : i <= j]) = {}
      BY <1>1, <2>2 DEF VerifyWithRing
    <3>4. PICK k \in tried : TRUE
      BY <3>3
    <3>5. k \in Nat /\ \A i \in tried : i = k
      BY <3>2, <3>4, RingAssumption
    <3>6. (CHOOSE i \in tried : \A j \in tried : i <= j) = k
      BY <3>4, <3>5
    <3>7. tryVerifyWithKey(t, Ring[k]) = {} /\ Ring[k] = t.key /\ k \in DOMAIN Ring
      BY <3>2, <3>3, <3>4, <3>6
    <3> QED BY <3>1, <3>7, <1>2 DEF tryVerifyWithKey, Range
  <2> QED BY <2>1, <2>2
<1>4. t.exp = "future" /\ t.nbf = "past" /\ t.scope
  BY <1>3 DEF ClaimErrors
<1>5. t.sub # 0 /\ t.role \in {"", "user", "admin"}
  BY Zenon, <1>3 DEF principalFromClaims
<1>6. \A n \in Nat : n # 0 => n > 0
  OBVIOUS
<1>7. t.sub > 0
  BY Zenon, <1>5, <1>6
<1> QED BY <1>1, <1>3, <1>4, <1>5, <1>7 DEF Genuine

\* What a header that names a principal gives its bearer (Authenticated).
LEMMA PrincipalIsEntitled ==
    ASSUME NEW h \in Headers \cup {NoHeader}, NEW path,
           Authenticated(h).principal # NoPrincipal
    PROVE  /\ h.form = "bearer"
           /\ Authenticated(h).principal.role = "admin" => Entitled(h, path)
           /\ Authenticated(h).principal.id = Target
                /\ path \in UserItems \cup {"/api/v1/jobs/{id}/events"} => Entitled(h, path)
<1>1. h.form = "bearer"
  BY DEF Authenticated
<1>2. h \in Headers
  BY <1>1 DEF NoHeader
<1>3. Verify(h).principal # NoPrincipal /\ Authenticated(h) = Verify(h)
  BY <1>1 DEF Authenticated
<1>4. Genuine(h) /\ Verify(h).principal = principalFromClaims(h)
  BY <1>1, <1>2, <1>3, VerifyIsSound, CallersAssumption
<1>5. Verify(h).principal = [id |-> h.sub, role |-> IF h.role = "" THEN "user" ELSE h.role]
  BY <1>3, <1>4 DEF principalFromClaims
<1>6. \A id, role : [id |-> id, role |-> role].id = id
                     /\ [id |-> id, role |-> role].role = role
  OBVIOUS
<1> DEFINE role == IF h.role = "" THEN "user" ELSE h.role
           named == [id |-> h.sub, role |-> role]
<1>7. named.id = h.sub /\ named.role = role
  BY Zenon, <1>6
<1>8. Verify(h).principal = named
  BY <1>5
<1> HIDE DEF named
<1>9. Verify(h).principal.role = "admin" => h.role = "admin"
  BY <1>7, <1>8
<1> QED BY <1>1, <1>3, <1>4, <1>7, <1>8, <1>9 DEF Entitled

Guarded == ApiPaths \cup {"/debug/"}

\* What the RBAC middleware lets through (Authorize with DefaultPolicy).
LEMMA AuthorizeIsStrict ==
    ASSUME NEW path \in Guarded, NEW method, NEW p, method # "OPTIONS",
           Authorize(method, PatternOf(path, method), p) = {}
    PROVE  /\ p # NoPrincipal
           /\ path \notin UserItems \cup {"/api/v1/jobs/{id}/events"} => p.role = "admin"
<1>1. PICK m : PatternOf(path, method) = <<m, path>>
  BY DEF PatternOf
<1> DEFINE pattern == <<m, path>>
<1>2. path \notin {"/livez", "/readyz"}
  BY DEF Guarded, ApiPaths, Collections, UserItems, JobItems
<1>0. \A a, b, c, d : <<a, b>> = <<c, d>> => b = d
  OBVIOUS
<1>3. pattern \notin DefaultPolicy.public
  <2>1. DefaultPolicy.public = {<<"", "/livez">>, <<"", "/readyz">>}
    BY DEF DefaultPolicy
  <2> QED BY Zenon, <1>0, <1>2, <2>1
<1>4. pattern \in DefaultPolicy.authenticated
        => path \in UserItems \cup {"/api/v1/jobs/{id}/events"}
  <2>1. DefaultPolicy.authenticated
            = {<<"", u>> : u \in UserItems} \cup {<<"", "/api/v1/jobs/{id}/events">>}
    BY DEF DefaultPolicy
  <2> QED BY Zenon, <1>0, <2>1
<1>5. \/ pattern \in DefaultPolicy.authenticated /\ p # NoPrincipal
      \/ p # NoPrincipal /\ p.role = "admin"
  BY <1>1, <1>3 DEF Authorize
<1> QED BY <1>4, <1>5

-----------------------------------------------------------------------------
(* The invariant                                                            *)

Stages == {"idle", "bulkhead", "count", "reserve", "delay", "cancel", "authn", "authz",
           "handler", "loop", "attempt", "backoff", "bridge", "stream", "release",
           "uncount", "problem", "observe"}

Errors == {"badRequest", "methodNotAllowed", "unauthorized", "forbidden", "wiring",
           "grpcUnavailable", "grpcTimeout", "grpcCanceled", "status", "hubClosed",
           "notFound", "jobNotFound", "repository", "profileTimeout", "profileCanceled",
           "profile5xx", "profile4xx", "profileBadResponse", "profileNetwork",
           "profileParse", "notAcceptable", "rateLimit", "bulkheadRejected", "write", "panic"}

ErrorSets == SUBSET Errors

Statuses == {0, 200, 204, 304, 403, 404, 405, 500} \cup {MapError(e) : e \in ErrorSets}

Texts == STRING \cup {""}
Ticks == Int

RequestRecord ==
    [pc : Stages, path : Texts, method : Texts, header : Headers \cup {NoHeader},
     err : ErrorSets, wire : Statuses, gone : BOOLEAN, act : Ticks, left : Ticks,
     query : Ticks, nap : Ticks, attempt : Ticks]

\* The stages behind the rate limiter, and those on the way out.
Handlers == {"authn", "authz", "handler", "loop", "attempt", "backoff", "bridge", "stream"}
Leaving == {"release", "uncount", "problem", "observe"}

Owns(q) == q.path \in Guarded => q.header.form = "bearer" /\ Entitled(q.header, q.path)

\* What is true of a request by itself.
RequestInv(q) ==
    /\ q.pc \in {"bulkhead", "count", "reserve", "delay", "cancel", "release", "uncount"}
            => q.path \in ApiPaths
    /\ q.pc \notin Leaving \cup {"stream"} => q.wire = 0
    /\ q.pc = "handler" =>
        Authorize(q.method, PatternOf(q.path, q.method), Authenticated(q.header).principal) = {}
    /\ \/ q.pc \notin Leaving \cup {"loop", "attempt", "backoff", "bridge", "stream"}
       \/ q.pc \in Leaving /\ (q.err # {} \/ q.wire \notin {0, 200, 304})
       \/ Owns(q)

LocalInv ==
    /\ rq \in [Requests -> RequestRecord]
    /\ \A r \in Requests : RequestInv(rq[r])

IInv ==
    /\ LocalInv
    /\ maxParallel \in Nat /\ tokens \in Int /\ lastEvent \in Int
    /\ SlotsAccountedFor

-----------------------------------------------------------------------------
(* The handlers                                                             *)

Others(r) == \A o \in Requests \ {r} : rq'[o] = rq[o]

\* What a step behind the rate limiter does.
HandlerStep(r) ==
    /\ rq' \in [Requests -> RequestRecord] /\ Others(r)
    /\ rq[r].pc \in Handlers /\ rq'[r].path = rq[r].path
    /\ rq'[r].pc \in Handlers \cup {Unwind(rq[r].path)}
    /\ RequestInv(rq'[r])
    /\ UNCHANGED <<bulkheadVars, httpInFlight>>

\* A handler that may answer has an entitled caller.
LEMMA HandlerCleared ==
    ASSUME LocalInv, NEW r \in Requests, At(r, "handler"), rq[r].path \in Guarded,
           Served(rq[r].path, rq[r].method),
           rq[r].path \in UserItems \cup {"/api/v1/jobs/{id}/events"}
              => CanReadUser(Principal(r), Target)
    PROVE  Owns(rq[r])
<1> DEFINE q == rq[r]
           p == Authenticated(q.header).principal
<1>1. q.header \in Headers \cup {NoHeader}
  BY DEF LocalInv, RequestRecord
<1>2. q.method # "OPTIONS"
  BY DEF Served
<1>3. Authorize(q.method, PatternOf(q.path, q.method), p) = {}
  BY DEF LocalInv, RequestInv, At
<1>0. q.path \in Guarded
  OBVIOUS
<1> HIDE DEF q, p
<1>4. /\ p # NoPrincipal
      /\ q.path \notin UserItems \cup {"/api/v1/jobs/{id}/events"} => p.role = "admin"
  BY Zenon, <1>0, <1>2, <1>3, AuthorizeIsStrict
<1>6. q.path \in UserItems \cup {"/api/v1/jobs/{id}/events"} => p.role = "admin" \/ p.id = Target
  BY DEF q, p, CanReadUser, Principal
<1>7. q.header.form = "bearer" /\ Entitled(q.header, q.path)
  BY <1>1, <1>4, <1>6, PrincipalIsEntitled DEF p
<1> QED BY <1>7 DEF Owns, q

\* The handler returns; without an error only to an entitled caller.
LEMMA ReturnStep ==
    ASSUME LocalInv, NEW r \in Requests, NEW status \in Statuses, NEW e \in ErrorSets,
           rq[r].pc \in Handlers, Return(r, status, e),
           e # {} \/ Owns(rq[r]), UNCHANGED <<bulkheadVars, httpInFlight>>
    PROVE  HandlerStep(r)
<1> DEFINE q == rq[r]
           after == [q EXCEPT !.wire = status, !.err = e, !.pc = Unwind(q.path),
                              !.attempt = 0, !.nap = 0]
<1>1. q \in RequestRecord /\ rq' = [rq EXCEPT ![r] = after]
  BY DEF LocalInv, Return
<1> HIDE DEF q
<1>2. /\ after \in RequestRecord /\ after.path = q.path /\ after.header = q.header
      /\ after.pc = Unwind(q.path) /\ after.err = e
  <2>1. Unwind(q.path) \in Stages
    BY DEF Unwind, Stages
  <2> DEFINE mid == [q EXCEPT !.wire = status, !.err = e, !.pc = Unwind(q.path)]
  <2>2. /\ mid \in RequestRecord /\ mid.path = q.path /\ mid.header = q.header
        /\ mid.pc = Unwind(q.path) /\ mid.err = e
    BY <1>1, <2>1 DEF RequestRecord
  <2>3. after = [mid EXCEPT !.attempt = 0, !.nap = 0]
    BY <1>1 DEF RequestRecord
  <2> HIDE DEF mid, after
  <2>4. after \in RequestRecord
    <3>1. \A m \in RequestRecord : [m EXCEPT !.attempt = 0] \in RequestRecord
      BY DEF RequestRecord, Ticks
    <3>2. \A m \in RequestRecord : [m EXCEPT !.nap = 0] \in RequestRecord
      BY DEF RequestRecord, Ticks
    <3>3. after = [[mid EXCEPT !.attempt = 0] EXCEPT !.nap = 0]
      BY <2>2, <2>3 DEF RequestRecord
    <3> QED BY Zenon, <2>2, <3>1, <3>2, <3>3
  <2>5. after.path = mid.path /\ after.header = mid.header
        /\ after.pc = mid.pc /\ after.err = mid.err
    BY <2>2, <2>3 DEF RequestRecord
  <2> QED BY Zenon, <2>2, <2>4, <2>5
<1>3. /\ rq' \in [Requests -> RequestRecord] /\ Others(r) /\ rq'[r] = after
  BY <1>1, <1>2 DEF LocalInv, Others
<1> HIDE DEF after
<1>4. after.pc \in Leaving /\ after.pc # "handler" /\ after.pc # "uncount" /\ after.pc # "stream"
      /\ (after.pc = "release" => after.path \in ApiPaths)
  BY <1>2 DEF Unwind, Leaving
<1>5. e # {} \/ Owns(after)
  BY <1>2 DEF Owns, q
<1>6. RequestInv(after)
  BY <1>2, <1>4, <1>5 DEF RequestInv, Leaving
<1> QED BY <1>2, <1>3, <1>6 DEF HandlerStep, q

\* A handler that fails unwinds (Fail).
LEMMA FailStep ==
    ASSUME LocalInv, NEW r \in Requests, NEW e \in ErrorSets, rq[r].pc \in Handlers,
           Fail(r, e), e # {} \/ Owns(rq[r]), UNCHANGED <<bulkheadVars, httpInFlight>>
    PROVE  HandlerStep(r)
<1>1. rq[r].wire \in Statuses
  BY DEF LocalInv, RequestRecord
<1> QED BY <1>1, ReturnStep DEF Fail

\* A handler answers with data only an entitled caller (Answer).
LEMMA AnswerStep ==
    ASSUME LocalInv, NEW r \in Requests, NEW status \in {200, 304}, rq[r].pc \in Handlers,
           Answer(r, status), Owns(rq[r]), UNCHANGED <<bulkheadVars, httpInFlight>>
    PROVE  HandlerStep(r)
<1>1. PICK e \in {{}, {"write"}} : Return(r, status, e)
  BY DEF Answer
<1>2. e \in ErrorSets /\ status \in Statuses
  BY DEF Statuses, ErrorSets, Errors
<1> QED BY <1>1, <1>2, ReturnStep

\* So does one that negotiates the content type (WriteNegotiated).
LEMMA NegotiatedStep ==
    ASSUME LocalInv, NEW r \in Requests, rq[r].pc \in Handlers, WriteNegotiated(r),
           Owns(rq[r]), UNCHANGED <<bulkheadVars, httpInFlight>>
    PROVE  HandlerStep(r)
<1>1. CASE Fail(r, {"notAcceptable"})
  <2>1. {"notAcceptable"} \in ErrorSets
    BY DEF ErrorSets, Errors
  <2> QED BY <1>1, <2>1, FailStep
<1>2. CASE Answer(r, 200)
  BY <1>2, AnswerStep
<1> QED BY <1>1, <1>2 DEF WriteNegotiated

\* The stages that wait for something.
LEMMA WaitingIsCleared ==
    ASSUME LocalInv, NEW r \in Requests,
           rq[r].pc \in {"loop", "attempt", "backoff", "bridge", "stream"}
    PROVE  Owns(rq[r])
BY DEF LocalInv, RequestInv, Leaving

\* The authentication middleware, passed or refused.
LEMMA AuthenticateStep ==
    ASSUME LocalInv, NEW r \in Requests, Authenticate(r)
    PROVE  HandlerStep(r)
<1>1. rq[r].pc = "authn" /\ rq[r] \in RequestRecord /\ rq[r].wire = 0
  BY DEF LocalInv, RequestInv, Authenticate, At, Leaving
<1>2. UNCHANGED <<bulkheadVars, httpInFlight>>
  BY DEF Authenticate
<1>3. CASE Fail(r, {"unauthorized"})
  <2>1. {"unauthorized"} \in ErrorSets
    BY DEF ErrorSets, Errors
  <2> QED BY <1>1, <1>2, <1>3, <2>1, FailStep DEF Handlers
<1>4. ASSUME NEW after \in RequestRecord, rq' = [rq EXCEPT ![r] = after],
             after.path = rq[r].path, after.pc = "authz", after.wire = 0
      PROVE  HandlerStep(r)
  <2>1. rq' \in [Requests -> RequestRecord] /\ Others(r) /\ rq'[r] = after
    BY <1>4 DEF LocalInv, Others
  <2>2. RequestInv(after)
    BY <1>4 DEF RequestInv, Leaving
  <2> QED BY <1>1, <1>2, <1>4, <2>1, <2>2 DEF HandlerStep, Handlers
<1>5. CASE rq' = [rq EXCEPT ![r].pc = "authz"]
  <2> DEFINE after == [rq[r] EXCEPT !.pc = "authz"]
  <2>1. /\ after \in RequestRecord /\ after.path = rq[r].path /\ after.pc = "authz"
        /\ after.wire = 0
    BY <1>1 DEF RequestRecord, Stages
  <2>2. rq' = [rq EXCEPT ![r] = after]
    BY <1>5
  <2> QED BY <1>4, <2>1, <2>2
<1>6. ASSUME NEW h \in Headers, rq' = [rq EXCEPT ![r].header = h, ![r].pc = "authz"]
      PROVE  HandlerStep(r)
  <2> DEFINE after == [rq[r] EXCEPT !.header = h, !.pc = "authz"]
  <2>1. /\ after \in RequestRecord /\ after.path = rq[r].path /\ after.pc = "authz"
        /\ after.wire = 0
    BY <1>1, <1>6 DEF RequestRecord, Stages
  <2>2. rq' = [rq EXCEPT ![r] = after]
    BY <1>6 DEF LocalInv
  <2> QED BY <1>4, <2>1, <2>2
<1> QED BY <1>3, <1>5, <1>6 DEF Authenticate

\* The RBAC middleware: who passes it has been authorized.
LEMMA CheckPolicyStep ==
    ASSUME LocalInv, NEW r \in Requests, CheckPolicy(r)
    PROVE  HandlerStep(r)
<1> DEFINE q == rq[r]
           e == Authorize(q.method, PatternOf(q.path, q.method), Principal(r))
           after == [q EXCEPT !.pc = "handler"]
<1>1. q.pc = "authz" /\ q \in RequestRecord /\ q.wire = 0
  BY DEF LocalInv, RequestInv, CheckPolicy, At, Leaving
<1>2. UNCHANGED <<bulkheadVars, httpInFlight>>
  BY DEF CheckPolicy
<1>3. e \in ErrorSets
  BY DEF Authorize, ErrorSets, Errors
<1>4. CASE e # {}
  <2>1. Fail(r, e)
    BY <1>4 DEF CheckPolicy
  <2> HIDE DEF e
  <2> QED BY <1>1, <1>2, <1>3, <1>4, <2>1, FailStep DEF Handlers
<1>5. CASE e = {}
  <2>1. rq' = [rq EXCEPT ![r] = after]
    BY <1>5 DEF CheckPolicy
  <2> HIDE DEF q
  <2>2. /\ after \in RequestRecord /\ after.path = q.path /\ after.pc = "handler"
        /\ after.wire = 0 /\ after.method = q.method /\ after.header = q.header
    BY <1>1 DEF RequestRecord, Stages
  <2> HIDE DEF after
  <2>3. rq' \in [Requests -> RequestRecord] /\ Others(r) /\ rq'[r] = after
    BY <2>1, <2>2 DEF LocalInv, Others
  <2>4. RequestInv(after)
    BY <1>5, <2>2 DEF RequestInv, Leaving, Principal, q
  <2> QED BY <1>1, <1>2, <2>2, <2>3, <2>4 DEF HandlerStep, Handlers, q
<1> QED BY <1>4, <1>5

\* The handler returns one error.
LEMMA FailOneStep ==
    ASSUME LocalInv, NEW r \in Requests, NEW x \in Errors, rq[r].pc \in Handlers,
           Fail(r, {x}), UNCHANGED <<bulkheadVars, httpInFlight>>
    PROVE  HandlerStep(r)
<1>1. {x} \in ErrorSets /\ {x} # {}
  BY DEF ErrorSets
<1> QED BY <1>1, FailStep

\* The shapes of a step that changes the stage and one other field.
SetStage(r, stage) == rq' = [rq EXCEPT ![r].pc = stage]
SetWire(r, w, stage) == rq' = [rq EXCEPT ![r].wire = w, ![r].pc = stage]
SetLeft(r, n, stage) == rq' = [rq EXCEPT ![r].left = n, ![r].pc = stage]
SetQuery(r, n, stage) == rq' = [rq EXCEPT ![r].query = n, ![r].pc = stage]
SetNap(r, n, stage) == rq' = [rq EXCEPT ![r].nap = n, ![r].pc = stage]
SetAttempt(r, n, stage) == rq' = [rq EXCEPT ![r].attempt = n, ![r].pc = stage]

\* A status is recorded and control goes on.
LEMMA WriteAndGo ==
    ASSUME LocalInv, NEW r \in Requests, NEW w \in Statuses, NEW stage \in Stages,
           SetWire(r, w, stage)
    PROVE  /\ rq' \in [Requests -> RequestRecord] /\ Others(r)
           /\ rq'[r].pc = stage /\ rq'[r].wire = w /\ rq'[r].path = rq[r].path
           /\ rq'[r].header = rq[r].header /\ rq'[r].err = rq[r].err
BY SMTT(60), ZenonT(60) DEF SetWire, LocalInv, RequestRecord, Others

\* What every routed handler knows of its request.
LEMMA HandlingFacts ==
    ASSUME NEW r, NEW path, Handling(r, path)
    PROVE  /\ At(r, "handler") /\ rq[r].pc \in Handlers /\ rq[r].path = path
           /\ Served(rq[r].path, rq[r].method) /\ UNCHANGED <<bulkheadVars, httpInFlight>>
BY DEF Handling, At, Handlers

\* The refusals before a handler proper: method and id.
LEMMA RefusalStep ==
    ASSUME LocalInv, NEW r \in Requests, RefuseMethod(r) \/ RefuseId(r)
    PROVE  HandlerStep(r)
<1>1. CASE RefuseId(r)
  <2>1. rq[r].pc \in Handlers /\ UNCHANGED <<bulkheadVars, httpInFlight>> /\ Fail(r, {"badRequest"})
    BY <1>1, HandlingFacts DEF RefuseId
  <2>2. "badRequest" \in Errors
    BY DEF Errors
  <2> QED BY <2>1, <2>2, FailOneStep
<1>2. CASE RefuseMethod(r) /\ rq[r].path # "/debug/"
  <2>1. "methodNotAllowed" \in Errors
    BY DEF Errors
  <2> QED BY <1>2, <2>1, FailOneStep DEF RefuseMethod, At, Handlers
<1>3. CASE RefuseMethod(r) /\ rq[r].path = "/debug/"
  <2>1. rq[r] \in RequestRecord /\ rq[r].pc = "handler" /\ UNCHANGED <<bulkheadVars, httpInFlight>>
    BY <1>3 DEF LocalInv, RefuseMethod, At
  <2>2. PICK w \in Statuses : w = 405
    BY DEF Statuses
  <2>3. SetWire(r, w, "problem") /\ "problem" \in Stages
    <3>1. "problem" \in Stages
      BY SMTT(60), ZenonT(60) DEF Stages
    <3> QED BY <1>3, <2>2, <3>1, SMTT(60), ZenonT(60) DEF RefuseMethod, SetWire
  <2>4. /\ rq' \in [Requests -> RequestRecord] /\ Others(r)
        /\ rq'[r].path = rq[r].path /\ rq'[r].pc = "problem" /\ rq'[r].wire = w
    BY <2>3, WriteAndGo
  <2>5. Unwind(rq[r].path) = "problem"
    BY <1>3 DEF Unwind, ApiPaths, Collections, UserItems, JobItems
  <2>6. RequestInv(rq'[r])
    BY <2>2, <2>4 DEF RequestInv, Leaving
  <2> QED BY <2>1, <2>4, <2>5, <2>6 DEF HandlerStep, Handlers
<1> QED BY <1>1, <1>2, <1>3

\* The handlers that answer at once (List, GetByID, Export, jobs GetByID, debug).
LEMMA ServeStep ==
    ASSUME LocalInv, NEW r \in Requests, ServeList(r) \/ ServeUser(r) \/ ServeJob(r)
    PROVE  HandlerStep(r)
<1>1. {"repository", "forbidden", "notFound", "jobNotFound"} \subseteq Errors
  BY DEF Errors
<1>2. CASE ServeList(r)
  <2>1. PICK path \in Collections \cup {"/debug/"} : Handling(r, path)
    BY <1>2 DEF ServeList
  <2>2. path \in Guarded \ (UserItems \cup {"/api/v1/jobs/{id}/events"})
    BY DEF Guarded, ApiPaths, Collections, UserItems, JobItems
  <2>3. Owns(rq[r])
    <3>1. At(r, "handler") /\ rq[r].path = path /\ Served(rq[r].path, rq[r].method)
      BY <2>1, HandlingFacts
    <3>2. rq[r].path \in Guarded
            /\ rq[r].path \notin UserItems \cup {"/api/v1/jobs/{id}/events"}
      BY Zenon, <2>2, <3>1
    <3> QED BY Zenon, <3>1, <3>2, HandlerCleared
  <2> QED BY <1>1, <1>2, <2>1, <2>3, HandlingFacts, AnswerStep, FailOneStep DEF ServeList
<1>3. CASE ServeUser(r)
  <2>1. PICK path \in UserItems : Handling(r, path)
    BY <1>3 DEF ServeUser
  <2>2. path \in Guarded
    BY DEF Guarded, ApiPaths
  <2>3. CASE ~CanReadUser(Principal(r), Target)
    BY <1>1, <1>3, <2>1, <2>3, HandlingFacts, FailOneStep DEF ServeUser
  <2>4. CASE CanReadUser(Principal(r), Target)
    <3>0. At(r, "handler") /\ rq[r].path \in Guarded /\ Served(rq[r].path, rq[r].method)
      BY <2>1, <2>2, HandlingFacts
    <3>1. Owns(rq[r])
      BY Zenon, <2>4, <3>0, HandlerCleared
    <3>2. \/ Fail(r, {"notFound"}) \/ Fail(r, {"repository"})
          \/ Answer(r, 304) \/ WriteNegotiated(r) \/ Answer(r, 200)
      BY <1>3, <2>4 DEF ServeUser
    <3> QED BY <1>1, <2>1, <3>1, <3>2, HandlingFacts, FailOneStep, AnswerStep, NegotiatedStep
  <2> QED BY <2>3, <2>4
<1>4. CASE ServeJob(r)
  <2> DEFINE path == "/api/v1/jobs/{id}"
  <2>1. Handling(r, path)
    BY <1>4 DEF ServeJob
  <2>2. path \in Guarded \ (UserItems \cup {"/api/v1/jobs/{id}/events"})
    BY DEF Guarded, ApiPaths, Collections, UserItems, JobItems
  <2>3. Owns(rq[r])
    <3>1. At(r, "handler") /\ rq[r].path = path /\ Served(rq[r].path, rq[r].method)
      BY <2>1, HandlingFacts
    <3>2. rq[r].path \in Guarded
            /\ rq[r].path \notin UserItems \cup {"/api/v1/jobs/{id}/events"}
      BY Zenon, <2>2, <3>1
    <3> QED BY Zenon, <3>1, <3>2, HandlerCleared
  <2>4. \/ Fail(r, {"jobNotFound"}) \/ Fail(r, {"repository"}) \/ Fail(r, {"forbidden"})
        \/ Answer(r, 200)
    BY <1>4 DEF ServeJob
  <2>5. rq[r].pc \in Handlers /\ UNCHANGED <<bulkheadVars, httpInFlight>>
    BY <2>1, HandlingFacts
  <2> QED BY <1>1, <2>3, <2>4, <2>5, FailOneStep, AnswerStep
<1> QED BY <1>2, <1>3, <1>4

-----------------------------------------------------------------------------
(* The handlers that wait                                                   *)

\* The stage changes, and perhaps a field that no answer depends on.
Moves(r, stage) ==
    /\ rq' \in [Requests -> RequestRecord] /\ Others(r)
    /\ rq'[r].pc = stage /\ rq'[r].path = rq[r].path
    /\ rq'[r].header = rq[r].header /\ rq'[r].wire = rq[r].wire
    /\ rq'[r].err = rq[r].err

\* A request that moves on changes its stage only, ...
LEMMA StageMoves ==
    ASSUME LocalInv, NEW r \in Requests, NEW stage \in Stages,
           SetStage(r, stage)
    PROVE  Moves(r, stage)
BY DEF SetStage, LocalInv, RequestRecord, Others, Moves

\* ... or starts a deadline as well, ...
LEMMA LeftMoves ==
    ASSUME LocalInv, NEW r \in Requests, NEW stage \in Stages, NEW n \in Ticks,
           SetLeft(r, n, stage)
    PROVE  Moves(r, stage)
BY ZenonT(120) DEF SetLeft, LocalInv, RequestRecord, Others, Moves

\* ... or a backoff, ...
LEMMA NapMoves ==
    ASSUME LocalInv, NEW r \in Requests, NEW stage \in Stages, NEW n \in Ticks,
           SetNap(r, n, stage)
    PROVE  Moves(r, stage)
BY ZenonT(120) DEF SetNap, LocalInv, RequestRecord, Others, Moves

\* ... or counts an attempt.
LEMMA AttemptMoves ==
    ASSUME LocalInv, NEW r \in Requests, NEW stage \in Stages, NEW n \in Ticks,
           SetAttempt(r, n, stage)
    PROVE  Moves(r, stage)
BY SMTT(60), ZenonT(60) DEF SetAttempt, LocalInv, RequestRecord, Others, Moves

\* The handler goes on to wait for something; its caller is entitled.
LEMMA WaitStep ==
    ASSUME LocalInv, NEW r \in Requests, rq[r].pc \in Handlers,
           NEW stage \in {"loop", "attempt", "backoff", "bridge", "stream"},
           Moves(r, stage), stage # "stream" => rq[r].pc # "stream",
           Owns(rq[r]), UNCHANGED <<bulkheadVars, httpInFlight>>
    PROVE  HandlerStep(r)
<1>1. rq'[r].wire = 0 \/ stage = "stream"
  BY DEF Moves, LocalInv, RequestInv, Handlers, Leaving
<1>2. Owns(rq'[r])
  BY DEF Owns, Moves
<1>3. RequestInv(rq'[r])
  BY <1>1, <1>2 DEF RequestInv, Moves
<1> QED BY <1>3 DEF HandlerStep, Handlers, Moves

\* The configured timeouts are durations.
LEMMA TimeoutsAreTicks ==
    ProfileTimeout \in Ticks /\ BridgeTimeout \in Ticks /\ QueryTimeout \in Ticks
<1>1. \A n \in Nat \ {0} : n \in Int
  OBVIOUS
<1> QED BY Zenon, <1>1, EdgeAssumption DEF Ticks

\* JobHandler and UserProfileService: a call that may wait is made for an
\* entitled caller.
LEMMA StartStep ==
    ASSUME LocalInv, NEW r \in Requests, StartProfile(r) \/ StartBridge(r) \/ OpenStream(r)
    PROVE  HandlerStep(r)
<1>1. {"repository", "forbidden", "notFound", "jobNotFound", "hubClosed"} \subseteq Errors
  BY DEF Errors
<1>2. {"loop", "bridge", "stream"} \subseteq Stages
  BY DEF Stages
<1>3. PICK path \in {"/api/v1/users/{id}/profile", "/api/v1/jobs/{id}/grpc",
                     "/api/v1/jobs/{id}/events"} : Handling(r, path)
  BY DEF StartProfile, StartBridge, OpenStream
<1>4. /\ At(r, "handler") /\ rq[r].path = path /\ Served(rq[r].path, rq[r].method)
      /\ rq[r].pc \in Handlers /\ UNCHANGED <<bulkheadVars, httpInFlight>>
  BY <1>3, HandlingFacts
<1>5. rq[r].path \in Guarded
  BY <1>4 DEF Guarded, ApiPaths, UserItems, JobItems
<1>6. CASE StartProfile(r)
  <2>1. CASE ~CanReadUser(Principal(r), Target)
    BY <1>1, <1>4, <1>6, <2>1, FailOneStep DEF StartProfile
  <2>2. CASE CanReadUser(Principal(r), Target)
    <3>1. Owns(rq[r])
      BY Zenon, <1>4, <1>5, <2>2, HandlerCleared
    <3>2. Fail(r, {"notFound"}) \/ Fail(r, {"repository"}) \/ SetLeft(r, ProfileTimeout, "loop")
      BY <1>6, <2>2 DEF StartProfile, SetLeft
    <3>3. ProfileTimeout \in Ticks
      BY TimeoutsAreTicks
    <3>4. CASE SetLeft(r, ProfileTimeout, "loop")
      <4>1. Moves(r, "loop")
        BY <1>2, <3>3, <3>4, LeftMoves
      <4> QED BY <1>4, <3>1, <4>1, WaitStep DEF At
    <3> QED BY <1>1, <1>4, <3>1, <3>2, <3>4, FailOneStep
  <2> QED BY <2>1, <2>2
<1>7. CASE StartBridge(r)
  <2>1. rq[r].path \notin UserItems \cup {"/api/v1/jobs/{id}/events"}
    BY <1>4, <1>7 DEF StartBridge, Handling, UserItems
  <2>2. Owns(rq[r])
    BY Zenon, <1>4, <1>5, <2>1, HandlerCleared
  <2>3. SetLeft(r, BridgeTimeout, "bridge") /\ BridgeTimeout \in Ticks
    BY <1>7, TimeoutsAreTicks DEF StartBridge, SetLeft
  <2>4. Moves(r, "bridge")
    BY <1>2, <2>3, LeftMoves
  <2> QED BY <1>4, <2>2, <2>4, WaitStep DEF At
<1>8. CASE OpenStream(r)
  <2>1. CASE ~CanReadJob(Principal(r), Target)
    BY <1>1, <1>4, <1>8, <2>1, FailOneStep DEF OpenStream
  <2>2. CASE CanReadJob(Principal(r), Target)
    <3>1. Owns(rq[r])
      BY Zenon, <1>4, <1>5, <2>2, HandlerCleared DEF CanReadJob, CanReadUser
    <3>2. \/ Fail(r, {"jobNotFound"}) \/ Fail(r, {"repository"}) \/ Fail(r, {"hubClosed"})
          \/ SetStage(r, "stream")
      BY <1>8, <2>2 DEF OpenStream, SetStage
    <3>3. CASE SetStage(r, "stream")
      <4>1. Moves(r, "stream")
        BY <1>2, <3>3, StageMoves
      <4> QED BY <1>4, <3>1, <4>1, WaitStep
    <3> QED BY <1>1, <1>4, <3>1, <3>2, <3>3, FailOneStep
  <2> QED BY <2>1, <2>2
<1> QED BY <1>6, <1>7, <1>8

\* RetryingProfileClient.FetchProfile after a failed attempt.
LEMMA RetryStep ==
    ASSUME LocalInv, NEW r \in Requests, NEW e \in Errors, At(r, "attempt"), Retry(r, e),
           UNCHANGED <<bulkheadVars, httpInFlight>>
    PROVE  HandlerStep(r)
<1>1. rq[r].pc \in Handlers /\ rq[r].pc # "stream" /\ Owns(rq[r])
  BY WaitingIsCleared DEF At, Handlers
<1>2. \/ Fail(r, {e}) \/ SetStage(r, "loop")
      \/ \E d \in 0 .. backoffWithJitter(rq[r].attempt) : SetNap(r, d, "backoff")
  BY Zenon DEF Retry, SetStage, SetNap
<1>3. CASE Fail(r, {e})
  BY <1>1, <1>3, FailOneStep
<1>4. CASE SetStage(r, "loop")
  <2>1. Moves(r, "loop")
    BY <1>4, StageMoves DEF Stages
  <2> QED BY <1>1, <2>1, WaitStep
<1>5. CASE \E d \in 0 .. backoffWithJitter(rq[r].attempt) : SetNap(r, d, "backoff")
  <2>1. PICK d \in 0 .. backoffWithJitter(rq[r].attempt) : SetNap(r, d, "backoff")
    BY <1>5
  <2>2. d \in Ticks /\ "backoff" \in Stages
    BY DEF Ticks, Stages
  <2>3. Moves(r, "backoff")
    BY <2>1, <2>2, NapMoves
  <2> QED BY <1>1, <2>3, WaitStep
<1> QED BY <1>2, <1>3, <1>4, <1>5

\* The retry loop around the profile service (RetryingProfileClient).
LEMMA ProfileStep ==
    ASSUME LocalInv, NEW r \in Requests,
           NextAttempt(r) \/ AttemptAborted(r) \/ AttemptEnds(r) \/ WakeUp(r)
    PROVE  HandlerStep(r)
<1>1. /\ rq[r].pc \in {"loop", "attempt", "backoff"} /\ UNCHANGED <<bulkheadVars, httpInFlight>>
  BY DEF NextAttempt, AttemptAborted, AttemptEnds, WakeUp, At
<1>2. rq[r].pc \in Handlers /\ rq[r].pc # "stream" /\ Owns(rq[r])
  BY <1>1, WaitingIsCleared DEF Handlers
<1>3. ctxToProfileError(r) \subseteq Errors
  BY DEF ctxToProfileError, Errors
<1>4. CASE NextAttempt(r)
  <2>1. (\E e \in Errors : Fail(r, {e})) \/ SetAttempt(r, rq[r].attempt + 1, "attempt")
    BY <1>3, <1>4 DEF NextAttempt, SetAttempt
  <2>2. rq[r].attempt + 1 \in Ticks
    <3>1. rq[r].attempt \in Int
      BY DEF LocalInv, RequestRecord, Ticks
    <3> QED BY <3>1 DEF Ticks
  <2>3. CASE SetAttempt(r, rq[r].attempt + 1, "attempt")
    <3>1. Moves(r, "attempt")
      BY <2>2, <2>3, AttemptMoves DEF Stages
    <3> QED BY <1>1, <1>2, <3>1, WaitStep
  <2> QED BY <1>1, <1>2, <2>1, <2>3, FailOneStep
<1>5. CASE AttemptAborted(r)
  BY <1>1, <1>3, <1>5, RetryStep DEF AttemptAborted
<1>6. CASE AttemptEnds(r)
  <2>1. {"profileNetwork", "profileTimeout", "profile5xx", "profile4xx",
         "profileBadResponse", "profileParse"} \subseteq Errors
    BY DEF Errors
  <2>2. WriteNegotiated(r) \/ \E e \in Errors : At(r, "attempt") /\ Retry(r, e)
    BY Zenon, <1>6, <2>1 DEF AttemptEnds
  <2> QED BY <1>1, <1>2, <2>2, NegotiatedStep, RetryStep
<1>7. CASE WakeUp(r)
  <2>1. SetStage(r, "loop") \/ \E e \in Errors : Fail(r, {e})
    BY <1>3, <1>7 DEF WakeUp, SetStage
  <2>2. CASE SetStage(r, "loop")
    <3>1. Moves(r, "loop")
      BY <2>2, StageMoves DEF Stages
    <3> QED BY <1>1, <1>2, <3>1, WaitStep
  <2> QED BY <1>1, <1>2, <2>1, <2>2, FailOneStep
<1> QED BY <1>4, <1>5, <1>6, <1>7

\* The job query behind the bridge starts its own clock.
LEMMA QueryMoves ==
    ASSUME LocalInv, NEW r \in Requests, BridgeQueries(r)
    PROVE  /\ Moves(r, "bridge") /\ rq[r].pc = "bridge"
           /\ UNCHANGED <<bulkheadVars, httpInFlight>>
<1>1. rq[r].pc = "bridge" /\ rq' = [rq EXCEPT ![r].query = QueryTimeout]
      /\ UNCHANGED <<bulkheadVars, httpInFlight>>
  BY Zenon DEF BridgeQueries, At
<1>2. PICK n \in Ticks : n = QueryTimeout
  BY TimeoutsAreTicks
<1>3. PICK stage \in Stages : stage = "bridge"
  BY DEF Stages
<1>4. SetQuery(r, n, stage)
  BY <1>1, <1>2, <1>3, ZenonT(60) DEF SetQuery, LocalInv, RequestRecord
<1>5. Moves(r, stage)
  BY <1>4, SMTT(60), ZenonT(60) DEF SetQuery, LocalInv, RequestRecord, Others, Moves
<1> QED BY <1>1, <1>3, <1>5, Zenon

\* The call of the gRPC bridge, until it ends and however it does.
LEMMA BridgeStep ==
    ASSUME LocalInv, NEW r \in Requests, BridgeQueries(r) \/ BridgeAborted(r) \/ BridgeReturns(r)
    PROVE  HandlerStep(r)
<1>1. rq[r].pc = "bridge" /\ UNCHANGED <<bulkheadVars, httpInFlight>>
  BY DEF BridgeQueries, BridgeAborted, BridgeReturns, At
<1>2. rq[r].pc \in Handlers /\ Owns(rq[r])
  BY <1>1, WaitingIsCleared DEF Handlers
<1>3. \A code : \E x \in Errors : MapGRPCBridgeError(code) = {x}
  BY DEF MapGRPCBridgeError, Errors
<1>4. CASE BridgeQueries(r)
  BY <1>1, <1>2, <1>4, QueryMoves, WaitStep
<1>5. CASE BridgeAborted(r) \/ BridgeReturns(r)
  <2>1. (\E code : Fail(r, MapGRPCBridgeError(code))) \/ Answer(r, 200)
    BY <1>5 DEF BridgeAborted, BridgeReturns
  <2>2. CASE Answer(r, 200)
    BY <1>1, <1>2, <2>2, AnswerStep
  <2>3. CASE \E code : Fail(r, MapGRPCBridgeError(code))
    <3>1. PICK code : Fail(r, MapGRPCBridgeError(code))
      BY <2>3, Zenon
    <3> QED BY <1>1, <1>2, <1>3, <3>1, FailOneStep
  <2> QED BY <2>1, <2>2, <2>3, Zenon
<1> QED BY <1>4, <1>5

\* The event stream: a write, a failure, the end.
LEMMA StreamStep ==
    ASSUME LocalInv, NEW r \in Requests, StreamWrite(r) \/ StreamDone(r) \/ StreamClosed(r)
    PROVE  HandlerStep(r)
<1>1. rq[r].pc = "stream" /\ UNCHANGED <<bulkheadVars, httpInFlight>>
  BY DEF StreamWrite, StreamDone, StreamClosed, At
<1>2. rq[r].pc \in Handlers /\ Owns(rq[r])
  BY <1>1, WaitingIsCleared DEF Handlers
<1>3. {} \in ErrorSets /\ {"write"} \in ErrorSets /\ "write" \in Errors
  BY DEF ErrorSets, Errors
<1>4. CASE Fail(r, {}) \/ Fail(r, {"write"})
  BY <1>1, <1>2, <1>3, <1>4, FailStep
<1>5. PICK w \in Statuses : w = 200
  BY DEF Statuses
<1>6. CASE Return(r, w, {"write"})
  BY <1>1, <1>2, <1>3, <1>6, ReturnStep
<1>7. CASE SetWire(r, w, "stream")
  <2>1. /\ rq' \in [Requests -> RequestRecord] /\ Others(r) /\ rq'[r].pc = "stream"
        /\ rq'[r].path = rq[r].path /\ rq'[r].header = rq[r].header
    BY <1>7, WriteAndGo DEF Stages
  <2>2. RequestInv(rq'[r])
    BY <1>2, <2>1, SMTT(60), ZenonT(60) DEF RequestInv, Owns
  <2> QED BY <1>1, <2>1, <2>2 DEF HandlerStep, Handlers
<1>8. rq' = [rq EXCEPT ![r].wire = w] => SetWire(r, w, "stream")
  BY <1>1, Zenon DEF SetWire, LocalInv, RequestRecord
<1> QED BY <1>4, <1>5, <1>6, <1>7, <1>8 DEF StreamWrite, StreamDone, StreamClosed

\* A panic unwinds through the same deferred calls.
LEMMA PanicStep ==
    ASSUME LocalInv, NEW r \in Requests, Panic(r)
    PROVE  HandlerStep(r)
BY FailOneStep DEF Panic, Handlers, Errors

\* A client that goes away changes nothing but its context.
LEMMA ClientGoneStep ==
    ASSUME LocalInv, NEW r \in Requests, ClientGone(r)
    PROVE  HandlerStep(r)
<1>1. rq[r].pc \in Handlers /\ UNCHANGED <<bulkheadVars, httpInFlight>> /\ Owns(rq[r])
  BY WaitingIsCleared DEF ClientGone, Handlers
<1>2. /\ rq' \in [Requests -> RequestRecord] /\ Others(r)
      /\ rq'[r].pc = rq[r].pc /\ rq'[r].path = rq[r].path
      /\ rq'[r].header = rq[r].header /\ rq'[r].wire = rq[r].wire
  BY SMTT(60), ZenonT(60) DEF ClientGone, LocalInv, RequestRecord, Others
<1>3. RequestInv(rq'[r])
  BY <1>1, <1>2 DEF LocalInv, RequestInv, Owns, ClientGone
<1> QED BY <1>1, <1>2, <1>3 DEF HandlerStep

-----------------------------------------------------------------------------
(* Honest statuses                                                          *)

\* The errors that say that the client has gone.
Canceled == {"grpcCanceled", "profileCanceled"}

\* What a request on its way out has to show for its error.
Caused(q) ==
    /\ q.wire \in {0, 200, 304, 405}
    /\ q.wire = 200 => q.err \subseteq {"write", "panic"}
    /\ q.err \cap Canceled # {} => q.gone
    /\ "grpcTimeout" \in q.err => q.left = 0 \/ q.query = 0
    /\ "rateLimit" \in q.err => q.path \in ApiPaths /\ q.header = NoHeader

\* A request with the same error, status and causes.
LEMMA CausedStays ==
    ASSUME NEW p, NEW q, Caused(p), q.path = p.path, q.header = p.header, q.wire = p.wire,
           q.err = p.err, q.gone = p.gone, q.left = p.left, q.query = p.query
    PROVE  Caused(q)
BY SMTT(60), ZenonT(60) DEF Caused

\* A handler's end with an error that has its cause.
LEMMA CausedAtEnd ==
    ASSUME NEW q, NEW e, q.err = e, q.wire \in {0, 200, 304},
           q.wire = 200 => e \subseteq {"write", "panic"}, e \cap Canceled # {} => q.gone,
           "grpcTimeout" \in e => q.left = 0 \/ q.query = 0, "rateLimit" \notin e
    PROVE  Caused(q)
BY SMTT(60), ZenonT(60) DEF Caused

\* Before the handlers nothing is on the wire, and only the limiter's error has
\* something to show.
LEMMA CausedBefore ==
    ASSUME NEW q, q.wire = 0, q.err \cap Canceled = {}, "grpcTimeout" \notin q.err,
           "rateLimit" \in q.err => q.path \in ApiPaths /\ q.header = NoHeader
    PROVE  Caused(q)
BY DEF Caused

\* The limiter's error is none of the others.
LEMMA RateLimitAlone ==
    {"rateLimit"} \cap Canceled = {} /\ "grpcTimeout" \notin {"rateLimit"}
BY DEF Canceled

\* What StatusIsHonest says of one request.
Told(q) ==
    /\ q.wire # 0
    /\ q.wire = 408 => q.gone
    /\ q.wire = 504 => q.left = 0 \/ q.query = 0
    /\ q.wire = 200 /\ "write" \notin q.err /\ "panic" \notin q.err => q.err = {}
    /\ q.wire = 429 => q.path \in ApiPaths /\ q.header = NoHeader

Honest(q) ==
    /\ q.pc \in {"bulkhead", "count", "reserve", "delay", "cancel", "authn"}
            => q.header = NoHeader
    /\ q.pc \notin Leaving => q.err = {}
    /\ q.pc = "stream" => q.wire \in {0, 200}
    /\ q.pc \in {"release", "uncount", "problem"} => Caused(q)
    /\ q.pc = "observe" => Told(q)

HonestInv == \A r \in Requests : Honest(rq[r])

\* What was told stays told.
LEMMA ToldStays ==
    ASSUME NEW p, NEW q, Told(p), q.path = p.path, q.header = p.header, q.wire = p.wire,
           q.err = p.err, q.gone = p.gone, q.left = p.left, q.query = p.query
    PROVE  Told(q)
BY SMTT(60), ZenonT(60) DEF Told

\* A status already sent tells the cause.
LEMMA ToldAsSent ==
    ASSUME NEW p, NEW q, Caused(p), p.wire # 0, q.wire = p.wire, q.err = p.err
    PROVE  Told(q)
BY SMTT(60), ZenonT(60) DEF Caused, Told

\* An error a handler may return: it names a cause that has occurred.
Just(r, e) ==
    /\ e \in ErrorSets
    /\ e \cap Canceled # {} => rq[r].gone
    /\ "grpcTimeout" \in e => rq[r].left = 0 \/ rq[r].query = 0
    /\ "rateLimit" \notin e

\* How a handler ends: with no status of its own and a just error, or with one
\* that fits.
Ends(r) ==
    \E status \in {0, 200, 304}, e \in ErrorSets :
        /\ Just(r, e) /\ (status = 200 => e \subseteq {"write", "panic"})
        /\ Return(r, status, e)

\* The statuses a handler sends by itself are statuses.
LEMMA OwnStatuses == {0, 200, 304, 405} \subseteq Statuses
BY DEF Statuses

\* The record Return leaves.
Returned(q, status, e, stage) ==
    [q EXCEPT !.wire = status, !.err = e, !.pc = stage, !.attempt = 0, !.nap = 0]

SameCauses(after, q) ==
    /\ after.path = q.path /\ after.header = q.header
    /\ after.gone = q.gone /\ after.left = q.left /\ after.query = q.query

\* Return keeps what the cause of an error is read from.
LEMMA ReturnKeeps ==
    ASSUME NEW q \in RequestRecord, NEW status \in Statuses, NEW e \in ErrorSets,
           NEW stage \in Stages, NEW after, after = Returned(q, status, e, stage)
    PROVE  after.wire = status /\ after.err = e /\ after.pc = stage /\ SameCauses(after, q)
<1> DEFINE mid == [q EXCEPT !.wire = status, !.err = e, !.pc = stage]
<1>1. /\ mid \in RequestRecord /\ mid.wire = status /\ mid.err = e /\ mid.pc = stage
      /\ mid.path = q.path /\ mid.header = q.header
      /\ mid.gone = q.gone /\ mid.left = q.left /\ mid.query = q.query
  BY DEF RequestRecord
<1>2. after = [mid EXCEPT !.attempt = 0, !.nap = 0]
  BY DEF RequestRecord, Returned
<1> HIDE DEF mid
<1>3. /\ after.wire = mid.wire /\ after.err = mid.err /\ after.pc = mid.pc
      /\ after.path = mid.path /\ after.header = mid.header
      /\ after.gone = mid.gone /\ after.left = mid.left /\ after.query = mid.query
  BY <1>1, <1>2 DEF RequestRecord
<1> QED BY Zenon, <1>1, <1>3 DEF SameCauses

\* A handler that ends so is honest.
LEMMA EndsHonestly ==
    ASSUME LocalInv, NEW r \in Requests, Ends(r)
    PROVE  Others(r) /\ Honest(rq'[r])
<1>1. PICK status \in {0, 200, 304}, e \in ErrorSets :
        /\ Just(r, e) /\ (status = 200 => e \subseteq {"write", "panic"})
        /\ Return(r, status, e)
  BY DEF Ends
<1>2. rq[r] \in RequestRecord /\ status \in Statuses /\ Unwind(rq[r].path) \in Stages
  BY OwnStatuses DEF LocalInv, Unwind, Stages
<1>3. /\ Others(r)
      /\ rq'[r] = Returned(rq[r], status, e, Unwind(rq[r].path))
  BY <1>1 DEF Return, Returned, LocalInv, Others
<1>4. /\ rq'[r].wire = status /\ rq'[r].err = e /\ rq'[r].pc = Unwind(rq[r].path)
      /\ rq'[r].path = rq[r].path /\ rq'[r].header = rq[r].header
      /\ rq'[r].gone = rq[r].gone /\ rq'[r].left = rq[r].left /\ rq'[r].query = rq[r].query
  <2> DEFINE q == rq[r]
             after == rq'[r]
             stage == Unwind(rq[r].path)
  <2>1. /\ q \in RequestRecord /\ status \in Statuses /\ stage \in Stages
        /\ after = Returned(q, status, e, stage)
    BY <1>2, <1>3, Zenon
  <2> HIDE DEF q, after, stage
  <2>2. after.wire = status /\ after.err = e /\ after.pc = stage /\ SameCauses(after, q)
    BY <2>1, ReturnKeeps, ZenonT(60), SMTT(60)
  <2> QED BY <2>2, Zenon DEF q, after, stage, SameCauses
<1>5. Caused(rq'[r])
  <2>1. /\ e \cap Canceled # {} => rq'[r].gone
        /\ "grpcTimeout" \in e => rq'[r].left = 0 \/ rq'[r].query = 0
        /\ "rateLimit" \notin e
    <3>1. /\ e \cap Canceled # {} => rq[r].gone
          /\ "grpcTimeout" \in e => rq[r].left = 0 \/ rq[r].query = 0
          /\ "rateLimit" \notin e
      BY <1>1, Zenon DEF Just
    <3>2. rq'[r].gone = rq[r].gone /\ rq'[r].left = rq[r].left /\ rq'[r].query = rq[r].query
      BY <1>4, Zenon
    <3>3. e \cap Canceled # {} => rq'[r].gone
      BY <3>1, <3>2, Zenon
    <3>4. "grpcTimeout" \in e => rq'[r].left = 0 \/ rq'[r].query = 0
      BY <3>1, <3>2, Zenon
    <3> QED BY <3>1, <3>3, <3>4, Zenon
  <2>2. rq'[r].wire \in {0, 200, 304} /\ (rq'[r].wire = 200 => e \subseteq {"write", "panic"})
    BY <1>1, <1>4, ZenonT(60)
  <2> DEFINE q == rq'[r]
  <2>3. /\ q.err = e /\ q.wire \in {0, 200, 304} /\ (q.wire = 200 => e \subseteq {"write", "panic"})
        /\ (e \cap Canceled # {} => q.gone) /\ "rateLimit" \notin e
        /\ ("grpcTimeout" \in e => q.left = 0 \/ q.query = 0)
    BY <1>4, <2>1, <2>2, Zenon
  <2> HIDE DEF q
  <2>4. Caused(q)
    BY <2>3, CausedAtEnd, SMTT(60), ZenonT(60)
  <2> QED BY <2>4, Zenon DEF q
<1>6. rq'[r].pc \in {"release", "problem"}
  BY <1>4 DEF Unwind
<1> QED BY <1>3, <1>5, <1>6 DEF Honest, Leaving

\* What a step leaves when it is honest.
HonestStep(r) == Others(r) /\ Honest(rq'[r])

\* A request in a handler has no error yet and, but for a stream, no status.
LEMMA Underway ==
    ASSUME NEW q, RequestInv(q), Honest(q), q.pc \in Handlers
    PROVE  q.err = {} /\ q.wire \in {0, 200} /\ (q.pc # "stream" => q.wire = 0)
<1>1. q.pc \notin Leaving
  BY DEF Handlers, Leaving
<1>2. q.err = {} /\ (q.pc = "stream" => q.wire \in {0, 200})
  BY <1>1, Zenon DEF Honest
<1>3. q.pc \notin Leaving \cup {"stream"} => q.wire = 0
  BY Zenon DEF RequestInv
<1> QED BY <1>1, <1>2, <1>3, Zenon

\* That is all honesty asks of it behind the authentication.
LEMMA HonestUnderway ==
    ASSUME NEW q, q.pc \in Handlers \ {"authn"}, q.err = {},
           q.pc = "stream" => q.wire \in {0, 200}
    PROVE  Honest(q)
<1>1. /\ q.pc \notin {"bulkhead", "count", "reserve", "delay", "cancel", "authn"}
      /\ q.pc \notin {"release", "uncount", "problem"} /\ q.pc # "observe"
  BY DEF Handlers
<1> QED BY <1>1, Zenon DEF Honest

\* A handler that fails for a just cause ends well (Fail).
LEMMA FailEnds ==
    ASSUME LocalInv, HonestInv, NEW r \in Requests, NEW e \in ErrorSets,
           rq[r].pc \in Handlers, Fail(r, e), Just(r, e),
           rq[r].pc = "stream" => e \subseteq {"write", "panic"}
    PROVE  HonestStep(r)
<1>0. RequestInv(rq[r]) /\ Honest(rq[r])
  BY Zenon DEF LocalInv, HonestInv
<1>1. rq[r].wire \in {0, 200} /\ (rq[r].pc # "stream" => rq[r].wire = 0)
  BY <1>0, Underway, Zenon
<1>2. Ends(r)
  BY <1>1 DEF Ends, Fail
<1> QED BY <1>2, EndsHonestly DEF HonestStep

\* The errors that blame neither the client, nor a deadline, nor the limiter.
Plain == Errors \ (Canceled \cup {"grpcTimeout", "rateLimit"})

\* They are always just.
LEMMA PlainFails ==
    ASSUME LocalInv, HonestInv, NEW r \in Requests, NEW x \in Plain,
           rq[r].pc \in Handlers, Fail(r, {x}),
           rq[r].pc = "stream" => x \in {"write", "panic"}
    PROVE  HonestStep(r)
<1>1. {x} \in ErrorSets /\ Just(r, {x})
  BY DEF Plain, ErrorSets, Just
<1> QED BY <1>1, FailEnds

\* An answer ends well, even one whose body fails (Answer).
LEMMA AnswerEnds ==
    ASSUME LocalInv, NEW r \in Requests, NEW status \in {200, 304}, Answer(r, status)
    PROVE  HonestStep(r)
<1>1. PICK e \in {{}, {"write"}} : Return(r, status, e)
  BY DEF Answer
<1>2. e \in ErrorSets /\ Just(r, e) /\ e \subseteq {"write", "panic"}
  BY DEF ErrorSets, Errors, Just, Canceled
<1>3. Ends(r)
  BY <1>1, <1>2 DEF Ends
<1> QED BY <1>3, EndsHonestly DEF HonestStep

\* So does a negotiated one (WriteNegotiated).
LEMMA NegotiatedEnds ==
    ASSUME LocalInv, HonestInv, NEW r \in Requests, rq[r].pc \in Handlers \ {"stream"},
           WriteNegotiated(r)
    PROVE  HonestStep(r)
<1>1. "notAcceptable" \in Plain
  BY DEF Plain, Errors, Canceled
<1> QED BY <1>1, PlainFails, AnswerEnds DEF WriteNegotiated

\* A handler that goes on has no error yet.
LEMMA GoesHonestly ==
    ASSUME LocalInv, HonestInv, NEW r \in Requests, rq[r].pc \in Handlers \ {"stream"},
           NEW stage \in Handlers \ {"authn"}, Moves(r, stage)
    PROVE  HonestStep(r)
<1>0. RequestInv(rq[r]) /\ Honest(rq[r])
  BY Zenon DEF LocalInv, HonestInv
<1>1. rq[r].wire = 0 /\ rq[r].err = {}
  <2>1. rq[r].pc \in Handlers /\ rq[r].pc # "stream"
    OBVIOUS
  <2> QED BY <1>0, <2>1, Underway, ZenonT(60)
<1>2. Others(r) /\ rq'[r].pc = stage /\ rq'[r].wire = 0 /\ rq'[r].err = {}
  BY <1>1, Zenon DEF Moves
<1> QED BY <1>2, HonestUnderway, Zenon DEF HonestStep

\* Authentication and RBAC.
LEMMA AuthHonest ==
    ASSUME LocalInv, HonestInv, NEW r \in Requests, Authenticate(r) \/ CheckPolicy(r)
    PROVE  HonestStep(r)
<1>1. rq[r].pc \in Handlers \ {"stream"}
  BY DEF Authenticate, CheckPolicy, At, Handlers
<1>2. {"unauthorized", "forbidden", "wiring"} \subseteq Plain
  BY DEF Plain, Errors, Canceled
<1>3. {"authz", "handler"} \subseteq Stages \cap (Handlers \ {"authn"})
  BY DEF Stages, Handlers
<1>4. ASSUME NEW x \in Plain, Fail(r, {x}) PROVE HonestStep(r)
  BY <1>1, <1>4, PlainFails
<1>5. ASSUME NEW stage \in {"authz", "handler"}, SetStage(r, stage) PROVE HonestStep(r)
  BY <1>1, <1>3, <1>5, StageMoves, GoesHonestly
<1>6. ASSUME NEW h \in Headers, rq' = [rq EXCEPT ![r].header = h, ![r].pc = "authz"]
      PROVE  HonestStep(r)
  <2>0. RequestInv(rq[r]) /\ Honest(rq[r])
    BY Zenon DEF LocalInv, HonestInv
  <2>1. rq[r].err = {} /\ rq[r] \in RequestRecord
    <3>1. rq[r].pc \in Handlers /\ rq[r] \in RequestRecord
      BY <1>1 DEF LocalInv
    <3> QED BY <2>0, <3>1, Underway, ZenonT(60)
  <2>2. Others(r) /\ rq'[r].pc = "authz" /\ rq'[r].err = rq[r].err
    BY <1>6, <2>1 DEF LocalInv, RequestRecord, Others
  <2> QED BY <2>1, <2>2 DEF HonestStep, Honest, Leaving
<1>7. CASE Authenticate(r)
  BY <1>2, <1>4, <1>5, <1>6, <1>7 DEF Authenticate, SetStage
<1>8. CASE CheckPolicy(r)
  <2> DEFINE e == Authorize(rq[r].method, PatternOf(rq[r].path, rq[r].method), Principal(r))
  <2>1. e \in {{}, {"wiring"}, {"forbidden"}}
    BY DEF Authorize
  <2>2. IF e = {} THEN SetStage(r, "handler") ELSE Fail(r, e)
    BY <1>8 DEF CheckPolicy, SetStage
  <2> HIDE DEF e
  <2> QED BY <1>2, <1>4, <1>5, <2>1, <2>2
<1> QED BY <1>7, <1>8

\* The refusals of a method or an id.
LEMMA RefusalHonest ==
    ASSUME LocalInv, HonestInv, NEW r \in Requests, RefuseMethod(r) \/ RefuseId(r)
    PROVE  HonestStep(r)
<1>1. rq[r].pc = "handler" /\ rq[r].pc \in Handlers \ {"stream"}
  BY DEF RefuseMethod, RefuseId, Handling, At, Handlers
<1>2. {"methodNotAllowed", "badRequest"} \subseteq Plain
  BY DEF Plain, Errors, Canceled
<1>3. CASE Fail(r, {"methodNotAllowed"}) \/ Fail(r, {"badRequest"})
  BY <1>1, <1>2, <1>3, PlainFails
<1>4. CASE rq' = [rq EXCEPT ![r].wire = 405, ![r].pc = "problem"]
  <2>1. rq[r].err = {}
    BY <1>1 DEF HonestInv, Honest, Leaving
  <2>2. PICK w \in Statuses : w = 405
    BY OwnStatuses
  <2>3. SetWire(r, w, "problem") /\ "problem" \in Stages
    BY Zenon, <1>4, <2>2 DEF SetWire, Stages
  <2>4. Others(r) /\ rq'[r].pc = "problem" /\ rq'[r].wire = w /\ rq'[r].err = {}
    BY <2>1, <2>3, WriteAndGo, SMTT(60), ZenonT(60)
  <2>5. Caused(rq'[r])
    BY <2>2, <2>4 DEF Caused
  <2> QED BY <2>4, <2>5 DEF HonestStep, Honest, Leaving
<1> QED BY <1>3, <1>4 DEF RefuseMethod, RefuseId

\* The handlers that answer at once, and those that start to wait.
LEMMA ServeHonest ==
    ASSUME LocalInv, HonestInv, NEW r \in Requests,
           \/ ServeList(r) \/ ServeUser(r) \/ ServeJob(r)
           \/ StartProfile(r) \/ StartBridge(r) \/ OpenStream(r)
    PROVE  HonestStep(r)
<1>1. rq[r].pc \in Handlers \ {"stream"}
  BY DEF ServeList, ServeUser, ServeJob, StartProfile, StartBridge, OpenStream, Handling, At,
         Handlers
<1>2. {"repository", "forbidden", "notFound", "jobNotFound", "hubClosed"} \subseteq Plain
  BY DEF Plain, Errors, Canceled
<1>3. ASSUME NEW x \in Plain, Fail(r, {x}) PROVE HonestStep(r)
  BY <1>1, <1>3, PlainFails
<1>4. ASSUME NEW status \in {200, 304}, Answer(r, status) PROVE HonestStep(r)
  BY <1>4, AnswerEnds
<1>5. ASSUME WriteNegotiated(r) PROVE HonestStep(r)
  BY <1>1, <1>5, NegotiatedEnds
<1>6. ASSUME NEW stage \in {"loop", "bridge", "stream"}, Moves(r, stage) PROVE HonestStep(r)
  BY <1>1, <1>6, GoesHonestly DEF Handlers
<1>7. {"loop", "bridge", "stream"} \subseteq Stages
  BY DEF Stages
<1>8. CASE ServeList(r)
  BY <1>2, <1>3, <1>4, <1>8 DEF ServeList
<1>9. CASE ServeUser(r)
  BY <1>2, <1>3, <1>4, <1>5, <1>9, ZenonT(40) DEF ServeUser
<1>10. CASE ServeJob(r)
  BY <1>2, <1>3, <1>4, <1>10 DEF ServeJob
<1>11. CASE StartProfile(r)
  <2>1. \/ Fail(r, {"forbidden"}) \/ Fail(r, {"notFound"}) \/ Fail(r, {"repository"})
        \/ SetLeft(r, ProfileTimeout, "loop")
    BY <1>11 DEF StartProfile, SetLeft
  <2>2. SetLeft(r, ProfileTimeout, "loop") => Moves(r, "loop")
    BY <1>7, TimeoutsAreTicks, LeftMoves
  <2> QED BY <1>2, <1>3, <1>6, <2>1, <2>2
<1>12. CASE StartBridge(r)
  <2>1. SetLeft(r, BridgeTimeout, "bridge")
    BY <1>12 DEF StartBridge, SetLeft
  <2> QED BY <1>6, <1>7, <2>1, TimeoutsAreTicks, LeftMoves
<1>13. CASE OpenStream(r)
  <2>1. \/ Fail(r, {"jobNotFound"}) \/ Fail(r, {"repository"}) \/ Fail(r, {"hubClosed"})
        \/ Fail(r, {"forbidden"}) \/ SetStage(r, "stream")
    BY <1>13 DEF OpenStream, SetStage
  <2>2. SetStage(r, "stream") => Moves(r, "stream")
    BY <1>7, StageMoves
  <2> QED BY <1>2, <1>3, <1>6, <2>1, <2>2
<1> QED BY <1>8, <1>9, <1>10, <1>11, <1>12, <1>13

\* What the context may say is true (ctxToProfileError).
LEMMA ContextIsJust ==
    ASSUME NEW r, NEW x \in ctxToProfileError(r)
    PROVE  x \in Errors /\ Just(r, {x})
<1>1. (x = "profileCanceled" /\ rq[r].gone) \/ x = "profileTimeout"
  BY DEF ctxToProfileError
<1>2. x \in Errors
  BY <1>1 DEF Errors
<1> QED BY <1>1, <1>2 DEF Just, ErrorSets, Canceled

\* The retry loop around the profile service.
LEMMA ProfileHonest ==
    ASSUME LocalInv, HonestInv, NEW r \in Requests,
           NextAttempt(r) \/ AttemptAborted(r) \/ AttemptEnds(r) \/ WakeUp(r)
    PROVE  HonestStep(r)
<1>1. rq[r].pc \in Handlers \ {"stream"}
  BY DEF NextAttempt, AttemptAborted, AttemptEnds, WakeUp, At, Handlers
<1>2. ASSUME NEW x \in Errors, Just(r, {x}), Fail(r, {x}) PROVE HonestStep(r)
  <2>1. {x} \in ErrorSets
    BY DEF ErrorSets
  <2> QED BY <1>1, <1>2, <2>1, FailEnds
<1>3. ASSUME NEW stage \in {"loop", "attempt", "backoff"}, Moves(r, stage) PROVE HonestStep(r)
  BY <1>1, <1>3, GoesHonestly DEF Handlers
<1>4. {"loop", "attempt", "backoff"} \subseteq Stages
  BY DEF Stages
<1>5. ASSUME SetStage(r, "loop") PROVE HonestStep(r)
  BY <1>3, <1>4, <1>5, StageMoves
<1>6. ASSUME NEW x \in Errors, Just(r, {x}), Retry(r, x) PROVE HonestStep(r)
  <2>1. \/ Fail(r, {x}) \/ SetStage(r, "loop")
        \/ \E d \in 0 .. backoffWithJitter(rq[r].attempt) : SetNap(r, d, "backoff")
    BY Zenon, <1>6 DEF Retry, SetStage, SetNap
  <2>2. ASSUME NEW d \in 0 .. backoffWithJitter(rq[r].attempt), SetNap(r, d, "backoff")
        PROVE  HonestStep(r)
    <3>1. d \in Ticks
      BY DEF Ticks
    <3> QED BY <1>3, <1>4, <2>2, <3>1, NapMoves
  <2> QED BY <1>2, <1>5, <1>6, <2>1, <2>2
<1>7. CASE NextAttempt(r)
  <2>1. \/ \E x \in ctxToProfileError(r) : Fail(r, {x})
        \/ SetAttempt(r, rq[r].attempt + 1, "attempt")
    BY <1>7 DEF NextAttempt, SetAttempt
  <2>2. rq[r].attempt + 1 \in Ticks
    <3>1. rq[r].attempt \in Int
      BY DEF LocalInv, RequestRecord, Ticks
    <3> QED BY <3>1 DEF Ticks
  <2>3. SetAttempt(r, rq[r].attempt + 1, "attempt") => Moves(r, "attempt")
    BY <1>4, <2>2, AttemptMoves
  <2> QED BY <1>2, <1>3, <2>1, <2>3, ContextIsJust
<1>8. CASE AttemptAborted(r)
  BY <1>6, <1>8, ContextIsJust DEF AttemptAborted
<1>9. CASE AttemptEnds(r)
  <2>1. WriteNegotiated(r) \/ \E x \in Plain : Retry(r, x)
    <3>1. {"profileNetwork", "profileTimeout", "profile5xx", "profile4xx",
           "profileBadResponse", "profileParse"} \subseteq Plain
      BY DEF Plain, Errors, Canceled
    <3> QED BY Zenon, <1>9, <3>1 DEF AttemptEnds
  <2>2. \A x \in Plain : x \in Errors /\ Just(r, {x})
    BY DEF Plain, Just, ErrorSets
  <2> QED BY <1>1, <1>6, <2>1, <2>2, NegotiatedEnds
<1>10. CASE WakeUp(r)
  BY <1>2, <1>5, <1>10, ContextIsJust DEF WakeUp, SetStage
<1> QED BY <1>7, <1>8, <1>9, <1>10

\* The server reports a context error only when its context is done (GetJob).
LEMMA GetJobIsJust ==
    ASSUME NEW r, NEW lookup \in Lookups(r)
    PROVE  LET code == GetJob(rq[r].header, lookup, Target)
           IN  /\ code = "Canceled" => rq[r].gone
               /\ code = "DeadlineExceeded" => rq[r].left = 0 \/ rq[r].query = 0
<1>1. /\ GetJob(rq[r].header, lookup, Target) = "Canceled" => lookup = "canceled"
      /\ GetJob(rq[r].header, lookup, Target) = "DeadlineExceeded" => lookup = "timeout"
  BY DEF GetJob
<1>2. /\ lookup = "canceled" => rq[r].gone
      /\ lookup = "timeout" => rq[r].left = 0 \/ rq[r].query = 0
  BY DEF Lookups
<1> QED BY <1>1, <1>2

\* The gRPC bridge: a timeout is answered only when a deadline has passed, its
\* own or the query's.
LEMMA BridgeHonest ==
    ASSUME LocalInv, HonestInv, NEW r \in Requests,
           BridgeQueries(r) \/ BridgeAborted(r) \/ BridgeReturns(r)
    PROVE  HonestStep(r)
<1>1. rq[r].pc \in Handlers \ {"stream"}
  BY DEF BridgeQueries, BridgeAborted, BridgeReturns, At, Handlers
<1>2. /\ MapGRPCBridgeError("Canceled") = {"grpcCanceled"}
      /\ MapGRPCBridgeError("DeadlineExceeded") = {"grpcTimeout"}
  BY DEF MapGRPCBridgeError
<1>3. \A code : code \notin {"Canceled", "DeadlineExceeded"} =>
                    \E x \in Plain : MapGRPCBridgeError(code) = {x}
  BY DEF MapGRPCBridgeError, Plain, Errors, Canceled
<1>4. ASSUME NEW code, code \notin {"Canceled", "DeadlineExceeded"},
             Fail(r, MapGRPCBridgeError(code))
      PROVE  HonestStep(r)
  BY <1>1, <1>3, <1>4, PlainFails
<1>5. ASSUME rq[r].gone, Fail(r, MapGRPCBridgeError("Canceled")) PROVE HonestStep(r)
  <2>1. {"grpcCanceled"} \in ErrorSets /\ Just(r, {"grpcCanceled"})
    BY <1>5 DEF ErrorSets, Errors, Just
  <2> QED BY <1>1, <1>2, <1>5, <2>1, FailEnds
<1>6. ASSUME rq[r].left = 0 \/ rq[r].query = 0, Fail(r, MapGRPCBridgeError("DeadlineExceeded"))
      PROVE  HonestStep(r)
  <2>1. {"grpcTimeout"} \in ErrorSets /\ Just(r, {"grpcTimeout"})
    BY <1>6 DEF ErrorSets, Errors, Just, Canceled
  <2> QED BY <1>1, <1>2, <1>6, <2>1, FailEnds
<1>7. CASE BridgeAborted(r)
  BY <1>5, <1>6, <1>7, Zenon DEF BridgeAborted
<1>8. CASE BridgeReturns(r)
  <2>1. CASE Fail(r, MapGRPCBridgeError("Unavailable"))
    BY <1>4, <2>1
  <2>2. CASE Answer(r, 200)
    BY <2>2, AnswerEnds
  <2>3. ASSUME NEW lookup \in Lookups(r), NEW code, code = GetJob(rq[r].header, lookup, Target),
               Fail(r, MapGRPCBridgeError(code))
        PROVE  HonestStep(r)
    <3>1. /\ code = "Canceled" => rq[r].gone
          /\ code = "DeadlineExceeded" => rq[r].left = 0 \/ rq[r].query = 0
      BY <2>3, GetJobIsJust, Zenon
    <3> QED BY <1>4, <1>5, <1>6, <2>3, <3>1, Zenon
  <2> QED BY <1>8, <2>1, <2>2, <2>3, Zenon DEF BridgeReturns
<1>9. CASE BridgeQueries(r)
  <2>1. "bridge" \in Handlers \ {"authn"}
    BY DEF Handlers
  <2> QED BY <1>1, <1>9, <2>1, QueryMoves, GoesHonestly, Zenon
<1> QED BY <1>7, <1>8, <1>9

\* The event stream, and a handler that panics.
LEMMA StreamHonest ==
    ASSUME LocalInv, HonestInv, NEW r \in Requests,
           StreamWrite(r) \/ StreamDone(r) \/ StreamClosed(r) \/ Panic(r)
    PROVE  HonestStep(r)
<1>1. rq[r].pc \in Handlers
  BY DEF StreamWrite, StreamDone, StreamClosed, Panic, At, Handlers
<1>2. {"write", "panic"} \subseteq Plain
  BY DEF Plain, Errors, Canceled
<1>3. CASE Fail(r, {"write"}) \/ Fail(r, {"panic"})
  BY <1>1, <1>2, <1>3, PlainFails
<1>4. CASE Fail(r, {})
  <2>1. {} \in ErrorSets /\ Just(r, {})
    BY DEF ErrorSets, Just
  <2> QED BY <1>1, <1>4, <2>1, FailEnds
<1>5. CASE Return(r, 200, {"write"})
  <2>1. Answer(r, 200)
    BY <1>5 DEF Answer
  <2> QED BY <2>1, AnswerEnds
<1>6. CASE rq[r].pc = "stream" /\ rq' = [rq EXCEPT ![r].wire = 200]
  <2>1. PICK w \in Statuses : w = 200
    BY OwnStatuses
  <2>2. SetWire(r, w, "stream")
    <3>1. rq' = [rq EXCEPT ![r].wire = w] /\ rq[r].pc = "stream"
      BY <1>6, <2>1, Zenon
    <3> QED BY <3>1, Zenon DEF SetWire, LocalInv, RequestRecord
  <2>3. Others(r) /\ rq'[r].pc = "stream" /\ rq'[r].wire = 200 /\ rq'[r].err = rq[r].err
    <3>1. "stream" \in Stages
      BY SMTT(60), ZenonT(60) DEF Stages
    <3>2. Others(r) /\ rq'[r].pc = "stream" /\ rq'[r].wire = w /\ rq'[r].err = rq[r].err
      BY <2>2, <3>1, WriteAndGo, SMTT(60), ZenonT(60)
    <3> QED BY <2>1, <3>2, Zenon
  <2>4. rq[r].err = {}
    BY <1>6 DEF HonestInv, Honest, Leaving
  <2> QED BY <2>3, <2>4 DEF HonestStep, Honest, Leaving
<1> QED BY <1>3, <1>4, <1>5, <1>6 DEF StreamWrite, StreamDone, StreamClosed, Panic, At

\* A client that goes away is no error yet.
LEMMA ClientGoneHonest ==
    ASSUME LocalInv, HonestInv, NEW r \in Requests, ClientGone(r)
    PROVE  HonestStep(r)
<1>1. /\ rq[r].pc \in {"loop", "attempt", "backoff", "bridge", "stream"}
      /\ RequestInv(rq[r]) /\ Honest(rq[r])
  BY DEF ClientGone, HonestInv, LocalInv
<1>2. /\ Others(r) /\ rq'[r].pc = rq[r].pc /\ rq'[r].err = rq[r].err
      /\ rq'[r].wire = rq[r].wire
  BY DEF ClientGone, LocalInv, RequestRecord, Others
<1>3. rq[r].pc \in Handlers \ {"authn"}
  BY <1>1 DEF Handlers
<1>4. rq[r].err = {} /\ rq[r].wire \in {0, 200}
  BY <1>1, <1>3, Underway, Zenon
<1> QED BY <1>2, <1>3, <1>4, HonestUnderway, Zenon DEF HonestStep
-----------------------------------------------------------------------------
(* Before and after the handlers                                            *)

SetErr(r, e, stage) == rq' = [rq EXCEPT ![r].err = e, ![r].pc = stage]
SetAct(r, n, stage) == rq' = [rq EXCEPT ![r].act = n, ![r].pc = stage]

\* A step that records an error and moves on.
LEMMA ErrMoves ==
    ASSUME LocalInv, NEW r \in Requests, NEW e \in ErrorSets, NEW stage \in Stages,
           SetErr(r, e, stage)
    PROVE  /\ rq' \in [Requests -> RequestRecord] /\ Others(r)
           /\ rq'[r].pc = stage /\ rq'[r].path = rq[r].path /\ rq'[r].err = e
           /\ rq'[r].wire = rq[r].wire
BY ZenonT(120) DEF SetErr, LocalInv, RequestRecord, Others

\* A step that sets the time of a reservation and moves on.
LEMMA ActMoves ==
    ASSUME LocalInv, NEW r \in Requests, NEW n \in Ticks, NEW stage \in Stages,
           SetAct(r, n, stage)
    PROVE  Moves(r, stage)
BY SMTT(60), ZenonT(60) DEF SetAct, LocalInv, RequestRecord, Others, Moves

\* What a step outside the handlers does: a request moves from one stage to
\* another and keeps its path.
Passes(r, from, to) ==
    /\ rq' \in [Requests -> RequestRecord] /\ Others(r)
    /\ rq[r].pc = from /\ rq'[r].pc = to /\ rq'[r].path = rq[r].path
    /\ RequestInv(rq'[r])

\* Moving on outside the handlers keeps what is true of the request.
LEMMA MovesPasses ==
    ASSUME LocalInv, NEW r \in Requests, NEW from, NEW to, rq[r].pc = from, Moves(r, to),
           \/ from \in {"bulkhead", "count", "reserve", "delay"}
                /\ to \in {"count", "reserve", "delay", "cancel", "authn"}
           \/ from = "release" /\ to = "uncount"
           \/ from = "uncount" /\ to = "problem"
    PROVE  Passes(r, from, to)
<1>1. RequestInv(rq[r])
  BY DEF LocalInv
<1> DEFINE q == rq[r]
           p == rq'[r]
<1>2. /\ q.pc = from /\ p.pc = to /\ p.path = q.path /\ p.header = q.header
      /\ p.wire = q.wire /\ p.err = q.err /\ RequestInv(q)
  BY <1>1, Zenon DEF Moves
<1>3. /\ to \notin {"handler", "loop", "attempt", "backoff", "bridge", "stream"}
      /\ from \in Leaving <=> to \in Leaving
      /\ from # "stream"
      /\ from \in {"bulkhead", "count", "reserve", "delay", "cancel", "release", "uncount"}
  BY DEF Leaving
<1> HIDE DEF p, q
<1>4. Owns(q) => Owns(p)
  BY <1>2, Zenon DEF Owns
<1>5. RequestInv(p)
  BY ONLY <1>2, <1>3, <1>4, SMTT(60), ZenonT(60) DEF RequestInv
<1> QED BY <1>5, Zenon DEF Passes, Moves, p

\* The bulkhead: acquire or refuse, count, release, uncount.
LEMMA BulkheadPasses ==
    ASSUME LocalInv, NEW r \in Requests
    PROVE  /\ Acquire(r) => \/ sem < maxParallel /\ sem' = sem + 1 /\ Passes(r, "bulkhead", "count")
                            \/ sem' = sem /\ Passes(r, "bulkhead", "problem")
           /\ Count(r) => Passes(r, "count", "reserve")
           /\ Release(r) => Passes(r, "release", "uncount")
           /\ Uncount(r) => Passes(r, "uncount", "problem")
<1>1. {"count", "reserve", "uncount", "problem"} \subseteq Stages
  BY DEF Stages
<1>2. ASSUME NEW stage \in Stages, SetStage(r, stage) PROVE Moves(r, stage)
  BY <1>2, StageMoves
<1>3. Count(r) => Passes(r, "count", "reserve")
  BY <1>1, <1>2, MovesPasses DEF Count, At, SetStage
<1>4. Release(r) => Passes(r, "release", "uncount")
  BY <1>1, <1>2, MovesPasses DEF Release, At, SetStage
<1>5. Uncount(r) => Passes(r, "uncount", "problem")
  BY <1>1, <1>2, MovesPasses DEF Uncount, At, SetStage
<1>6. ASSUME Acquire(r), sem < maxParallel PROVE Passes(r, "bulkhead", "count")
  BY <1>1, <1>2, <1>6, MovesPasses DEF Acquire, At, SetStage
<1>7. ASSUME Acquire(r), ~(sem < maxParallel) PROVE Passes(r, "bulkhead", "problem")
  <2>1. {"bulkheadRejected"} \in ErrorSets /\ {"bulkheadRejected"} # {}
    BY DEF ErrorSets, Errors
  <2>2. SetErr(r, {"bulkheadRejected"}, "problem") /\ rq[r].pc = "bulkhead"
    BY <1>7 DEF Acquire, SetErr, At
  <2>3. /\ rq' \in [Requests -> RequestRecord] /\ Others(r) /\ rq'[r].pc = "problem"
        /\ rq'[r].path = rq[r].path /\ rq'[r].err # {}
    <3> DEFINE e == {"bulkheadRejected"}
    <3>1. e \in ErrorSets /\ e # {} /\ "problem" \in Stages /\ SetErr(r, e, "problem")
      BY <1>1, <2>1, <2>2, Zenon
    <3> HIDE DEF e
    <3>2. /\ rq' \in [Requests -> RequestRecord] /\ Others(r) /\ rq'[r].pc = "problem"
          /\ rq'[r].path = rq[r].path /\ rq'[r].err = e
      BY <3>1, ErrMoves, ZenonT(60)
    <3> QED BY <3>1, <3>2, Zenon
  <2>4. RequestInv(rq'[r])
    BY <2>3 DEF RequestInv, Leaving
  <2> QED BY <2>2, <2>3, <2>4 DEF Passes
<1> QED BY <1>3, <1>4, <1>5, <1>6, <1>7 DEF Acquire

\* The rate limiter: reserve, look at the delay, cancel.
LEMMA LimiterPasses ==
    ASSUME LocalInv, NEW r \in Requests, tokens \in Int
    PROVE  /\ Reserve(r) => Passes(r, "reserve", "delay")
           /\ Delay(r) => Passes(r, "delay", "cancel") \/ Passes(r, "delay", "authn")
           /\ Cancel(r) => Passes(r, "cancel", "release")
<1>1. {"delay", "cancel", "authn", "release"} \subseteq Stages
  BY DEF Stages
<1>2. ASSUME NEW stage \in Stages, NEW n \in Ticks, SetAct(r, n, stage) PROVE Moves(r, stage)
  BY <1>2, ActMoves
<1>3. rq[r].act \in Ticks /\ -1 \in Ticks
  BY DEF LocalInv, RequestRecord, Ticks
<1>4. ASSUME Reserve(r) PROVE Passes(r, "reserve", "delay")
  <2> DEFINE act == IF tokens >= 1 THEN 0 ELSE 1 - tokens
  <2>1. act \in Ticks
    BY DEF Ticks
  <2>2. SetAct(r, act, "delay") /\ rq[r].pc = "reserve"
    BY <1>4 DEF Reserve, SetAct, At
  <2> HIDE DEF act
  <2>3. Moves(r, "delay")
    BY <1>1, <1>2, <2>1, <2>2
  <2> QED BY <2>2, <2>3, MovesPasses
<1>5. ASSUME Delay(r) PROVE Passes(r, "delay", "cancel") \/ Passes(r, "delay", "authn")
  <2>1. rq[r].pc = "delay" /\ (SetAct(r, rq[r].act, "cancel") \/ SetAct(r, -1, "authn"))
    BY <1>5 DEF Delay, SetAct, At
  <2>2. Moves(r, "cancel") \/ Moves(r, "authn")
    BY <1>1, <1>2, <1>3, <2>1
  <2> QED BY <2>1, <2>2, MovesPasses
<1>6. ASSUME Cancel(r) PROVE Passes(r, "cancel", "release")
  <2>1. {"rateLimit"} \in ErrorSets /\ {"rateLimit"} # {}
    BY DEF ErrorSets, Errors
  <2>2. PICK n \in Ticks, e \in ErrorSets : n = -1 /\ e = {"rateLimit"}
    BY <1>3, <2>1
  <2>3. /\ rq[r].pc = "cancel" /\ rq[r] \in RequestRecord /\ rq[r].path \in ApiPaths
        /\ rq' = [rq EXCEPT ![r].act = n, ![r].err = e, ![r].pc = "release"]
    BY <1>6, <2>2 DEF Cancel, At, LocalInv, RequestInv
  <2>4. PICK stage \in Stages : stage = "release"
    BY <1>1
  <2>5. /\ rq' \in [Requests -> RequestRecord] /\ Others(r) /\ rq'[r].pc = stage
        /\ rq'[r].path = rq[r].path /\ rq'[r].err = e
    BY <2>3, <2>4 DEF LocalInv, RequestRecord, Others
  <2>6. RequestInv(rq'[r])
    BY <2>1, <2>2, <2>3, <2>4, <2>5 DEF RequestInv, Leaving
  <2> QED BY <2>3, <2>4, <2>5, <2>6 DEF Passes
<1> QED BY <1>4, <1>5, <1>6

\* The first header on the wire stays; a problem is never data.
LEMMA WriteProblemPasses ==
    ASSUME LocalInv, NEW r \in Requests, WriteProblem(r)
    PROVE  Passes(r, "problem", "observe")
<1> DEFINE q == rq[r]
           status == IF q.err = {} THEN 200
                     ELSE IF "panic" \in q.err THEN 500 ELSE MapError(q.err)
           wire == IF q.wire # 0 THEN q.wire ELSE status
<1>1. q \in RequestRecord /\ RequestInv(q) /\ q.pc = "problem"
  BY DEF LocalInv, WriteProblem, At
<1>2. q.err \in ErrorSets /\ q.wire \in Statuses
  BY <1>1 DEF RequestRecord
<1>3. wire \in Statuses
  BY <1>2 DEF Statuses
<1>4. PICK stage \in Stages : stage = "observe"
  BY DEF Stages
<1>5. rq' = [rq EXCEPT ![r].wire = wire, ![r].pc = stage]
  BY <1>4 DEF WriteProblem
<1>6. wire # q.wire => q.wire = 0
  OBVIOUS
<1> HIDE DEF wire
<1>7. /\ rq' \in [Requests -> RequestRecord] /\ Others(r) /\ rq'[r].pc = stage
      /\ rq'[r].path = q.path /\ rq'[r].header = q.header /\ rq'[r].err = q.err
      /\ rq'[r].wire = wire
  BY <1>3, <1>5, SMTT(60), ZenonT(60) DEF LocalInv, RequestRecord, Others
<1>8. q.err # {} \/ q.wire \notin {0, 200, 304} \/ Owns(q)
  BY <1>1 DEF RequestInv, Leaving
<1>9. Owns(q) => Owns(rq'[r])
  BY <1>7 DEF Owns
<1>10. RequestInv(rq'[r])
  <2>1. rq'[r].pc = "observe"
    BY <1>4, <1>7
  <2>2. q.wire \notin {0, 200, 304} => rq'[r].wire \notin {0, 200, 304}
    BY <1>6, <1>7
  <2>3. rq'[r].err # {} \/ rq'[r].wire \notin {0, 200, 304} \/ Owns(rq'[r])
    BY <1>7, <1>8, <1>9, <2>2, Zenon
  <2> QED BY <2>1, <2>3 DEF RequestInv, Leaving
<1> QED BY <1>1, <1>4, <1>7, <1>10 DEF Passes

\* A connection between two requests satisfies the local invariant.
LEMMA IdleIsSound ==
    /\ Idle \in RequestRecord /\ RequestInv(Idle)
    /\ Idle.pc = "idle" /\ Idle.err = {} /\ Idle.header = NoHeader /\ Idle.act = -1
<1>1. /\ "idle" \in Stages /\ "" \in Texts /\ NoHeader \in Headers \cup {NoHeader}
      /\ {} \in ErrorSets /\ 0 \in Statuses /\ -1 \in Ticks /\ 0 \in Ticks
  BY DEF Stages, Texts, ErrorSets, Statuses, Ticks
<1>2. Idle \in RequestRecord
  BY <1>1 DEF Idle, RequestRecord
<1>3. /\ Idle.pc = "idle" /\ Idle.wire = 0 /\ Idle.err = {} /\ Idle.header = NoHeader
      /\ Idle.act = -1
  BY DEF Idle
<1> QED BY <1>2, <1>3 DEF RequestInv, Leaving

\* Observe forgets a request.
LEMMA ObserveForgets ==
    ASSUME LocalInv, NEW r \in Requests, Observe(r)
    PROVE  /\ rq' \in [Requests -> RequestRecord] /\ Others(r)
           /\ rq[r].pc = "observe" /\ rq'[r].pc = "idle" /\ RequestInv(rq'[r])
           /\ rq'[r].err = {}
<1>1. rq' = [rq EXCEPT ![r] = Idle] /\ rq[r].pc = "observe"
  BY DEF Observe, At
<1>2. rq'[r] = Idle /\ rq' \in [Requests -> RequestRecord] /\ Others(r)
  BY <1>1, IdleIsSound DEF LocalInv, Others
<1> QED BY <1>1, <1>2, IdleIsSound

\* The status the CORS check or the router gives by itself, 0 for none, and
\* the request as Arrive lets it in.
EarlyStatus(path, method, origin) ==
    LET verdict == IF path \in ApiPaths \cup {"/"} THEN CORS(Cors, origin, method)
                   ELSE "next"
    IN  IF verdict = "denied" THEN 403
        ELSE IF verdict = "preflight" THEN 204
        ELSE IF path = "/" THEN 404
        ELSE IF path = "/livez" THEN 200
        ELSE 0

EarlyStatuses == {0, 200, 204, 403, 404}

\* Of these 200 is the liveness probe's.
LEMMA EarlyStatusIs ==
    ASSUME NEW path, NEW method, NEW origin
    PROVE  /\ EarlyStatus(path, method, origin) \in EarlyStatuses
           /\ EarlyStatus(path, method, origin) = 200 => path = "/livez"
BY SMTT(60), ZenonT(60) DEF EarlyStatus, EarlyStatuses

Entered(path, method, status) ==
    [Idle EXCEPT !.path = path, !.method = method, !.wire = status,
        !.pc = IF status # 0 THEN "observe"
               ELSE IF path \in ApiPaths THEN "bulkhead"
               ELSE "authn"]

Sent(q, w, stage) == [q EXCEPT !.wire = w, !.pc = stage]

\* A request with a status and a stage is a request.
LEMMA SentIsTyped ==
    ASSUME NEW q \in RequestRecord, NEW w \in Statuses, NEW stage \in Stages
    PROVE  /\ Sent(q, w, stage) \in RequestRecord /\ Sent(q, w, stage).path = q.path
           /\ Sent(q, w, stage).wire = w /\ Sent(q, w, stage).pc = stage
           /\ Sent(q, w, stage).err = q.err /\ Sent(q, w, stage).header = q.header
BY DEF Sent, RequestRecord

EntersSoundly(new) ==
    /\ new \in RequestRecord /\ RequestInv(new)
    /\ \/ new.pc \in {"bulkhead", "observe"}
       \/ new.pc = "authn" /\ new.path \notin ApiPaths
    /\ new.err = {} /\ new.header = NoHeader
    /\ new.pc = "observe" => new.wire \in EarlyStatuses \ {0}

\* A request that enters is sound: at the bulkhead, past it where the route
\* has none, or on its way out.
LEMMA EnteredIsSound ==
    ASSUME NEW path \in Texts, NEW method \in Texts, NEW status \in EarlyStatuses,
           status = 200 => path \notin Guarded, NEW new, new = Entered(path, method, status)
    PROVE  EntersSoundly(new)
<1> DEFINE stage == IF status # 0 THEN "observe"
                    ELSE IF path \in ApiPaths THEN "bulkhead" ELSE "authn"
           mid == [Idle EXCEPT !.path = path, !.method = method]
<1>1. status \in Statuses /\ stage \in Stages
  BY DEF EarlyStatuses, Statuses, Stages
<1>2. /\ status # 0 => stage = "observe"
      /\ status = 0 => \/ stage = "bulkhead" /\ path \in ApiPaths
                       \/ stage = "authn" /\ path \notin ApiPaths
  <2>1. CASE status # 0
    BY Zenon, <2>1
  <2>2. CASE status = 0 /\ path \in ApiPaths
    BY Zenon, <2>2
  <2>3. CASE status = 0 /\ path \notin ApiPaths
    BY Zenon, <2>3
  <2> QED BY <2>1, <2>2, <2>3
<1>3. new = [Idle EXCEPT !.path = path, !.method = method, !.wire = status, !.pc = stage]
  BY DEF Entered
<1> HIDE DEF stage
<1>4. mid \in RequestRecord /\ mid.path = path /\ mid.err = {} /\ mid.header = NoHeader
  BY IdleIsSound DEF RequestRecord
<1>5. new = Sent(mid, status, stage)
  BY <1>3, IdleIsSound DEF RequestRecord, Sent
<1> HIDE DEF mid
<1>6. /\ new \in RequestRecord /\ new.path = path /\ new.wire = status /\ new.pc = stage
      /\ new.err = {} /\ new.header = NoHeader
  BY <1>1, <1>4, <1>5, SentIsTyped
<1>7. RequestInv(new)
  <2>1. "observe" \in Leaving /\ "bulkhead" \notin Leaving /\ "authn" \notin Leaving
    BY DEF Leaving
  <2>2. status \notin {0, 200} => status \notin {0, 200, 304}
    BY DEF EarlyStatuses
  <2>3. CASE status = 0
    BY <1>2, <1>6, <2>1, <2>3, SMTT(60), ZenonT(60) DEF RequestInv
  <2>4. CASE status = 200
    <3>1. Owns(new)
      BY <1>6, <2>4, SMTT(60), ZenonT(60) DEF Owns
    <3> QED BY <1>2, <1>6, <2>1, <2>4, <3>1, SMTT(60), ZenonT(60) DEF RequestInv
  <2>5. CASE status \notin {0, 200}
    BY <1>2, <1>6, <2>1, <2>2, <2>5, SMTT(60), ZenonT(60) DEF RequestInv
  <2> QED BY <2>3, <2>4, <2>5, Zenon
<1> QED BY <1>2, <1>6, <1>7 DEF EntersSoundly

\* Arrive lets one request in.
LEMMA ArriveEnters ==
    ASSUME LocalInv, NEW r \in Requests, Arrive(r)
    PROVE  /\ rq' \in [Requests -> RequestRecord] /\ Others(r)
           /\ rq[r].pc = "idle" /\ RequestInv(rq'[r])
           /\ \/ rq'[r].pc \in {"bulkhead", "observe"}
              \/ rq'[r].pc = "authn" /\ rq'[r].path \notin ApiPaths
           /\ rq'[r].err = {} /\ rq'[r].header = NoHeader
           /\ rq'[r].pc = "observe" => rq'[r].wire \in EarlyStatuses \ {0}
<1>1. PICK ask \in Menu[r], o \in Origins :
        rq' = [rq EXCEPT ![r] = Entered(ask[1], ask[2], EarlyStatus(ask[1], ask[2], o))]
  BY Zenon DEF Arrive, Entered, EarlyStatus
<1> DEFINE status == EarlyStatus(ask[1], ask[2], o)
           new == Entered(ask[1], ask[2], status)
<1>2. ask[1] \in Texts /\ ask[2] \in Texts
  <2>1. Menu[r] \in SUBSET (STRING \X STRING)
    BY CallersAssumption
  <2>2. \A S : \A a \in S \X S : a[1] \in S /\ a[2] \in S
    OBVIOUS
  <2>3. ask[1] \in STRING /\ ask[2] \in STRING
    BY Zenon, <2>1, <2>2
  <2> QED BY Zenon, <2>3 DEF Texts
<1>3. status \in EarlyStatuses /\ (status = 200 => ask[1] = "/livez")
  BY EarlyStatusIs, SMTT(60), ZenonT(60)
<1>4. "/livez" \notin Guarded
  BY DEF Guarded, ApiPaths, Collections, UserItems, JobItems
<1>5. rq' = [rq EXCEPT ![r] = new]
  BY Zenon, <1>1
<1>6. new = Entered(ask[1], ask[2], status)
  OBVIOUS
<1> HIDE DEF status, new
<1>7. EntersSoundly(new)
  <2>1. status = 200 => ask[1] \notin Guarded
    BY <1>3, <1>4, SMTT(60), ZenonT(60)
  <2> DEFINE path == ask[1]
             method == ask[2]
  <2>2. /\ path \in Texts /\ method \in Texts /\ status \in EarlyStatuses
        /\ (status = 200 => path \notin Guarded) /\ new = Entered(path, method, status)
    BY <1>2, <1>3, <1>6, <2>1, Zenon
  <2> HIDE DEF path, method
  <2> QED BY ONLY <2>2, EnteredIsSound, SMTT(60), ZenonT(60)
<1>8. rq'[r] = new /\ rq' \in [Requests -> RequestRecord] /\ Others(r)
  BY <1>5, <1>7 DEF LocalInv, Others, EntersSoundly
<1>9. rq[r].pc = "idle"
  BY DEF Arrive, At
<1> QED BY <1>7, <1>8, <1>9, Zenon DEF EntersSoundly

Aged(q, act, nap, left, query) ==
    [q EXCEPT !.act = act, !.nap = nap, !.left = left, !.query = query]

SameButTimers(p, q) ==
    /\ p \in RequestRecord /\ p.pc = q.pc /\ p.path = q.path /\ p.method = q.method
    /\ p.header = q.header /\ p.wire = q.wire /\ p.err = q.err /\ p.gone = q.gone

AgedTo(p, q, act, left, query) ==
    SameButTimers(p, q) /\ p.act = act /\ p.left = left /\ p.query = query

\* A request whose timers move keeps everything else.
LEMMA AgedIsTyped ==
    ASSUME NEW q \in RequestRecord, NEW act \in Ticks, NEW nap \in Ticks, NEW left \in Ticks,
           NEW query \in Ticks, NEW p, p = Aged(q, act, nap, left, query)
    PROVE  AgedTo(p, q, act, left, query)
BY DEF RequestRecord, Aged, SameButTimers, AgedTo

\* The passing of time touches timers only (Tick).
LEMMA TickKeeps ==
    ASSUME LocalInv, Tick
    PROVE  /\ rq' \in [Requests -> RequestRecord]
           /\ \A r \in Requests : /\ rq'[r].pc = rq[r].pc /\ rq'[r].path = rq[r].path
                                  /\ RequestInv(rq'[r]) /\ SameButTimers(rq'[r], rq[r])
                                  /\ rq'[r].act = Down(rq[r].act, -1)
                                  /\ rq[r].pc \notin Waiting => rq'[r].left = rq[r].left
                                  /\ ~At(r, "bridge") => rq'[r].query = rq[r].query
<1> DEFINE rest(r) == IF rq[r].pc \in Waiting THEN Down(rq[r].left, 0) ELSE rq[r].left
           wait(r) == IF At(r, "bridge") THEN Down(rq[r].query, 0) ELSE rq[r].query
<1>1. \A n \in Ticks, floor \in Ticks : Down(n, floor) \in Ticks
  BY DEF Down, Ticks
<1>2. ASSUME NEW r \in Requests
      PROVE  /\ Down(rq[r].act, -1) \in Ticks /\ Down(rq[r].nap, 0) \in Ticks
             /\ rest(r) \in Ticks /\ wait(r) \in Ticks
  <2>1. /\ rq[r].act \in Ticks /\ rq[r].nap \in Ticks
        /\ rq[r].left \in Ticks /\ rq[r].query \in Ticks
    BY DEF LocalInv, RequestRecord
  <2>2. -1 \in Ticks /\ 0 \in Ticks
    BY DEF Ticks
  <2> QED BY <1>1, <2>1, <2>2
<1>3. rq' = [r \in Requests |-> [rq[r] EXCEPT !.act = Down(rq[r].act, -1),
                                              !.nap = Down(rq[r].nap, 0), !.left = rest(r),
                                              !.query = wait(r)]]
  BY Zenon DEF Tick
<1> HIDE DEF rest, wait
<1>4. ASSUME NEW r \in Requests
      PROVE  /\ rq'[r] \in RequestRecord /\ rq'[r].pc = rq[r].pc /\ rq'[r].path = rq[r].path
             /\ rq'[r].method = rq[r].method /\ rq'[r].header = rq[r].header
             /\ rq'[r].wire = rq[r].wire /\ rq'[r].err = rq[r].err
             /\ SameButTimers(rq'[r], rq[r]) /\ rq'[r].act = Down(rq[r].act, -1)
             /\ rq'[r].left = rest(r) /\ rq'[r].query = wait(r)
  <2>1. rq'[r] = Aged(rq[r], Down(rq[r].act, -1), Down(rq[r].nap, 0), rest(r), wait(r))
    BY <1>3, Zenon DEF Aged
  <2>2. rq[r] \in RequestRecord
    BY DEF LocalInv
  <2>3. /\ Down(rq[r].act, -1) \in Ticks /\ Down(rq[r].nap, 0) \in Ticks
        /\ rest(r) \in Ticks /\ wait(r) \in Ticks
    BY <1>2
  <2>4. /\ SameButTimers(rq'[r], rq[r]) /\ rq'[r].act = Down(rq[r].act, -1)
        /\ rq'[r].left = rest(r) /\ rq'[r].query = wait(r)
    <3> DEFINE p == rq'[r]
               q == rq[r]
               act == Down(rq[r].act, -1)
               nap == Down(rq[r].nap, 0)
               left == rest(r)
               query == wait(r)
    <3>1. /\ q \in RequestRecord /\ act \in Ticks /\ nap \in Ticks /\ left \in Ticks
          /\ query \in Ticks /\ p = Aged(q, act, nap, left, query)
      BY <2>1, <2>2, <2>3, Zenon
    <3> HIDE DEF p, q, act, nap, left, query
    <3>2. AgedTo(p, q, act, left, query)
      BY ONLY <3>1, AgedIsTyped, ZenonT(60), SMTT(60)
    <3> QED BY <3>2, Zenon DEF p, q, act, nap, left, query, AgedTo
  <2> QED BY Zenon, <2>4 DEF SameButTimers
<1>5. ASSUME NEW r \in Requests PROVE RequestInv(rq'[r])
  <2>1. RequestInv(rq[r])
    BY DEF LocalInv
  <2>2. Owns(rq[r]) => Owns(rq'[r])
    BY <1>4 DEF Owns
  <2> QED BY <1>4, <2>1, <2>2, SMTT(60), ZenonT(60) DEF RequestInv
<1>6. rq' \in [Requests -> RequestRecord]
  BY <1>3, <1>4, Zenon
<1> QED BY <1>4, <1>5, <1>6, Zenon DEF rest, wait

-----------------------------------------------------------------------------
(* Honest statuses, outside the handlers                                    *)

\* A step that changes the stage only keeps the cause of an error.
LEMMA StageKeeps ==
    ASSUME LocalInv, NEW r \in Requests, NEW stage \in Stages, SetStage(r, stage)
    PROVE  rq'[r].gone = rq[r].gone /\ rq'[r].left = rq[r].left /\ rq'[r].query = rq[r].query
BY DEF SetStage, LocalInv, RequestRecord

\* So does one that records a status.
LEMMA WireKeeps ==
    ASSUME LocalInv, NEW r \in Requests, NEW w \in Statuses, NEW stage \in Stages,
           SetWire(r, w, stage)
    PROVE  rq'[r].gone = rq[r].gone /\ rq'[r].left = rq[r].left /\ rq'[r].query = rq[r].query
BY DEF SetWire, LocalInv, RequestRecord

\* The bulkhead, the limiter and the deferred releases.
LEMMA PassHonest ==
    ASSUME IInv, HonestInv, NEW r \in Requests,
           \/ Acquire(r) \/ Count(r) \/ Reserve(r) \/ Delay(r) \/ Cancel(r)
           \/ Release(r) \/ Uncount(r)
    PROVE  HonestStep(r)
<1>0. LocalInv /\ tokens \in Int /\ Honest(rq[r]) /\ RequestInv(rq[r])
  BY DEF IInv, LocalInv, HonestInv
<1>1. {"count", "reserve", "delay", "cancel", "authn", "release", "uncount", "problem"} \subseteq Stages
  BY SMTT(60) DEF Stages
<1>2. ASSUME rq[r].pc \in {"bulkhead", "count", "reserve", "delay"},
             NEW stage \in {"count", "reserve", "delay", "cancel", "authn"}, Moves(r, stage)
      PROVE  HonestStep(r)
  BY <1>0, <1>2, SMTT(60), ZenonT(60) DEF Moves, HonestStep, Honest, Leaving
<1>3. ASSUME rq[r].pc \in {"release", "uncount"}, NEW stage \in {"uncount", "problem"},
             SetStage(r, stage)
      PROVE  HonestStep(r)
  <2>1. /\ Moves(r, stage) /\ rq'[r].gone = rq[r].gone
        /\ rq'[r].left = rq[r].left /\ rq'[r].query = rq[r].query
    BY <1>0, <1>1, <1>3, StageMoves, StageKeeps, SMTT(60), ZenonT(60)
  <2>2. Caused(rq[r])
    BY <1>0, <1>3, SMTT(60), ZenonT(60) DEF Honest
  <2>3. Caused(rq'[r])
    <3>1. /\ rq'[r].path = rq[r].path /\ rq'[r].header = rq[r].header
          /\ rq'[r].wire = rq[r].wire /\ rq'[r].err = rq[r].err
      BY <2>1, Zenon DEF Moves
    <3> QED BY <2>1, <2>2, <3>1, CausedStays, Zenon
  <2> QED BY <1>3, <2>1, <2>3 DEF HonestStep, Honest, Leaving, Moves
<1>4. CASE Acquire(r)
  <2>1. rq[r].pc = "bulkhead"
    BY <1>4, SMTT(60) DEF Acquire, At
  <2>2. CASE SetStage(r, "count")
    BY <1>0, <1>1, <1>2, <2>1, <2>2, StageMoves, SMTT(60), ZenonT(60)
  <2>3. CASE SetErr(r, {"bulkheadRejected"}, "problem")
    <3>1. {"bulkheadRejected"} \in ErrorSets
      BY SMTT(60) DEF ErrorSets, Errors
    <3>2. Others(r) /\ rq'[r].pc = "problem" /\ rq'[r].err = {"bulkheadRejected"}
          /\ rq'[r].wire = rq[r].wire
      BY <1>0, <1>1, <2>3, <3>1, ErrMoves, SMTT(60), ZenonT(60)
    <3>3. rq[r].wire = 0
      BY <1>0, <2>1, SMTT(60), ZenonT(60) DEF RequestInv, Leaving
    <3>4. Caused(rq'[r])
      <4>1. /\ rq'[r].err \cap Canceled = {} /\ "grpcTimeout" \notin rq'[r].err
            /\ "rateLimit" \notin rq'[r].err
        BY <3>2, SMTT(60), ZenonT(60) DEF Canceled
      <4>2. rq'[r].wire = 0
        BY <3>2, <3>3, Zenon
      <4> QED BY <4>1, <4>2, CausedBefore, Zenon
    <3> QED BY <3>2, <3>4 DEF HonestStep, Honest, Leaving
  <2> QED BY <1>4, <2>2, <2>3, Zenon DEF Acquire, SetStage, SetErr
<1>5. CASE Count(r)
  BY <1>0, <1>1, <1>2, <1>5, StageMoves DEF Count, At, SetStage
<1>6. CASE Reserve(r)
  <2>1. PICK n \in Ticks : SetAct(r, n, "delay")
    <3>1. (IF tokens >= 1 THEN 0 ELSE 1 - tokens) \in Ticks
      BY <1>0, SMTT(60) DEF Ticks
    <3> QED BY <1>6, <3>1, Zenon DEF Reserve, SetAct
  <2> QED BY <1>0, <1>1, <1>2, <1>6, <2>1, ActMoves DEF Reserve, At
<1>7. CASE Delay(r)
  <2>1. rq[r].act \in Ticks /\ -1 \in Ticks
    BY <1>0 DEF LocalInv, RequestRecord, Ticks
  <2>2. rq[r].pc = "delay" /\ (SetAct(r, rq[r].act, "cancel") \/ SetAct(r, -1, "authn"))
    BY <1>7 DEF Delay, SetAct, At
  <2> QED BY <1>0, <1>1, <1>2, <2>1, <2>2, ActMoves
<1>8. CASE Cancel(r)
  <2>0. -1 \in Ticks /\ {"rateLimit"} \in ErrorSets
    BY DEF Ticks, ErrorSets, Errors
  <2>1. PICK n \in Ticks, e \in ErrorSets : n = -1 /\ e = {"rateLimit"}
    BY <2>0
  <2>2. /\ rq[r].pc = "cancel" /\ rq[r].path \in ApiPaths /\ rq[r].header = NoHeader
        /\ rq[r].wire = 0
    BY <1>0, <1>8 DEF Cancel, At, RequestInv, Honest, Leaving
  <2>3. rq' = [rq EXCEPT ![r].act = n, ![r].err = e, ![r].pc = "release"]
    BY <1>8, <2>1, Zenon DEF Cancel
  <2>4. PICK stage \in Stages : stage = "release"
    BY <1>1
  <2>5. /\ Others(r) /\ rq'[r].pc = stage /\ rq'[r].path = rq[r].path /\ rq'[r].err = e
        /\ rq'[r].header = rq[r].header /\ rq'[r].wire = rq[r].wire
    BY <1>0, <2>3, <2>4, SMTT(60) DEF LocalInv, RequestRecord, Others
  <2>6. Caused(rq'[r])
    <3>1. rq'[r].err \cap Canceled = {} /\ "grpcTimeout" \notin rq'[r].err
      BY <2>1, <2>5, RateLimitAlone, Zenon
    <3>2. /\ rq'[r].wire = 0 /\ rq'[r].path \in ApiPaths
          /\ rq'[r].header = NoHeader
      BY <2>2, <2>5, Zenon
    <3> QED BY <3>1, <3>2, CausedBefore, Zenon
  <2> QED BY <2>4, <2>5, <2>6 DEF HonestStep, Honest, Leaving
<1>9. CASE Release(r)
  BY <1>3, <1>9 DEF Release, At, SetStage
<1>10. CASE Uncount(r)
  BY <1>3, <1>10 DEF Uncount, At, SetStage
<1> QED BY <1>4, <1>5, <1>6, <1>7, <1>8, <1>9, <1>10

=============================================================================
