------------------------------- MODULE Access -------------------------------
(***************************************************************************)
(* Who may do what: the decisions the HTTP edge and the gRPC server take   *)
(* about a request before its handler runs.  A bearer token is a record of *)
(* the facts the code distinguishes:                                       *)
(*                                                                         *)
(*   alg    the signing method of its header                               *)
(*   kid    "absent", "malformed" (not a non-empty string) or a key name   *)
(*   key    the name of the key that signed it, or one not in the ring     *)
(*   exp    "future", "past" (beyond the clock skew) or "absent"           *)
(*   nbf    "past" or "future"                                             *)
(*   scope  whether issuer and audience are the configured ones            *)
(*   sub    the user id, 0 for a subject that is not a positive integer    *)
(*   role   the role claim, "" when absent                                 *)
(*                                                                         *)
(* An Authorization header adds its form: "missing", "malformed" (not      *)
(* "Bearer <token>") or "bearer", the only one that carries a token.       *)
(***************************************************************************)
EXTENDS Naturals, Sequences, Functions

CONSTANT Ring       \* the configured key names, in configuration order

\* The checks of NewJWTVerifierHS256: at least one key, no name twice.
ASSUME RingAssumption ==
    /\ Ring \in Seq(STRING)
    /\ Ring # <<>>
    /\ \A i, j \in DOMAIN Ring : Ring[i] = Ring[j] => i = j

NoPrincipal == [id |-> 0, role |-> "none"]
NoHeader == [form |-> "missing"]

-----------------------------------------------------------------------------
(* golang-jwt, as the verifier configures it.  A parse error is the set of  *)
(* sentinel errors errors.Is finds in it; {} is success.  The method is     *)
(* checked first, then the key function runs, then the signature, and only  *)
(* a correctly signed token has its claims validated - all of them, so that *)
(* one error can hold several sentinels.                                    *)

ClaimErrors(t) ==
    (IF t.exp = "past" THEN {"expired"} ELSE {})
        \cup (IF t.nbf = "future" THEN {"notYetValid"} ELSE {})
        \cup (IF t.exp = "absent" \/ ~t.scope THEN {"claims"} ELSE {})

\* key is what the key function returns: a key name or a set of errors.
ParseWithClaims(t, keyErr, key) ==
    IF t.alg # "HS256" THEN {"signatureInvalid"}
    ELSE IF keyErr # {} THEN keyErr
    ELSE IF t.key # key THEN {"signatureInvalid"}
    ELSE ClaimErrors(t)

principalFromClaims(t) ==
    IF t.sub = 0 \/ t.role \notin {"", "user", "admin"} THEN NoPrincipal
    ELSE [id |-> t.sub, role |-> IF t.role = "" THEN "user" ELSE t.role]

mapJWTParseError(e) ==
    IF "signatureInvalid" \in e THEN "invalid"
    ELSE IF "expired" \in e THEN "expired"
    ELSE IF "notYetValid" \in e THEN "not_yet_valid"
    ELSE "invalid"

\* A token that parses but whose claims name no principal is an AuthNError,
\* here {"claims"}: no later test tells it from another claims error.
WithPrincipal(t, e) ==
    IF e = {} /\ principalFromClaims(t) = NoPrincipal THEN {"claims"} ELSE e

tryVerifyByKID(t) ==
    LET keyErr == IF t.kid = "absent" THEN {"errNoKID"}
                  ELSE IF t.kid \notin Range(Ring) THEN {"unverifiable"}
                  ELSE {}
    IN  WithPrincipal(t, ParseWithClaims(t, keyErr, t.kid))

tryVerifyWithKey(t, key) ==
    WithPrincipal(t, ParseWithClaims(t, {}, key))

\* Without a kid the keys are tried in order; only a signature error moves
\* on to the next key.
VerifyWithRing(t) ==
    LET tried == {i \in DOMAIN Ring :
                    "signatureInvalid" \notin tryVerifyWithKey(t, Ring[i])}
    IN  IF tried = {} THEN {"signatureInvalid"}
        ELSE tryVerifyWithKey(t, Ring[CHOOSE i \in tried : \A j \in tried : i <= j])

Verify(t) ==
    LET byKID == tryVerifyByKID(t)
        e == IF "errNoKID" \in byKID THEN VerifyWithRing(t) ELSE byKID
    IN  IF e = {}
        THEN [principal |-> principalFromClaims(t), kind |-> "none"]
        ELSE [principal |-> NoPrincipal, kind |-> mapJWTParseError(e)]

\* The outcome of the Authorization header, for the HTTP middleware and for
\* the gRPC interceptor alike: UnauthorizedFromVerifyErr keeps the kind.
Authenticated(header) ==
    IF header.form = "bearer" THEN Verify(header)
    ELSE [principal |-> NoPrincipal,
          kind |-> IF header.form = "missing" THEN "missing" ELSE "invalid"]

-----------------------------------------------------------------------------
(* Routes.  A pattern is <<method, path>>, with "" for a pattern that names *)
(* no method.                                                               *)

Collections == {"/api/v1/users", "/api/v2/users"}
UserItems == {"/api/v1/users/{id}", "/api/v1/users/{id}/export",
              "/api/v1/users/{id}/profile"}
JobItems == {"/api/v1/jobs/{id}", "/api/v1/jobs/{id}/grpc",
             "/api/v1/jobs/{id}/events"}
ApiPaths == Collections \cup UserItems \cup JobItems

\* net/http: the method-specific pattern wins; a GET pattern serves HEAD too.
PatternOf(path, method) ==
    IF path \in Collections /\ method \in {"GET", "HEAD", "POST"}
    THEN <<IF method = "POST" THEN "POST" ELSE "GET", path>>
    ELSE <<"", path>>

DefaultPolicy ==
    [public |-> {<<"", "/livez">>, <<"", "/readyz">>},
     authenticated |-> {<<"", p>> : p \in UserItems}
                          \cup {<<"", "/api/v1/jobs/{id}/events">>},
     adminOnly |-> {<<m, p>> : m \in {"GET", "POST", ""}, p \in Collections}
                      \cup {<<"", "/debug/">>, <<"", "/api/v1/jobs/{id}">>,
                            <<"", "/api/v1/jobs/{id}/grpc">>}]

\* The error of the RBAC middleware, {} when it calls the next handler.  The
\* "wiring" errors are plain errors: MapError answers 500.
Authorize(method, pattern, principal) ==
    IF method = "OPTIONS" THEN {}
    ELSE IF pattern \in DefaultPolicy.public THEN {}
    ELSE IF pattern \in DefaultPolicy.authenticated
    THEN IF principal = NoPrincipal THEN {"wiring"} ELSE {}
    ELSE IF pattern \in DefaultPolicy.adminOnly
    THEN IF principal = NoPrincipal THEN {"wiring"}
         ELSE IF principal.role # "admin" THEN {"forbidden"} ELSE {}
    ELSE {"forbidden"}

CanReadUser(p, target) == p.role = "admin" \/ p.id = target
CanReadJob(p, owner) == p.role = "admin" \/ p.id = owner

\* JobGRPCService.GetJob behind UnaryAuthenticate: the status code, given the
\* job's owner and how the repository answers: "found", "absent", "canceled" or
\* "timeout" (the errors of its context), "broken" (any other error).
GetJob(header, lookup, owner) ==
    LET p == Authenticated(header).principal
    IN  IF p = NoPrincipal THEN "Unauthenticated"
        ELSE IF lookup = "canceled" THEN "Canceled"
        ELSE IF lookup = "timeout" THEN "DeadlineExceeded"
        ELSE IF lookup = "absent" THEN "NotFound"
        ELSE IF lookup = "broken" THEN "Internal"
        ELSE IF ~CanReadJob(p, owner) THEN "PermissionDenied"
        ELSE "OK"

-----------------------------------------------------------------------------
(* CORS.  allowed is the configured set of origins (perhaps with "*"), and  *)
(* a request carries an origin ("" for none) and, when it is a preflight,   *)
(* the method and headers it asks for.                                      *)

CORS(cors, q, method) ==
    IF q.origin = "" THEN "next"
    ELSE IF "*" \notin cors.origins /\ q.origin \notin cors.origins THEN "denied"
    ELSE IF cors.credentials /\ "*" \in cors.origins THEN "denied"
    ELSE IF method # "OPTIONS" \/ q.wants = "" THEN "next"
    ELSE IF q.wants \notin cors.methods \/ ~(q.headers \subseteq cors.headers)
    THEN "denied"
    ELSE "preflight"
=============================================================================
