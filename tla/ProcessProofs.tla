--------------------------- MODULE ProcessProofs ----------------------------
(***************************************************************************)
(* What is proved of the program for every set of environments: that run   *)
(* can build what Load accepts, that a protected environment keeps its     *)
(* baseline, that everything opened is closed in order, and that run uses  *)
(* telemetry.Runtime as Telemetry specifies it.  Of that component: the    *)
(* accounting and the spacing of its error handler, for any finite set of  *)
(* reporters, any interval and any clock.                                  *)
(***************************************************************************)
EXTENDS Process, FiniteSetTheorems, SequenceTheorems, TLAPS

HandleStages == {"rest", "clock", "load", "cas", "log", "suppress", "count"}

\* Types of what the handler works with; a reporter about to swap has seen
\* that the interval is over, by its own reading of the clock.
HandlerTypeOK ==
    /\ rep \in [Reporters -> [pc : HandleStages, now : Int, next : Int]]
    /\ exportFailures \in Nat /\ suppressedExportLogs \in Nat
    /\ pendingSuppressed \in Nat /\ logs \in Nat /\ reported \in Nat
    /\ clock \in Int /\ nextLog \in Int
    /\ \A r \in Reporters : rep[r].pc = "cas" => rep[r].next <= rep[r].now

HandlerInv == HandlerTypeOK /\ FailuresAccountedFor

One(condition) == IF condition THEN 1 ELSE 0

\* Two finite sets that differ at most in r.
LEMMA CountApart ==
    ASSUME NEW A, NEW B, NEW r, IsFiniteSet(A), IsFiniteSet(B), A \ {r} = B \ {r}
    PROVE  /\ Cardinality(A) \in Nat /\ Cardinality(B) \in Nat
           /\ Cardinality(B) = Cardinality(A) + One(r \in B) - One(r \in A)
<1>1. Cardinality(A) \in Nat /\ Cardinality(B) \in Nat
  BY FS_CardinalityType
<1>2. Cardinality(A \ {r}) = IF r \in A THEN Cardinality(A) - 1 ELSE Cardinality(A)
  BY FS_RemoveElement
<1>3. Cardinality(B \ {r}) = IF r \in B THEN Cardinality(B) - 1 ELSE Cardinality(B)
  BY FS_RemoveElement
<1> QED BY <1>1, <1>2, <1>3 DEF One

\* A reporter that moves on leaves the others where they are.
LEMMA CountAfterMove ==
    ASSUME NEW r \in Reporters, NEW stages,
           \A q \in Reporters \ {r} : rep'[q].pc = rep[q].pc
    PROVE  /\ Cardinality(Reporting(stages)) \in Nat
           /\ Cardinality(Reporting(stages)') \in Nat
           /\ Cardinality(Reporting(stages)')
                = Cardinality(Reporting(stages)) + One(rep'[r].pc \in stages)
                      - One(rep[r].pc \in stages)
<1> DEFINE A == Reporting(stages)
           B == Reporting(stages)'
<1>1. A \in SUBSET Reporters /\ B \in SUBSET Reporters
  BY DEF Reporting
<1>2. IsFiniteSet(A) /\ IsFiniteSet(B)
  BY <1>1, FS_Subset, TelemetryAssumption
<1>3. A \ {r} = B \ {r}
  BY DEF Reporting
<1>4. (r \in A <=> rep[r].pc \in stages) /\ (r \in B <=> rep'[r].pc \in stages)
  BY DEF Reporting
<1> HIDE DEF A, B
<1>5. /\ Cardinality(A) \in Nat /\ Cardinality(B) \in Nat
      /\ Cardinality(B) = Cardinality(A) + One(r \in B) - One(r \in A)
  BY <1>2, <1>3, CountApart
<1> QED BY <1>4, <1>5 DEF A, B, One

\* The handler starts with its books in order.
LEMMA HandlerInit == TelemetryInit => HandlerInv
<1> SUFFICES ASSUME TelemetryInit PROVE HandlerInv
  OBVIOUS
<1>1. HandlerTypeOK
  BY DEF TelemetryInit, HandlerTypeOK, HandleStages, Resting
<1>2. /\ Reporting({"clock", "load", "cas", "log", "suppress", "count"}) = {}
      /\ Reporting({"count"}) = {}
  BY DEF TelemetryInit, Reporting, Resting
<1>3. FailuresAccountedFor
  BY <1>2, FS_EmptySet DEF TelemetryInit, FailuresAccountedFor
<1> QED BY <1>1, <1>3 DEF HandlerInv

\* Every step keeps the types.
LEMMA HandlerTypes == HandlerTypeOK /\ [TelemetryNext]_telemetryVars => HandlerTypeOK'
<1> SUFFICES ASSUME HandlerTypeOK, [TelemetryNext]_telemetryVars PROVE HandlerTypeOK'
  OBVIOUS
<1> USE TelemetryAssumption DEF HandlerTypeOK, HandleStages
<1>1. CASE UNCHANGED telemetryVars
  BY <1>1 DEF telemetryVars, handlerVars
<1>2. CASE (\E enabled \in BOOLEAN : NewFailOpen(enabled)) \/ ForceFlush \/ Shutdown
  BY <1>2 DEF NewFailOpen, ForceFlush, Shutdown, handlerVars
<1>3. CASE SetClock
  BY <1>3 DEF SetClock
<1>4. ASSUME NEW r \in Reporters, Handle(r) PROVE HandlerTypeOK'
  BY <1>4 DEF Handle, Within, To
<1>5. ASSUME NEW r \in Reporters, ReadClock(r) PROVE HandlerTypeOK'
  BY <1>5 DEF ReadClock, Within
<1>6. ASSUME NEW r \in Reporters, LoadNext(r) PROVE HandlerTypeOK'
  BY <1>6 DEF LoadNext, Within
<1>7. ASSUME NEW r \in Reporters, CompareAndSwap(r) PROVE HandlerTypeOK'
  BY <1>7 DEF CompareAndSwap, Within, To
<1>8. ASSUME NEW r \in Reporters, AddPending(r) PROVE HandlerTypeOK'
  BY <1>8 DEF AddPending, Within, To
<1>9. ASSUME NEW r \in Reporters, recordSuppressedExportLog(r) PROVE HandlerTypeOK'
  BY <1>9 DEF recordSuppressedExportLog, Within, Resting
<1>10. ASSUME NEW r \in Reporters, Warn(r) PROVE HandlerTypeOK'
  BY <1>10 DEF Warn, Within, Resting
<1> QED BY <1>1, <1>2, <1>3, <1>4, <1>5, <1>6, <1>7, <1>8, <1>9, <1>10
        DEF TelemetryNext, HandleNext

\* Every step keeps the books: each atomic operation moves one reporter and
\* one counter.
LEMMA HandlerAccounts ==
    HandlerInv /\ [TelemetryNext]_telemetryVars => FailuresAccountedFor'
<1> SUFFICES ASSUME HandlerInv, [TelemetryNext]_telemetryVars PROVE FailuresAccountedFor'
  OBVIOUS
<1> DEFINE busy == {"clock", "load", "cas", "log", "suppress", "count"}
<1>0. HandlerTypeOK /\ FailuresAccountedFor
  BY DEF HandlerInv
<1>1. CASE UNCHANGED handlerVars \/ SetClock
  BY <1>0, <1>1 DEF handlerVars, SetClock, FailuresAccountedFor, Reporting
<1>2. ASSUME NEW r \in Reporters,
             \/ Handle(r) \/ ReadClock(r) \/ LoadNext(r) \/ CompareAndSwap(r)
             \/ AddPending(r) \/ recordSuppressedExportLog(r) \/ Warn(r)
      PROVE  FailuresAccountedFor'
  <2>1. \A q \in Reporters \ {r} : rep'[q].pc = rep[q].pc
    BY <1>0, <1>2 DEF HandlerTypeOK, Handle, ReadClock, LoadNext, CompareAndSwap, AddPending,
                      recordSuppressedExportLog, Warn, To
  <2> DEFINE b == Cardinality(Reporting(busy))
             c == Cardinality(Reporting({"count"}))
  <2>2. /\ b \in Nat /\ c \in Nat
        /\ b' = b + One(rep'[r].pc \in busy) - One(rep[r].pc \in busy)
        /\ c' = c + One(rep'[r].pc \in {"count"}) - One(rep[r].pc \in {"count"})
    BY <2>1, CountAfterMove
  <2>3. exportFailures = logs + suppressedExportLogs + b
        /\ reported + pendingSuppressed = suppressedExportLogs + c
    BY <1>0 DEF FailuresAccountedFor
  <2>4. SUFFICES exportFailures' = logs' + suppressedExportLogs' + b'
                 /\ reported' + pendingSuppressed' = suppressedExportLogs' + c'
    BY DEF FailuresAccountedFor
  <2> HIDE DEF b, c
  <2> USE <1>0, <2>2, <2>3 DEF HandlerTypeOK, One
  <2>5. CASE Handle(r)
    BY <2>5 DEF Handle, Within, To
  <2>6. CASE ReadClock(r)
    BY <2>6 DEF ReadClock, Within
  <2>7. CASE LoadNext(r)
    BY <2>7 DEF LoadNext, Within
  <2>8. CASE CompareAndSwap(r)
    BY <2>8 DEF CompareAndSwap, Within, To
  <2>9. CASE AddPending(r)
    BY <2>9 DEF AddPending, Within, To
  <2>10. CASE recordSuppressedExportLog(r)
    BY <2>10 DEF recordSuppressedExportLog, Within, Resting
  <2>11. CASE Warn(r)
    BY <2>11 DEF Warn, Within, Resting
  <2> QED BY <1>2, <2>5, <2>6, <2>7, <2>8, <2>9, <2>10, <2>11
<1>3. CASE (\E enabled \in BOOLEAN : NewFailOpen(enabled)) \/ ForceFlush \/ Shutdown
  BY <1>1, <1>3 DEF NewFailOpen, ForceFlush, Shutdown
<1> QED BY <1>1, <1>2, <1>3 DEF TelemetryNext, HandleNext, telemetryVars

\* Only a swap moves the time of the next warning, and it moves it by an
\* interval or more.
LEMMA HandlerSpaces ==
    HandlerInv /\ [TelemetryNext]_telemetryVars
        => [nextLog' # nextLog => nextLog' >= nextLog + LogInterval]_telemetryVars
<1> SUFFICES ASSUME HandlerTypeOK, TelemetryNext, nextLog' # nextLog
             PROVE  nextLog' >= nextLog + LogInterval
  BY DEF HandlerInv
<1>1. PICK r \in Reporters : CompareAndSwap(r)
  BY DEF TelemetryNext, HandleNext, NewFailOpen, ForceFlush, Shutdown, handlerVars, SetClock,
         Handle, ReadClock, LoadNext, AddPending, recordSuppressedExportLog, Warn
<1>2. rep[r].pc = "cas" /\ nextLog = rep[r].next /\ nextLog' = rep[r].now + LogInterval
  BY <1>1 DEF CompareAndSwap, Within
<1> QED BY <1>2, TelemetryAssumption DEF HandlerTypeOK

\* They stay in order.
LEMMA HandlerInvariant == TelemetrySpec => []HandlerInv
<1>1. HandlerInv /\ [TelemetryNext]_telemetryVars => HandlerInv'
  BY HandlerTypes, HandlerAccounts DEF HandlerInv
<1> QED BY <1>1, HandlerInit, PTL DEF TelemetrySpec

\* No failed export is lost or announced twice by Handle, however many
\* reporters interleave.
THEOREM NoFailureIsLost == TelemetrySpec => []FailuresAccountedFor
<1>1. HandlerInv => FailuresAccountedFor
  BY DEF HandlerInv
<1> QED BY <1>1, HandlerInvariant, PTL

\* Handle's compare-and-swap lets one warning per interval through, whatever
\* clock readings the reporters act on.
THEOREM OneWarningPerInterval == TelemetrySpec => WarningsAreSpaced
<1> QED BY HandlerSpaces, HandlerInvariant, PTL DEF TelemetrySpec, WarningsAreSpaced

-----------------------------------------------------------------------------
(* The configuration.  What Load accepts meets what the constructors ask    *)
(* for, and what a protected environment asks for.                          *)

Usable(keys) ==
    /\ keys # <<>>
    /\ \A i \in DOMAIN keys : keys[i].kid # "" /\ keys[i].secret # ""
    /\ \A i, j \in DOMAIN keys : keys[i].kid = keys[j].kid => i = j

Listenable(c) ==
    c["GRPC_ENABLE"] = "true" =>
        /\ splitListenAddr(c["GRPC_ADDR"])
        /\ c["GRPC_REFLECTION_ENABLE"] = "true" => isLoopbackListenAddr(c["GRPC_ADDR"])
        /\ c["GRPC_TLS_ENABLE"] # "true" => isLoopbackListenAddr(c["GRPC_ADDR"])

Buildable(c) ==
    /\ c["LOG_LEVEL"] \in {"debug", "info", "warn", "error"} /\ c["LOG_FORMAT"] \in {"text", "json"}
    /\ c["STREAMING_SUBSCRIBER_BUFFER"] = "pos" /\ c["QUEUE_SIZE"] = "pos"
    /\ c["BULKHEAD_MAX_PARALLEL"] = "pos"
    /\ c["AUTH_JWT_ALLOWED_ALG"] = "HS256" /\ c["AUTH_JWT_CLOCK_SKEW"] \in {"zero", "pos"}
    /\ Usable(c["AUTH_JWT_KEYS"])
    /\ ValidateTrustedProxyRequirements(c)
    /\ Listenable(c)

Guarded(c) ==
    /\ c["APP_ENV"] \in {"staging", "production"} =>
        /\ \A i \in DOMAIN c["AUTH_JWT_KEYS"] : c["AUTH_JWT_KEYS"][i].secret = "long"
        /\ c["AUTH_JWT_ISSUER"] # "" /\ c["AUTH_JWT_AUDIENCE"] # ""
        /\ c["SECURITY_HEADERS_ENABLE"] = "true"
    /\ c["PROXY_TRUST_XFF"] = "true" =>
        \A i \in DOMAIN c["PROXY_TRUSTED_PROXIES"] : c["PROXY_TRUSTED_PROXIES"][i] > 0
    /\ c["CORS_ALLOW_CREDENTIALS"] = "true" =>
        \A i \in DOMAIN c["CORS_ALLOWED_ORIGINS"] : c["CORS_ALLOWED_ORIGINS"][i] # AnyOrigin

\* The defaults the checks meet when a variable is not set.
LEMMA Defaults ==
    /\ {"LOG_LEVEL", "LOG_FORMAT", "STREAMING_SUBSCRIBER_BUFFER", "QUEUE_SIZE",
        "BULKHEAD_MAX_PARALLEL", "AUTH_JWT_ALLOWED_ALG", "AUTH_JWT_CLOCK_SKEW", "AUTH_JWT_KEYS",
        "GRPC_ENABLE", "GRPC_ADDR", "GRPC_REFLECTION_ENABLE", "GRPC_TLS_ENABLE",
        "PROXY_TRUSTED_PROXIES", "CORS_ALLOWED_ORIGINS", "CORS_ALLOW_CREDENTIALS"}
            \subseteq DOMAIN defaultConfig
    /\ defaultConfig["LOG_LEVEL"] = "info" /\ defaultConfig["LOG_FORMAT"] = "text"
    /\ defaultConfig["STREAMING_SUBSCRIBER_BUFFER"] = "pos" /\ defaultConfig["QUEUE_SIZE"] = "pos"
    /\ defaultConfig["BULKHEAD_MAX_PARALLEL"] = "pos"
    /\ defaultConfig["AUTH_JWT_CLOCK_SKEW"] = "pos"
    /\ defaultConfig["AUTH_JWT_KEYS"] = <<[kid |-> "dev", secret |-> "development"]>>
    /\ defaultConfig["GRPC_ENABLE"] = "false"
    /\ defaultConfig["PROXY_TRUSTED_PROXIES"] = <<>>
<1>1. {"LOG_LEVEL", "LOG_FORMAT", "STREAMING_SUBSCRIBER_BUFFER", "QUEUE_SIZE"}
          \subseteq DOMAIN defaultConfig
  <2>1. "LOG_LEVEL" \in DOMAIN defaultConfig
    BY ZenonT(60) DEF defaultConfig
  <2>2. "LOG_FORMAT" \in DOMAIN defaultConfig
    BY ZenonT(60) DEF defaultConfig
  <2>3. "STREAMING_SUBSCRIBER_BUFFER" \in DOMAIN defaultConfig
    BY ZenonT(60) DEF defaultConfig
  <2>4. "QUEUE_SIZE" \in DOMAIN defaultConfig
    BY ZenonT(60) DEF defaultConfig
  <2> QED BY <2>1, <2>2, <2>3, <2>4
<1>2. {"BULKHEAD_MAX_PARALLEL", "AUTH_JWT_ALLOWED_ALG", "AUTH_JWT_CLOCK_SKEW", "AUTH_JWT_KEYS"}
          \subseteq DOMAIN defaultConfig
  <2>1. "BULKHEAD_MAX_PARALLEL" \in DOMAIN defaultConfig
    BY ZenonT(60) DEF defaultConfig
  <2>2. "AUTH_JWT_ALLOWED_ALG" \in DOMAIN defaultConfig
    BY ZenonT(60) DEF defaultConfig
  <2>3. "AUTH_JWT_CLOCK_SKEW" \in DOMAIN defaultConfig
    BY ZenonT(60) DEF defaultConfig
  <2>4. "AUTH_JWT_KEYS" \in DOMAIN defaultConfig
    BY ZenonT(60) DEF defaultConfig
  <2> QED BY <2>1, <2>2, <2>3, <2>4
<1>3. {"GRPC_ENABLE", "GRPC_ADDR", "GRPC_REFLECTION_ENABLE", "GRPC_TLS_ENABLE"}
          \subseteq DOMAIN defaultConfig
  <2>1. "GRPC_ENABLE" \in DOMAIN defaultConfig
    BY ZenonT(60) DEF defaultConfig
  <2>2. "GRPC_ADDR" \in DOMAIN defaultConfig
    BY ZenonT(60) DEF defaultConfig
  <2>3. "GRPC_REFLECTION_ENABLE" \in DOMAIN defaultConfig
    BY ZenonT(60) DEF defaultConfig
  <2>4. "GRPC_TLS_ENABLE" \in DOMAIN defaultConfig
    BY ZenonT(60) DEF defaultConfig
  <2> QED BY <2>1, <2>2, <2>3, <2>4
<1>4. {"PROXY_TRUSTED_PROXIES", "CORS_ALLOWED_ORIGINS", "CORS_ALLOW_CREDENTIALS"}
          \subseteq DOMAIN defaultConfig
  <2>1. "PROXY_TRUSTED_PROXIES" \in DOMAIN defaultConfig
    BY ZenonT(60) DEF defaultConfig
  <2>2. "CORS_ALLOWED_ORIGINS" \in DOMAIN defaultConfig
    BY ZenonT(60) DEF defaultConfig
  <2>3. "CORS_ALLOW_CREDENTIALS" \in DOMAIN defaultConfig
    BY ZenonT(60) DEF defaultConfig
  <2> QED BY <2>1, <2>2, <2>3
<1>5. defaultConfig["LOG_LEVEL"] = "info" /\ defaultConfig["LOG_FORMAT"] = "text"
  BY ZenonT(40) DEF defaultConfig
<1>6. defaultConfig["STREAMING_SUBSCRIBER_BUFFER"] = "pos" /\ defaultConfig["QUEUE_SIZE"] = "pos"
  BY ZenonT(40) DEF defaultConfig
<1>7. /\ defaultConfig["BULKHEAD_MAX_PARALLEL"] = "pos"
      /\ defaultConfig["AUTH_JWT_CLOCK_SKEW"] = "pos"
  BY ZenonT(40) DEF defaultConfig
<1>8. /\ defaultConfig["AUTH_JWT_KEYS"] = <<[kid |-> "dev", secret |-> "development"]>>
      /\ defaultConfig["GRPC_ENABLE"] = "false" /\ defaultConfig["PROXY_TRUSTED_PROXIES"] = <<>>
  BY ZenonT(40) DEF defaultConfig
<1> QED BY <1>1, <1>2, <1>3, <1>4, <1>5, <1>6, <1>7, <1>8

\* A variable of no disabled listener is in force as it is set.
LEMMA InForce ==
    ASSUME NEW env, NEW key \in DOMAIN defaultConfig, key \notin HttpTLSKeys, key \notin GrpcKeys
    PROVE  Values(env)[key] = Raw(env, key)
BY DEF Values, Ignored, GrpcKeys

\* A checked variable is in its set, set or not.
LEMMA KnownInForce ==
    ASSUME NEW env, NEW key, NEW values, Known(env, key, values), defaultConfig[key] \in values
    PROVE  Raw(env, key) \in values
BY DEF Known, Raw

\* The development key can be used.
LEMMA DevelopmentKey == Usable(<<[kid |-> "dev", secret |-> "development"]>>)
<1> DEFINE keys == <<[kid |-> "dev", secret |-> "development"]>>
<1>1. keys # <<>> /\ DOMAIN keys = {1} /\ keys[1].kid = "dev" /\ keys[1].secret = "development"
  OBVIOUS
<1> QED BY <1>1 DEF Usable

\* The keys Load accepts are usable.
LEMMA KeysInForce ==
    ASSUME NEW env, LoadJWT(env)
    PROVE  Usable(Raw(env, "AUTH_JWT_KEYS"))
<1>1. CASE "AUTH_JWT_KEYS" \in DOMAIN env
  BY <1>1 DEF LoadJWT, parseJWTKeys, ParseList, Items, Raw, Usable
<1>2. CASE "AUTH_JWT_KEYS" \notin DOMAIN env
  BY <1>2, Defaults, DevelopmentKey DEF Raw
<1> QED BY <1>1, <1>2

\* The gRPC listener Load accepts is one the constructors accept.
LEMMA ListenerInForce ==
    ASSUME NEW env, LoadGRPC(env)
    PROVE  Listenable(Values(env))
<1>1. Values(env)["GRPC_ENABLE"] = Raw(env, "GRPC_ENABLE")
  BY Defaults, InForce DEF HttpTLSKeys, GrpcKeys, GrpcTLSKeys
<1>2. ASSUME On(env, "GRPC_ENABLE"), NEW key \in {"GRPC_ADDR", "GRPC_REFLECTION_ENABLE", "GRPC_TLS_ENABLE"}
      PROVE  Values(env)[key] = Raw(env, key)
  <2>1. key \notin Ignored(env)
    BY <1>2 DEF Ignored, HttpTLSKeys, GrpcTLSKeys
  <2> QED BY <2>1, Defaults DEF Values
<1> QED BY <1>1, <1>2 DEF LoadGRPC, Listenable, On

\* The constructors accept what Load accepts.
LEMMA AcceptedIsBuildable ==
    ASSUME NEW env, Load(env)
    PROVE  Buildable(Values(env))
<1>1. /\ Raw(env, "LOG_LEVEL") \in {"debug", "info", "warn", "error"}
      /\ Raw(env, "LOG_FORMAT") \in {"text", "json"}
  BY Defaults, KnownInForce DEF Load, LoadRuntime, lookupLogLevel, lookupLogFormat
<1>2. Raw(env, "STREAMING_SUBSCRIBER_BUFFER") \in {"pos"}
  BY Defaults, KnownInForce DEF Load, LoadStreaming, lookupPositive
<1>3. Raw(env, "QUEUE_SIZE") \in {"pos"} /\ Raw(env, "BULKHEAD_MAX_PARALLEL") \in {"pos"}
  BY Defaults, KnownInForce DEF Load, LoadLimits, lookupPositive
<1>4. Raw(env, "AUTH_JWT_CLOCK_SKEW") \in {"zero", "pos"}
  BY Defaults, KnownInForce DEF Load, LoadJWT, lookupNonNegative
<1>5. Raw(env, "AUTH_JWT_ALLOWED_ALG") = "HS256" /\ Usable(Raw(env, "AUTH_JWT_KEYS"))
  BY KeysInForce DEF Load, LoadJWT
<1>6. \A key \in {"LOG_LEVEL", "LOG_FORMAT", "STREAMING_SUBSCRIBER_BUFFER", "QUEUE_SIZE",
                  "BULKHEAD_MAX_PARALLEL", "AUTH_JWT_ALLOWED_ALG", "AUTH_JWT_CLOCK_SKEW",
                  "AUTH_JWT_KEYS"} : Values(env)[key] = Raw(env, key)
  BY Defaults, InForce DEF HttpTLSKeys, GrpcKeys, GrpcTLSKeys
<1>7. ValidateTrustedProxyRequirements(Values(env)) /\ Listenable(Values(env))
  BY ListenerInForce DEF Load, validateSecurityProfile
<1> QED BY <1>1, <1>2, <1>3, <1>4, <1>5, <1>6, <1>7 DEF Buildable

\* What Load accepts meets the baseline.
LEMMA AcceptedIsGuarded ==
    ASSUME NEW env \in Envs, Load(env)
    PROVE  Guarded(Values(env))
<1> DEFINE c == Values(env)
           proxies == c["PROXY_TRUSTED_PROXIES"]
           origins == c["CORS_ALLOWED_ORIGINS"]
<1>1. validateSecurityProfile(c)
  BY DEF Load
<1>2. ASSUME c["APP_ENV"] \in {"staging", "production"}
      PROVE  /\ Secrets(c) = {"long"} /\ c["SECURITY_HEADERS_ENABLE"] = "true"
             /\ c["AUTH_JWT_ISSUER"] # "" /\ c["AUTH_JWT_AUDIENCE"] # ""
  BY <1>1, <1>2 DEF validateSecurityProfile, isProtectedEnvironment, validateProtectedJWT
<1>3. \A i \in DOMAIN c["AUTH_JWT_KEYS"] : c["AUTH_JWT_KEYS"][i].secret \in Secrets(c)
  BY DEF Secrets
<1>4. ASSUME c["PROXY_TRUST_XFF"] = "true", NEW i \in DOMAIN proxies
      PROVE  proxies[i] > 0
  <2>1. proxies[i] # 0
    BY <1>1, <1>4 DEF validateSecurityProfile, ValidateTrustedProxyRequirements
  <2>2. proxies = Raw(env, "PROXY_TRUSTED_PROXIES")
    BY Defaults, InForce DEF HttpTLSKeys, GrpcKeys, GrpcTLSKeys
  <2>3. "PROXY_TRUSTED_PROXIES" \in DOMAIN env /\ proxies = env["PROXY_TRUSTED_PROXIES"]
    BY <1>4, <2>2, Defaults DEF Raw
  <2>4. proxies[i] \in Int
    BY <1>4, <2>3, EnvsAssumption
  <2>5. proxies[i] >= 0
    BY <1>4, <2>3 DEF Load, LoadProxy, parseTrustedProxies, Items
  <2> QED BY <2>1, <2>4, <2>5
<1>5. ASSUME c["CORS_ALLOW_CREDENTIALS"] = "true", NEW i \in DOMAIN origins
      PROVE  origins[i] # AnyOrigin
  <2>1. origins = Raw(env, "CORS_ALLOWED_ORIGINS") /\ On(env, "CORS_ALLOW_CREDENTIALS")
    BY <1>5, Defaults, InForce DEF HttpTLSKeys, GrpcKeys, GrpcTLSKeys, On
  <2> QED BY <1>5, <2>1 DEF Load, LoadCORS
<1> HIDE DEF c
<1> QED BY <1>2, <1>3, <1>4, <1>5 DEF Guarded, c

-----------------------------------------------------------------------------
(* The start of the program.                                                *)

Constructing == {"logger", "signals", "telemetry", "proxy", "hub", "storage", "queue", "verifier",
                 "grpcServer", "grpcClient", "assemble", "ready"}

\* run builds from an accepted configuration, and listens only when told to.
ConfigInv ==
    /\ AcceptedConfigurationBuilds
    /\ pc \in Constructing => Buildable(cfg) /\ Guarded(cfg)
    /\ pc \in {"grpcServer", "grpcClient"} => cfg["GRPC_ENABLE"] = "true"
    /\ pc \in Constructing /\ "listener" \in held => cfg["GRPC_ENABLE"] = "true"
    /\ pc = "load" => held = {}

\* The gRPC server and the bridge's client accept a listenable address.
LEMMA ListenerIsBuilt ==
    ASSUME Listenable(cfg), cfg["GRPC_ENABLE"] = "true"
    PROVE  /\ cfg["GRPC_ADDR"] # "" /\ splitListenAddr(cfg["GRPC_ADDR"])
           /\ ~(cfg["GRPC_REFLECTION_ENABLE"] = "true" /\ ~isLoopbackListenAddr(cfg["GRPC_ADDR"]))
           /\ cfg["GRPC_TLS_ENABLE"] # "true" =>
                isLoopbackListenAddr(cfg["GRPC_ADDR"]) /\ IsLoopback(loopbackTarget(cfg["GRPC_ADDR"]))
<1>1. ~splitListenAddr("")
  BY DEF splitListenAddr, SplitHostPort
<1>2. IsLoopback("127.0.0.1")
  BY DEF IsLoopback
<1> QED BY <1>1, <1>2 DEF Listenable, isLoopbackListenAddr, loopbackTarget

\* No step of run meets a configuration it cannot build from.
LEMMA ConfigStep == ConfigInv /\ [Next]_vars => ConfigInv'
<1> SUFFICES ASSUME ConfigInv, [Next]_vars PROVE ConfigInv'
  OBVIOUS
<1> USE DEF ConfigInv, AcceptedConfigurationBuilds, Constructing
<1>1. CASE UNCHANGED vars \/ Export
  BY <1>1 DEF vars, processVars, Export
<1>2. CASE LoadConfig
  BY <1>2, AcceptedIsBuildable, AcceptedIsGuarded DEF LoadConfig, Building
<1>3. CASE NewLogger
  BY <1>3 DEF NewLogger, Building, Continue, Buildable
<1>4. CASE NotifyContext
  BY <1>4 DEF NotifyContext, Building, Defer
<1>5. CASE StartTelemetry
  BY <1>5 DEF StartTelemetry, Fail
<1>6. CASE NewProxyAPI
  BY <1>6 DEF NewProxyAPI, Building, Continue, Buildable
<1>7. CASE NewHub
  BY <1>7 DEF NewHub, Building, Continue, Buildable
<1>8. CASE OpenStorage
  <2>1. pc = "storage" /\ (Continue("queue") \/ Fail("database") \/ Defer("db", "queue") \/ Fail("backend"))
    BY <1>8 DEF OpenStorage, Building
  <2>2. CASE Continue("queue")
    BY <2>1, <2>2 DEF Continue
  <2>3. CASE Fail("database") \/ Fail("backend")
    BY <2>3 DEF Fail
  <2>4. CASE Defer("db", "queue")
    BY <2>1, <2>4 DEF Defer
  <2> QED BY <2>1, <2>2, <2>3, <2>4
<1>9. CASE NewQueueAndClient
  <2>1. pc = "queue" /\ Buildable(cfg)
    BY <1>9 DEF NewQueueAndClient, Building
  <2>2. Defer("transport", "verifier")
    BY <1>9, <2>1 DEF NewQueueAndClient, Buildable
  <2> QED BY <2>1, <2>2 DEF Defer
<1>10. CASE NewJWTVerifierHS256
  <2>1. /\ pc = "verifier" /\ UNCHANGED <<cfg, cause, held>>
        /\ pc' = IF cfg["GRPC_ENABLE"] = "true" THEN "grpcServer" ELSE "assemble"
    BY <1>10 DEF NewJWTVerifierHS256, Building, Continue, Buildable, Usable
  <2> QED BY <2>1
<1>11. CASE NewRuntimeWithConfig
  <2>1. pc = "grpcServer" /\ Listenable(cfg)
    BY <1>11 DEF NewRuntimeWithConfig, Building, Buildable
  <2>2. \/ Fail("files") \/ Fail("listen")
        \/ held' = held \cup {"listener"} /\ pc' = "grpcClient" /\ UNCHANGED <<cfg, cause>>
    BY <1>11, <2>1, ListenerIsBuilt DEF NewRuntimeWithConfig
  <2>3. CASE Fail("files") \/ Fail("listen")
    BY <2>3 DEF Fail
  <2> QED BY <2>1, <2>2, <2>3
<1>12. CASE NewJobsClientWithConfig
  BY <1>12, ListenerIsBuilt DEF NewJobsClientWithConfig, Building, Defer, Buildable
<1>13. CASE Assemble
  BY <1>13 DEF Assemble, Building, Continue, Buildable
<1>14. CASE Serve \/ RunReturns
  BY <1>14 DEF Serve, RunReturns, Building
<1>15. CASE Unwind \/ shutdownTelemetry \/ Exit
  BY <1>15 DEF Unwind, shutdownTelemetry, Exit, Building
<1> QED BY <1>1, <1>2, <1>3, <1>4, <1>5, <1>6, <1>7, <1>8, <1>9, <1>10, <1>11, <1>12, <1>13,
           <1>14, <1>15 DEF Next, Step

-----------------------------------------------------------------------------
(* The deferred calls.  run defers in one order, with or without a database *)
(* and a gRPC client, so the stack is one of eight.                         *)

Push(x, d) == <<x>> \o d
Signals == Push("signals", <<>>)
Observed == Push("telemetry", Signals)
Stored == Push("db", Observed)
Sending(d) == Push("transport", d)
Dialled(d) == Push("conn", Sending(d))

Low == {<<>>, Signals}
High == {Stored, Sending(Observed), Sending(Stored), Dialled(Observed), Dialled(Stored)}

\* What is open is on the stack, but for the gRPC listener.
Open(what) == held \subseteq what \cup {"listener", "signals"}

StackInv ==
    \/ deferred = <<>> /\ held \subseteq {"listener"}
    \/ deferred = Signals /\ Open({})
    \/ deferred = Observed /\ Open({})
    \/ deferred = Stored /\ Open({"db"})
    \/ deferred = Sending(Observed) /\ Open({"transport"})
    \/ deferred = Sending(Stored) /\ Open({"transport", "db"})
    \/ deferred = Dialled(Observed) /\ Open({"conn", "transport"})
    \/ deferred = Dialled(Stored) /\ Open({"conn", "transport", "db"})

\* How far run has come, by its stack.
StageInv ==
    /\ pc \in {"load", "logger", "signals", "exited"} => deferred = <<>>
    /\ pc = "telemetry" => deferred = Signals
    /\ pc \in {"proxy", "hub", "storage"} => deferred = Observed
    /\ pc = "queue" => deferred \in {Observed, Stored}
    /\ pc \in {"verifier", "grpcServer", "grpcClient"} =>
        deferred \in {Sending(Observed), Sending(Stored)}
    /\ pc \in {"assemble", "ready", "serve"} =>
        deferred \in {Sending(Observed), Sending(Stored), Dialled(Observed), Dialled(Stored)}

\* Telemetry runs while its shutdown is on the stack.
ProviderInv ==
    /\ deferred \in Low => providers \in {"none", "shut"}
    /\ deferred = Observed => providers \in {"on", "off", "flushing"}
    /\ deferred \in High => providers \in {"on", "off"}
    /\ providers = "flushing" => pc = "unwind"
    /\ providers = "none" => exporters = {}

\* Who still has to close the gRPC listener.
ListenerInv ==
    "listener" \in held => \/ pc \in {"grpcClient", "assemble", "ready", "serve"}
                           \/ cause = "startup" /\ pc \in {"unwind", "exited"}

CleanupInv == StackInv /\ StageInv /\ ProviderInv /\ ListenerInv

Pops(d, x, rest) == d # <<>> /\ Head(d) = x /\ Tail(d) = rest

\* Pushing and popping a deferred call.
LEMMA PushPop ==
    ASSUME NEW S, NEW x \in S, NEW d \in Seq(S)
    PROVE  Push(x, d) \in Seq(S) /\ Pops(Push(x, d), x, d)
<1> DEFINE s == <<x>> \o d
<1>0. <<x>> \in Seq(S) /\ Len(<<x>>) = 1 /\ <<x>>[1] = x
  OBVIOUS
<1>1. /\ s \in Seq(S) /\ Len(s) = 1 + Len(d) /\ Len(d) \in Nat
      /\ \A i \in 1 .. 1 + Len(d) : s[i] = IF i <= 1 THEN <<x>>[i] ELSE d[i - 1]
  BY <1>0, ConcatProperties
<1>2. s[1] = x /\ s # <<>> /\ \A i \in 1 .. Len(d) : s[i + 1] = d[i]
  BY <1>0, <1>1
<1> HIDE DEF s
<1>3. Tail(s) \in Seq(S) /\ Len(Tail(s)) = Len(d) /\ Head(s) = x
      /\ \A i \in 1 .. Len(Tail(s)) : Tail(s)[i] = s[i + 1]
  BY <1>1, <1>2, HeadTailProperties
<1>4. \A i \in 1 .. Len(Tail(s)) : Tail(s)[i] = d[i]
  BY <1>2, <1>3
<1>5. Tail(s) = d
  BY <1>3, <1>4, SeqEqual
<1> QED BY <1>1, <1>2, <1>3, <1>5 DEF Pops, Push, s

\* Each stack is one call on top of another stack.
LEMMA Stacks ==
    /\ Pops(Signals, "signals", <<>>)
    /\ Pops(Observed, "telemetry", Signals)
    /\ Pops(Stored, "db", Observed)
    /\ Pops(Sending(Observed), "transport", Observed)
    /\ Pops(Sending(Stored), "transport", Stored)
    /\ Pops(Dialled(Observed), "conn", Sending(Observed))
    /\ Pops(Dialled(Stored), "conn", Sending(Stored))
<1> DEFINE Calls == {"signals", "telemetry", "db", "transport", "conn"}
<1>0. /\ "signals" \in Calls /\ "telemetry" \in Calls /\ "db" \in Calls
      /\ "transport" \in Calls /\ "conn" \in Calls
  OBVIOUS
<1> HIDE DEF Calls
<1>1. <<>> \in Seq(Calls)
  OBVIOUS
<1>2. Signals \in Seq(Calls) /\ Pops(Signals, "signals", <<>>)
  BY <1>0, <1>1, PushPop DEF Signals
<1>3. Observed \in Seq(Calls) /\ Pops(Observed, "telemetry", Signals)
  BY <1>0, <1>2, PushPop DEF Observed
<1>4. Stored \in Seq(Calls) /\ Pops(Stored, "db", Observed)
  BY <1>0, <1>3, PushPop DEF Stored
<1>5. ASSUME NEW d \in Seq(Calls)
      PROVE  /\ Sending(d) \in Seq(Calls) /\ Pops(Sending(d), "transport", d)
             /\ Pops(Dialled(d), "conn", Sending(d))
  <2>1. Sending(d) \in Seq(Calls) /\ Pops(Sending(d), "transport", d)
    BY <1>0, PushPop DEF Sending
  <2> QED BY <1>0, <2>1, PushPop DEF Dialled
<1> QED BY <1>2, <1>3, <1>4, <1>5

\* The stacks below, at and above telemetry are different ones.
LEMMA Levels == Low \cap High = {} /\ Observed \notin Low \cup High /\ Signals # <<>>
BY Stacks DEF Pops, Low, High

\* run moves on, or returns, with its stack as it is.
LEMMA KeepStack ==
    ASSUME CleanupInv, UNCHANGED <<deferred, providers, exporters>>, held' \subseteq held,
           StageInv', ListenerInv', pc' # "unwind" => pc # "unwind"
    PROVE  CleanupInv'
BY DEF CleanupInv, StackInv, Open, ProviderInv

\* The constructors before telemetry.
LEMMA EarlyCleanup ==
    ASSUME ConfigInv, CleanupInv, LoadConfig \/ NewLogger \/ NotifyContext \/ StartTelemetry
    PROVE  CleanupInv'
<1>1. CASE LoadConfig
  <2>1. /\ pc = "load" /\ pc' \in {"logger", "exited"}
        /\ UNCHANGED <<deferred, held, providers, exporters>>
    BY <1>1 DEF LoadConfig, Building, telemetryVars, providerVars
  <2>2. StageInv' /\ ListenerInv'
    BY <2>1 DEF CleanupInv, StageInv, ListenerInv
  <2> QED BY <2>1, <2>2, KeepStack
<1>2. CASE NewLogger
  <2>1. /\ pc = "logger" /\ pc' \in {"signals", "exited"}
        /\ UNCHANGED <<deferred, held, providers, exporters>>
    BY <1>2 DEF NewLogger, Building, Continue, telemetryVars, providerVars
  <2>2. StageInv' /\ ListenerInv'
    BY <2>1 DEF CleanupInv, StageInv, ListenerInv
  <2> QED BY <2>1, <2>2, KeepStack
<1>3. CASE NotifyContext
  <2>1. /\ pc = "signals" /\ pc' = "telemetry" /\ held' = held \cup {"signals"}
        /\ deferred = <<>> /\ deferred' = Signals /\ UNCHANGED <<providers, exporters, cause>>
    BY <1>3 DEF NotifyContext, Building, Defer, telemetryVars, providerVars, CleanupInv,
       StageInv, Push, Signals
  <2>2. held' \subseteq {"listener", "signals"}
    BY <2>1, Stacks DEF CleanupInv, StackInv, Pops
  <2> QED BY <2>1, <2>2, Levels
          DEF CleanupInv, StackInv, Open, StageInv, ProviderInv, ListenerInv, Low
<1>4. CASE StartTelemetry
  <2>1. /\ pc = "telemetry" /\ deferred = Signals /\ held' = held
        /\ held \subseteq {"listener", "signals"} /\ "listener" \notin held
    BY <1>4, Levels, Stacks
       DEF StartTelemetry, Fail, CleanupInv, StageInv, StackInv, Open, ListenerInv, Pops
  <2>2. /\ providers' \in {"none", "on", "off"} /\ (providers' = "none" => exporters' = {})
    BY <1>4 DEF StartTelemetry, NewFailOpen, newRuntime, Opened
  <2>3. CASE providers' = "none"
    <3>1. pc' = "unwind" /\ deferred' = deferred
      BY <1>4, <2>3 DEF StartTelemetry, Fail
    <3> QED BY <2>1, <2>2, <2>3, <3>1, Levels
            DEF CleanupInv, StackInv, Open, StageInv, ProviderInv, ListenerInv, Low
  <2>4. CASE providers' # "none"
    <3>1. pc' = "proxy" /\ deferred' = Observed
      BY <1>4, <2>1, <2>4 DEF StartTelemetry, Push, Observed
    <3> QED BY <2>1, <2>2, <2>4, <3>1, Levels
            DEF CleanupInv, StackInv, Open, StageInv, ProviderInv, ListenerInv
  <2> QED BY <2>3, <2>4
<1> QED BY <1>1, <1>2, <1>3, <1>4

\* The constructors after telemetry.
LEMMA LateCleanup ==
    ASSUME ConfigInv, CleanupInv,
           \/ NewProxyAPI \/ NewHub \/ OpenStorage \/ NewQueueAndClient \/ NewJWTVerifierHS256
           \/ NewRuntimeWithConfig \/ NewJobsClientWithConfig \/ Assemble
    PROVE  CleanupInv'
<1>0. UNCHANGED <<providers, exporters>> /\ providers # "flushing" /\ pc # "unwind"
  BY DEF NewProxyAPI, NewHub, OpenStorage, NewQueueAndClient, NewJWTVerifierHS256,
         NewRuntimeWithConfig, NewJobsClientWithConfig, Assemble, Building, telemetryVars,
         providerVars, CleanupInv, ProviderInv
<1>1. CASE NewProxyAPI \/ NewHub \/ NewJWTVerifierHS256 \/ Assemble
  <2>1. UNCHANGED <<deferred, held>>
    BY <1>1 DEF NewProxyAPI, NewHub, NewJWTVerifierHS256, Assemble, Continue, Fail
  <2>2. \/ pc = "proxy" /\ pc' = "hub"
        \/ pc = "hub" /\ pc' = "storage"
        \/ pc = "verifier" /\ pc' \in {"grpcServer", "assemble"}
        \/ pc = "assemble" /\ pc' = "ready"
    <3>1. Buildable(cfg)
      BY <1>1 DEF NewProxyAPI, NewHub, NewJWTVerifierHS256, Assemble, Building, ConfigInv,
         Constructing
    <3>2. CASE NewProxyAPI \/ NewHub \/ Assemble
      BY <3>1, <3>2 DEF NewProxyAPI, NewHub, Assemble, Building, Continue, Buildable
    <3>3. CASE NewJWTVerifierHS256
      BY <3>1, <3>3 DEF NewJWTVerifierHS256, Building, Continue, Buildable, Usable
    <3> QED BY <1>1, <3>2, <3>3
  <2>3. StageInv' /\ ListenerInv'
    BY <2>1, <2>2 DEF CleanupInv, StageInv, ListenerInv
  <2> QED BY <1>0, <2>1, <2>3, KeepStack
<1>2. CASE OpenStorage
  <2>1. pc = "storage" /\ deferred = Observed /\ "listener" \notin held
        /\ held \subseteq {"listener", "signals"}
    BY <1>2, Levels, Stacks DEF OpenStorage, Building, CleanupInv, StageInv, ListenerInv,
       StackInv, Open, Low, High
  <2>2. CASE Continue("queue") \/ Fail("database") \/ Fail("backend")
    <3>1. UNCHANGED <<deferred, held>> /\ pc' \in {"queue", "unwind"}
      BY <2>2 DEF Continue, Fail
    <3>2. StageInv' /\ ListenerInv'
      BY <2>1, <3>1 DEF StageInv, ListenerInv
    <3> QED BY <1>0, <3>1, <3>2, KeepStack
  <2>3. CASE Defer("db", "queue")
    <3>1. deferred' = Stored /\ held' = held \cup {"db"} /\ pc' = "queue"
      BY <2>1, <2>3 DEF Defer, Push, Stored
    <3>2. StackInv' /\ StageInv' /\ ListenerInv'
      BY <2>1, <3>1 DEF StackInv, Open, StageInv, ListenerInv
    <3>3. ProviderInv'
      BY <1>0, <2>1, <3>1, Levels DEF CleanupInv, ProviderInv, High
    <3> QED BY <3>2, <3>3 DEF CleanupInv
  <2> QED BY <1>2, <2>2, <2>3 DEF OpenStorage
<1>3. CASE NewQueueAndClient
  <2>1. /\ pc = "queue" /\ "listener" \notin held /\ Defer("transport", "verifier")
        /\ \/ deferred = Observed /\ held \subseteq {"listener", "signals"}
           \/ deferred = Stored /\ held \subseteq {"listener", "signals", "db"}
    <3>1. pc = "queue" /\ Defer("transport", "verifier")
      BY <1>3 DEF NewQueueAndClient, Building, ConfigInv, Constructing, Buildable
    <3>2. deferred \in {Observed, Stored} /\ "listener" \notin held
      BY <3>1 DEF CleanupInv, StageInv, ListenerInv
    <3> QED BY <3>1, <3>2, Levels, Stacks DEF CleanupInv, StackInv, Open, Low, High, Pops
  <2>2. held' = held \cup {"transport"} /\ pc' = "verifier" /\ deferred' = Sending(deferred)
    BY <2>1 DEF Defer, Sending, Push
  <2>3. StackInv' /\ StageInv' /\ ListenerInv'
    BY <2>1, <2>2 DEF StackInv, Open, StageInv, ListenerInv
  <2>4. deferred' \in High /\ providers \in {"on", "off"}
    BY <1>0, <2>1, <2>2 DEF CleanupInv, ProviderInv, High
  <2>5. ProviderInv'
    BY <1>0, <2>4, Levels DEF ProviderInv
  <2> QED BY <2>3, <2>5 DEF CleanupInv
<1>4. CASE NewRuntimeWithConfig
  <2>1. pc = "grpcServer" /\ deferred' = deferred /\ "listener" \notin held
    BY <1>4 DEF NewRuntimeWithConfig, Building, Fail, CleanupInv, ListenerInv
  <2>2. held' \subseteq held \cup {"listener"} /\ pc' \in {"grpcClient", "unwind"}
        /\ ("listener" \in held' => pc' = "grpcClient")
    BY <1>4, <2>1 DEF NewRuntimeWithConfig, Fail
  <2>3. StackInv'
    BY <2>1, <2>2, Stacks DEF CleanupInv, StackInv, Open
  <2>4. StageInv' /\ ListenerInv'
    BY <2>1, <2>2 DEF CleanupInv, StageInv, ListenerInv
  <2> QED BY <1>0, <2>1, <2>2, <2>3, <2>4 DEF CleanupInv, ProviderInv
<1>5. CASE NewJobsClientWithConfig
  <2>1. pc = "grpcClient" /\ deferred \in {Sending(Observed), Sending(Stored)}
    BY <1>5 DEF NewJobsClientWithConfig, Building, CleanupInv, StageInv
  <2>2. CASE deferred' = deferred /\ pc' = "unwind" /\ held' = held \ {"listener"}
    <3>1. StageInv' /\ ListenerInv'
      BY <2>2 DEF StageInv, ListenerInv
    <3> QED BY <1>0, <2>2, <3>1, KeepStack
  <2>3. CASE Defer("conn", "assemble")
    <3>1. deferred' = Push("conn", deferred) /\ held' = held \cup {"conn"} /\ pc' = "assemble"
      BY <2>3 DEF Defer, Push
    <3>2. \/ deferred = Sending(Observed) /\ deferred' = Dialled(Observed) /\ Open({"transport"})
          \/ deferred = Sending(Stored) /\ deferred' = Dialled(Stored) /\ Open({"transport", "db"})
      BY <2>1, <3>1, Levels, Stacks DEF CleanupInv, StackInv, Dialled, Low, High, Pops
    <3>3. StackInv' /\ StageInv' /\ ListenerInv'
      BY <3>1, <3>2 DEF StackInv, Open, StageInv, ListenerInv
    <3>4. deferred' \in High /\ providers \in {"on", "off"}
      BY <1>0, <3>2 DEF CleanupInv, ProviderInv, High
    <3> QED BY <1>0, <3>1, <3>3, <3>4, Levels DEF CleanupInv, ProviderInv
  <2> QED BY <1>5, <2>2, <2>3 DEF NewJobsClientWithConfig
<1> QED BY <1>1, <1>2, <1>3, <1>4, <1>5

\* Serving, and the way down.
LEMMA DownCleanup ==
    ASSUME CleanupInv, Serve \/ RunReturns \/ Unwind \/ shutdownTelemetry \/ Exit
    PROVE  CleanupInv'
<1>1. CASE Serve \/ RunReturns
  <2>1. /\ UNCHANGED <<deferred, providers, exporters>> /\ held' \subseteq held
        /\ \/ pc = "ready" /\ pc' = "serve"
           \/ pc = "serve" /\ pc' = "unwind"
        /\ pc' = "unwind" => cause' = "startup" \/ "listener" \notin held'
    BY <1>1 DEF Serve, RunReturns, Building, telemetryVars, providerVars
  <2>2. StageInv' /\ ListenerInv'
    BY <2>1 DEF CleanupInv, StageInv, ListenerInv
  <2> QED BY <2>1, <2>2, KeepStack
<1>2. CASE Unwind
  <2>1. /\ pc = "unwind" /\ pc' = "unwind" /\ deferred # <<>> /\ Head(deferred) # "telemetry"
        /\ held' = held \ {Head(deferred)} /\ deferred' = Tail(deferred)
        /\ UNCHANGED <<cause, providers, exporters>>
    BY <1>2 DEF Unwind, Building, telemetryVars, providerVars
  <2>2. StackInv'
    BY <2>1, Stacks DEF CleanupInv, StackInv, Open, Pops
  <2>3. StageInv' /\ ListenerInv'
    BY <2>1 DEF CleanupInv, StageInv, ListenerInv
  <2>4. \/ deferred = Signals /\ deferred' = <<>>
        \/ deferred \in High /\ deferred' \in High \cup {Observed}
    BY <2>1, Stacks DEF CleanupInv, StackInv, Pops, High
  <2>5. ProviderInv'
    BY <2>1, <2>4, Levels DEF CleanupInv, ProviderInv, Low
  <2> QED BY <2>2, <2>3, <2>5 DEF CleanupInv
<1>3. CASE shutdownTelemetry
  <2>1. /\ pc = "unwind" /\ UNCHANGED <<pc, cause, held>>
        /\ deferred = Observed /\ held \subseteq {"listener", "signals"}
    BY <1>3, Stacks DEF shutdownTelemetry, CleanupInv, StackInv, Open, Pops
  <2>2. \/ deferred' = Observed /\ providers' = "flushing"
        \/ deferred' = Signals /\ providers' = "shut"
    BY <1>3, <2>1, Stacks DEF shutdownTelemetry, ForceFlush, Shutdown, Pops
  <2>3. StackInv' /\ StageInv' /\ ListenerInv'
    BY <2>1, <2>2 DEF CleanupInv, StackInv, Open, StageInv, ListenerInv
  <2>4. ProviderInv'
    BY <2>1, <2>2, Levels DEF ProviderInv, Low
  <2> QED BY <2>3, <2>4 DEF CleanupInv
<1>4. CASE Exit
  <2>1. /\ pc = "unwind" /\ pc' = "exited" /\ deferred = <<>>
        /\ UNCHANGED <<cause, deferred, held, providers, exporters>>
    BY <1>4 DEF Exit, Building, telemetryVars, providerVars
  <2>2. StageInv' /\ ListenerInv'
    BY <2>1 DEF CleanupInv, StageInv, ListenerInv
  <2>3. ProviderInv'
    BY <2>1, Levels DEF CleanupInv, ProviderInv, Low
  <2> QED BY <2>1, <2>2, <2>3 DEF CleanupInv, StackInv, Open
<1> QED BY <1>1, <1>2, <1>3, <1>4

\* Every step keeps the stack and what is open in step.
LEMMA CleanupStep == ConfigInv /\ CleanupInv /\ [Next]_vars => CleanupInv'
<1> SUFFICES ASSUME ConfigInv, CleanupInv, [Next]_vars PROVE CleanupInv'
  OBVIOUS
<1>1. CASE UNCHANGED <<processVars, providerVars>>
  <2>1. StackInv' /\ StageInv'
    BY <1>1, Zenon DEF processVars, providerVars, CleanupInv, StackInv, Open, StageInv
  <2>2. ProviderInv' /\ ListenerInv'
    BY <1>1, Zenon DEF processVars, providerVars, CleanupInv, ProviderInv, ListenerInv
  <2> QED BY <2>1, <2>2, Zenon DEF CleanupInv
<1>2. CASE Export
  <2>1. UNCHANGED <<processVars, providerVars>>
    BY <1>2 DEF Export, HandleNext, SetClock, Handle, ReadClock, LoadNext, CompareAndSwap,
                AddPending, recordSuppressedExportLog, Warn, Within
  <2> QED BY <1>1, <2>1
<1>3. CASE UNCHANGED vars
  <2>1. UNCHANGED <<processVars, providerVars>>
    BY <1>3 DEF vars, telemetryVars
  <2> QED BY <1>1, <2>1
<1> QED BY <1>2, <1>3, EarlyCleanup, LateCleanup, DownCleanup DEF Next, Step

\* run starts with nothing open.
LEMMA ProcessInit == Init => ConfigInv /\ CleanupInv
<1> SUFFICES ASSUME Init PROVE ConfigInv /\ CleanupInv
  OBVIOUS
<1>1. ConfigInv
  BY DEF Init, ConfigInv, AcceptedConfigurationBuilds, Constructing
<1>2. StackInv /\ StageInv /\ ListenerInv
  BY DEF Init, StackInv, StageInv, ListenerInv
<1>3. ProviderInv
  BY Levels DEF Init, TelemetryInit, ProviderInv, Low
<1> QED BY <1>1, <1>2, <1>3 DEF CleanupInv

\* Both invariants hold throughout.
LEMMA ProcessInvariant == Spec => [](ConfigInv /\ CleanupInv)
BY ProcessInit, ConfigStep, CleanupStep, PTL DEF Spec

-----------------------------------------------------------------------------
(* The theorems about the program                                           *)

\* The program runs telemetry.Runtime as that component is specified: every
\* step of run is a step of the component or none (cmd/api, run).
THEOREM ProcessImplementsTelemetry == Spec => TelemetrySpec
<1>1. Init => TelemetryInit
  BY DEF Init
<1>2. [Next]_vars => [TelemetryNext]_telemetryVars
  <2> SUFFICES ASSUME [Next]_vars PROVE [TelemetryNext]_telemetryVars
    OBVIOUS
  <2>1. CASE UNCHANGED vars
    BY <2>1 DEF vars
  <2>2. CASE StartTelemetry
    <3>1. (cfg["TELEMETRY_ENABLED"] = "true") \in BOOLEAN
      OBVIOUS
    <3> QED BY <2>2, <3>1 DEF StartTelemetry, TelemetryNext
  <2>3. CASE shutdownTelemetry \/ Export
    BY <2>3 DEF shutdownTelemetry, Export, TelemetryNext
  <2>4. CASE \/ LoadConfig \/ NewLogger \/ NotifyContext \/ NewProxyAPI
             \/ NewHub \/ OpenStorage \/ NewQueueAndClient \/ NewJWTVerifierHS256
             \/ NewRuntimeWithConfig \/ NewJobsClientWithConfig \/ Assemble \/ Serve
             \/ RunReturns \/ Unwind \/ Exit
    BY <2>4 DEF LoadConfig, NewLogger, NotifyContext, NewProxyAPI, NewHub, OpenStorage,
                NewQueueAndClient, NewJWTVerifierHS256, NewRuntimeWithConfig,
                NewJobsClientWithConfig, Assemble, Serve, RunReturns, Unwind, Exit, Building
  <2> QED BY <2>1, <2>2, <2>3, <2>4 DEF Next, Step
<1> QED BY <1>1, <1>2, PTL DEF Spec, TelemetrySpec

\* Whatever the environment, run builds what Load accepts: only causes outside
\* the configuration, an unknown backend or unnamed files end it (Load, run).
THEOREM AcceptedBuilds == Spec => []AcceptedConfigurationBuilds
<1>1. ConfigInv => AcceptedConfigurationBuilds
  BY DEF ConfigInv
<1> QED BY <1>1, ProcessInvariant, PTL

\* Whatever the environment, a service about to run keeps the baseline of its
\* profile (validateSecurityProfile and the sections of Load).
THEOREM BaselineIsKept == Spec => []BaselineHolds
<1>1. ConfigInv => BaselineHolds
  BY DEF ConfigInv, BaselineHolds, Constructing, Buildable, Guarded, Listenable
<1> QED BY <1>1, ProcessInvariant, PTL

\* Wherever start-up fails and however the server ends, everything run opened
\* is closed, telemetry after what it observes (run's deferred calls).
THEOREM EverythingIsClosed == Spec => []CleanupInOrder
<1>1. CleanupInv => CleanupInOrder
  <2> SUFFICES ASSUME CleanupInv PROVE CleanupInOrder
    OBVIOUS
  <2>1. pc = "exited" => held \subseteq (IF cause = "startup" THEN {"listener"} ELSE {})
    BY Stacks DEF CleanupInv, StackInv, StageInv, ListenerInv, Pops
  <2>2. pc = "exited" => providers \in {"none", "shut"}
    BY DEF CleanupInv, StageInv, ProviderInv, Low
  <2>3. held \cap {"db", "transport", "conn"} # {} => deferred \in High
    BY DEF CleanupInv, StackInv, Open, High
  <2> QED BY <2>1, <2>2, <2>3 DEF CleanupInOrder, CleanupInv, ProviderInv
<1> QED BY <1>1, ProcessInvariant, PTL
=============================================================================
