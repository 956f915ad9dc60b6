------------------------------- MODULE Config -------------------------------
(***************************************************************************)
(* config.Load: from environment variables to an accepted configuration.   *)
(* env maps the variables that are set to what is set; cfg maps every      *)
(* variable to the value in force.  A number or duration is "neg", "zero", *)
(* "pos" or "junk" (it does not parse), a boolean "true", "false" or       *)
(* "junk", and "" is a string of blanks.  An origin and a URL are records  *)
(* of their parts, a key has a kid and a class of secret, and a proxy the  *)
(* length of its prefix (-1: neither an address nor a CIDR).               *)
(*                                                                         *)
(* Every error of Load ends the program the same way, so a lookup is the   *)
(* predicate that it returns no error.                                     *)
(***************************************************************************)
EXTENDS Integers, Sequences

Environments == {"development", "test", "staging", "production"}

defaultConfig ==
    [APP_ENV |-> "development", LOG_LEVEL |-> "info", LOG_FORMAT |-> "text",
     LOG_ADD_SOURCE |-> "false", TELEMETRY_ENABLED |-> "false",
     TELEMETRY_SHUTDOWN_TIMEOUT |-> "pos",
     HTTP_ADDR |-> ":8080", HTTP_TLS_ENABLE |-> "false", HTTP_TLS_ADDR |-> ":8443",
     HTTP_TLS_MIN_VERSION |-> "1.2", HTTP_TLS_KEY_FILE |-> "", HTTP_TLS_CERT_FILE |-> "",
     GRPC_ENABLE |-> "false", GRPC_ADDR |-> ":9090", GRPC_REFLECTION_ENABLE |-> "false",
     GRPC_TLS_ENABLE |-> "false", GRPC_TLS_CERT_FILE |-> "", GRPC_TLS_KEY_FILE |-> "",
     GRPC_TLS_CLIENT_CA_FILE |-> "", GRPC_TLS_CLIENT_CERT_FILE |-> "",
     GRPC_TLS_CLIENT_KEY_FILE |-> "", GRPC_TLS_SERVER_CA_FILE |-> "",
     GRPC_TLS_SERVER_NAME |-> "",
     STREAMING_WRITE_TIMEOUT |-> "pos", STREAMING_SUBSCRIBER_BUFFER |-> "pos",
     STREAMING_SSE_HEARTBEAT |-> "pos",
     HTTP_READ_HEADER_TIMEOUT |-> "pos", HTTP_READ_TIMEOUT |-> "pos",
     HTTP_WRITE_TIMEOUT |-> "pos", HTTP_IDLE_TIMEOUT |-> "pos",
     HTTP_SHUTDOWN_TIMEOUT |-> "pos", HTTP_DEBUG |-> "false",
     HTTP_MAX_HEADER_BYTES |-> "pos",
     WORKERS_COUNT |-> "pos", QUEUE_SIZE |-> "pos", RATE_LIMIT_RPS |-> "pos",
     RATE_LIMIT_BURST |-> "pos", BULKHEAD_MAX_PARALLEL |-> "pos",
     DB_DSN |-> "postgres://", STORAGE_BACKEND |-> "postgres",
     DB_MAX_OPEN_CONNS |-> "pos", DB_MAX_IDLE_CONNS |-> "pos",
     DB_CONN_MAX_LIFETIME |-> "pos", DB_CONN_MAX_IDLE_TIME |-> "pos",
     DB_QUERY_TIMEOUT |-> "pos", DB_PING_TIMEOUT |-> "pos",
     OUTBOUND_TRANSPORT_IDLE_CONN_TIMEOUT |-> "pos",
     OUTBOUND_TRANSPORT_MAX_IDLE_CONNS |-> "pos",
     OUTBOUND_TRANSPORT_MAX_IDLE_CONNS_PER_HOST |-> "pos",
     OUTBOUND_TRANSPORT_MAX_CONNS_PER_HOST |-> "zero",
     OUTBOUND_TRANSPORT_TLS_HANDSHAKE_TIMEOUT |-> "pos",
     OUTBOUND_TRANSPORT_RESPONSE_HEADER_TIMEOUT |-> "pos",
     OUTBOUND_RETRY_MAX_ATTEMPTS |-> "pos", OUTBOUND_RETRY_BASE_DELAY |-> "pos",
     OUTBOUND_RETRY_MAX_DELAY |-> "pos",
     OUTBOUND_PROFILE_BASE_URL |-> [scheme |-> "http", host |-> "localhost", fragment |-> ""],
     OUTBOUND_PROFILE_TIMEOUT |-> "pos",
     AUTH_JWT_ALLOWED_ALG |-> "HS256", AUTH_JWT_CLOCK_SKEW |-> "pos",
     AUTH_JWT_ISSUER |-> "", AUTH_JWT_AUDIENCE |-> "",
     AUTH_JWT_KEYS |-> <<[kid |-> "dev", secret |-> "development"]>>,
     CORS_ALLOWED_ORIGINS |-> <<>>, CORS_ALLOWED_METHODS |-> <<"GET", "POST", "OPTIONS">>,
     CORS_ALLOWED_HEADERS |-> <<"Authorization", "Content-Type">>,
     CORS_ALLOW_CREDENTIALS |-> "false", CORS_MAX_AGE |-> "pos",
     PROXY_TRUSTED_PROXIES |-> <<>>, PROXY_TRUST_XFF |-> "false", PROXY_TRUST_XFP |-> "false",
     SECURITY_HEADERS_ENABLE |-> "true", SECURITY_HEADERS_REFERRER_POLICY |-> "no-referrer",
     SECURITY_HEADERS_HSTS_ENABLE |-> "false", SECURITY_HEADERS_HSTS_MAX_AGE |-> "zero"]

-----------------------------------------------------------------------------
(* The lookups.  An unset variable keeps its default unchecked.             *)

Known(env, key, values) == key \in DOMAIN env => env[key] \in values

lookupPositive(env, keys) == \A key \in keys : Known(env, key, {"pos"})
lookupNonNegative(env, keys) == \A key \in keys : Known(env, key, {"zero", "pos"})
lookupBool(env, keys) == \A key \in keys : Known(env, key, {"true", "false"})
lookupStringNonEmpty(env, keys) == \A key \in keys : key \in DOMAIN env => env[key] # ""
lookupTLSMinVersion(env) == Known(env, "HTTP_TLS_MIN_VERSION", {"1.2", "1.3"})
lookupLogLevel(env) == Known(env, "LOG_LEVEL", {"debug", "info", "warn", "error"})
lookupLogFormat(env) == Known(env, "LOG_FORMAT", {"text", "json"})

lookupURLAbsoluteParsed(env) ==
    "OUTBOUND_PROFILE_BASE_URL" \in DOMAIN env =>
        LET u == env["OUTBOUND_PROFILE_BASE_URL"]
        IN  u.scheme \in {"http", "https"} /\ u.host # "" /\ u.fragment = ""

\* A list that is set is not blank; its items are what the parsers look at.
ParseList(env, key) == key \in DOMAIN env => env[key] # <<>>

Items(env, key) ==
    IF key \in DOMAIN env THEN {env[key][i] : i \in DOMAIN env[key]} ELSE {}

\* net.SplitHostPort on the addresses considered; no entry, no host and port.
SplitHostPort ==
    [h \in {":9090", "0.0.0.0:9090", "127.0.0.1:9090", "localhost:9090", "[::1]:9090",
            "10.0.0.5:9090"} |->
        CASE h = ":9090" -> ""
          [] h = "0.0.0.0:9090" -> "0.0.0.0"
          [] h = "127.0.0.1:9090" -> "127.0.0.1"
          [] h = "localhost:9090" -> "localhost"
          [] h = "[::1]:9090" -> "::1"
          [] h = "10.0.0.5:9090" -> "10.0.0.5"]

splitListenAddr(addr) == addr \in DOMAIN SplitHostPort

IsLoopback(host) == host \in {"localhost", "127.0.0.1", "::1"}

isLoopbackListenAddr(addr) == splitListenAddr(addr) /\ IsLoopback(SplitHostPort[addr])

-----------------------------------------------------------------------------
(* The values in force.  Load does not look at the variables of a disabled  *)
(* listener, they keep their defaults.                                      *)

HttpTLSKeys == {"HTTP_TLS_ADDR", "HTTP_TLS_KEY_FILE", "HTTP_TLS_CERT_FILE"}
GrpcTLSKeys == {"GRPC_TLS_CERT_FILE", "GRPC_TLS_KEY_FILE", "GRPC_TLS_CLIENT_CA_FILE",
                "GRPC_TLS_CLIENT_CERT_FILE", "GRPC_TLS_CLIENT_KEY_FILE",
                "GRPC_TLS_SERVER_CA_FILE", "GRPC_TLS_SERVER_NAME"}
GrpcKeys == {"GRPC_ADDR", "GRPC_REFLECTION_ENABLE", "GRPC_TLS_ENABLE"} \cup GrpcTLSKeys

Raw(env, key) == IF key \in DOMAIN env THEN env[key] ELSE defaultConfig[key]
On(env, key) == Raw(env, key) = "true"

Ignored(env) ==
    (IF On(env, "HTTP_TLS_ENABLE") THEN {} ELSE HttpTLSKeys)
        \cup (IF ~On(env, "GRPC_ENABLE") THEN GrpcKeys
              ELSE IF On(env, "GRPC_TLS_ENABLE") THEN {} ELSE GrpcTLSKeys)

Values(env) ==
    [key \in DOMAIN defaultConfig |->
        IF key \in Ignored(env) THEN defaultConfig[key] ELSE Raw(env, key)]

-----------------------------------------------------------------------------
(* The sections of Load, in its order.                                      *)

LoadRuntime(env) ==
    /\ lookupStringNonEmpty(env, {"APP_ENV"})
    /\ Raw(env, "APP_ENV") \in Environments
    /\ lookupLogLevel(env) /\ lookupLogFormat(env)
    /\ lookupBool(env, {"LOG_ADD_SOURCE", "TELEMETRY_ENABLED"})
    /\ lookupPositive(env, {"TELEMETRY_SHUTDOWN_TIMEOUT"})

LoadTLS(env) ==
    /\ lookupStringNonEmpty(env, {"HTTP_ADDR"})
    /\ lookupBool(env, {"HTTP_TLS_ENABLE"})
    /\ lookupTLSMinVersion(env)
    /\ On(env, "HTTP_TLS_ENABLE") =>
        \A key \in HttpTLSKeys : Raw(env, key) # ""

\* The files of the gRPC server may stay unset here, not blank.
LoadGRPC(env) ==
    /\ lookupBool(env, {"GRPC_ENABLE"})
    /\ On(env, "GRPC_ENABLE") =>
        /\ lookupStringNonEmpty(env, {"GRPC_ADDR"})
        /\ splitListenAddr(Raw(env, "GRPC_ADDR"))
        /\ lookupBool(env, {"GRPC_REFLECTION_ENABLE", "GRPC_TLS_ENABLE"})
        /\ On(env, "GRPC_REFLECTION_ENABLE") => isLoopbackListenAddr(Raw(env, "GRPC_ADDR"))
        /\ IF On(env, "GRPC_TLS_ENABLE") THEN lookupStringNonEmpty(env, GrpcTLSKeys)
           ELSE isLoopbackListenAddr(Raw(env, "GRPC_ADDR"))

\* Variant with a bug: zero is taken for a buffer size.
LoadStreamingFromZero(env) ==
    lookupNonNegative(env, {"STREAMING_WRITE_TIMEOUT", "STREAMING_SUBSCRIBER_BUFFER",
                            "STREAMING_SSE_HEARTBEAT"})

LoadStreaming(env) ==
    lookupPositive(env, {"STREAMING_WRITE_TIMEOUT", "STREAMING_SUBSCRIBER_BUFFER",
                         "STREAMING_SSE_HEARTBEAT"})

LoadHTTP(env) ==
    /\ lookupPositive(env, {"HTTP_READ_HEADER_TIMEOUT", "HTTP_READ_TIMEOUT",
                            "HTTP_WRITE_TIMEOUT", "HTTP_IDLE_TIMEOUT",
                            "HTTP_SHUTDOWN_TIMEOUT", "HTTP_MAX_HEADER_BYTES"})
    /\ lookupBool(env, {"HTTP_DEBUG"})

LoadLimits(env) ==
    lookupPositive(env, {"WORKERS_COUNT", "QUEUE_SIZE", "RATE_LIMIT_RPS",
                         "RATE_LIMIT_BURST", "BULKHEAD_MAX_PARALLEL"})

LoadDB(env) ==
    /\ lookupStringNonEmpty(env, {"DB_DSN", "STORAGE_BACKEND"})
    /\ lookupNonNegative(env, {"DB_MAX_OPEN_CONNS", "DB_MAX_IDLE_CONNS"})
    /\ lookupPositive(env, {"DB_CONN_MAX_LIFETIME", "DB_CONN_MAX_IDLE_TIME",
                            "DB_QUERY_TIMEOUT", "DB_PING_TIMEOUT"})

LoadOutbound(env) ==
    /\ lookupNonNegative(env, {"OUTBOUND_TRANSPORT_MAX_IDLE_CONNS",
                               "OUTBOUND_TRANSPORT_MAX_CONNS_PER_HOST"})
    /\ lookupPositive(env, {"OUTBOUND_TRANSPORT_IDLE_CONN_TIMEOUT",
                            "OUTBOUND_TRANSPORT_MAX_IDLE_CONNS_PER_HOST",
                            "OUTBOUND_TRANSPORT_TLS_HANDSHAKE_TIMEOUT",
                            "OUTBOUND_TRANSPORT_RESPONSE_HEADER_TIMEOUT",
                            "OUTBOUND_RETRY_MAX_ATTEMPTS", "OUTBOUND_RETRY_BASE_DELAY",
                            "OUTBOUND_RETRY_MAX_DELAY", "OUTBOUND_PROFILE_TIMEOUT"})
    /\ lookupURLAbsoluteParsed(env)

\* Every item is kid:secret, and no kid occurs twice.
parseJWTKeys(env) ==
    LET keys == Raw(env, "AUTH_JWT_KEYS")
    IN  /\ ParseList(env, "AUTH_JWT_KEYS")
        /\ \A key \in Items(env, "AUTH_JWT_KEYS") : key.kid # "" /\ key.secret # ""
        /\ \A i, j \in DOMAIN keys : keys[i].kid = keys[j].kid => i = j

LoadJWT(env) ==
    /\ Raw(env, "AUTH_JWT_ALLOWED_ALG") = "HS256"
    /\ lookupNonNegative(env, {"AUTH_JWT_CLOCK_SKEW"})
    /\ lookupStringNonEmpty(env, {"AUTH_JWT_ISSUER", "AUTH_JWT_AUDIENCE"})
    /\ parseJWTKeys(env)

AnyOrigin == [scheme |-> "*", host |-> "", rest |-> ""]

normalizeOrigin(o) == o.scheme \in {"http", "https"} /\ o.host # "" /\ o.rest = ""

LoadCORS(env) ==
    LET origins == Raw(env, "CORS_ALLOWED_ORIGINS")
        tokens == Items(env, "CORS_ALLOWED_METHODS") \cup Items(env, "CORS_ALLOWED_HEADERS")
    IN  /\ ParseList(env, "CORS_ALLOWED_ORIGINS") /\ ParseList(env, "CORS_ALLOWED_METHODS")
        /\ ParseList(env, "CORS_ALLOWED_HEADERS")
        /\ \A o \in Items(env, "CORS_ALLOWED_ORIGINS") : o = AnyOrigin \/ normalizeOrigin(o)
        /\ tokens \cap {"", "two words"} = {}
        /\ lookupBool(env, {"CORS_ALLOW_CREDENTIALS"})
        /\ lookupNonNegative(env, {"CORS_MAX_AGE"})
        /\ ~(On(env, "CORS_ALLOW_CREDENTIALS")
                /\ \E i \in DOMAIN origins : origins[i] = AnyOrigin)

parseTrustedProxies(env) ==
    /\ ParseList(env, "PROXY_TRUSTED_PROXIES")
    /\ \A bits \in Items(env, "PROXY_TRUSTED_PROXIES") : bits >= 0

LoadProxy(env) ==
    parseTrustedProxies(env) /\ lookupBool(env, {"PROXY_TRUST_XFF", "PROXY_TRUST_XFP"})

LoadHeaders(env) ==
    /\ lookupBool(env, {"SECURITY_HEADERS_ENABLE", "SECURITY_HEADERS_HSTS_ENABLE"})
    /\ Raw(env, "SECURITY_HEADERS_REFERRER_POLICY") \in {"no-referrer", "same-origin"}
    /\ lookupNonNegative(env, {"SECURITY_HEADERS_HSTS_MAX_AGE"})
    /\ On(env, "SECURITY_HEADERS_HSTS_ENABLE") =>
        Raw(env, "SECURITY_HEADERS_HSTS_MAX_AGE") = "pos"

-----------------------------------------------------------------------------
(* What depends on the environment the service runs in.                     *)

isProtectedEnvironment(cfg) == cfg["APP_ENV"] \in {"staging", "production"}

Secrets(cfg) == {cfg["AUTH_JWT_KEYS"][i].secret : i \in DOMAIN cfg["AUTH_JWT_KEYS"]}

validateJWTEnvironment(cfg) ==
    cfg["APP_ENV"] # "development" => "development" \notin Secrets(cfg)

\* Variant with a bug: one strong key is enough.
validateProtectedJWTOneKey(cfg) ==
    cfg["AUTH_JWT_ISSUER"] # "" /\ cfg["AUTH_JWT_AUDIENCE"] # "" /\ "long" \in Secrets(cfg)

validateProtectedJWT(cfg) ==
    cfg["AUTH_JWT_ISSUER"] # "" /\ cfg["AUTH_JWT_AUDIENCE"] # "" /\ Secrets(cfg) = {"long"}

ValidateTrustedProxyRequirements(cfg) ==
    LET proxies == cfg["PROXY_TRUSTED_PROXIES"]
    IN  "true" \in {cfg["PROXY_TRUST_XFF"], cfg["PROXY_TRUST_XFP"]} =>
            proxies # <<>> /\ \A i \in DOMAIN proxies : proxies[i] # 0

validateSecurityProfile(cfg) ==
    /\ validateJWTEnvironment(cfg)
    /\ ValidateTrustedProxyRequirements(cfg)
    /\ isProtectedEnvironment(cfg) =>
        /\ cfg["HTTP_TLS_MIN_VERSION"] \in {"1.2", "1.3"}
        /\ cfg["SECURITY_HEADERS_ENABLE"] = "true"
        /\ validateProtectedJWT(cfg)

\* Load returns no error; its configuration is Values(env).
Load(env) ==
    /\ LoadRuntime(env) /\ LoadTLS(env) /\ LoadGRPC(env) /\ LoadStreaming(env)
    /\ LoadHTTP(env) /\ LoadLimits(env) /\ LoadDB(env) /\ LoadOutbound(env)
    /\ LoadJWT(env) /\ LoadCORS(env) /\ LoadProxy(env) /\ LoadHeaders(env)
    /\ validateSecurityProfile(Values(env))
=============================================================================
