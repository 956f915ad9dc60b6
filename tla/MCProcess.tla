----------------------------- MODULE MCProcess ------------------------------
(* Environments for TLC: four profiles, each with any one variable set to   *)
(* any value or left out, and with any two of the variables that are        *)
(* checked together.                                                        *)
EXTENDS Process, TLC

Profiles ==
    LET production ==
            [APP_ENV |-> "production", AUTH_JWT_ISSUER |-> "issuer",
             AUTH_JWT_AUDIENCE |-> "audience",
             AUTH_JWT_KEYS |-> <<[kid |-> "k1", secret |-> "long"]>>]
    IN  {<<>>,
         production,
         [GRPC_ENABLE |-> "true", GRPC_ADDR |-> "localhost:9090", STORAGE_BACKEND |-> "memory"],
         production @@ [key \in GrpcTLSKeys |-> "file"]
            @@ [GRPC_ENABLE |-> "true", GRPC_TLS_ENABLE |-> "true",
                TELEMETRY_ENABLED |-> "true"]}

Together == {"APP_ENV", "AUTH_JWT_KEYS", "AUTH_JWT_ISSUER", "SECURITY_HEADERS_ENABLE",
             "GRPC_ENABLE", "GRPC_ADDR", "GRPC_REFLECTION_ENABLE", "GRPC_TLS_ENABLE",
             "GRPC_TLS_SERVER_NAME", "CORS_ALLOWED_ORIGINS", "CORS_ALLOW_CREDENTIALS",
             "PROXY_TRUSTED_PROXIES", "PROXY_TRUST_XFF", "HTTP_TLS_ENABLE",
             "HTTP_TLS_CERT_FILE", "SECURITY_HEADERS_HSTS_ENABLE",
             "SECURITY_HEADERS_HSTS_MAX_AGE", "TELEMETRY_ENABLED"}

Lists == {"AUTH_JWT_KEYS", "CORS_ALLOWED_ORIGINS", "CORS_ALLOWED_METHODS",
          "CORS_ALLOWED_HEADERS", "PROXY_TRUSTED_PROXIES"}

Choices(key) ==
    CASE key = "APP_ENV" -> Environments \cup {"", "other"}
      [] key = "LOG_LEVEL" -> {"debug", "other", ""}
      [] key = "LOG_FORMAT" -> {"json", "other", ""}
      [] key = "HTTP_TLS_MIN_VERSION" -> {"1.1", "1.2", "1.3"}
      [] key = "GRPC_ADDR" -> DOMAIN SplitHostPort \cup {"", "9090"}
      [] key = "STORAGE_BACKEND" -> {"memory", "postgres", "other", ""}
      [] key = "AUTH_JWT_ALLOWED_ALG" -> {"HS256", "none"}
      [] key = "SECURITY_HEADERS_REFERRER_POLICY" -> {"same-origin", "other"}
      [] key = "OUTBOUND_PROFILE_BASE_URL" ->
            [scheme : {"https", "ftp"}, host : {"", "h"}, fragment : {"", "f"}]
      [] key = "AUTH_JWT_KEYS" ->
            {<<>>} \cup {<<[kid |-> k, secret |-> s], [kid |-> "k2", secret |-> "long"]>> :
                            k \in {"", "k1", "k2"}, s \in {"", "development", "short", "long"}}
      [] key = "CORS_ALLOWED_ORIGINS" ->
            {<<>>, <<AnyOrigin>>} \cup
                {<<o, AnyOrigin>> : o \in [scheme : {"https", "ftp"}, host : {"", "h"},
                                           rest : {"", "/p"}]}
      [] key \in {"CORS_ALLOWED_METHODS", "CORS_ALLOWED_HEADERS"} ->
            {<<>>, <<"GET">>, <<"GET", "">>, <<"two words">>}
      [] key = "PROXY_TRUSTED_PROXIES" -> {<<>>, <<8>>, <<32, 0>>, <<32, -1>>}
      [] defaultConfig[key] \in {"zero", "pos"} -> {"neg", "zero", "pos", "junk"}
      [] defaultConfig[key] \in {"true", "false"} -> {"true", "false", "junk"}
      [] OTHER -> {"", "value"}

With(env, key) ==
    {(key :> v) @@ env : v \in Choices(key)}
        \cup {[k \in DOMAIN env \ {key} |-> env[k]]}

SomeEnvs ==
    LET one == UNION {With(p, key) : p \in Profiles, key \in DOMAIN defaultConfig}
        two == UNION {UNION {With(e, k2) : e \in With(p, k1)} :
                        p \in Profiles, k1 \in Together, k2 \in Together}
    IN  one \cup two
=============================================================================
