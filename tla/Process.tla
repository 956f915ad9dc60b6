------------------------------ MODULE Process -------------------------------
(***************************************************************************)
(* cmd/api: main and run.  The configuration is loaded, the components are *)
(* built one after the other - any of them may fail and end the program -  *)
(* and APIServer.Run serves until it returns.  Whatever ends run, its      *)
(* deferred calls are made in reverse order.  Telemetry reports failed     *)
(* exports meanwhile.                                                      *)
(***************************************************************************)
EXTENDS Config, Telemetry

CONSTANT Envs       \* the environments considered: functions from variables to values

\* The prefix lengths that net/netip returns are integers.
ASSUME EnvsAssumption ==
    \A env \in Envs :
        "PROXY_TRUSTED_PROXIES" \in DOMAIN env =>
            LET proxies == env["PROXY_TRUSTED_PROXIES"]
            IN  \A i \in DOMAIN proxies : proxies[i] \in Int

VARIABLES
    pc,         \* the component run builds next, or "serve", "unwind", "exited"
    cfg,        \* the configuration; forgotten when run has no use for it
    cause,      \* why the program ends, "" while it runs
    deferred,   \* run's deferred calls, the latest first
    held        \* what is open: "signals", "db", "transport", "listener", "conn"

processVars == <<pc, cfg, cause, deferred, held>>
vars == <<processVars, telemetryVars>>

Init ==
    /\ TelemetryInit
    /\ pc = "load" /\ cfg = <<>> /\ cause = ""
    /\ deferred = <<>> /\ held = {}

-----------------------------------------------------------------------------
Building(stage) == pc = stage /\ UNCHANGED telemetryVars

\* run returns an error, or panics: either way the deferred calls are next.
Fail(why) ==
    /\ cause' = why
    /\ pc' = "unwind"
    /\ cfg' = <<>>
    /\ UNCHANGED <<deferred, held>>

Continue(stage) == pc' = stage /\ UNCHANGED <<cfg, cause, deferred, held>>

\* The next component is built and its cleanup is deferred.
Defer(what, stage) ==
    /\ deferred' = <<what>> \o deferred
    /\ held' = held \cup {what}
    /\ pc' = stage
    /\ UNCHANGED <<cfg, cause>>

-----------------------------------------------------------------------------
\* An unacceptable configuration ends the program before run is called.
LoadConfig ==
    /\ Building("load")
    /\ \E env \in Envs :
        IF Load(env) THEN cfg' = Values(env) /\ pc' = "logger" /\ UNCHANGED cause
        ELSE cause' = "config" /\ pc' = "exited" /\ UNCHANGED cfg
    /\ UNCHANGED <<deferred, held>>

NewLogger ==
    /\ Building("logger")
    /\ IF cfg["LOG_LEVEL"] \in {"debug", "info", "warn", "error"}
          /\ cfg["LOG_FORMAT"] \in {"text", "json"}
       THEN Continue("signals")
       ELSE cause' = "logger" /\ pc' = "exited" /\ UNCHANGED <<cfg, deferred, held>>

NotifyContext ==
    /\ Building("signals")
    /\ Defer("signals", "telemetry")

StartTelemetry ==
    /\ pc = "telemetry"
    /\ NewFailOpen(cfg["TELEMETRY_ENABLED"] = "true")
    /\ IF providers' = "none" THEN Fail("telemetry")
       ELSE /\ deferred' = <<"telemetry">> \o deferred
            /\ pc' = "proxy"
            /\ UNCHANGED <<cfg, cause, held>>

NewProxyAPI ==
    /\ Building("proxy")
    /\ IF ValidateTrustedProxyRequirements(cfg) THEN Continue("hub") ELSE Fail("proxy")

NewHub ==
    /\ Building("hub")
    /\ IF cfg["STREAMING_SUBSCRIBER_BUFFER"] = "pos" THEN Continue("storage")
       ELSE Fail("panic")

\* db.Open pings the database, and closes it again when that fails.
OpenStorage ==
    /\ Building("storage")
    /\ CASE cfg["STORAGE_BACKEND"] = "memory" -> Continue("queue")
         [] cfg["STORAGE_BACKEND"] = "postgres" -> Fail("database") \/ Defer("db", "queue")
         [] OTHER -> Fail("backend")

\* queue.New and the worker pool, then the HTTP client and its transport.
NewQueueAndClient ==
    /\ Building("queue")
    /\ IF cfg["QUEUE_SIZE"] \in {"zero", "pos"} THEN Defer("transport", "verifier")
       ELSE Fail("panic")

NewJWTVerifierHS256 ==
    /\ Building("verifier")
    /\ LET keys == cfg["AUTH_JWT_KEYS"]
       IN  IF /\ cfg["AUTH_JWT_ALLOWED_ALG"] = "HS256"
              /\ cfg["AUTH_JWT_CLOCK_SKEW"] \in {"zero", "pos"}
              /\ keys # <<>>
              /\ \A i \in DOMAIN keys : keys[i].kid # "" /\ keys[i].secret # ""
              /\ \A i, j \in DOMAIN keys : keys[i].kid = keys[j].kid => i = j
           THEN Continue(IF cfg["GRPC_ENABLE"] = "true" THEN "grpcServer" ELSE "assemble")
           ELSE Fail("verifier")

-----------------------------------------------------------------------------
(* The gRPC server and the bridge's client.                                 *)

Files(keys) == \A key \in keys : cfg[key] # ""

\* The files must be named and readable; "files" is an error either way.
newServerTLSCredentials ==
    Files({"GRPC_TLS_CERT_FILE", "GRPC_TLS_KEY_FILE", "GRPC_TLS_CLIENT_CA_FILE"})

newClientTLSCredentials ==
    Files({"GRPC_TLS_CLIENT_CERT_FILE", "GRPC_TLS_CLIENT_KEY_FILE",
           "GRPC_TLS_SERVER_CA_FILE", "GRPC_TLS_SERVER_NAME"})

\* The server listens as soon as it is built; nothing is deferred for it.
NewRuntimeWithConfig ==
    /\ Building("grpcServer")
    /\ LET addr == cfg["GRPC_ADDR"]
           loopback == isLoopbackListenAddr(addr)
           tls == cfg["GRPC_TLS_ENABLE"] = "true"
       IN  IF \/ addr = ""
              \/ cfg["GRPC_REFLECTION_ENABLE"] = "true" /\ ~loopback
              \/ ~tls /\ ~loopback
           THEN Fail("grpcServer")
           ELSE \/ tls /\ Fail("files")
                \/ Fail("listen")
                \/ /\ tls => newServerTLSCredentials
                   /\ held' = held \cup {"listener"}
                   /\ pc' = "grpcClient"
                   /\ UNCHANGED <<cfg, cause, deferred>>

\* The client dials the loopback interface where the server listens on all.
loopbackTarget(addr) ==
    IF SplitHostPort[addr] \in {"", "0.0.0.0", "::"} THEN "127.0.0.1"
    ELSE SplitHostPort[addr]

\* Variant with a bug: the server is left listening when the client cannot be built.
NewJobsClientWithConfigLeaks ==
    /\ Building("grpcClient")
    /\ LET tls == cfg["GRPC_TLS_ENABLE"] = "true"
       IN  \/ tls /\ Fail("files")
           \/ (tls => newClientTLSCredentials) /\ Defer("conn", "assemble")

\* Without a client the server is shut down again.
NewJobsClientWithConfig ==
    /\ Building("grpcClient")
    /\ LET addr == cfg["GRPC_ADDR"]
           tls == cfg["GRPC_TLS_ENABLE"] = "true"
           Refuse(why) == /\ cause' = why /\ pc' = "unwind" /\ cfg' = <<>>
                          /\ held' = held \ {"listener"}
                          /\ UNCHANGED deferred
       IN  IF ~splitListenAddr(addr) \/ (~tls /\ ~IsLoopback(loopbackTarget(addr)))
           THEN Refuse("grpcClient")
           ELSE \/ tls /\ Refuse("files")
                \/ (tls => newClientTLSCredentials) /\ Defer("conn", "assemble")

\* Readiness, limiter, bulkhead, handlers, authentication, RBAC, CORS and the
\* middleware chain.  The verifier exists and the policy is DefaultPolicy.
Assemble ==
    /\ Building("assemble")
    /\ IF cfg["BULKHEAD_MAX_PARALLEL"] \in {"zero", "pos"} THEN Continue("ready")
       ELSE Fail("panic")

-----------------------------------------------------------------------------
Serve ==
    /\ Building("ready")
    /\ pc' = "serve"
    /\ cfg' = <<>>
    /\ UNCHANGED <<cause, deferred, held>>

\* APIServer.Run returns: its cleanup has shut the gRPC server down, but an
\* error before the servers run - a port, a certificate, the pool - leaves
\* that server as it is (see Supervisor).
RunReturns ==
    /\ Building("serve")
    /\ \/ cause' \in {"stopped", "failed"} /\ held' = held \ {"listener"}
       \/ cause' = "startup" /\ held' = held
    /\ pc' = "unwind"
    /\ UNCHANGED <<cfg, deferred>>

\* The deferred calls, the latest first; shutdownTelemetry has two steps.
Unwind ==
    /\ Building("unwind")
    /\ deferred # <<>> /\ Head(deferred) # "telemetry"
    /\ held' = held \ {Head(deferred)}
    /\ deferred' = Tail(deferred)
    /\ UNCHANGED <<pc, cfg, cause>>

shutdownTelemetry ==
    /\ pc = "unwind" /\ deferred # <<>> /\ Head(deferred) = "telemetry"
    /\ \/ ForceFlush /\ UNCHANGED deferred
       \/ Shutdown /\ deferred' = Tail(deferred)
    /\ UNCHANGED <<pc, cfg, cause, held>>

Exit ==
    /\ Building("unwind") /\ deferred = <<>>
    /\ pc' = "exited"
    /\ UNCHANGED <<cfg, cause, deferred, held>>

Step ==
    \/ LoadConfig \/ NewLogger \/ NotifyContext \/ StartTelemetry \/ NewProxyAPI
    \/ NewHub \/ OpenStorage \/ NewQueueAndClient \/ NewJWTVerifierHS256
    \/ NewRuntimeWithConfig \/ NewJobsClientWithConfig \/ Assemble \/ Serve
    \/ RunReturns \/ Unwind \/ shutdownTelemetry \/ Exit

\* The exporters report while the server runs and while it is taken down; what
\* they report during the start-up is left out, nothing there depends on it.
Export ==
    /\ pc \in {"serve", "unwind"}
    /\ HandleNext
    /\ UNCHANGED processVars

Next == Step \/ Export

Spec == Init /\ [][Next]_vars

-----------------------------------------------------------------------------
\* What Load accepts, run can build: a component refuses it later only for
\* causes outside the configuration (database, port, files, telemetry SDK),
\* for a storage backend that does not exist or for gRPC files that are not
\* named, which Load does not check.  No constructor panics.
AcceptedConfigurationBuilds ==
    cause \in {"", "config", "telemetry", "database", "backend", "files", "listen",
               "startup", "stopped", "failed"}

\* What a service that is about to run never does, said of the configuration
\* in force, defaults included (docs/security-policy.md, README.md).
BaselineHolds ==
    pc = "ready" =>
        /\ cfg["APP_ENV"] \in {"staging", "production"} =>
            /\ \A i \in DOMAIN cfg["AUTH_JWT_KEYS"] : cfg["AUTH_JWT_KEYS"][i].secret = "long"
            /\ cfg["AUTH_JWT_ISSUER"] # "" /\ cfg["AUTH_JWT_AUDIENCE"] # ""
            /\ cfg["SECURITY_HEADERS_ENABLE"] = "true"
        /\ "listener" \in held => isLoopbackListenAddr(cfg["GRPC_ADDR"])
                                    \/ cfg["GRPC_TLS_ENABLE"] = "true"
        /\ cfg["PROXY_TRUST_XFF"] = "true" =>
            \A i \in DOMAIN cfg["PROXY_TRUSTED_PROXIES"] : cfg["PROXY_TRUSTED_PROXIES"][i] > 0
        /\ cfg["CORS_ALLOW_CREDENTIALS"] = "true" =>
            \A i \in DOMAIN cfg["CORS_ALLOWED_ORIGINS"] :
                cfg["CORS_ALLOWED_ORIGINS"][i] # AnyOrigin

\* Wherever start-up fails and however the server ends, the program exits with
\* nothing left open but a gRPC listener that Run never came to serve, and
\* telemetry that was started has been shut down; it outlives the database, the
\* HTTP transport and the gRPC client, so that their last signals can be
\* exported (main.go, the comment in run).
CleanupInOrder ==
    /\ pc = "exited" => /\ held \subseteq (IF cause = "startup" THEN {"listener"} ELSE {})
                        /\ providers \in {"none", "shut"}
    /\ providers = "none" => exporters = {}
    /\ providers \in {"flushing", "shut"} => held \cap {"db", "transport", "conn"} = {}
    /\ held \cap {"db", "transport", "conn"} # {} => providers \in {"on", "off"}
=============================================================================
