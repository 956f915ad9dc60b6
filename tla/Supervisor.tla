----------------------------- MODULE Supervisor -----------------------------
(***************************************************************************)
(* APIServer.Run and its cleanup (internal/api/server.go), as cmd/api      *)
(* wires them: start-up, the wait for a trigger, and the ordered shutdown  *)
(* of HTTP servers, gRPC runtime, worker pool and event hub under one      *)
(* deadline.                                                               *)
(*                                                                         *)
(* The components are abstract here: AsyncJobs, StreamHub and GrpcRuntime  *)
(* show what their own Stop, Close and Shutdown do.  Jobs are one flag, a  *)
(* request holds a connection of its server, and a stream is a request     *)
(* that ends only when its client leaves or the hub is closed.             *)
(***************************************************************************)
EXTENDS Naturals, FiniteSets

CONSTANTS
    Servers,       \* "http", and "https" when TLS is enabled
    Requests,      \* HTTP requests
    Streams,       \* those that subscribe to job events
    ServerOf,      \* [Requests -> Servers]
    GrpcEnabled,   \* GRPC_ENABLE
    Durable        \* the repair runs on a database

ASSUME SupervisorAssumption ==
    /\ Servers # {} /\ Streams \subseteq Requests
    /\ ServerOf \in [Requests -> Servers]
    /\ GrpcEnabled \in BOOLEAN /\ Durable \in BOOLEAN

VARIABLES
    pc,           \* control state of Run
    runErr,       \* Run has an error of its own to return
    outcomes,     \* <<component, outcome>> errors collected by cleanup
    errCh,        \* servers whose Serve has failed
    appDone,      \* main's context
    expired,      \* the deadline of cleanup has passed
    ready,        \* Readiness
    accepting,    \* the queue takes jobs
    srv,          \* goroutine that serves each HTTP server
    shut,         \* shutdownServer for each HTTP server
    grpc,         \* the gRPC runtime
    pool,         \* the worker pool
    workers,      \* some worker has not exited
    active,       \* some accepted job is queued or running
    hub,          \* the event hub
    req           \* the requests

componentVars == <<grpc, pool, workers, active, hub, req>>

vars == <<pc, runErr, outcomes, errCh, appDone, expired, ready, accepting, srv, shut,
          grpc, pool, workers, active, hub, req>>

Init ==
    /\ pc = "listen" /\ runErr = FALSE /\ outcomes = {} /\ errCh = {}
    /\ appDone = FALSE /\ expired = FALSE
    /\ ready = FALSE /\ accepting = TRUE
    /\ srv = [s \in Servers |-> "none"]
    /\ shut = [s \in Servers |-> "none"]
    /\ grpc = "new" /\ pool = "new" /\ workers = FALSE /\ active = FALSE
    /\ hub = "open"
    /\ req = [r \in Requests |-> "idle"]

-----------------------------------------------------------------------------
(* Run up to its select *)

\* Listeners and certificates; on an error those already open are closed.
Listen ==
    /\ pc = "listen"
    /\ \/ pc' = "startpool" /\ srv' = [s \in Servers |-> "listening"] /\ UNCHANGED runErr
       \/ pc' = "returned" /\ runErr' = TRUE /\ srv' = [s \in Servers |-> "unbound"]
    /\ UNCHANGED <<outcomes, errCh, appDone, expired, ready, accepting, shut, componentVars>>

StartPool ==
    /\ pc = "startpool"
    /\ pc' = "startgrpc"
    /\ pool' = "running" /\ workers' = TRUE
    /\ UNCHANGED <<runErr, outcomes, errCh, appDone, expired, ready, accepting, srv, shut,
                   grpc, active, hub, req>>

\* With gRPC disabled main passes a nil *grpcserver.Runtime: the interface
\* that holds it is not nil, Start refuses, and Run gives up.
StartGrpc ==
    /\ pc = "startgrpc"
    /\ IF GrpcEnabled
       THEN /\ grpc' = "running" /\ pc' = "setready"
            /\ srv' = [s \in Servers |-> "launched"]
            /\ UNCHANGED <<runErr, pool, workers>>
       ELSE /\ pool' = "stopped" /\ workers' = FALSE
            /\ srv' = [s \in Servers |-> "unbound"]
            /\ runErr' = TRUE /\ pc' = "returned"
            /\ UNCHANGED grpc
    /\ UNCHANGED <<outcomes, errCh, appDone, expired, ready, accepting, shut, active, hub,
                   req>>

SetReady ==
    /\ pc = "setready"
    /\ ready' = TRUE
    /\ pc' = "select"
    /\ UNCHANGED <<runErr, outcomes, errCh, appDone, expired, accepting, srv, shut,
                   componentVars>>

\* Variant with a bug: the error of the gRPC server is not kept.
TriggerGrpcIgnored ==
    /\ pc = "select"
    /\ \/ appDone /\ UNCHANGED <<runErr, errCh>>
       \/ \E s \in errCh : errCh' = errCh \ {s} /\ runErr' = TRUE
       \/ grpc = "failed" /\ UNCHANGED <<runErr, errCh>>
    /\ pc' = "notready"
    /\ UNCHANGED <<outcomes, appDone, expired, ready, accepting, srv, shut, componentVars>>

\* The select of Run: any of the ready cases.
Trigger ==
    /\ pc = "select"
    /\ \/ appDone /\ UNCHANGED <<runErr, errCh>>
       \/ \E s \in errCh : errCh' = errCh \ {s} /\ runErr' = TRUE
       \/ grpc = "failed" /\ runErr' = TRUE /\ UNCHANGED errCh
    /\ pc' = "notready"
    /\ UNCHANGED <<outcomes, appDone, expired, ready, accepting, srv, shut, componentVars>>

-----------------------------------------------------------------------------
(* cleanup *)

\* Variant with a bug: /readyz keeps answering 200 during the shutdown.
SetNotReadyForgotten ==
    /\ pc = "notready"
    /\ pc' = "stopaccepting"
    /\ UNCHANGED <<runErr, outcomes, errCh, appDone, expired, ready, accepting, srv, shut,
                   componentVars>>

SetNotReady ==
    /\ pc = "notready"
    /\ ready' = FALSE
    /\ pc' = "stopaccepting"
    /\ UNCHANGED <<runErr, outcomes, errCh, appDone, expired, accepting, srv, shut,
                   componentVars>>

\* Queue.StopAccepting, then one goroutine per server calls Shutdown.
StopAccepting ==
    /\ pc = "stopaccepting"
    /\ accepting' = FALSE
    /\ shut' = [s \in Servers |-> "draining"]
    /\ pc' = "http"
    /\ UNCHANGED <<runErr, outcomes, errCh, appDone, expired, ready, srv, componentVars>>

Open(s) == {r \in Requests : ServerOf[r] = s /\ req[r] = "active"}

\* Server.Shutdown returns nil once no connection is active.
ShutdownDrained(s) ==
    /\ shut[s] = "draining" /\ Open(s) = {}
    /\ shut' = [shut EXCEPT ![s] = "graceful"]
    /\ UNCHANGED <<pc, runErr, outcomes, errCh, appDone, expired, ready, accepting, srv,
                   componentVars>>

\* Variant with a bug: a forced close is logged only.
ShutdownForcedUnreported(s) ==
    /\ shut[s] = "draining"
    /\ \/ expired /\ shut' = [shut EXCEPT ![s] = "forced"] /\ UNCHANGED outcomes
       \/ /\ Open(s) = {} /\ shut' = [shut EXCEPT ![s] = "failed"]
          /\ outcomes' = outcomes \cup {<<s, "failed">>}
    /\ req' = [r \in Requests |-> IF r \in Open(s) THEN "cut" ELSE req[r]]
    /\ UNCHANGED <<pc, runErr, errCh, appDone, expired, ready, accepting, srv, grpc, pool,
                   workers, active, hub>>

\* Variant with a bug: Shutdown is given a context without the deadline.
ShutdownForcedNever(s) ==
    /\ shut[s] = "draining" /\ Open(s) = {}
    /\ shut' = [shut EXCEPT ![s] = "failed"]
    /\ outcomes' = outcomes \cup {<<s, "failed">>}
    /\ UNCHANGED <<pc, runErr, errCh, appDone, expired, ready, accepting, srv,
                   componentVars>>

\* Past the deadline shutdownServer calls Close, which cuts the connections
\* that are left; a drained server whose listener cannot be closed has failed.
ShutdownForced(s) ==
    /\ shut[s] = "draining"
    /\ \E o \in {"forced", "failed"} :
           /\ IF o = "forced" THEN expired ELSE Open(s) = {}
           /\ shut' = [shut EXCEPT ![s] = o]
           /\ outcomes' = outcomes \cup {<<s, o>>}
    /\ req' = [r \in Requests |-> IF r \in Open(s) THEN "cut" ELSE req[r]]
    /\ UNCHANGED <<pc, runErr, errCh, appDone, expired, ready, accepting, srv, grpc, pool,
                   workers, active, hub>>

\* shutdownHTTPServers waits for all of them.
HttpDone ==
    /\ pc = "http" /\ \A s \in Servers : shut[s] # "draining"
    /\ pc' = "grpc"
    /\ UNCHANGED <<runErr, outcomes, errCh, appDone, expired, ready, accepting, srv, shut,
                   componentVars>>

\* GrpcRuntime shows that Shutdown returns, forced when its context is done.
ShutdownGrpc ==
    /\ pc = "grpc"
    /\ \/ UNCHANGED outcomes
       \/ grpc = "running" /\ expired /\ outcomes' = outcomes \cup {<<"grpc", "forced">>}
    /\ grpc' = IF grpc = "running" THEN "stopped" ELSE grpc
    /\ pc' = "pool"
    /\ UNCHANGED <<runErr, errCh, appDone, expired, ready, accepting, srv, shut, pool,
                   workers, active, hub, req>>

\* Stop cancels the workers and looks once whether they are gone.
StopPool ==
    /\ pc = "pool"
    /\ pool' = "stopping"
    /\ pc' = "stoppool"
    /\ UNCHANGED <<runErr, outcomes, errCh, appDone, expired, ready, accepting, srv, shut,
                   grpc, workers, active, hub, req>>

AwaitWorkers ==
    /\ pc = "stoppool" /\ workers
    /\ pc' = "waitpool"
    /\ UNCHANGED <<runErr, outcomes, errCh, appDone, expired, ready, accepting, srv, shut,
                   componentVars>>

\* Variant with a bug: the error of the repair is dropped.
PoolStoppedUnreported ==
    /\ pc \in {"stoppool", "waitpool"} /\ ~workers
    /\ \/ ~(Durable /\ expired) /\ active' = FALSE
       \/ Durable /\ active' \in {active, FALSE}
    /\ pool' = "stopped" /\ pc' = "hub"
    /\ UNCHANGED <<runErr, outcomes, errCh, appDone, expired, ready, accepting, srv, shut,
                   grpc, workers, hub, req>>

\* The workers are gone and active jobs are failed; on a database the repair
\* may fail, and does once the deadline has passed.
PoolStopped ==
    /\ pc \in {"stoppool", "waitpool"} /\ ~workers
    /\ \/ ~(Durable /\ expired) /\ active' = FALSE /\ UNCHANGED outcomes
       \/ /\ Durable /\ active' \in {active, FALSE}
          /\ outcomes' = outcomes
                 \cup {<<"workerpool", IF expired THEN "timed_out" ELSE "failed">>}
    /\ pool' = "stopped" /\ pc' = "hub"
    /\ UNCHANGED <<runErr, errCh, appDone, expired, ready, accepting, srv, shut, grpc,
                   workers, hub, req>>

PoolTimedOut ==
    /\ pc = "waitpool" /\ expired
    /\ outcomes' = outcomes \cup {<<"workerpool", "timed_out">>}
    /\ pc' = "hub"
    /\ UNCHANGED <<runErr, errCh, appDone, expired, ready, accepting, srv, shut,
                   componentVars>>

CloseHub ==
    /\ pc = "hub"
    /\ hub' = "closed"
    /\ pc' = "wait"
    /\ UNCHANGED <<runErr, outcomes, errCh, appDone, expired, ready, accepting, srv, shut,
                   grpc, pool, workers, active, req>>

\* wg.Wait: every Serve has returned.
Wait ==
    /\ pc = "wait" /\ \A s \in Servers : srv[s] \in {"failed", "ended"}
    /\ pc' = "returned"
    /\ UNCHANGED <<runErr, outcomes, errCh, appDone, expired, ready, accepting, srv, shut,
                   componentVars>>

\* overallShutdownOutcome, logged with "shutdown.completed".
Outcome ==
    LET has(o) == \E c \in outcomes : c[2] = o
    IN  IF ~runErr /\ outcomes = {} THEN "graceful"
        ELSE IF has("forced") THEN "forced"
        ELSE IF has("timed_out") THEN "timed_out"
        ELSE "failed"

\* /readyz answers 200; the database check is left to pass.
ReadinessHandler ==
    /\ ready
    /\ GrpcEnabled => grpc = "running"
    /\ pool = "running" /\ workers
    /\ hub = "open"

RunStep ==
    \/ Listen \/ StartPool \/ StartGrpc \/ SetReady \/ Trigger
    \/ SetNotReady \/ StopAccepting \/ HttpDone \/ ShutdownGrpc
    \/ StopPool \/ AwaitWorkers \/ PoolStopped \/ PoolTimedOut \/ CloseHub \/ Wait

-----------------------------------------------------------------------------
(* What runs beside it *)

Serve(s) ==
    /\ srv[s] = "launched" /\ shut[s] = "none"
    /\ srv' = [srv EXCEPT ![s] = "serving"]
    /\ UNCHANGED <<pc, runErr, outcomes, errCh, appDone, expired, ready, accepting, shut,
                   componentVars>>

ServeFails(s) ==
    /\ srv[s] \in {"launched", "serving"} /\ shut[s] = "none"
    /\ srv' = [srv EXCEPT ![s] = "failed"]
    /\ errCh' = errCh \cup {s}
    /\ UNCHANGED <<pc, runErr, outcomes, appDone, expired, ready, accepting, shut,
                   componentVars>>

\* Serve returns ErrServerClosed as soon as Shutdown has been called.
ServeEnds(s) ==
    /\ srv[s] \in {"launched", "serving"} /\ shut[s] # "none"
    /\ srv' = [srv EXCEPT ![s] = "ended"]
    /\ UNCHANGED <<pc, runErr, outcomes, errCh, appDone, expired, ready, accepting, shut,
                   componentVars>>

RequestArrives(r) ==
    /\ req[r] = "idle" /\ srv[ServerOf[r]] = "serving" /\ shut[ServerOf[r]] = "none"
    /\ req' = [req EXCEPT ![r] = "active"]
    /\ UNCHANGED <<pc, runErr, outcomes, errCh, appDone, expired, ready, accepting, srv,
                   shut, grpc, pool, workers, active, hub>>

\* The handler returns; a stream's only because its client has left.
RequestEnds(r) ==
    /\ req[r] = "active"
    /\ req' = [req EXCEPT ![r] = "done"]
    /\ UNCHANGED <<pc, runErr, outcomes, errCh, appDone, expired, ready, accepting, srv,
                   shut, grpc, pool, workers, active, hub>>

AcceptJob(r) ==
    /\ r \notin Streams /\ req[r] = "active" /\ accepting /\ ~active
    /\ active' = TRUE
    /\ UNCHANGED <<pc, runErr, outcomes, errCh, appDone, expired, ready, accepting, srv,
                   shut, grpc, pool, workers, hub, req>>

WorkerFinishes ==
    /\ workers /\ active
    /\ active' = FALSE
    /\ UNCHANGED <<pc, runErr, outcomes, errCh, appDone, expired, ready, accepting, srv,
                   shut, grpc, pool, workers, hub, req>>

\* The pool's context derives from main's.
WorkersExit ==
    /\ workers /\ (appDone \/ pool = "stopping")
    /\ workers' = FALSE
    /\ UNCHANGED <<pc, runErr, outcomes, errCh, appDone, expired, ready, accepting, srv,
                   shut, grpc, pool, active, hub, req>>

GrpcFails ==
    /\ grpc = "running"
    /\ grpc' = "failed"
    /\ UNCHANGED <<pc, runErr, outcomes, errCh, appDone, expired, ready, accepting, srv,
                   shut, pool, workers, active, hub, req>>

\* SIGINT or SIGTERM.
Signal ==
    /\ ~appDone
    /\ appDone' = TRUE
    /\ UNCHANGED <<pc, runErr, outcomes, errCh, expired, ready, accepting, srv, shut,
                   componentVars>>

\* HTTP_SHUTDOWN_TIMEOUT passes after cleanup has begun.
Expire ==
    /\ ~expired
    /\ pc \in {"stopaccepting", "http", "grpc", "pool", "stoppool", "waitpool", "hub", "wait"}
    /\ expired' = TRUE
    /\ UNCHANGED <<pc, runErr, outcomes, errCh, appDone, ready, accepting, srv, shut,
                   componentVars>>

ServerStep(s) ==
    Serve(s) \/ ServeFails(s) \/ ServeEnds(s) \/ ShutdownDrained(s) \/ ShutdownForced(s)

RequestStep(r) == RequestArrives(r) \/ RequestEnds(r) \/ AcceptJob(r)

Next ==
    \/ RunStep
    \/ \E s \in Servers : ServerStep(s)
    \/ \E r \in Requests : RequestStep(r)
    \/ WorkerFinishes \/ WorkersExit \/ GrpcFails \/ Signal \/ Expire

Spec == Init /\ [][Next]_vars

\* Goroutines run and the deadline passes.  Nothing is assumed of clients,
\* signals, failures or workers.
FairSpec ==
    /\ Spec
    /\ WF_vars(RunStep) /\ WF_vars(Expire)
    /\ \A s \in Servers : WF_vars(ServeEnds(s))
                         /\ WF_vars(ShutdownDrained(s) \/ ShutdownForced(s))

-----------------------------------------------------------------------------
(* Properties *)

\* A load balancer that sees /readyz answer 200 never sends work to an
\* instance that has begun to refuse it: readiness is withdrawn before the
\* queue stops accepting and before a listener is closed.
ReadyMeansServing ==
    ReadinessHandler => accepting /\ \A s \in Servers : shut[s] = "none"

\* A shutdown is logged as graceful, and Run returns nil, only if no request
\* was cut, no accepted job was left active and every component is down.
GracefulMeansClean ==
    pc = "returned" /\ Outcome = "graceful" =>
        /\ \A r \in Requests : req[r] # "cut"
        /\ ~active /\ ~workers
        /\ grpc \in {"stopped", "failed"} /\ pool = "stopped" /\ hub = "closed"
        /\ \A s \in Servers : shut[s] = "graceful" /\ srv[s] \in {"failed", "ended"}

\* Requests that were cut off make the outcome "forced", whatever else
\* went wrong in the same shutdown.
CutIsReported ==
    pc = "returned" /\ (\E r \in Requests : req[r] = "cut") => Outcome = "forced"

\* Without a signal Run shuts down only for a failure, and returns it.
FailureIsReturned ==
    /\ pc \notin {"listen", "startpool", "startgrpc", "setready", "select"}
    /\ ~appDone
    => runErr

\* Once Run has a reason to stop it returns, even if clients keep their
\* connections, streams stay open and workers hang.
RunReturns ==
    pc = "select" /\ (appDone \/ errCh # {} \/ grpc = "failed") ~> pc = "returned"

\* Start-up fails only for a listener: gRPC is optional and off by default
\* (README, GRPC_ENABLE).
StartupErrorHasCause ==
    pc = "returned" /\ runErr /\ ~appDone =>
        \/ srv = [s \in Servers |-> "unbound"] /\ pool = "new"
        \/ grpc = "failed" \/ \E s \in Servers : srv[s] = "failed"

\* Step 3 of the shutdown README.md describes closes the hub, "so that SSE
\* subscribers finish properly", before step 4 shuts the servers down: no
\* stream is cut off that the hub has not been told to end.
StreamsEndProperly ==
    [][\A r \in Streams : req[r] = "active" /\ req'[r] = "cut" => hub = "closed"]_vars
=============================================================================
