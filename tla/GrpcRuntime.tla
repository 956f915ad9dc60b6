---------------------------- MODULE GrpcRuntime ----------------------------
(***************************************************************************)
(* The life of the gRPC server (internal/transport/grpcserver/runtime.go): *)
(* Start, the goroutine that serves, and Shutdown with its graceful stop   *)
(* and its forced one.                                                     *)
(*                                                                         *)
(* The grpc.Server is external and modelled from its use: GracefulStop     *)
(* refuses new calls and waits for those in flight, Stop cuts them off,    *)
(* and Serve returns ErrServerStopped at once when either came first, nil  *)
(* when it was stopped meanwhile, or the error of its listener.            *)
(***************************************************************************)
EXTENDS Naturals

CONSTANTS
    Callers,    \* callers of Shutdown
    MaxCalls    \* bound: RPCs in flight

ASSUME RuntimeAssumption == MaxCalls \in Nat \ {0}

VARIABLES
    state,      \* runtimeState
    err,        \* Runtime.err is set
    done,       \* Runtime.done is closed
    serve,      \* the goroutine of Start
    server,     \* grpc.Server: up, draining (GracefulStop), stopped
    calls,      \* RPCs in flight
    graceful,   \* the goroutine of shutdownOnce; "done": gracefulDone is closed
    spc,        \* control state of the Shutdown callers
    sres,       \* their results
    ctxDone     \* whether their contexts are done

callerVars == <<spc, sres, ctxDone>>

runtimeVars == <<state, err, done, serve, server, calls, graceful, spc, sres, ctxDone>>

RuntimeInit ==
    /\ state = "new" /\ err = FALSE /\ done = FALSE
    /\ serve = "none" /\ server = "up" /\ calls = 0 /\ graceful = "none"
    /\ spc = [c \in Callers |-> "idle"]
    /\ sres = [c \in Callers |-> "none"]
    /\ ctxDone = [c \in Callers |-> FALSE]

-----------------------------------------------------------------------------
(* Start and its goroutine *)

\* In any other state Start returns ErrGRPCServerAlreadyStarted.
Start ==
    /\ state = "new"
    /\ state' = "running"
    /\ serve' = "launched"
    /\ UNCHANGED <<err, done, server, calls, graceful, callerVars>>

\* Serve begins, fails with its listener, or returns.
ServeGrpc ==
    /\ \/ serve = "launched" /\ serve' = IF server = "up" THEN "serving" ELSE "ended"
       \/ serve = "serving" /\ server = "up" /\ serve' = "failed"
       \/ serve = "serving" /\ server = "stopped" /\ serve' = "ended"
    /\ UNCHANGED <<state, err, done, server, calls, graceful, callerVars>>

\* Variant with a bug: an error during the shutdown is fatal too.
finishServeAlwaysFatal ==
    /\ serve \in {"failed", "ended"}
    /\ err' = (serve = "failed")
    /\ state' = "stopped" /\ done' = TRUE
    /\ serve' = "finished"
    /\ UNCHANGED <<server, calls, graceful, callerVars>>

finishServe ==
    /\ serve \in {"failed", "ended"}
    /\ err' = (serve = "failed" /\ state = "running")
    /\ state' = "stopped" /\ done' = TRUE
    /\ serve' = "finished"
    /\ UNCHANGED <<server, calls, graceful, callerVars>>

CallBegins ==
    /\ serve = "serving" /\ server = "up" /\ calls < MaxCalls
    /\ calls' = calls + 1
    /\ UNCHANGED <<state, err, done, serve, server, graceful, callerVars>>

CallEnds ==
    /\ calls > 0
    /\ calls' = calls - 1
    /\ UNCHANGED <<state, err, done, serve, server, graceful, callerVars>>

-----------------------------------------------------------------------------
(* Shutdown *)

\* Variant with a bug: a caller that finds the server stopping goes home.
beginShutdownOnce(c) ==
    /\ spc[c] = "idle"
    /\ LET first == state = "running"
       IN  /\ spc' = [spc EXCEPT ![c] = IF state = "new" THEN "stopnew"
                                        ELSE IF first THEN "launch" ELSE "returned"]
           /\ sres' = [sres EXCEPT ![c] = IF first \/ state = "new" THEN @ ELSE "ok"]
    /\ state' = CASE state = "new" -> "stopped"
                  [] state = "running" -> "stopping"
                  [] OTHER -> state
    /\ UNCHANGED <<err, done, serve, server, calls, graceful, ctxDone>>

beginShutdown(c) ==
    /\ spc[c] = "idle"
    /\ \/ state = "new" /\ state' = "stopped" /\ spc' = [spc EXCEPT ![c] = "stopnew"]
          /\ UNCHANGED sres
       \/ state \in {"running", "stopping"} /\ state' = "stopping"
          /\ spc' = [spc EXCEPT ![c] = "launch"] /\ UNCHANGED sres
       \/ state = "stopped" /\ UNCHANGED state
          /\ spc' = [spc EXCEPT ![c] = "returned"] /\ sres' = [sres EXCEPT ![c] = "ok"]
    /\ UNCHANGED <<err, done, serve, server, calls, graceful, ctxDone>>

\* A server that never ran is stopped outside the mutex.
StopNew(c) ==
    /\ spc[c] = "stopnew"
    /\ server' = "stopped" /\ done' = TRUE
    /\ spc' = [spc EXCEPT ![c] = "returned"]
    /\ sres' = [sres EXCEPT ![c] = "ok"]
    /\ UNCHANGED <<state, err, serve, calls, graceful, ctxDone>>

\* shutdownOnce.
LaunchGracefulStop(c) ==
    /\ spc[c] = "launch"
    /\ graceful' = IF graceful = "none" THEN "running" ELSE graceful
    /\ spc' = [spc EXCEPT ![c] = "select"]
    /\ UNCHANGED <<state, err, done, serve, server, calls, sres, ctxDone>>

GracefulStop ==
    /\ graceful = "running"
    /\ \/ server = "up" /\ server' = "draining" /\ UNCHANGED graceful
       \/ /\ server = "stopped" \/ (server = "draining" /\ calls = 0)
          /\ server' = "stopped" /\ graceful' = "done"
    /\ UNCHANGED <<state, err, done, serve, calls, callerVars>>

SelectGraceful(c) ==
    /\ spc[c] = "select" /\ graceful = "done"
    /\ spc' = [spc EXCEPT ![c] = "waitdone"]
    /\ sres' = [sres EXCEPT ![c] = "ok"]
    /\ UNCHANGED <<state, err, done, serve, server, calls, graceful, ctxDone>>

\* Variant with a bug: the graceful stop is waited for without a forced one.
ForceStopForgotten(c) ==
    /\ spc[c] = "select" /\ ctxDone[c]
    /\ spc' = [spc EXCEPT ![c] = "waitgraceful"]
    /\ sres' = [sres EXCEPT ![c] = "forced"]
    /\ UNCHANGED <<state, err, done, serve, server, calls, graceful, ctxDone>>

\* forceStopOnce: a second Stop changes nothing.
ForceStop(c) ==
    /\ spc[c] = "select" /\ ctxDone[c]
    /\ server' = "stopped" /\ calls' = 0
    /\ spc' = [spc EXCEPT ![c] = "waitgraceful"]
    /\ sres' = [sres EXCEPT ![c] = "forced"]
    /\ UNCHANGED <<state, err, done, serve, graceful, ctxDone>>

WaitGraceful(c) ==
    /\ spc[c] = "waitgraceful" /\ graceful = "done"
    /\ spc' = [spc EXCEPT ![c] = "waitdone"]
    /\ UNCHANGED <<state, err, done, serve, server, calls, graceful, sres, ctxDone>>

WaitDone(c) ==
    /\ spc[c] = "waitdone" /\ done
    /\ spc' = [spc EXCEPT ![c] = "returned"]
    /\ UNCHANGED <<state, err, done, serve, server, calls, graceful, sres, ctxDone>>

ContextExpires(c) ==
    /\ ~ctxDone[c] /\ spc[c] \notin {"idle", "returned"}
    /\ ctxDone' = [ctxDone EXCEPT ![c] = TRUE]
    /\ UNCHANGED <<state, err, done, serve, server, calls, graceful, spc, sres>>

ShutdownStep(c) ==
    \/ StopNew(c) \/ LaunchGracefulStop(c) \/ SelectGraceful(c) \/ ForceStop(c)
    \/ WaitGraceful(c) \/ WaitDone(c)

RuntimeNext ==
    \/ Start \/ ServeGrpc \/ finishServe \/ CallBegins \/ CallEnds \/ GracefulStop
    \/ \E c \in Callers : beginShutdown(c) \/ ShutdownStep(c) \/ ContextExpires(c)

RuntimeSpec == RuntimeInit /\ [][RuntimeNext]_runtimeVars

\* Goroutines run on, and every context handed to Shutdown has a deadline.
\* RPCs need not end and nobody needs to call.
Fairness ==
    /\ WF_runtimeVars((serve = "launched" \/ server = "stopped") /\ ServeGrpc)
    /\ WF_runtimeVars(finishServe) /\ WF_runtimeVars(GracefulStop)
    /\ \A c \in Callers : WF_runtimeVars(ShutdownStep(c)) /\ WF_runtimeVars(ContextExpires(c))

RuntimeFairSpec == RuntimeSpec /\ Fairness

-----------------------------------------------------------------------------
(* Properties *)

\* Type invariant of the runtime.
TypeOK ==
    /\ state \in {"new", "running", "stopping", "stopped"}
    /\ err \in BOOLEAN /\ done \in BOOLEAN
    /\ serve \in {"none", "launched", "serving", "failed", "ended", "finished"}
    /\ server \in {"up", "draining", "stopped"}
    /\ calls \in 0 .. MaxCalls
    /\ graceful \in {"none", "running", "done"}
    /\ spc \in [Callers -> {"idle", "stopnew", "launch", "select", "waitgraceful",
                            "waitdone", "returned"}]
    /\ sres \in [Callers -> {"none", "ok", "forced"}]
    /\ ctxDone \in [Callers -> BOOLEAN]

\* An error of the listener that comes after Shutdown found the server
\* running is not reported as a failure of the server.
ShutdownIsNotAFailure == [][state = "stopping" => err' = err]_runtimeVars

\* A Shutdown that reports a graceful end leaves no RPC in flight, unless
\* Serve had returned because its listener failed: the runtime counts as
\* stopped then, and Shutdown does not look at the RPCs any more.
GracefulMeansDrained ==
    \A c \in Callers : spc[c] = "returned" /\ sres[c] = "ok" =>
        calls = 0 \/ (serve = "finished" /\ server # "stopped")

\* When a Shutdown of a server that ran has returned, Done is closed, so
\* APIServer.Run never waits for it in vain; Err can be read.
ReturnedMeansDone ==
    \A c \in Callers : spc[c] = "returned" /\ serve # "none" => done

\* Every Shutdown returns, with RPCs that never end and however many callers.
ShutdownReturns == \A c \in Callers : (spc[c] # "idle") ~> (spc[c] = "returned")
=============================================================================
