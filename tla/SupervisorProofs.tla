-------------------------- MODULE SupervisorProofs --------------------------
(***************************************************************************)
(* What APIServer.Run promises of a shutdown, for every set of servers,    *)
(* requests and streams, with and without gRPC and a database; what the    *)
(* gRPC runtime promises its callers, for any number of them and of RPCs;  *)
(* and that the runtime does what Run takes it to do.                      *)
(*                                                                         *)
(* The invariant of Run follows the order of cleanup: it says, for each    *)
(* stretch of Run's control state, what the steps before it have brought   *)
(* down and which trace a step that went wrong has left in the collected   *)
(* outcomes.                                                               *)
(***************************************************************************)
EXTENDS Supervisor, GrpcRuntime, TLAPS

-----------------------------------------------------------------------------
(* The inductive invariant *)

BeforeCleanup == {"listen", "startpool", "startgrpc", "setready", "select"}

BeforeHttp == BeforeCleanup \cup {"notready", "stopaccepting"}

AfterGrpc == {"pool", "stoppool", "waitpool", "hub", "wait"}

AfterPool == {"hub", "wait"}

Controls == BeforeHttp \cup {"http", "grpc", "returned"} \cup AfterGrpc

FlagTypes ==
    /\ runErr \in BOOLEAN /\ appDone \in BOOLEAN /\ expired \in BOOLEAN /\ ready \in BOOLEAN
    /\ accepting \in BOOLEAN /\ workers \in BOOLEAN /\ active \in BOOLEAN

StateTypes ==
    /\ pc \in Controls /\ errCh \subseteq Servers
    /\ srv \in [Servers -> {"none", "listening", "unbound", "launched", "serving", "failed",
                            "ended"}]
    /\ shut \in [Servers -> {"none", "draining", "graceful", "forced", "failed"}]
    /\ grpc \in {"new", "running", "stopped", "failed"}
    /\ pool \in {"new", "running", "stopping", "stopped"}
    /\ hub \in {"open", "closed"}
    /\ req \in [Requests -> {"idle", "active", "done", "cut"}]

\* Run has come back from a cleanup, or is past a point of it.
Past(stage) == pc \in stage \/ (pc = "returned" /\ ~runErr)

\* Up to the first Shutdown nothing is closed; readiness is withdrawn before.
OpenShape ==
    /\ pc \in BeforeHttp => accepting /\ \A s \in Servers : shut[s] = "none"
    /\ pc \notin BeforeHttp => pc = "returned" \/ ~accepting
    /\ pc = "returned" /\ ~runErr => ~accepting
    /\ ready => pc \in {"select", "notready"}

\* A cut request, a forced close and a failed one leave their trace.
TraceShape ==
    /\ \A r \in Requests : req[r] = "cut" => shut[ServerOf[r]] = "forced"
    /\ \A s \in Servers : shut[s] \in {"forced", "failed"} => <<s, shut[s]>> \in outcomes

\* Each stage of cleanup has done its work, or has reported that it did not.
StageShape ==
    /\ Past({"http", "grpc"} \cup AfterGrpc) => \A s \in Servers : shut[s] # "none"
    /\ Past({"grpc"} \cup AfterGrpc) => \A s \in Servers : shut[s] # "draining"
    /\ grpc = "new" => pc \in {"listen", "startpool", "startgrpc"} \/ (pc = "returned" /\ runErr)
    /\ Past(AfterGrpc) => grpc # "running"
    /\ Past(AfterPool) => outcomes # {} \/ (~active /\ ~workers /\ pool = "stopped")
    /\ Past({"wait"}) => hub = "closed"
    /\ Past({}) => \A s \in Servers : srv[s] \in {"failed", "ended"}

SupervisorInvariant ==
    /\ FlagTypes /\ StateTypes
    /\ OpenShape /\ TraceShape /\ StageShape /\ FailureIsReturned

-----------------------------------------------------------------------------
(* Every step keeps it *)

\* The steps of Run.
LEMMA RunKeeps ==
    ASSUME SupervisorInvariant, RunStep
    PROVE  SupervisorInvariant'
<1> USE DEF Past, Controls, BeforeCleanup, BeforeHttp, AfterGrpc, AfterPool, componentVars
<1>0. /\ FlagTypes /\ StateTypes /\ OpenShape /\ TraceShape /\ StageShape /\ FailureIsReturned
      /\ ServerOf \in [Requests -> Servers]
  BY SupervisorAssumption DEF SupervisorInvariant
<1>1. CASE Listen
  <2>1. FlagTypes'
    BY <1>0, <1>1, Zenon DEF Listen, FlagTypes
  <2>2. StateTypes'
    BY <1>0, <1>1 DEF Listen, StateTypes
  <2>3. OpenShape'
    BY <1>0, <1>1 DEF Listen, OpenShape, StateTypes, FlagTypes
  <2>4. TraceShape'
    BY <1>0, <1>1 DEF Listen, TraceShape, StateTypes, FlagTypes
  <2>5. StageShape'
    BY <1>0, <1>1 DEF Listen, StageShape, StateTypes, FlagTypes
  <2>6. FailureIsReturned'
    BY <1>0, <1>1 DEF Listen, FailureIsReturned, StateTypes, FlagTypes
  <2> QED BY <2>1, <2>2, <2>3, <2>4, <2>5, <2>6 DEF SupervisorInvariant
<1>2. CASE StartPool
  <2>1. FlagTypes'
    BY <1>0, <1>2, Zenon DEF StartPool, FlagTypes
  <2>2. StateTypes'
    BY <1>0, <1>2 DEF StartPool, StateTypes
  <2>3. OpenShape'
    BY <1>0, <1>2 DEF StartPool, OpenShape, StateTypes, FlagTypes
  <2>4. TraceShape'
    BY <1>0, <1>2 DEF StartPool, TraceShape, StateTypes, FlagTypes
  <2>5. StageShape'
    BY <1>0, <1>2 DEF StartPool, StageShape, StateTypes, FlagTypes
  <2>6. FailureIsReturned'
    BY <1>0, <1>2 DEF StartPool, FailureIsReturned, StateTypes, FlagTypes
  <2> QED BY <2>1, <2>2, <2>3, <2>4, <2>5, <2>6 DEF SupervisorInvariant
<1>3. CASE StartGrpc
  <2>1. FlagTypes'
    BY <1>0, <1>3, Zenon DEF StartGrpc, FlagTypes
  <2>2. StateTypes'
    BY <1>0, <1>3 DEF StartGrpc, StateTypes
  <2>3. OpenShape'
    BY <1>0, <1>3 DEF StartGrpc, OpenShape, StateTypes, FlagTypes
  <2>4. TraceShape'
    BY <1>0, <1>3 DEF StartGrpc, TraceShape, StateTypes, FlagTypes
  <2>5. StageShape'
    BY <1>0, <1>3 DEF StartGrpc, StageShape, StateTypes, FlagTypes
  <2>6. FailureIsReturned'
    BY <1>0, <1>3 DEF StartGrpc, FailureIsReturned, StateTypes, FlagTypes
  <2> QED BY <2>1, <2>2, <2>3, <2>4, <2>5, <2>6 DEF SupervisorInvariant
<1>4. CASE SetReady
  <2>1. FlagTypes'
    BY <1>0, <1>4, Zenon DEF SetReady, FlagTypes
  <2>2. StateTypes'
    BY <1>0, <1>4 DEF SetReady, StateTypes
  <2>3. OpenShape'
    BY <1>0, <1>4 DEF SetReady, OpenShape, StateTypes, FlagTypes
  <2>4. TraceShape'
    BY <1>0, <1>4 DEF SetReady, TraceShape, StateTypes, FlagTypes
  <2>5. StageShape'
    BY <1>0, <1>4 DEF SetReady, StageShape, StateTypes, FlagTypes
  <2>6. FailureIsReturned'
    BY <1>0, <1>4 DEF SetReady, FailureIsReturned, StateTypes, FlagTypes
  <2> QED BY <2>1, <2>2, <2>3, <2>4, <2>5, <2>6 DEF SupervisorInvariant
<1>5. CASE Trigger
  <2>1. FlagTypes'
    BY <1>0, <1>5, Zenon DEF Trigger, FlagTypes
  <2>2. StateTypes'
    BY <1>0, <1>5 DEF Trigger, StateTypes
  <2>3. OpenShape'
    BY <1>0, <1>5 DEF Trigger, OpenShape, StateTypes, FlagTypes
  <2>4. TraceShape'
    BY <1>0, <1>5 DEF Trigger, TraceShape, StateTypes, FlagTypes
  <2>5. StageShape'
    BY <1>0, <1>5 DEF Trigger, StageShape, StateTypes, FlagTypes
  <2>6. FailureIsReturned'
    BY <1>0, <1>5 DEF Trigger, FailureIsReturned, StateTypes, FlagTypes
  <2> QED BY <2>1, <2>2, <2>3, <2>4, <2>5, <2>6 DEF SupervisorInvariant
<1>6. CASE SetNotReady
  <2>1. FlagTypes'
    BY <1>0, <1>6, Zenon DEF SetNotReady, FlagTypes
  <2>2. StateTypes'
    BY <1>0, <1>6 DEF SetNotReady, StateTypes
  <2>3. OpenShape'
    BY <1>0, <1>6 DEF SetNotReady, OpenShape, StateTypes, FlagTypes
  <2>4. TraceShape'
    BY <1>0, <1>6 DEF SetNotReady, TraceShape, StateTypes, FlagTypes
  <2>5. StageShape'
    BY <1>0, <1>6 DEF SetNotReady, StageShape, StateTypes, FlagTypes
  <2>6. FailureIsReturned'
    BY <1>0, <1>6 DEF SetNotReady, FailureIsReturned, StateTypes, FlagTypes
  <2> QED BY <2>1, <2>2, <2>3, <2>4, <2>5, <2>6 DEF SupervisorInvariant
<1>7. CASE StopAccepting
  <2>1. FlagTypes'
    BY <1>0, <1>7, Zenon DEF StopAccepting, FlagTypes
  <2>2. StateTypes'
    BY <1>0, <1>7 DEF StopAccepting, StateTypes
  <2>3. OpenShape'
    BY <1>0, <1>7 DEF StopAccepting, OpenShape, StateTypes, FlagTypes
  <2>4. TraceShape'
    BY <1>0, <1>7, SupervisorAssumption DEF StopAccepting, OpenShape, TraceShape, StateTypes
  <2>5. StageShape'
    BY <1>0, <1>7 DEF StopAccepting, StageShape, StateTypes, FlagTypes
  <2>6. FailureIsReturned'
    BY <1>0, <1>7 DEF StopAccepting, FailureIsReturned, StateTypes, FlagTypes
  <2> QED BY <2>1, <2>2, <2>3, <2>4, <2>5, <2>6 DEF SupervisorInvariant
<1>8. CASE HttpDone
  <2>1. FlagTypes'
    BY <1>0, <1>8, Zenon DEF HttpDone, FlagTypes
  <2>2. StateTypes'
    BY <1>0, <1>8 DEF HttpDone, StateTypes
  <2>3. OpenShape'
    BY <1>0, <1>8 DEF HttpDone, OpenShape, StateTypes, FlagTypes
  <2>4. TraceShape'
    BY <1>0, <1>8 DEF HttpDone, TraceShape, StateTypes, FlagTypes
  <2>5. StageShape'
    <3>1. /\ pc = "http" /\ pc' = "grpc" /\ UNCHANGED <<shut, grpc>>
          /\ \A s \in Servers : shut[s] # "draining"
      BY <1>8 DEF HttpDone
    <3>2. grpc # "new" /\ \A s \in Servers : shut[s] # "none"
      BY <1>0, <3>1 DEF StageShape
    <3> QED BY <3>1, <3>2 DEF StageShape
  <2>6. FailureIsReturned'
    BY <1>0, <1>8 DEF HttpDone, FailureIsReturned, StateTypes, FlagTypes
  <2> QED BY <2>1, <2>2, <2>3, <2>4, <2>5, <2>6 DEF SupervisorInvariant
<1>9. CASE ShutdownGrpc
  <2>1. FlagTypes'
    BY <1>0, <1>9, Zenon DEF ShutdownGrpc, FlagTypes
  <2>2. StateTypes'
    BY <1>0, <1>9 DEF ShutdownGrpc, StateTypes
  <2>3. OpenShape'
    BY <1>0, <1>9 DEF ShutdownGrpc, OpenShape, StateTypes, FlagTypes
  <2>4. TraceShape'
    BY <1>0, <1>9 DEF ShutdownGrpc, TraceShape, StateTypes, FlagTypes
  <2>5. StageShape'
    BY <1>0, <1>9 DEF ShutdownGrpc, StageShape, StateTypes, FlagTypes
  <2>6. FailureIsReturned'
    BY <1>0, <1>9 DEF ShutdownGrpc, FailureIsReturned, StateTypes, FlagTypes
  <2> QED BY <2>1, <2>2, <2>3, <2>4, <2>5, <2>6 DEF SupervisorInvariant
<1>10. CASE StopPool
  <2>1. FlagTypes'
    BY <1>0, <1>10, Zenon DEF StopPool, FlagTypes
  <2>2. StateTypes'
    BY <1>0, <1>10 DEF StopPool, StateTypes
  <2>3. OpenShape'
    BY <1>0, <1>10 DEF StopPool, OpenShape, StateTypes, FlagTypes
  <2>4. TraceShape'
    BY <1>0, <1>10 DEF StopPool, TraceShape, StateTypes, FlagTypes
  <2>5. StageShape'
    BY <1>0, <1>10 DEF StopPool, StageShape, StateTypes, FlagTypes
  <2>6. FailureIsReturned'
    BY <1>0, <1>10 DEF StopPool, FailureIsReturned, StateTypes, FlagTypes
  <2> QED BY <2>1, <2>2, <2>3, <2>4, <2>5, <2>6 DEF SupervisorInvariant
<1>11. CASE AwaitWorkers
  <2>1. FlagTypes'
    BY <1>0, <1>11, Zenon DEF AwaitWorkers, FlagTypes
  <2>2. StateTypes'
    BY <1>0, <1>11 DEF AwaitWorkers, StateTypes
  <2>3. OpenShape'
    BY <1>0, <1>11 DEF AwaitWorkers, OpenShape, StateTypes, FlagTypes
  <2>4. TraceShape'
    BY <1>0, <1>11 DEF AwaitWorkers, TraceShape, StateTypes, FlagTypes
  <2>5. StageShape'
    BY <1>0, <1>11 DEF AwaitWorkers, StageShape, StateTypes, FlagTypes
  <2>6. FailureIsReturned'
    BY <1>0, <1>11 DEF AwaitWorkers, FailureIsReturned, StateTypes, FlagTypes
  <2> QED BY <2>1, <2>2, <2>3, <2>4, <2>5, <2>6 DEF SupervisorInvariant
<1>12. CASE PoolStopped
  <2>1. FlagTypes'
    BY <1>0, <1>12, Zenon DEF PoolStopped, FlagTypes
  <2>2. StateTypes'
    BY <1>0, <1>12 DEF PoolStopped, StateTypes
  <2>3. OpenShape'
    BY <1>0, <1>12 DEF PoolStopped, OpenShape, StateTypes, FlagTypes
  <2>4. TraceShape'
    BY <1>0, <1>12 DEF PoolStopped, TraceShape, StateTypes, FlagTypes
  <2>5. StageShape'
    BY <1>0, <1>12 DEF PoolStopped, StageShape, StateTypes, FlagTypes
  <2>6. FailureIsReturned'
    BY <1>0, <1>12 DEF PoolStopped, FailureIsReturned, StateTypes, FlagTypes
  <2> QED BY <2>1, <2>2, <2>3, <2>4, <2>5, <2>6 DEF SupervisorInvariant
<1>13. CASE PoolTimedOut
  <2>1. FlagTypes'
    BY <1>0, <1>13, Zenon DEF PoolTimedOut, FlagTypes
  <2>2. StateTypes'
    BY <1>0, <1>13 DEF PoolTimedOut, StateTypes
  <2>3. OpenShape'
    BY <1>0, <1>13 DEF PoolTimedOut, OpenShape, StateTypes, FlagTypes
  <2>4. TraceShape'
    BY <1>0, <1>13 DEF PoolTimedOut, TraceShape, StateTypes, FlagTypes
  <2>5. StageShape'
    BY <1>0, <1>13 DEF PoolTimedOut, StageShape, StateTypes, FlagTypes
  <2>6. FailureIsReturned'
    BY <1>0, <1>13 DEF PoolTimedOut, FailureIsReturned, StateTypes, FlagTypes
  <2> QED BY <2>1, <2>2, <2>3, <2>4, <2>5, <2>6 DEF SupervisorInvariant
<1>14. CASE CloseHub
  <2>1. FlagTypes'
    BY <1>0, <1>14, Zenon DEF CloseHub, FlagTypes
  <2>2. StateTypes'
    BY <1>0, <1>14 DEF CloseHub, StateTypes
  <2>3. OpenShape'
    BY <1>0, <1>14 DEF CloseHub, OpenShape, StateTypes, FlagTypes
  <2>4. TraceShape'
    BY <1>0, <1>14 DEF CloseHub, TraceShape, StateTypes, FlagTypes
  <2>5. StageShape'
    BY <1>0, <1>14 DEF CloseHub, StageShape, StateTypes, FlagTypes
  <2>6. FailureIsReturned'
    BY <1>0, <1>14 DEF CloseHub, FailureIsReturned, StateTypes, FlagTypes
  <2> QED BY <2>1, <2>2, <2>3, <2>4, <2>5, <2>6 DEF SupervisorInvariant
<1>15. CASE Wait
  <2>1. FlagTypes'
    BY <1>0, <1>15, Zenon DEF Wait, FlagTypes
  <2>2. StateTypes'
    BY <1>0, <1>15 DEF Wait, StateTypes
  <2>3. OpenShape'
    BY <1>0, <1>15 DEF Wait, OpenShape, StateTypes, FlagTypes
  <2>4. TraceShape'
    BY <1>0, <1>15 DEF Wait, TraceShape, StateTypes, FlagTypes
  <2>5. StageShape'
    BY <1>0, <1>15 DEF Wait, StageShape, StateTypes, FlagTypes
  <2>6. FailureIsReturned'
    BY <1>0, <1>15 DEF Wait, FailureIsReturned, StateTypes, FlagTypes
  <2> QED BY <2>1, <2>2, <2>3, <2>4, <2>5, <2>6 DEF SupervisorInvariant
<1> QED BY <1>1, <1>2, <1>3, <1>4, <1>5, <1>6, <1>7, <1>8, <1>9, <1>10, <1>11, <1>12,
         <1>13, <1>14, <1>15, Zenon DEF RunStep

\* The steps of the servers and of their shutdown.
LEMMA ServerKeeps ==
    ASSUME SupervisorInvariant, NEW s \in Servers, ServerStep(s)
    PROVE  SupervisorInvariant'
<1> USE DEF Past, Controls, BeforeCleanup, BeforeHttp, AfterGrpc, AfterPool, componentVars
<1>0. /\ FlagTypes /\ StateTypes /\ OpenShape /\ TraceShape /\ StageShape /\ FailureIsReturned
      /\ ServerOf \in [Requests -> Servers]
  BY SupervisorAssumption DEF SupervisorInvariant
<1>1. CASE Serve(s)
  <2>1. FlagTypes'
    BY <1>0, <1>1, Zenon DEF Serve, FlagTypes
  <2>2. StateTypes'
    BY <1>0, <1>1 DEF Serve, Open, StateTypes
  <2>3. OpenShape'
    BY <1>0, <1>1 DEF Serve, OpenShape, StateTypes, FlagTypes
  <2>4. TraceShape'
    BY <1>0, <1>1 DEF Serve, Open, TraceShape, StateTypes, FlagTypes
  <2>5. StageShape'
    BY <1>0, <1>1 DEF Serve, StageShape, StateTypes, FlagTypes
  <2>6. FailureIsReturned'
    BY <1>0, <1>1 DEF Serve, FailureIsReturned, StateTypes, FlagTypes
  <2> QED BY <2>1, <2>2, <2>3, <2>4, <2>5, <2>6 DEF SupervisorInvariant
<1>2. CASE ServeFails(s)
  <2>1. FlagTypes'
    BY <1>0, <1>2, Zenon DEF ServeFails, FlagTypes
  <2>2. StateTypes'
    BY <1>0, <1>2 DEF ServeFails, Open, StateTypes
  <2>3. OpenShape'
    BY <1>0, <1>2 DEF ServeFails, OpenShape, StateTypes, FlagTypes
  <2>4. TraceShape'
    BY <1>0, <1>2 DEF ServeFails, Open, TraceShape, StateTypes, FlagTypes
  <2>5. StageShape'
    BY <1>0, <1>2 DEF ServeFails, StageShape, StateTypes, FlagTypes
  <2>6. FailureIsReturned'
    BY <1>0, <1>2 DEF ServeFails, FailureIsReturned, StateTypes, FlagTypes
  <2> QED BY <2>1, <2>2, <2>3, <2>4, <2>5, <2>6 DEF SupervisorInvariant
<1>3. CASE ServeEnds(s)
  <2>1. FlagTypes'
    BY <1>0, <1>3, Zenon DEF ServeEnds, FlagTypes
  <2>2. StateTypes'
    BY <1>0, <1>3 DEF ServeEnds, Open, StateTypes
  <2>3. OpenShape'
    BY <1>0, <1>3 DEF ServeEnds, OpenShape, StateTypes, FlagTypes
  <2>4. TraceShape'
    BY <1>0, <1>3 DEF ServeEnds, Open, TraceShape, StateTypes, FlagTypes
  <2>5. StageShape'
    BY <1>0, <1>3 DEF ServeEnds, StageShape, StateTypes, FlagTypes
  <2>6. FailureIsReturned'
    BY <1>0, <1>3 DEF ServeEnds, FailureIsReturned, StateTypes, FlagTypes
  <2> QED BY <2>1, <2>2, <2>3, <2>4, <2>5, <2>6 DEF SupervisorInvariant
<1>4. CASE ShutdownDrained(s)
  <2>1. FlagTypes'
    BY <1>0, <1>4, Zenon DEF ShutdownDrained, FlagTypes
  <2>2. StateTypes'
    BY <1>0, <1>4 DEF ShutdownDrained, Open, StateTypes
  <2>3. OpenShape'
    BY <1>0, <1>4 DEF ShutdownDrained, OpenShape, StateTypes, FlagTypes
  <2>4. TraceShape'
    BY <1>0, <1>4 DEF ShutdownDrained, Open, TraceShape, StateTypes, FlagTypes
  <2>5. StageShape'
    BY <1>0, <1>4 DEF ShutdownDrained, StageShape, StateTypes, FlagTypes
  <2>6. FailureIsReturned'
    BY <1>0, <1>4 DEF ShutdownDrained, FailureIsReturned, StateTypes, FlagTypes
  <2> QED BY <2>1, <2>2, <2>3, <2>4, <2>5, <2>6 DEF SupervisorInvariant
<1>5. CASE ShutdownForced(s)
  <2>1. FlagTypes'
    BY <1>0, <1>5, Zenon DEF ShutdownForced, FlagTypes
  <2>2. StateTypes'
    BY <1>0, <1>5 DEF ShutdownForced, Open, StateTypes
  <2>3. OpenShape'
    BY <1>0, <1>5 DEF ShutdownForced, OpenShape, StateTypes, FlagTypes
  <2>4. TraceShape'
    BY <1>0, <1>5 DEF ShutdownForced, Open, TraceShape, StateTypes, FlagTypes
  <2>5. StageShape'
    BY <1>0, <1>5 DEF ShutdownForced, StageShape, StateTypes, FlagTypes
  <2>6. FailureIsReturned'
    BY <1>0, <1>5 DEF ShutdownForced, FailureIsReturned, StateTypes, FlagTypes
  <2> QED BY <2>1, <2>2, <2>3, <2>4, <2>5, <2>6 DEF SupervisorInvariant
<1> QED BY <1>1, <1>2, <1>3, <1>4, <1>5, Zenon DEF ServerStep

\* The steps of the requests, and of what runs beside them.
LEMMA BesideKeeps ==
    ASSUME SupervisorInvariant,
           \/ \E r \in Requests : RequestStep(r)
           \/ WorkerFinishes \/ WorkersExit \/ GrpcFails \/ Signal \/ Expire
    PROVE  SupervisorInvariant'
<1> USE DEF Past, Controls, BeforeCleanup, BeforeHttp, AfterGrpc, AfterPool, componentVars
<1>0. /\ FlagTypes /\ StateTypes /\ OpenShape /\ TraceShape /\ StageShape /\ FailureIsReturned
      /\ ServerOf \in [Requests -> Servers]
  BY SupervisorAssumption DEF SupervisorInvariant
<1>1. ASSUME NEW r \in Requests, RequestArrives(r) PROVE SupervisorInvariant'
  <2>1. FlagTypes'
    BY <1>0, <1>1, Zenon DEF RequestArrives, FlagTypes
  <2>2. StateTypes'
    BY <1>0, <1>1 DEF RequestArrives, StateTypes
  <2>3. OpenShape'
    BY <1>0, <1>1 DEF RequestArrives, OpenShape, StateTypes, FlagTypes
  <2>4. TraceShape'
    BY <1>0, <1>1 DEF RequestArrives, TraceShape, StateTypes, FlagTypes
  <2>5. StageShape'
    BY <1>0, <1>1 DEF RequestArrives, StageShape, StateTypes, FlagTypes
  <2>6. FailureIsReturned'
    BY <1>0, <1>1 DEF RequestArrives, FailureIsReturned, StateTypes, FlagTypes
  <2> QED BY <2>1, <2>2, <2>3, <2>4, <2>5, <2>6 DEF SupervisorInvariant
<1>2. ASSUME NEW r \in Requests, RequestEnds(r) PROVE SupervisorInvariant'
  <2>1. FlagTypes'
    BY <1>0, <1>2, Zenon DEF RequestEnds, FlagTypes
  <2>2. StateTypes'
    BY <1>0, <1>2 DEF RequestEnds, StateTypes
  <2>3. OpenShape'
    BY <1>0, <1>2 DEF RequestEnds, OpenShape, StateTypes, FlagTypes
  <2>4. TraceShape'
    BY <1>0, <1>2 DEF RequestEnds, TraceShape, StateTypes, FlagTypes
  <2>5. StageShape'
    BY <1>0, <1>2 DEF RequestEnds, StageShape, StateTypes, FlagTypes
  <2>6. FailureIsReturned'
    BY <1>0, <1>2 DEF RequestEnds, FailureIsReturned, StateTypes, FlagTypes
  <2> QED BY <2>1, <2>2, <2>3, <2>4, <2>5, <2>6 DEF SupervisorInvariant
<1>3. ASSUME NEW r \in Requests, AcceptJob(r) PROVE SupervisorInvariant'
  <2>1. FlagTypes'
    BY <1>0, <1>3, Zenon DEF AcceptJob, FlagTypes
  <2>2. StateTypes'
    BY <1>0, <1>3 DEF AcceptJob, StateTypes
  <2>3. OpenShape'
    BY <1>0, <1>3 DEF AcceptJob, OpenShape, StateTypes, FlagTypes
  <2>4. TraceShape'
    BY <1>0, <1>3 DEF AcceptJob, TraceShape, StateTypes, FlagTypes
  <2>5. StageShape'
    BY <1>0, <1>3 DEF AcceptJob, OpenShape, StageShape, StateTypes, FlagTypes
  <2>6. FailureIsReturned'
    BY <1>0, <1>3 DEF AcceptJob, FailureIsReturned, StateTypes, FlagTypes
  <2> QED BY <2>1, <2>2, <2>3, <2>4, <2>5, <2>6 DEF SupervisorInvariant
<1>4. CASE WorkerFinishes
  <2>1. FlagTypes'
    BY <1>0, <1>4, Zenon DEF WorkerFinishes, FlagTypes
  <2>2. StateTypes'
    BY <1>0, <1>4 DEF WorkerFinishes, StateTypes
  <2>3. OpenShape'
    BY <1>0, <1>4 DEF WorkerFinishes, OpenShape, StateTypes, FlagTypes
  <2>4. TraceShape'
    BY <1>0, <1>4 DEF WorkerFinishes, TraceShape, StateTypes, FlagTypes
  <2>5. StageShape'
    BY <1>0, <1>4 DEF WorkerFinishes, StageShape, StateTypes, FlagTypes
  <2>6. FailureIsReturned'
    BY <1>0, <1>4 DEF WorkerFinishes, FailureIsReturned, StateTypes, FlagTypes
  <2> QED BY <2>1, <2>2, <2>3, <2>4, <2>5, <2>6 DEF SupervisorInvariant
<1>5. CASE WorkersExit
  <2>1. FlagTypes'
    BY <1>0, <1>5, Zenon DEF WorkersExit, FlagTypes
  <2>2. StateTypes'
    BY <1>0, <1>5 DEF WorkersExit, StateTypes
  <2>3. OpenShape'
    BY <1>0, <1>5 DEF WorkersExit, OpenShape, StateTypes, FlagTypes
  <2>4. TraceShape'
    BY <1>0, <1>5 DEF WorkersExit, TraceShape, StateTypes, FlagTypes
  <2>5. StageShape'
    BY <1>0, <1>5 DEF WorkersExit, StageShape, StateTypes, FlagTypes
  <2>6. FailureIsReturned'
    BY <1>0, <1>5 DEF WorkersExit, FailureIsReturned, StateTypes, FlagTypes
  <2> QED BY <2>1, <2>2, <2>3, <2>4, <2>5, <2>6 DEF SupervisorInvariant
<1>6. CASE GrpcFails
  <2>1. FlagTypes'
    BY <1>0, <1>6, Zenon DEF GrpcFails, FlagTypes
  <2>2. StateTypes'
    BY <1>0, <1>6 DEF GrpcFails, StateTypes
  <2>3. OpenShape'
    BY <1>0, <1>6 DEF GrpcFails, OpenShape, StateTypes, FlagTypes
  <2>4. TraceShape'
    BY <1>0, <1>6 DEF GrpcFails, TraceShape, StateTypes, FlagTypes
  <2>5. StageShape'
    BY <1>0, <1>6 DEF GrpcFails, StageShape, StateTypes, FlagTypes
  <2>6. FailureIsReturned'
    BY <1>0, <1>6 DEF GrpcFails, FailureIsReturned, StateTypes, FlagTypes
  <2> QED BY <2>1, <2>2, <2>3, <2>4, <2>5, <2>6 DEF SupervisorInvariant
<1>7. CASE Signal
  <2>1. FlagTypes'
    BY <1>0, <1>7, Zenon DEF Signal, FlagTypes
  <2>2. StateTypes'
    BY <1>0, <1>7 DEF Signal, StateTypes
  <2>3. OpenShape'
    BY <1>0, <1>7 DEF Signal, OpenShape, StateTypes, FlagTypes
  <2>4. TraceShape'
    BY <1>0, <1>7 DEF Signal, TraceShape, StateTypes, FlagTypes
  <2>5. StageShape'
    BY <1>0, <1>7 DEF Signal, StageShape, StateTypes, FlagTypes
  <2>6. FailureIsReturned'
    BY <1>0, <1>7 DEF Signal, FailureIsReturned, StateTypes, FlagTypes
  <2> QED BY <2>1, <2>2, <2>3, <2>4, <2>5, <2>6 DEF SupervisorInvariant
<1>8. CASE Expire
  <2>1. FlagTypes'
    BY <1>0, <1>8, Zenon DEF Expire, FlagTypes
  <2>2. StateTypes'
    BY <1>0, <1>8 DEF Expire, StateTypes
  <2>3. OpenShape'
    BY <1>0, <1>8 DEF Expire, OpenShape, StateTypes, FlagTypes
  <2>4. TraceShape'
    BY <1>0, <1>8 DEF Expire, TraceShape, StateTypes, FlagTypes
  <2>5. StageShape'
    BY <1>0, <1>8 DEF Expire, StageShape, StateTypes, FlagTypes
  <2>6. FailureIsReturned'
    BY <1>0, <1>8 DEF Expire, FailureIsReturned, StateTypes, FlagTypes
  <2> QED BY <2>1, <2>2, <2>3, <2>4, <2>5, <2>6 DEF SupervisorInvariant
<1> QED BY <1>1, <1>2, <1>3, <1>4, <1>5, <1>6, <1>7, <1>8, Zenon DEF RequestStep

-----------------------------------------------------------------------------
(* Theorems *)

\* The invariant holds from the start of Run on.
LEMMA InvariantAlways == Spec => []SupervisorInvariant
<1>1. Init => SupervisorInvariant
  BY SupervisorAssumption DEF Init, SupervisorInvariant, FlagTypes, StateTypes, Controls,
     BeforeHttp, BeforeCleanup, OpenShape, TraceShape, StageShape, Past, AfterGrpc, AfterPool,
     FailureIsReturned
<1>2. SupervisorInvariant /\ [Next]_vars => SupervisorInvariant'
  <2>1. ASSUME SupervisorInvariant, UNCHANGED vars PROVE SupervisorInvariant'
    <3>1. (FlagTypes /\ StateTypes)'
      BY <2>1 DEF vars, SupervisorInvariant, FlagTypes, StateTypes
    <3>2. (OpenShape /\ TraceShape)'
      BY <2>1, Zenon DEF vars, SupervisorInvariant, OpenShape, TraceShape
    <3>3. (StageShape /\ FailureIsReturned)'
      BY <2>1, Zenon DEF vars, SupervisorInvariant, StageShape, Past, FailureIsReturned
    <3> QED BY <3>1, <3>2, <3>3 DEF SupervisorInvariant
  <2> QED BY <2>1, RunKeeps, ServerKeeps, BesideKeeps, Zenon DEF Next
<1> QED BY <1>1, <1>2, PTL DEF Spec

\* While /readyz answers 200, the queue takes jobs and no server is being
\* shut down (APIServer.cleanup withdraws readiness first).
THEOREM ReadinessIsWithdrawnFirst == Spec => []ReadyMeansServing
<1>1. SupervisorInvariant => ReadyMeansServing
  BY DEF SupervisorInvariant, OpenShape, BeforeHttp, BeforeCleanup, ReadyMeansServing,
     ReadinessHandler
<1> QED BY <1>1, InvariantAlways, PTL

\* A shutdown logged as graceful has cut no request, left no accepted job
\* active and taken every component down, however signals, failures, the
\* deadline and the components interleave (overallShutdownOutcome).
THEOREM GracefulIsClean == Spec => []GracefulMeansClean
<1>1. SupervisorInvariant => GracefulMeansClean
  <2> SUFFICES ASSUME SupervisorInvariant, pc = "returned", Outcome = "graceful"
               PROVE  /\ \A r \in Requests : req[r] # "cut"
                      /\ ~active /\ ~workers
                      /\ grpc \in {"stopped", "failed"} /\ pool = "stopped" /\ hub = "closed"
                      /\ \A s \in Servers : shut[s] = "graceful" /\ srv[s] \in {"failed", "ended"}
    BY Zenon DEF GracefulMeansClean
  <2>0. FlagTypes /\ StateTypes /\ TraceShape /\ StageShape
    BY DEF SupervisorInvariant
  <2>1. ~runErr /\ outcomes = {}
    BY DEF Outcome
  <2>2. \A s \in Servers : shut[s] = "graceful" /\ srv[s] \in {"failed", "ended"}
    BY <2>0, <2>1 DEF StageShape, TraceShape, Past, StateTypes
  <2>3. \A r \in Requests : req[r] # "cut"
    BY <2>0, <2>2, SupervisorAssumption DEF TraceShape
  <2>4. grpc \in {"stopped", "failed"} /\ pool = "stopped" /\ hub = "closed" /\ ~active /\ ~workers
    BY <2>0, <2>1 DEF StageShape, Past, StateTypes
  <2> QED BY <2>2, <2>3, <2>4
<1> QED BY <1>1, InvariantAlways, PTL

\* Requests that were cut off always make the outcome "forced"
\* (shutdownServer, overallShutdownOutcome).
THEOREM CutIsForced == Spec => []CutIsReported
<1>1. SupervisorInvariant => CutIsReported
  <2> SUFFICES ASSUME SupervisorInvariant, NEW r \in Requests, req[r] = "cut"
               PROVE  Outcome = "forced"
    BY DEF CutIsReported
  <2>1. <<ServerOf[r], "forced">> \in outcomes
    BY SupervisorAssumption DEF SupervisorInvariant, TraceShape
  <2>2. \E c \in outcomes : c[2] = "forced"
    BY <2>1
  <2>3. ~(~runErr /\ outcomes = {})
    BY <2>1
  <2> QED BY <2>2, <2>3 DEF Outcome
<1> QED BY <1>1, InvariantAlways, PTL

\* Without a signal, Run leaves its select, or its start-up, only with an
\* error it returns.
THEOREM FailuresAreReturned == Spec => []FailureIsReturned
<1>1. SupervisorInvariant => FailureIsReturned
  BY DEF SupervisorInvariant
<1> QED BY <1>1, InvariantAlways, PTL

-----------------------------------------------------------------------------
(* The gRPC runtime *)

\* Control states of a caller that found the server running.
Stopping == {"launch", "select", "waitgraceful", "waitdone"}

\* The inductive invariant of the runtime: what a caller learns when Shutdown
\* returns depends on how the server stopped, which the caller cannot see.
\* "stopped" is final, and a server in that state either never served or has
\* closed done; nothing else lets a caller return, and nothing but the end
\* of its context makes its answer "forced".
StoppedIsFinal ==
    /\ state = "new" => serve = "none"
    /\ serve = "none" => state \in {"new", "stopped"}
    /\ state = "stopped" => serve \in {"none", "finished"}
    /\ serve = "finished" => state = "stopped" /\ done
    /\ done => state = "stopped"
    /\ err => serve = "finished"
    /\ \A c \in Callers : /\ spc[c] \in {"stopnew", "returned"} => state = "stopped"
                          /\ spc[c] = "stopnew" => serve = "none"
                          /\ spc[c] \in Stopping => state \in {"stopping", "stopped"} /\ ~err
                          /\ sres[c] = "forced" => ctxDone[c]
    /\ serve \in {"none", "launched"} \/ server = "stopped" => calls = 0

RuntimeInvariant == TypeOK /\ StoppedIsFinal

\* The runtime starts inside the invariant.
LEMMA RuntimeStarts == RuntimeInit => RuntimeInvariant
<1> SUFFICES ASSUME RuntimeInit PROVE RuntimeInvariant
  OBVIOUS
<1>1. ctxDone \in [Callers -> BOOLEAN] /\ err \in BOOLEAN /\ done \in BOOLEAN
  BY Zenon DEF RuntimeInit
<1>2. calls \in 0 .. MaxCalls
  BY RuntimeAssumption DEF RuntimeInit
<1>3. TypeOK
  BY <1>1, <1>2 DEF RuntimeInit, TypeOK
<1>4. StoppedIsFinal
  BY DEF RuntimeInit, StoppedIsFinal, Stopping
<1> QED BY <1>3, <1>4 DEF RuntimeInvariant

\* The steps of Start, of the serving goroutine and of the RPCs.
LEMMA ServingKeeps ==
    ASSUME RuntimeInvariant,
           Start \/ ServeGrpc \/ finishServe \/ CallBegins \/ CallEnds \/ GracefulStop
    PROVE  RuntimeInvariant'
<1> USE RuntimeAssumption DEF RuntimeInvariant, Stopping, callerVars
<1>1. CASE Start
  BY <1>1 DEF Start, TypeOK, StoppedIsFinal
<1>2. CASE ServeGrpc
  BY <1>2 DEF ServeGrpc, TypeOK, StoppedIsFinal
<1>3. CASE finishServe
  BY <1>3 DEF finishServe, TypeOK, StoppedIsFinal
<1>4. CASE CallBegins
  BY <1>4 DEF CallBegins, TypeOK, StoppedIsFinal
<1>5. CASE CallEnds
  BY <1>5 DEF CallEnds, TypeOK, StoppedIsFinal
<1>6. CASE GracefulStop
  BY <1>6 DEF GracefulStop, TypeOK, StoppedIsFinal
<1> QED BY <1>1, <1>2, <1>3, <1>4, <1>5, <1>6

\* The steps of a Shutdown call.
LEMMA ShutdownKeeps ==
    ASSUME RuntimeInvariant, NEW c \in Callers,
           beginShutdown(c) \/ ShutdownStep(c) \/ ContextExpires(c)
    PROVE  RuntimeInvariant'
<1> USE RuntimeAssumption DEF RuntimeInvariant, Stopping
<1>1. CASE beginShutdown(c)
  BY <1>1 DEF beginShutdown, TypeOK, StoppedIsFinal
<1>2. CASE StopNew(c)
  BY <1>2 DEF StopNew, TypeOK, StoppedIsFinal
<1>3. CASE LaunchGracefulStop(c)
  BY <1>3 DEF LaunchGracefulStop, TypeOK, StoppedIsFinal
<1>4. CASE SelectGraceful(c)
  BY <1>4 DEF SelectGraceful, TypeOK, StoppedIsFinal
<1>5. CASE ForceStop(c)
  BY <1>5 DEF ForceStop, TypeOK, StoppedIsFinal
<1>6. CASE WaitGraceful(c)
  BY <1>6 DEF WaitGraceful, TypeOK, StoppedIsFinal
<1>7. CASE WaitDone(c)
  BY <1>7 DEF WaitDone, TypeOK, StoppedIsFinal
<1>8. CASE ContextExpires(c)
  BY <1>8 DEF ContextExpires, TypeOK, StoppedIsFinal
<1> QED BY <1>1, <1>2, <1>3, <1>4, <1>5, <1>6, <1>7, <1>8 DEF ShutdownStep

\* No step leaves it.
LEMMA RuntimeKeeps == RuntimeInvariant /\ [RuntimeNext]_runtimeVars => RuntimeInvariant'
<1> SUFFICES ASSUME RuntimeInvariant, [RuntimeNext]_runtimeVars PROVE RuntimeInvariant'
  OBVIOUS
<1>1. CASE UNCHANGED runtimeVars
  BY <1>1 DEF RuntimeInvariant, TypeOK, StoppedIsFinal, runtimeVars
<1>2. CASE RuntimeNext
  BY <1>2, ServingKeeps, ShutdownKeeps DEF RuntimeNext
<1> QED BY <1>1, <1>2

\* So it always holds.
LEMMA RuntimeAlways == RuntimeSpec => []RuntimeInvariant
<1>1. RuntimeInit => RuntimeInvariant
  BY RuntimeStarts
<1>2. RuntimeInvariant /\ [RuntimeNext]_runtimeVars => RuntimeInvariant'
  BY RuntimeKeeps
<1> QED BY <1>1, <1>2, PTL DEF RuntimeSpec

\* A Shutdown that reports a graceful end leaves no RPC behind, unless the
\* listener had failed (Runtime.Shutdown): for every number of callers.
THEOREM GracefulShutdownDrains == RuntimeSpec => []GracefulMeansDrained
<1>1. RuntimeInvariant => GracefulMeansDrained
  BY DEF RuntimeInvariant, TypeOK, StoppedIsFinal, GracefulMeansDrained
<1> QED BY <1>1, RuntimeAlways, PTL

\* After any Shutdown of a server that ran, Done is closed and Err readable
\* (Runtime.Shutdown, Runtime.finishServe).
THEOREM ShutdownClosesDone == RuntimeSpec => []ReturnedMeansDone
<1>1. RuntimeInvariant => ReturnedMeansDone
  BY DEF RuntimeInvariant, TypeOK, StoppedIsFinal, ReturnedMeansDone
<1> QED BY <1>1, RuntimeAlways, PTL

\* A listener error during a shutdown never becomes the server's error
\* (Runtime.finishServe).
THEOREM ShutdownHidesServeError == RuntimeSpec => ShutdownIsNotAFailure
<1>1. RuntimeInvariant /\ [RuntimeNext]_runtimeVars
        => [state = "stopping" => err' = err]_runtimeVars
  <2> SUFFICES ASSUME RuntimeInvariant, RuntimeNext, state = "stopping" PROVE err' = err
    OBVIOUS
  <2>1. err = FALSE
    BY DEF RuntimeInvariant, TypeOK, StoppedIsFinal
  <2>2. CASE finishServe
    BY <2>1, <2>2 DEF finishServe
  <2>3. CASE Start \/ ServeGrpc \/ CallBegins \/ CallEnds \/ GracefulStop
    BY <2>3 DEF Start, ServeGrpc, CallBegins, CallEnds, GracefulStop
  <2>4. CASE \E c \in Callers : beginShutdown(c) \/ ShutdownStep(c) \/ ContextExpires(c)
    BY <2>4 DEF beginShutdown, ShutdownStep, ContextExpires, StopNew, LaunchGracefulStop,
                SelectGraceful, ForceStop, WaitGraceful, WaitDone
  <2> QED BY <2>2, <2>3, <2>4 DEF RuntimeNext
<1> QED BY <1>1, RuntimeAlways, PTL DEF RuntimeSpec, ShutdownIsNotAFailure

-----------------------------------------------------------------------------
(* The runtime behind the variable grpc of Supervisor *)

\* The runtime as Run sees it: Shutdown is one step of Run, so a server that
\* is stopping still runs, and the error tells a failed server from another.
GrpcPhase ==
    CASE state = "new" -> "new"
      [] state \in {"running", "stopping"} -> "running"
      [] OTHER -> IF err THEN "failed" ELSE "stopped"

\* What the steps of Supervisor do to grpc: StartGrpc, GrpcFails, ShutdownGrpc.
GrpcMoves == {<<"new", "running">>, <<"running", "failed">>, <<"running", "stopped">>}

\* What Run relies on in one step of the runtime.
SeenByRun ==
    /\ GrpcPhase' = GrpcPhase \/ <<GrpcPhase, GrpcPhase'>> \in GrpcMoves
       \/ (GrpcPhase = "new" /\ \E c \in Callers : beginShutdown(c))
    /\ \A c \in Callers : spc[c] # "returned" /\ spc'[c] = "returned" =>
           /\ GrpcPhase' \in {"stopped", "failed"}
           /\ GrpcPhase' = "failed" => sres'[c] = "ok"
           /\ sres'[c] = "forced" => ctxDone[c]

\* The runtime moves as the variable grpc of Supervisor does, except that a
\* Shutdown before Start, which Run never calls, stops it at once.  When a
\* Shutdown returns it is down; a server that had failed by itself answers
\* nil, and an answer is "forced" only if the context was done.  So what
\* Supervisor takes for granted of ShutdownGrpc and GrpcFails is what the
\* runtime does (Runtime.Shutdown, Runtime.finishServe).
THEOREM RuntimeIsWhatRunSees == RuntimeSpec => [][SeenByRun]_runtimeVars
<1>1. RuntimeInvariant /\ [RuntimeNext]_runtimeVars => [SeenByRun]_runtimeVars
  <2> SUFFICES ASSUME RuntimeInvariant, RuntimeNext PROVE SeenByRun
    OBVIOUS
  <2>0. TypeOK /\ StoppedIsFinal
    BY DEF RuntimeInvariant
  <2> USE DEF SeenByRun, GrpcPhase, GrpcMoves
  <2>1. CASE Start
    BY <2>0, <2>1 DEF Start, StoppedIsFinal, callerVars
  <2>2. CASE ServeGrpc \/ CallBegins \/ CallEnds \/ GracefulStop
    BY <2>2 DEF ServeGrpc, CallBegins, CallEnds, GracefulStop, callerVars
  <2>3. CASE finishServe
    BY <2>0, <2>3 DEF finishServe, TypeOK, StoppedIsFinal, callerVars
  <2>4. ASSUME NEW c \in Callers, beginShutdown(c) PROVE SeenByRun
    BY <2>0, <2>4 DEF beginShutdown, TypeOK, StoppedIsFinal
  <2>5. ASSUME NEW c \in Callers, StopNew(c) PROVE SeenByRun
    BY <2>0, <2>5 DEF StopNew, TypeOK, StoppedIsFinal
  <2>6. ASSUME NEW c \in Callers, WaitDone(c) PROVE SeenByRun
    BY <2>0, <2>6 DEF WaitDone, TypeOK, StoppedIsFinal, Stopping
  <2>7. ASSUME NEW c \in Callers,
               \/ LaunchGracefulStop(c) \/ SelectGraceful(c) \/ ForceStop(c)
               \/ WaitGraceful(c) \/ ContextExpires(c)
        PROVE  SeenByRun
    BY <2>0, <2>7 DEF LaunchGracefulStop, SelectGraceful, ForceStop, WaitGraceful,
                      ContextExpires, TypeOK
  <2> QED BY <2>1, <2>2, <2>3, <2>4, <2>5, <2>6, <2>7, Zenon DEF RuntimeNext, ShutdownStep
<1> QED BY <1>1, RuntimeAlways, PTL DEF RuntimeSpec
=============================================================================
