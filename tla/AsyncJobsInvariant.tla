------------------------- MODULE AsyncJobsInvariant -------------------------
(***************************************************************************)
(* The inductive invariant of AsyncJobs, and the proof that every step     *)
(* keeps it, for every set of requests, workers, Stop callers and          *)
(* generations, and for both repository back ends: first the types of the  *)
(* variables, then the shape of the workers, of the generations and of the *)
(* Stop calls under way, last the work items and the stored jobs.          *)
(***************************************************************************)
EXTENDS AsyncJobs, TLAPS

-----------------------------------------------------------------------------
(* The inductive invariant *)

\* A worker holds an item exactly between its receive and the end of its
\* iteration, and every service call has an intent.
WorkerShape ==
    \A p \in Procs :
        /\ witem[p] # Nil <=>
             wpc[p] \in {"received", "check", "cas", "announce", "exists", "save"}
        /\ wpc[p] \in {"check", "cas", "announce"} => wintent[p] # "none"

\* Items are in one place, and they all come from an Enqueue that succeeded.
ItemShape ==
    /\ ItemInOnePlace
    /\ \A i \in 1 .. Len(queue) : hpc[queue[i]] = "accepted"
    /\ \A p \in Procs : witem[p] # Nil => hpc[witem[p]] = "accepted"

\* A handler past its Save owns a stored job until it rolls it back.
StoreShape ==
    \A r \in Requests :
        /\ hpc[r] = "new" => status[r] = "none"
        /\ hpc[r] \in {"saved", "published", "enqueuing", "accepted", "rollback"} => status[r] \in Statuses

\* Only the current generation has workers that have not exited.
PoolShape ==
    /\ cur <= ngen
    /\ stopping => cur # 0
    /\ \A p \in Procs : /\ wpc[p] = "unborn" <=> p[1] > ngen
                        /\ p[1] # cur => wpc[p] \in {"unborn", "exited"}

\* A Stop call past its prologue holds a generation that stays current, and
\* marked as stopping, until its repair ran; the repair waits for its workers.
StopPromise(s) ==
    spc[s] \in {"cancel", "poll", "wait", "repair", "settle"} =>
        /\ sgen[s] \in 1 .. ngen
        /\ outcome[sgen[s]] = "none" => cur = sgen[s] /\ stopping
        /\ spc[s] \in {"repair", "settle"} => GenDone(sgen[s])
        /\ spc[s] = "settle" => outcome[sgen[s]] # "none"

StopShape == \A s \in Stoppers : StopPromise(s)

IInv == TypeOK /\ WorkerShape /\ ItemShape /\ StoreShape /\ PoolShape /\ StopShape

-----------------------------------------------------------------------------
(* Types *)

\* A group of variables that a step leaves alone keeps its types.
LEMMA TypeFrame ==
    /\ StoreTypes /\ UNCHANGED storeVars => StoreTypes'
    /\ UserTypes /\ UNCHANGED userVars => UserTypes'
    /\ QueueTypes /\ UNCHANGED queueVars => QueueTypes'
    /\ HandlerTypes /\ UNCHANGED handlerVars => HandlerTypes'
    /\ WorkerTypes /\ UNCHANGED workerVars => WorkerTypes'
    /\ PoolTypes /\ UNCHANGED poolVars => PoolTypes'
    /\ StopTypes /\ UNCHANGED stopVars => StopTypes'
    /\ EnvTypes /\ UNCHANGED envVars => EnvTypes'
    /\ ObsTypes /\ UNCHANGED obsVars => ObsTypes'
BY DEF StoreTypes, storeVars, UserTypes, userVars, QueueTypes, queueVars, HandlerTypes,
   handlerVars, WorkerTypes, workerVars, PoolTypes, poolVars, StopTypes, stopVars, EnvTypes,
   envVars, ObsTypes, obsVars

\* A worker that makes a service call keeps well-typed variables.
LEMMA CallType ==
    ASSUME WorkerTypes, NEW p \in Procs, NEW intent \in Intents \cup {"shutdown"},
           NEW prob \in Problems \cup {"none"}, Call(p, intent, prob)
    PROVE  WorkerTypes'
BY DEF WorkerTypes, Call

\* So does a worker that ends its iteration.
LEMMA DropItemType ==
    ASSUME WorkerTypes, NEW p \in Procs, DropItem(p)
    PROVE  WorkerTypes'
BY DEF WorkerTypes, DropItem

\* The table moves jobs out of the two active statuses only.
LEMMA OnlyActiveMoves ==
    ASSUME NEW i \in Intents, NEW x, CanTransitionJob(x, i)
    PROVE  x \in Statuses /\ x \notin {"succeeded", "failed"}
<1>1. jobTransitionSpecs[i].From \subseteq {"queued", "running"}
  BY DEF jobTransitionSpecs, Intents
<1> QED BY <1>1 DEF CanTransitionJob, Statuses

\* Every service call moves a job to one of the four statuses.
LEMMA TargetType ==
    ASSUME WorkerTypes, NEW p \in Procs, wintent[p] # "none"
    PROVE  /\ JobIntent(wintent[p]) \in Intents
           /\ jobTransitionSpecs[JobIntent(wintent[p])].To \in Statuses
<1>1. JobIntent(wintent[p]) \in Intents
  BY DEF WorkerTypes, JobIntent, Intents
<1> QED BY <1>1 DEF jobTransitionSpecs, Intents, Statuses

\* A worker past its receive holds a request.
LEMMA HeldItem ==
    ASSUME WorkerTypes, WorkerShape, NEW p \in Procs,
           wpc[p] \in {"received", "check", "cas", "announce", "exists", "save"}
    PROVE  witem[p] \in Requests
BY DEF WorkerTypes, WorkerShape

\* The repository's update keeps statuses and problems well typed.
LEMMA RepoTransitionType ==
    ASSUME StoreTypes, WorkerTypes, WorkerShape, NEW p \in Procs, RepoTransition(p)
    PROVE  StoreTypes'
<1>1. jobTransitionSpecs[JobIntent(wintent[p])].To \in Statuses
  BY TargetType DEF RepoTransition, WorkerShape
<1>2. wproblem[p] \in Problems \cup {"none"}
  BY DEF WorkerTypes
<1>3. witem[p] \in Requests
  BY HeldItem DEF RepoTransition
<1> QED BY <1>1, <1>2, <1>3 DEF RepoTransition, StoreTypes

\* FailActive keeps them well typed too.
LEMMA FailActiveType ==
    ASSUME StoreTypes, FailActiveRows
    PROVE  StoreTypes'
BY DEF StoreTypes, FailActiveRows, Statuses, Problems

\* Publishing and counting keep the log and the counters well typed.
LEMMA PublishType ==
    ASSUME ObsTypes, NEW r \in Requests, NEW m \in Statuses, Publish(r, m),
           UNCHANGED metrics \/ Count(m)
    PROVE  ObsTypes'
<1>1. events' \in [Requests -> Seq(Statuses)]
  <2>1. events[r] \in Seq(Statuses) /\ Append(events[r], m) \in Seq(Statuses)
    BY DEF ObsTypes
  <2> QED BY <2>1 DEF Publish, ObsTypes
<1>2. metrics' \in [Statuses -> Nat]
  BY DEF Count, ObsTypes
<1> QED BY <1>1, <1>2 DEF ObsTypes

\* Creating a user keeps the user repository well typed.
LEMMA UserType ==
    ASSUME UserTypes, NEW e \in Emails, NEW u \in Requests \cup {Sync},
           InsertUser(e, u)
    PROVE  UserTypes'
BY DEF UserTypes, InsertUser

\* Steps of the asynchronous handler.
LEMMA HandlerType ==
    ASSUME TypeOK, NEW r \in Requests, HandlerStep(r) \/ ClientCancels(r)
    PROVE  TypeOK'
<1> USE TypeFrame DEF TypeOK
<1>1. CASE ClientCancels(r)
  <2>1. HandlerTypes'
    BY <1>1 DEF ClientCancels, HandlerTypes
  <2> QED BY <1>1, <2>1 DEF ClientCancels
<1>2. CASE SaveJob(r)
  <2>1. StoreTypes'
    BY <1>2 DEF SaveJob, StoreTypes, Statuses
  <2>2. HandlerTypes'
    BY <1>2 DEF SaveJob, HandlerTypes
  <2> QED BY <1>2, <2>1, <2>2 DEF SaveJob
<1>3. CASE SaveJobFails(r)
  <2>1. StoreTypes'
    BY <1>3 DEF SaveJobFails, StoreTypes, Statuses
  <2>2. HandlerTypes'
    BY <1>3 DEF SaveJobFails, HandlerTypes
  <2> QED BY <1>3, <2>1, <2>2 DEF SaveJobFails
<1>4. CASE PublishQueuedJob(r)
  <2>1. ObsTypes'
    BY <1>4, PublishType DEF PublishQueuedJob, Statuses
  <2>2. HandlerTypes'
    BY <1>4 DEF PublishQueuedJob, HandlerTypes
  <2> QED BY <1>4, <2>1, <2>2 DEF PublishQueuedJob
<1>5. CASE BeginEnqueue(r)
  <2>1. HandlerTypes'
    BY <1>5 DEF BeginEnqueue, HandlerTypes
  <2> QED BY <1>5, <2>1 DEF BeginEnqueue
<1>6. CASE Enqueue(r)
  <2>1. QueueTypes'
    BY <1>6 DEF Enqueue, QueueTypes
  <2>2. HandlerTypes'
    BY <1>6 DEF Enqueue, HandlerTypes
  <2> QED BY <1>6, <2>1, <2>2 DEF Enqueue
<1>7. CASE EnqueueRejected(r)
  <2>1. HandlerTypes'
    BY <1>7 DEF EnqueueRejected, HandlerTypes
  <2> QED BY <1>7, <2>1 DEF EnqueueRejected
<1>8. CASE DeleteJobAfterFailedEnqueue(r)
  <2>1. StoreTypes'
    <3>1. CASE UNCHANGED storeVars
      BY <3>1
    <3>2. CASE ~UNCHANGED storeVars
      BY <1>8, <3>2 DEF DeleteJobAfterFailedEnqueue, StoreTypes
    <3> QED BY <3>1, <3>2
  <2>2. HandlerTypes'
    BY <1>8 DEF DeleteJobAfterFailedEnqueue, HandlerTypes
  <2> QED BY <1>8, <2>1, <2>2 DEF DeleteJobAfterFailedEnqueue
<1> QED BY <1>1, <1>2, <1>3, <1>4, <1>5, <1>6, <1>7, <1>8 DEF HandlerStep

\* Steps of a worker.
LEMMA WorkerType ==
    ASSUME TypeOK, WorkerShape, NEW p \in Procs, WorkerStep(p)
    PROVE  TypeOK'
<1> USE TypeFrame DEF TypeOK
<1>1. CASE WorkerExits(p)
  <2>1. WorkerTypes'
    BY <1>1 DEF WorkerExits, WorkerTypes
  <2> QED BY <1>1, <2>1 DEF WorkerExits
<1>2. CASE ReceiveItem(p)
  <2>1. Head(queue) \in Requests /\ Tail(queue) \in Seq(Requests)
    BY <1>2 DEF ReceiveItem, QueueTypes
  <2>2. QueueTypes'
    BY <1>2, <2>1 DEF ReceiveItem, QueueTypes
  <2>3. WorkerTypes'
    BY Zenon, <1>2, <2>1 DEF ReceiveItem, WorkerTypes
  <2> QED BY <1>2, <2>2, <2>3 DEF ReceiveItem
<1>3. CASE CheckContext(p)
  <2>1. WorkerTypes'
    BY <1>3, CallType DEF CheckContext, Intents, Problems
  <2> QED BY <1>3, <2>1 DEF CheckContext
<1>4. CASE ServiceCheck(p)
  <2>1. WorkerTypes'
    BY <1>4 DEF ServiceCheck, WorkerTypes
  <2> QED BY <1>4, <2>1 DEF ServiceCheck
<1>5. CASE Transit(p)
  <2>1. WorkerTypes'
    BY <1>5 DEF Transit, WorkerTypes
  <2>2. StoreTypes'
    BY <1>5, RepoTransitionType DEF Transit
  <2> QED BY <1>5, <2>1, <2>2 DEF Transit
<1>6. CASE TransitUnacknowledged(p)
  <2>1. WorkerTypes' /\ StoreTypes'
    BY <1>6, RepoTransitionType, DropItemType DEF TransitUnacknowledged
  <2> QED BY <1>6, <2>1 DEF TransitUnacknowledged
<1>7. CASE ServiceCallFails(p)
  <2>1. WorkerTypes'
    BY <1>7, DropItemType DEF ServiceCallFails
  <2> QED BY <1>7, <2>1 DEF ServiceCallFails
<1>8. CASE AnnounceRunning(p)
  <2>1. ObsTypes'
    BY <1>8, HeldItem, PublishType DEF AnnounceRunning, Statuses
  <2>2. WorkerTypes'
    BY Zenon, <1>8 DEF AnnounceRunning, WorkerTypes
  <2> QED BY <1>8, <2>1, <2>2 DEF AnnounceRunning
<1>9. CASE AnnounceTerminal(p)
  <2> DEFINE to == jobTransitionSpecs[JobIntent(wintent[p])].To
  <2>1. to \in Statuses
    BY <1>9, TargetType DEF AnnounceTerminal, WorkerShape
  <2>2. witem[p] \in Requests
    BY Zenon, <1>9, HeldItem DEF AnnounceTerminal
  <2>3. Publish(witem[p], to) /\ (UNCHANGED metrics \/ Count(to))
    BY <1>9 DEF AnnounceTerminal
  <2> HIDE DEF to
  <2>4. ObsTypes'
    BY <2>1, <2>2, <2>3, PublishType
  <2>5. WorkerTypes'
    BY <1>9, DropItemType DEF AnnounceTerminal
  <2> QED BY Zenon, <1>9, <2>4, <2>5 DEF AnnounceTerminal
<1>10. CASE ExistsByEmail(p)
  <2>1. WorkerTypes'
    <3>1. CASE users[EmailOf[witem[p]]]
      BY Zenon, <1>10, <3>1, CallType DEF ExistsByEmail, Intents, Problems
    <3>2. CASE ~users[EmailOf[witem[p]]]
      BY Zenon, <1>10, <3>2 DEF ExistsByEmail, WorkerTypes
    <3> QED BY <3>1, <3>2
  <2> QED BY <1>10, <2>1 DEF ExistsByEmail
<1>11. CASE SaveUser(p)
  <2>1. WorkerTypes'
    BY <1>11, CallType DEF SaveUser, Intents, Problems
  <2>2. UserTypes'
    <3>1. witem[p] \in Requests /\ EmailOf[witem[p]] \in Emails
      BY <1>11, HeldItem, PipelineAssumption DEF SaveUser
    <3>2. UNCHANGED userVars \/ InsertUser(EmailOf[witem[p]], witem[p])
      BY <1>11 DEF SaveUser
    <3> QED BY <3>1, <3>2, UserType, TypeFrame
  <2> QED BY <1>11, <2>1, <2>2 DEF SaveUser
<1>12. CASE CreateUserFails(p)
  <2>1. WorkerTypes'
    BY Zenon, <1>12, CallType DEF CreateUserFails, Intents, Problems
  <2>2. UserTypes'
    <3>1. witem[p] \in Requests /\ EmailOf[witem[p]] \in Emails
      BY <1>12, HeldItem, PipelineAssumption DEF CreateUserFails
    <3>2. UNCHANGED userVars \/ InsertUser(EmailOf[witem[p]], witem[p])
      BY <1>12 DEF CreateUserFails
    <3> QED BY <3>1, <3>2, UserType, TypeFrame
  <2> QED BY <1>12, <2>1, <2>2 DEF CreateUserFails
<1> QED BY Zenon, <1>1, <1>2, <1>3, <1>4, <1>5, <1>6, <1>7, <1>8, <1>9, <1>10, <1>11, <1>12
        DEF WorkerStep

\* A Stop call past its prologue holds a generation.
LEMMA StopGen ==
    ASSUME PoolTypes, StopTypes, StopShape, NEW s \in Stoppers,
           spc[s] \in {"cancel", "poll", "wait", "repair", "settle"}
    PROVE  sgen[s] \in Gens
<1>1. sgen[s] \in 1 .. ngen
  BY Zenon DEF StopShape, StopPromise
<1> QED BY <1>1, PipelineAssumption DEF PoolTypes, Gens

\* Steps of Start and Stop.
LEMMA PoolType ==
    ASSUME TypeOK, StopShape, Start \/ \E s \in Stoppers : StopStep(s) \/ StopDeadline(s)
    PROVE  TypeOK'
<1> USE TypeFrame DEF TypeOK
<1>0. CASE Start
  <2>1. ngen + 1 \in 0 .. MaxGen
    <3>1. ngen < MaxGen
      BY Zenon, <1>0 DEF Start
    <3>2. ngen \in 0 .. MaxGen
      BY Zenon DEF PoolTypes
    <3> QED BY <3>1, <3>2, PipelineAssumption
  <2>2. PoolTypes'
    <3>1. cur' = ngen + 1 /\ ngen' = ngen + 1 /\ stopping' = FALSE /\ last' = "none"
      BY Zenon, <1>0 DEF Start
    <3>2. UNCHANGED <<gcancel, outcome>>
      BY <1>0, ZenonT(40) DEF Start
    <3> QED BY Zenon, <2>1, <3>1, <3>2 DEF PoolTypes
  <2>3. WorkerTypes'
    BY <1>0 DEF Start, WorkerTypes
  <2> QED BY Zenon, <1>0, <2>2, <2>3 DEF Start
<1> SUFFICES ASSUME NEW s \in Stoppers, StopStep(s) \/ StopDeadline(s) PROVE TypeOK'
  BY <1>0
<1>1. CASE StopCall(s)
  <2>1. PoolTypes'
    BY Zenon, <1>1 DEF StopCall, PoolTypes
  <2>2. StopTypes'
    BY <1>1 DEF StopCall, StopTypes, PoolTypes
  <2> QED BY <1>1, <2>1, <2>2 DEF StopCall
<1>2. CASE StopCallIdle(s)
  <2>1. StopTypes'
    BY <1>2 DEF StopCallIdle, Return, StopTypes, PoolTypes
  <2> QED BY Zenon, <1>2, <2>1 DEF StopCallIdle
<1>3. CASE StopCancel(s)
  <2>1. PoolTypes'
    <3>1. gcancel' = [gcancel EXCEPT ![sgen[s]] = TRUE] /\ sgen[s] \in Gens
      BY <1>3, StopGen DEF StopCancel
    <3>2. UNCHANGED <<cur, ngen, stopping, outcome, last>>
      BY <1>3 DEF StopCancel
    <3> QED BY <3>1, <3>2 DEF PoolTypes
  <2>2. StopTypes'
    BY <1>3 DEF StopCancel, StopTypes
  <2> QED BY <1>3, <2>1, <2>2 DEF StopCancel
<1>4. CASE StopPoll(s)
  <2>1. StopTypes'
    BY <1>4 DEF StopPoll, StopTypes
  <2> QED BY <1>4, <2>1 DEF StopPoll
<1>5. CASE StopWaitDone(s)
  <2>1. StopTypes'
    BY <1>5 DEF StopWaitDone, StopTypes
  <2> QED BY <1>5, <2>1 DEF StopWaitDone
<1>6. CASE StopTimesOut(s)
  <2>1. StopTypes'
    BY Zenon, <1>6 DEF StopTimesOut, Return, StopTypes
  <2> QED BY Zenon, <1>6, <2>1 DEF StopTimesOut
<1>7. CASE StopDeadline(s)
  <2>1. StopTypes'
    BY <1>7 DEF StopDeadline, StopTypes
  <2> QED BY Zenon, <1>7, <2>1 DEF StopDeadline
<1>8. CASE CompleteStopRepair(s)
  <2>1. StoreTypes'
    BY Zenon, <1>8, FailActiveType DEF CompleteStopRepair
  <2>2. PoolTypes'
    <3>1. PICK o \in {"ok", "err"} : outcome' = [outcome EXCEPT ![sgen[s]] = o]
      BY Zenon, <1>8 DEF CompleteStopRepair
    <3>2. UNCHANGED <<cur, ngen, stopping, gcancel, last>> /\ sgen[s] \in Gens
      BY Zenon, <1>8, StopGen DEF CompleteStopRepair
    <3> QED BY Zenon, <3>1, <3>2 DEF PoolTypes
  <2>3. StopTypes'
    BY Zenon, <1>8 DEF CompleteStopRepair, StopTypes
  <2> QED BY Zenon, <1>8, <2>1, <2>2, <2>3 DEF CompleteStopRepair
<1>9. CASE CompleteStopRepeated(s)
  <2>1. StopTypes'
    BY Zenon, <1>9 DEF CompleteStopRepeated, StopTypes
  <2> QED BY <1>9, <2>1, Zenon DEF CompleteStopRepeated
<1>10. CASE CompleteStopSettle(s)
  <2>1. outcome[sgen[s]] \in {"none", "ok", "err"}
    BY Zenon, <1>10, StopGen DEF CompleteStopSettle, PoolTypes
  <2>2. StopTypes'
    BY <1>10, <2>1 DEF CompleteStopSettle, Return, StopTypes
  <2>3. PoolTypes'
    <3>1. CASE cur = sgen[s]
      <4>1. 0 \in 0 .. MaxGen
        BY PipelineAssumption
      <4>2. cur' = 0 /\ stopping' = FALSE /\ last' = outcome[sgen[s]]
        BY <1>10, <3>1, ZenonT(40) DEF CompleteStopSettle
      <4>3. UNCHANGED <<ngen, gcancel, outcome>>
        BY <1>10, Zenon DEF CompleteStopSettle
      <4> QED BY Zenon, <2>1, <4>1, <4>2, <4>3 DEF PoolTypes
    <3>2. CASE cur # sgen[s]
      BY Zenon, <1>10, <3>2 DEF CompleteStopSettle, PoolTypes
    <3> QED BY <3>1, <3>2
  <2> QED BY Zenon, <1>10, <2>2, <2>3 DEF CompleteStopSettle
<1> QED BY Zenon, <1>1, <1>2, <1>3, <1>4, <1>5, <1>6, <1>7, <1>8, <1>9, <1>10 DEF StopStep

\* The remaining steps.
LEMMA EnvType ==
    ASSUME TypeOK,
           \/ \E e \in Emails : UserRequest(e)
           \/ StopAccepting \/ Signal \/ ForeignRepair \/ Crash
    PROVE  TypeOK'
<1> USE TypeFrame DEF TypeOK
<1>1. CASE \E e \in Emails : UserRequest(e)
  <2>1. UserTypes'
    BY <1>1 DEF UserRequest, SyncCreateUser, FreeEmail, InsertUser, UserTypes
  <2> QED BY <1>1, <2>1 DEF UserRequest, SyncCreateUser, FreeEmail
<1>2. CASE StopAccepting
  <2>1. QueueTypes'
    BY <1>2 DEF StopAccepting, QueueTypes
  <2> QED BY <1>2, <2>1 DEF StopAccepting
<1>3. CASE Signal
  <2>1. EnvTypes'
    BY <1>3 DEF Signal, EnvTypes
  <2> QED BY <1>3, <2>1 DEF Signal
<1>4. CASE ForeignRepair
  BY <1>4, FailActiveType DEF ForeignRepair
<1>5. CASE Crash
  <2>1. crashes' \in 0 .. MaxCrashes /\ 0 \in 0 .. MaxGen
    <3>1. crashes < MaxCrashes /\ crashes' = crashes + 1
      BY Zenon, <1>5 DEF Crash
    <3>2. crashes \in 0 .. MaxCrashes
      BY Zenon DEF EnvTypes
    <3> QED BY <3>1, <3>2, PipelineAssumption
  <2>2. EnvTypes'
    BY Zenon, <1>5, <2>1 DEF Crash, EnvTypes
  <2>8. PoolTypes'
    <3>1. cur' = 0 /\ stopping' = FALSE /\ last' = "none" /\ UNCHANGED <<ngen, gcancel, outcome>>
      BY <1>5 DEF Crash
    <3> QED BY Zenon, <2>1, <3>1 DEF PoolTypes
  <2>3. HandlerTypes'
    BY Zenon, <1>5 DEF Crash, HandlerTypes
  <2>4. WorkerTypes'
    BY <1>5 DEF Crash, WorkerTypes
  <2>5. QueueTypes' /\ ObsTypes'
    <3>1. queue' = <<>> /\ stopped' = FALSE
      BY <1>5 DEF Crash
    <3>2. QueueTypes'
      <4>1. queue' \in Seq(Requests)
        BY <3>1
      <4> QED BY Zenon, <3>1, <4>1 DEF QueueTypes
    <3>3. ObsTypes'
      <4>1. events' = [r \in Requests |-> <<>>] /\ metrics' = [m \in Statuses |-> 0]
        BY Zenon, <1>5 DEF Crash
      <4> QED BY <4>1 DEF ObsTypes
    <3> QED BY Zenon, <3>2, <3>3
  <2>6. StopTypes'
    BY <1>5, <2>1 DEF Crash, StopTypes
  <2>7. StoreTypes' /\ UserTypes'
    BY <1>5 DEF Crash, storeVars
  <2> QED BY Zenon, <2>2, <2>3, <2>4, <2>5, <2>6, <2>7, <2>8
<1> QED BY <1>1, <1>2, <1>3, <1>4, <1>5

\* Every step keeps the types.
LEMMA TypeStep ==
    ASSUME IInv, [Next]_vars
    PROVE  TypeOK'
<1>1. CASE UNCHANGED vars
  BY <1>1, TypeFrame DEF IInv, TypeOK, vars, storeVars, userVars, queueVars, handlerVars,
                         workerVars, poolVars, stopVars, envVars, obsVars
<1> QED BY Zenon, <1>1, HandlerType, WorkerType, PoolType, EnvType DEF IInv, Next

-----------------------------------------------------------------------------
(* What each process leaves alone *)

\* Only workers, Start and a crash change the workers' variables.
LEMMA WorkerFrame ==
    ASSUME [Next]_vars, ~Start, ~Crash, ~ \E p \in Procs : WorkerStep(p)
    PROVE  UNCHANGED workerVars
<1> USE DEF workerVars
<1>1. CASE UNCHANGED vars
  BY <1>1 DEF vars
<1>2. CASE \E r \in Requests : HandlerStep(r) \/ ClientCancels(r)
  BY Zenon, <1>2 DEF HandlerStep, ClientCancels, SaveJob, SaveJobFails, PublishQueuedJob,
              BeginEnqueue, Enqueue, EnqueueRejected, DeleteJobAfterFailedEnqueue
<1>3. CASE \E s \in Stoppers : StopStep(s) \/ StopDeadline(s)
  BY <1>3, Zenon DEF StopStep, StopDeadline, StopCall, StopCallIdle, StopCancel, StopPoll,
              StopWaitDone, StopTimesOut, CompleteStopRepair, CompleteStopRepeated,
              CompleteStopSettle
<1>4. CASE (\E e \in Emails : UserRequest(e)) \/ StopAccepting \/ Signal \/ ForeignRepair
  BY <1>4 DEF UserRequest, SyncCreateUser, FreeEmail, StopAccepting, Signal, ForeignRepair
<1> QED BY <1>1, <1>2, <1>3, <1>4 DEF Next

\* Only Start, Stop calls and a crash change the pool's and their variables.
LEMMA PoolFrame ==
    ASSUME [Next]_vars, ~Start, ~Crash,
           ~ \E s \in Stoppers : StopStep(s) \/ StopDeadline(s)
    PROVE  UNCHANGED <<poolVars, stopVars>>
<1> USE DEF poolVars, stopVars
<1>1. CASE UNCHANGED vars
  BY <1>1, SMTT(60), ZenonT(60) DEF vars
<1>2. CASE \E r \in Requests : HandlerStep(r) \/ ClientCancels(r)
  BY <1>2 DEF HandlerStep, ClientCancels, SaveJob, SaveJobFails, PublishQueuedJob,
              BeginEnqueue, Enqueue, EnqueueRejected, DeleteJobAfterFailedEnqueue
<1>3. CASE \E p \in Procs : WorkerStep(p)
  BY Zenon, <1>3 DEF WorkerStep, WorkerExits, ReceiveItem, CheckContext, ServiceCheck, Transit,
              TransitUnacknowledged, ServiceCallFails, AnnounceRunning, AnnounceTerminal,
              ExistsByEmail, SaveUser, CreateUserFails
<1>4. CASE (\E e \in Emails : UserRequest(e)) \/ StopAccepting \/ Signal \/ ForeignRepair
  BY <1>4 DEF UserRequest, SyncCreateUser, FreeEmail, StopAccepting, Signal, ForeignRepair
<1> QED BY <1>1, <1>2, <1>3, <1>4 DEF Next

\* Only handlers and a crash change the handlers' control state.
LEMMA HandlerFrame ==
    ASSUME [Next]_vars, ~Crash, ~ \E r \in Requests : HandlerStep(r)
    PROVE  UNCHANGED hpc
<1> USE DEF handlerVars
<1>1. CASE UNCHANGED vars
  BY <1>1 DEF vars
<1>2. CASE \E s \in Stoppers : StopStep(s) \/ StopDeadline(s)
  BY Zenon, <1>2 DEF StopStep, StopDeadline, StopCall, StopCallIdle, StopCancel, StopPoll,
              StopWaitDone, StopTimesOut, CompleteStopRepair, CompleteStopRepeated,
              CompleteStopSettle
<1>3. CASE \E p \in Procs : WorkerStep(p)
  BY <1>3, Zenon DEF WorkerStep, WorkerExits, ReceiveItem, CheckContext, ServiceCheck, Transit,
              TransitUnacknowledged, ServiceCallFails, AnnounceRunning, AnnounceTerminal,
              ExistsByEmail, SaveUser, CreateUserFails
<1>4. CASE \/ \E e \in Emails : UserRequest(e)
           \/ \E r \in Requests : ClientCancels(r)
           \/ Start \/ StopAccepting \/ Signal \/ ForeignRepair
  BY <1>4, Zenon DEF UserRequest, SyncCreateUser, FreeEmail, ClientCancels, Start,
     StopAccepting, Signal, ForeignRepair
<1> QED BY <1>1, <1>2, <1>3, <1>4 DEF Next

\* Only handlers, workers and a crash change the queue.
LEMMA QueueFrame ==
    ASSUME [Next]_vars, ~Crash, ~ \E p \in Procs : WorkerStep(p),
           ~ \E r \in Requests : HandlerStep(r)
    PROVE  UNCHANGED queue
<1> USE DEF queueVars
<1>1. CASE UNCHANGED vars
  BY Zenon, <1>1 DEF vars
<1>2. CASE \E s \in Stoppers : StopStep(s) \/ StopDeadline(s)
  BY Zenon, <1>2 DEF StopStep, StopDeadline, StopCall, StopCallIdle, StopCancel, StopPoll,
              StopWaitDone, StopTimesOut, CompleteStopRepair, CompleteStopRepeated,
              CompleteStopSettle
<1>3. CASE \/ \E e \in Emails : UserRequest(e)
           \/ \E r \in Requests : ClientCancels(r)
           \/ Start \/ StopAccepting \/ Signal \/ ForeignRepair
  BY <1>3 DEF UserRequest, SyncCreateUser, FreeEmail, ClientCancels, Start, StopAccepting,
         Signal, ForeignRepair
<1> QED BY <1>1, <1>2, <1>3 DEF Next

\* Outside the handlers a job changes only by a repository transition of a
\* worker or by FailActive.
LEMMA StoreFrame ==
    ASSUME [Next]_vars, ~ \E r \in Requests : HandlerStep(r)
    PROVE  \/ UNCHANGED status /\ UNCHANGED problem
           \/ FailActiveRows
           \/ \E p \in Procs : (Transit(p) \/ TransitUnacknowledged(p)) /\ RepoTransition(p)
<1> USE DEF storeVars
<1>1. CASE UNCHANGED vars
  BY Zenon, <1>1 DEF vars
<1>2. CASE \E s \in Stoppers : StopStep(s) \/ StopDeadline(s)
  BY ZenonT(60), <1>2 DEF StopStep, StopDeadline, StopCall, StopCallIdle, StopCancel, StopPoll,
              StopWaitDone, StopTimesOut, CompleteStopRepair, CompleteStopRepeated,
              CompleteStopSettle
<1>3. CASE \E p \in Procs : WorkerStep(p)
  BY ZenonT(60), <1>3 DEF WorkerStep, WorkerExits, ReceiveItem, CheckContext, ServiceCheck,
              Transit, TransitUnacknowledged, ServiceCallFails, AnnounceRunning,
              AnnounceTerminal, ExistsByEmail, SaveUser, CreateUserFails
<1>4. CASE \/ \E e \in Emails : UserRequest(e)
           \/ \E r \in Requests : ClientCancels(r)
           \/ Start \/ StopAccepting \/ Signal \/ ForeignRepair \/ Crash
  BY Zenon, <1>4 DEF UserRequest, SyncCreateUser, FreeEmail, ClientCancels, Start,
     StopAccepting, Signal, ForeignRepair, Crash
<1> QED BY <1>1, <1>2, <1>3, <1>4 DEF Next

\* What a handler's step does: it starts before the job is accepted, accepts
\* it only by an Enqueue, and leaves the other handlers alone.
LEMMA HandlerEffect ==
    ASSUME TypeOK, NEW r \in Requests, HandlerStep(r)
    PROVE  /\ hpc[r] # "accepted"
           /\ \A q \in Requests \ {r} : hpc'[q] = hpc[q] /\ status'[q] = status[q]
           /\ UNCHANGED workerVars
           /\ \/ Enqueue(r)
              \/ UNCHANGED queue /\ hpc'[r] # "accepted"
<1> USE DEF storeVars, queueVars, StoreTypes, HandlerTypes
<1>0. StoreTypes /\ HandlerTypes
  BY SMTT(60) DEF TypeOK
<1>1. CASE \/ SaveJob(r) \/ PublishQueuedJob(r) \/ BeginEnqueue(r)
           \/ Enqueue(r) \/ EnqueueRejected(r)
  BY <1>0, <1>1 DEF SaveJob, PublishQueuedJob, BeginEnqueue, Enqueue, EnqueueRejected
<1>2. CASE SaveJobFails(r)
  BY <1>0, <1>2 DEF SaveJobFails
<1>3. CASE DeleteJobAfterFailedEnqueue(r)
  BY Zenon, <1>0, <1>3 DEF DeleteJobAfterFailedEnqueue
<1> QED BY <1>1, <1>2, <1>3, Zenon DEF HandlerStep

\* What a worker's step does to its own variables: it is alive before, it
\* takes an item only from the queue, and the other workers are untouched.
LEMMA WorkerEffect ==
    ASSUME TypeOK, NEW p \in Procs, WorkerStep(p)
    PROVE  /\ wpc[p] \notin {"unborn", "exited"} /\ wpc'[p] # "unborn"
           /\ \A q \in Procs \ {p} : /\ wpc'[q] = wpc[q] /\ witem'[q] = witem[q]
                                    /\ wintent'[q] = wintent[q]
           /\ \/ ReceiveItem(p)
              \/ UNCHANGED queue /\ witem'[p] \in {witem[p], Nil}
<1> USE DEF queueVars, WorkerTypes
<1>0. WorkerTypes
  BY DEF TypeOK
<1>1. CASE WorkerExits(p) \/ ReceiveItem(p) \/ ServiceCheck(p) \/ Transit(p) \/ AnnounceRunning(p)
  BY Zenon, <1>0, <1>1 DEF WorkerExits, ReceiveItem, ServiceCheck, Transit, RepoTransition,
     AnnounceRunning
<1>2. CASE CheckContext(p) \/ ExistsByEmail(p) \/ SaveUser(p) \/ CreateUserFails(p)
  BY <1>0, <1>2, ZenonT(40) DEF CheckContext, ExistsByEmail, SaveUser, CreateUserFails, Call
<1>3. CASE TransitUnacknowledged(p) \/ ServiceCallFails(p) \/ AnnounceTerminal(p)
  BY <1>0, <1>3 DEF TransitUnacknowledged, RepoTransition, ServiceCallFails, AnnounceTerminal,
     DropItem
<1> QED BY <1>1, <1>2, <1>3, Zenon DEF WorkerStep

-----------------------------------------------------------------------------
(* The shapes are inductive *)

\* Worker goroutines are pairs of a generation and a slot.
LEMMA ProcPairs ==
    /\ \A p \in Procs : p[1] \in Gens /\ p[2] \in Workers /\ p = <<p[1], p[2]>>
    /\ \A g \in Gens, w \in Workers : <<g, w>> \in Procs /\ <<g, w>>[1] = g
BY DEF Procs

\* The workers of a finished generation have exited ...
LEMMA DoneExited ==
    ASSUME NEW p \in Procs, GenDone(p[1])
    PROVE  wpc[p] = "exited"
BY ProcPairs DEF GenDone

\* ... and those of the next one are not born.
LEMMA NextUnborn ==
    ASSUME PoolTypes, PoolShape, NEW p \in Procs, p[1] = ngen + 1
    PROVE  wpc[p] = "unborn"
<1>1. p[1] > ngen
  BY DEF PoolTypes
<1> QED BY <1>1 DEF PoolShape

\* Every step keeps the shape of the workers.
LEMMA WorkerShapeStep ==
    ASSUME IInv, [Next]_vars
    PROVE  WorkerShape'
<1>0. TypeOK /\ WorkerTypes /\ QueueTypes /\ WorkerShape /\ PoolShape
  BY Zenon DEF IInv, TypeOK
<1>1. CASE \E p \in Procs : WorkerStep(p)
  <2> PICK p \in Procs : WorkerStep(p)
    BY <1>1
  <2>1. \A q \in Procs \ {p} : /\ wpc'[q] = wpc[q] /\ witem'[q] = witem[q]
                              /\ wintent'[q] = wintent[q]
    BY <1>0, WorkerEffect, Zenon
  <2>0. /\ witem[p] # Nil <=>
             wpc[p] \in {"received", "check", "cas", "announce", "exists", "save"}
        /\ wpc[p] \in {"check", "cas", "announce"} => wintent[p] # "none"
    BY <1>0, ZenonT(40) DEF WorkerShape
  <2> SUFFICES /\ witem'[p] # Nil <=>
                    wpc'[p] \in {"received", "check", "cas", "announce", "exists", "save"}
               /\ wpc'[p] \in {"check", "cas", "announce"} => wintent'[p] # "none"
    BY <1>0, <2>1 DEF WorkerShape
  <2>2. CASE WorkerExits(p)
    BY <1>0, <2>0, <2>2 DEF WorkerExits, WorkerTypes
  <2>3. CASE ServiceCheck(p)
    BY <1>0, <2>0, <2>3 DEF ServiceCheck, WorkerTypes
  <2>4. CASE Transit(p)
    BY <1>0, <2>0, <2>4 DEF Transit, RepoTransition, WorkerTypes
  <2>5. CASE AnnounceRunning(p)
    BY <1>0, <2>0, <2>5, SMTT(60) DEF AnnounceRunning, WorkerTypes
  <2>6. CASE ReceiveItem(p)
    <3>1. Head(queue) \in Requests
      BY <1>0, <2>6 DEF ReceiveItem, QueueTypes
    <3>2. wpc'[p] = "received" /\ witem'[p] = Head(queue)
      BY <1>0, <2>6 DEF ReceiveItem, WorkerTypes
    <3> QED BY <3>1, <3>2, PipelineAssumption
  <2>7. CASE CheckContext(p)
    BY Zenon, <1>0, <2>0, <2>7 DEF CheckContext, Call, WorkerTypes
  <2>8. CASE ExistsByEmail(p)
    <3>1. wpc[p] = "exists" /\ UNCHANGED witem /\ p \in DOMAIN wpc /\ p \in DOMAIN wintent
      BY Zenon, <1>0, <2>8 DEF ExistsByEmail, Call, WorkerTypes
    <3>2. \/ wpc'[p] = "check" /\ wintent'[p] = "fail"
          \/ wpc'[p] = "save"
      BY <2>8, <3>1, Zenon DEF ExistsByEmail, Call
    <3> QED BY <2>0, <3>1, <3>2
  <2>9. CASE SaveUser(p)
    BY <1>0, <2>0, <2>9, Zenon DEF SaveUser, Call, WorkerTypes
  <2>10. CASE CreateUserFails(p)
    BY <1>0, <2>0, <2>10, Zenon DEF CreateUserFails, Call, WorkerTypes
  <2>11. CASE TransitUnacknowledged(p) \/ ServiceCallFails(p) \/ AnnounceTerminal(p)
    <3>1. DropItem(p)
      BY <2>11, Zenon DEF TransitUnacknowledged, ServiceCallFails, AnnounceTerminal
    <3>2. witem'[p] = Nil /\ wpc'[p] \in {"exited", "select"}
      BY Zenon, <1>0, <3>1 DEF DropItem, WorkerTypes
    <3> QED BY Zenon, <3>2
  <2> QED BY <2>2, <2>3, <2>4, <2>5, <2>6, <2>7, <2>8, <2>9, <2>10, <2>11, Zenon DEF WorkerStep
<1>2. CASE Start
  <2>1. \A p \in Procs : p[1] = ngen + 1 => wpc[p] = "unborn"
    BY NextUnborn DEF IInv, TypeOK
  <2>2. \A p \in Procs : wpc'[p] = IF p[1] = ngen + 1 THEN "select" ELSE wpc[p]
    BY <1>2 DEF Start
  <2>3. UNCHANGED <<witem, wintent>>
    BY <1>2 DEF Start
  <2> QED BY <1>0, <2>1, <2>2, <2>3 DEF WorkerShape
<1>3. CASE Crash
  <2>1. \A p \in Procs : witem'[p] = Nil /\ wpc'[p] \in {"unborn", "exited"}
    BY <1>3 DEF Crash
  <2> QED BY <2>1 DEF WorkerShape
<1>4. CASE ~Start /\ ~Crash /\ ~ \E p \in Procs : WorkerStep(p)
  <2>1. UNCHANGED workerVars
    BY <1>4, WorkerFrame
  <2> QED BY <1>0, <2>1 DEF workerVars, WorkerShape
<1> QED BY <1>1, <1>2, <1>3, <1>4

\* A Stop call that settles found all workers gone.
LEMMA StopSettled ==
    ASSUME StopShape, NEW s \in Stoppers, spc[s] = "settle"
    PROVE  GenDone(sgen[s])
BY DEF StopShape, StopPromise

\* Every step keeps the shape of the generations.
LEMMA PoolShapeStep ==
    ASSUME IInv, [Next]_vars
    PROVE  PoolShape'
<1>0. TypeOK /\ PoolShape /\ cur \in 0 .. MaxGen /\ ngen \in 0 .. MaxGen
  BY DEF IInv, TypeOK, PoolTypes
<1>1. CASE \E p \in Procs : WorkerStep(p)
  <2> PICK p \in Procs : WorkerStep(p)
    BY <1>1
  <2>1. wpc[p] \notin {"unborn", "exited"} /\ wpc'[p] # "unborn"
    BY <1>0, WorkerEffect
  <2>2. \A q \in Procs \ {p} : wpc'[q] = wpc[q]
    BY <1>0, WorkerEffect
  <2>3. UNCHANGED <<cur, ngen, stopping>>
    BY Zenon DEF WorkerStep, WorkerExits, ReceiveItem, CheckContext, ServiceCheck, Transit,
           TransitUnacknowledged, ServiceCallFails, AnnounceRunning, AnnounceTerminal,
           ExistsByEmail, SaveUser, CreateUserFails, poolVars
  <2>4. \A q \in Procs : /\ wpc'[q] = "unborn" <=> q[1] > ngen
                         /\ q[1] # cur => wpc'[q] \in {"unborn", "exited"}
    BY <1>0, <2>1, <2>2 DEF PoolShape
  <2> QED BY <1>0, <2>3, <2>4, Zenon DEF PoolShape
<1>2. CASE Start
  <2>1. \A p \in Procs : wpc[p] \in {"unborn", "exited"}
    <3> SUFFICES ASSUME NEW p \in Procs, p[1] = cur PROVE wpc[p] = "exited"
      BY <1>0 DEF PoolShape
    <3>1. cur # 0
      BY ProcPairs DEF Gens
    <3>2. GenDone(cur)
      BY <1>2, <3>1, Zenon DEF Start, SettledGeneration
    <3> QED BY <3>2, DoneExited
  <2>2. cur' = ngen + 1 /\ ngen' = ngen + 1 /\ stopping' = FALSE
    BY <1>2, Zenon DEF Start
  <2>3. \A p \in Procs : wpc'[p] = IF p[1] = ngen + 1 THEN "select" ELSE wpc[p]
    BY <1>2 DEF Start
  <2>4. \A p \in Procs : wpc[p] = "unborn" <=> p[1] > ngen
    BY <1>0 DEF PoolShape
  <2>5. \A p \in Procs : p[1] \in Nat
    BY ProcPairs DEF Gens
  <2>6. \A p \in Procs : /\ wpc'[p] = "unborn" <=> p[1] > ngen + 1
                         /\ p[1] # ngen + 1 => wpc'[p] \in {"unborn", "exited"}
    BY <1>0, <2>1, <2>3, <2>4, <2>5
  <2>7. ngen + 1 # 0 /\ ngen + 1 <= ngen + 1
    BY <1>0
  <2> QED BY <2>2, <2>6, <2>7, Zenon DEF PoolShape
<1>3. CASE Crash
  <2>1. cur' = 0 /\ ngen' = ngen /\ stopping' = FALSE
    BY <1>3, Zenon DEF Crash
  <2>2. \A p \in Procs : wpc'[p] = IF wpc[p] = "unborn" THEN "unborn" ELSE "exited"
    BY <1>3 DEF Crash
  <2>3. \A p \in Procs : /\ wpc'[p] = "unborn" <=> p[1] > ngen
                         /\ wpc'[p] \in {"unborn", "exited"}
    BY <1>0, <2>2 DEF PoolShape
  <2>4. 0 <= ngen
    BY <1>0
  <2> QED BY <2>1, <2>3, <2>4, Zenon DEF PoolShape
<1>4. CASE \E s \in Stoppers : StopStep(s) \/ StopDeadline(s)
  <2> PICK s \in Stoppers : StopStep(s) \/ StopDeadline(s)
    BY Zenon, <1>4
  <2>0. UNCHANGED <<ngen, wpc>>
    BY Zenon DEF StopStep, StopDeadline, StopCall, StopCallIdle, StopCancel, StopPoll,
       StopWaitDone, StopTimesOut, CompleteStopRepair, CompleteStopRepeated, CompleteStopSettle,
       poolVars, workerVars
  <2>1. CASE CompleteStopSettle(s) /\ cur = sgen[s]
    <3>1. GenDone(cur)
      BY Zenon, <2>1, StopSettled DEF CompleteStopSettle, IInv
    <3>2. cur' = 0 /\ stopping' = FALSE
      BY <2>1, Zenon DEF CompleteStopSettle
    <3>3. \A p \in Procs : wpc[p] \in {"unborn", "exited"}
      BY <1>0, <3>1, DoneExited DEF PoolShape
    <3>4. 0 <= ngen
      BY <1>0
    <3> QED BY <1>0, <2>0, <3>2, <3>3, <3>4, Zenon DEF PoolShape
  <2>2. CASE ~(CompleteStopSettle(s) /\ cur = sgen[s])
    <3>1. cur' = cur /\ (stopping' => stopping \/ cur # 0)
      <4>1. StopCall(s) => cur' = cur /\ cur # 0
        BY DEF StopCall
      <4>2. CompleteStopSettle(s) => UNCHANGED <<cur, stopping>>
        BY <2>2, Zenon DEF CompleteStopSettle
      <4>3. StopStep(s) \/ StopDeadline(s) =>
                StopCall(s) \/ CompleteStopSettle(s) \/ UNCHANGED <<cur, stopping>>
        BY Zenon DEF StopStep, StopDeadline, StopCallIdle, StopCancel, StopPoll, StopWaitDone,
               StopTimesOut, CompleteStopRepair, CompleteStopRepeated, poolVars
      <4> QED BY <4>1, <4>2, <4>3
    <3> QED BY <1>0, <2>0, <3>1, Zenon DEF PoolShape
  <2> QED BY <2>1, <2>2
<1>5. CASE /\ ~Start /\ ~Crash /\ ~ \E p \in Procs : WorkerStep(p)
           /\ ~ \E s \in Stoppers : StopStep(s) \/ StopDeadline(s)
  <2>1. UNCHANGED <<workerVars, poolVars>>
    BY <1>5, WorkerFrame, PoolFrame
  <2> QED BY Zenon, <1>0, <2>1 DEF workerVars, poolVars, PoolShape
<1> QED BY <1>1, <1>2, <1>3, <1>4, <1>5

\* A Stop call at rest keeps its promise when nobody takes its generation
\* away before the repair and no worker comes back to life.
LEMMA StopKept ==
    ASSUME NEW s \in Stoppers, StopPromise(s),
           spc'[s] = spc[s], sgen'[s] = sgen[s],
           sgen[s] \in 1 .. ngen => sgen[s] \in 1 .. ngen',
           outcome'[sgen[s]] = "none" =>
               outcome[sgen[s]] = "none" /\ (cur = sgen[s] /\ stopping => cur' = sgen[s] /\ stopping'),
           GenDone(sgen[s]) => GenDone(sgen[s])'
    PROVE  StopPromise(s)'
BY Zenon DEF StopPromise

\* A Stop call's step leaves the workers and the other Stop calls alone.
LEMMA StopEffect ==
    ASSUME StopTypes, NEW s \in Stoppers, StopStep(s) \/ StopDeadline(s)
    PROVE  /\ UNCHANGED ngen /\ UNCHANGED workerVars
           /\ \A t \in Stoppers \ {s} : spc'[t] = spc[t] /\ sgen'[t] = sgen[t]
<1>1. UNCHANGED ngen /\ UNCHANGED workerVars
  BY Zenon DEF StopStep, StopDeadline, StopCall, StopCallIdle, StopCancel, StopPoll,
     StopWaitDone, StopTimesOut, CompleteStopRepair, CompleteStopRepeated, CompleteStopSettle,
     poolVars
<1>2. /\ \E x : spc' = [spc EXCEPT ![s] = x]
      /\ UNCHANGED sgen \/ sgen' = [sgen EXCEPT ![s] = cur]
  <2>1. CASE StopDeadline(s)
    <3>1. spc' = [spc EXCEPT ![s] = spc[s]] /\ UNCHANGED sgen
      BY <2>1 DEF StopDeadline, StopTypes
    <3> QED BY <3>1, Zenon
  <2>2. CASE StopStep(s)
    BY Zenon, <2>2 DEF StopStep, StopCall, StopCallIdle, StopCancel, StopPoll, StopWaitDone,
       StopTimesOut, CompleteStopRepair, CompleteStopRepeated, CompleteStopSettle, Return
  <2> QED BY <2>1, <2>2
<1>3. \A t \in Stoppers \ {s} : spc'[t] = spc[t] /\ sgen'[t] = sgen[t]
  BY <1>2 DEF StopTypes
<1> QED BY Zenon, <1>1, <1>3

\* What a Stop call's step does to the generation it acts on.
LEMMA StopOutcomes ==
    ASSUME IInv, NEW s \in Stoppers, StopStep(s) \/ StopDeadline(s), NEW g \in Gens,
           outcome'[g] = "none"
    PROVE  /\ outcome[g] = "none"
           /\ cur = g /\ stopping => cur' = g /\ stopping'
<1>0. /\ outcome \in [Gens -> {"none", "ok", "err"}]
      /\ spc[s] \in {"repair", "settle"} => sgen[s] \in Gens
      /\ spc[s] = "settle" => outcome[sgen[s]] # "none"
  BY StopGen, ZenonT(40) DEF IInv, TypeOK, PoolTypes, StopShape, StopPromise
<1>1. CASE CompleteStopRepair(s)
  <2>1. \E o \in {"ok", "err"} : outcome' = [outcome EXCEPT ![sgen[s]] = o]
    BY <1>1, Zenon DEF CompleteStopRepair
  <2>2. outcome[g] = "none"
    BY <1>0, <2>1
  <2>3. cur' = cur /\ stopping' = stopping
    BY <1>1, Zenon DEF CompleteStopRepair
  <2> QED BY <2>2, <2>3, Zenon
<1>2. CASE CompleteStopSettle(s)
  <2>1. outcome' = outcome /\ outcome[sgen[s]] # "none"
    BY <1>0, <1>2, Zenon DEF CompleteStopSettle
  <2>2. cur = g => cur' = cur /\ stopping' = stopping
    BY <1>2, <2>1, Zenon DEF CompleteStopSettle
  <2>3. cur = g /\ stopping => cur' = g /\ stopping'
    BY <2>2
  <2>4. outcome[g] = "none"
    BY <2>1
  <2> QED BY <2>3, <2>4, Zenon
<1>3. CASE StopCall(s)
  <2>1. UNCHANGED <<cur, outcome>> /\ stopping' = TRUE
    BY <1>3, Zenon DEF StopCall
  <2> QED BY <2>1
<1>4. CASE /\ ~CompleteStopRepair(s) /\ ~CompleteStopSettle(s) /\ ~StopCall(s)
  <2>1. UNCHANGED <<cur, stopping, outcome>>
    BY <1>4, Zenon DEF StopStep, StopDeadline, StopCallIdle, StopCancel, StopPoll, StopWaitDone,
                StopTimesOut, CompleteStopRepeated, poolVars
  <2> QED BY Zenon, <2>1
<1> QED BY Zenon, <1>1, <1>2, <1>3, <1>4

\* A Stop call's own step establishes what its next control state promises.
LEMMA StopOwnStep ==
    ASSUME IInv, NEW s \in Stoppers, StopStep(s) \/ StopDeadline(s)
    PROVE  StopPromise(s)'
<1>0. /\ spc \in [Stoppers -> {"idle", "cancel", "poll", "wait", "repair", "settle", "returned"}]
      /\ sgen \in [Stoppers -> 0 .. MaxGen]
      /\ StopPromise(s)
  BY DEF IInv, TypeOK, StopTypes, StopShape
<1>1. UNCHANGED ngen /\ \A g : GenDone(g)' <=> GenDone(g)
  <2>1. UNCHANGED ngen /\ UNCHANGED wpc
    BY StopEffect DEF IInv, TypeOK, workerVars
  <2> QED BY <2>1, SMTT(60) DEF GenDone
<1>2. CASE StopCall(s)
  <2>1. /\ spc'[s] \in {"poll", "cancel"} /\ sgen'[s] = cur
        /\ cur' = cur /\ cur # 0 /\ stopping' = TRUE
    BY <1>0, <1>2 DEF StopCall
  <2>2. cur \in 1 .. ngen
    <3>1. cur \in 0 .. MaxGen /\ ngen \in 0 .. MaxGen /\ cur <= ngen
      BY Zenon DEF IInv, TypeOK, PoolTypes, PoolShape
    <3> QED BY <2>1, <3>1, PipelineAssumption, SMTT(60)
  <2> QED BY <1>1, <2>1, <2>2 DEF StopPromise
<1>3. CASE StopCallIdle(s) \/ StopTimesOut(s) \/ CompleteStopSettle(s)
  <2>1. spc'[s] = "returned"
    BY <1>0, <1>3 DEF StopCallIdle, StopTimesOut, CompleteStopSettle, Return
  <2> QED BY <2>1 DEF StopPromise
<1>4. CASE StopDeadline(s)
  <2>1. UNCHANGED <<spc, sgen, cur, stopping, outcome>>
    BY <1>4 DEF StopDeadline, poolVars
  <2> QED BY <1>0, <1>1, <2>1, Zenon DEF StopPromise
<1>5. CASE StopCancel(s) \/ StopPoll(s) \/ StopWaitDone(s) \/ CompleteStopRepeated(s)
  <2>1. /\ spc[s] \in {"cancel", "poll", "wait", "repair"} /\ sgen'[s] = sgen[s]
        /\ UNCHANGED <<cur, stopping, outcome>>
    BY <1>5, Zenon DEF StopCancel, StopPoll, StopWaitDone, CompleteStopRepeated, poolVars
  <2>2. /\ spc'[s] \in {"repair", "settle"} => GenDone(sgen[s])
        /\ spc'[s] = "settle" => outcome[sgen[s]] # "none"
    <3>1. CASE StopCancel(s)
      BY <1>0, <3>1 DEF StopCancel
    <3>2. CASE StopPoll(s)
      BY <1>0, <3>2 DEF StopPoll
    <3>3. CASE StopWaitDone(s)
      BY <1>0, <3>3 DEF StopWaitDone
    <3>4. CASE CompleteStopRepeated(s)
      BY <1>0, <3>4 DEF CompleteStopRepeated, StopPromise
    <3> QED BY Zenon, <1>5, <3>1, <3>2, <3>3, <3>4
  <2> QED BY <1>0, <1>1, <2>1, <2>2, Zenon DEF StopPromise
<1>6. CASE CompleteStopRepair(s)
  <2>1. PICK o \in {"ok", "err"} : outcome' = [outcome EXCEPT ![sgen[s]] = o]
    BY <1>6, Zenon DEF CompleteStopRepair
  <2>2. spc[s] = "repair" /\ spc'[s] = "settle" /\ sgen'[s] = sgen[s]
    BY <1>0, <1>6 DEF CompleteStopRepair
  <2>3. outcome'[sgen[s]] # "none"
    <3>1. sgen[s] \in Gens /\ outcome \in [Gens -> {"none", "ok", "err"}]
      BY <2>2, StopGen DEF IInv, TypeOK, PoolTypes
    <3> QED BY Zenon, <2>1, <3>1
  <2> QED BY <1>0, <1>1, <2>2, <2>3, Zenon DEF StopPromise
<1> QED BY <1>2, <1>3, <1>4, <1>5, <1>6 DEF StopStep

\* Every step keeps what the Stop calls rely on.
LEMMA StopShapeStep ==
    ASSUME IInv, [Next]_vars
    PROVE  StopShape'
<1> SUFFICES ASSUME NEW t \in Stoppers PROVE StopPromise(t)'
  BY DEF StopShape
<1>0. StopPromise(t) /\ TypeOK
  BY DEF IInv, StopShape
<1>1. CASE \E p \in Procs : WorkerStep(p)
  <2> PICK p \in Procs : WorkerStep(p)
    BY <1>1
  <2>1. UNCHANGED <<poolVars, stopVars>>
    BY Zenon DEF WorkerStep, WorkerExits, ReceiveItem, CheckContext, ServiceCheck, Transit,
           TransitUnacknowledged, ServiceCallFails, AnnounceRunning, AnnounceTerminal,
           ExistsByEmail, SaveUser, CreateUserFails
  <2>2. \A g \in Gens : GenDone(g) => GenDone(g)'
    <3>1. wpc[p] # "exited" /\ \A q \in Procs \ {p} : wpc'[q] = wpc[q]
      BY Zenon, <1>0, WorkerEffect
    <3> QED BY <3>1, ProcPairs DEF GenDone
  <2>3. UNCHANGED <<spc, sgen, cur, ngen, stopping, outcome>>
    BY <2>1 DEF poolVars, stopVars
  <2>4. CASE spc[t] \in {"cancel", "poll", "wait", "repair", "settle"}
    <3>1. sgen[t] \in Gens
      BY <2>4, StopGen DEF IInv, TypeOK
    <3> QED BY Zenon, <1>0, <2>2, <2>3, <3>1, StopKept
  <2>5. CASE spc[t] \notin {"cancel", "poll", "wait", "repair", "settle"}
    BY Zenon, <2>3, <2>5 DEF StopPromise
  <2> QED BY <2>4, <2>5
<1>2. CASE Start
  <2>0. ngen \in Nat
    BY <1>0 DEF TypeOK, PoolTypes
  <2>1. UNCHANGED <<spc, sgen, outcome>> /\ ngen' = ngen + 1
    BY Zenon, <1>2 DEF Start, stopVars
  <2>2. CASE spc[t] \in {"cancel", "poll", "wait", "repair", "settle"}
    <3>1. sgen[t] \in Gens /\ sgen[t] \in 1 .. ngen
      BY <1>0, <2>2, StopGen DEF IInv, TypeOK, StopPromise
    <3>2. outcome[sgen[t]] # "none"
      <4>1. ~(cur # 0 /\ stopping)
        BY <1>2, Zenon DEF Start, SettledGeneration
      <4>2. stopping => cur # 0
        BY DEF IInv, PoolShape
      <4> QED BY <1>0, <2>2, <4>1, <4>2, Zenon DEF StopPromise
    <3>3. GenDone(sgen[t]) => GenDone(sgen[t])'
      <4> SUFFICES ASSUME GenDone(sgen[t]), NEW w \in Workers
                   PROVE  wpc'[<<sgen[t], w>>] = "exited"
        BY <2>1 DEF GenDone
      <4>1. <<sgen[t], w>> \in Procs /\ <<sgen[t], w>>[1] # ngen + 1
        <5>1. <<sgen[t], w>> \in Procs /\ <<sgen[t], w>>[1] = sgen[t]
          BY <3>1, ProcPairs, Zenon
        <5>2. sgen[t] # ngen + 1
          BY <2>0, <3>1, SMTT(60)
        <5> QED BY <5>1, <5>2
      <4>2. \A p \in Procs : p[1] # ngen + 1 => wpc'[p] = wpc[p]
        BY <1>2 DEF Start
      <4> QED BY <4>1, <4>2 DEF GenDone
    <3>4. sgen[t] \in 1 .. ngen'
      BY <2>0, <2>1, <3>1
    <3> QED BY Zenon, <1>0, <2>1, <3>2, <3>3, <3>4, StopKept
  <2>3. CASE spc[t] \notin {"cancel", "poll", "wait", "repair", "settle"}
    BY <2>1, <2>3 DEF StopPromise
  <2> QED BY <2>2, <2>3
<1>3. CASE Crash
  <2>1. spc'[t] = "idle"
    BY <1>3 DEF Crash
  <2> QED BY <2>1 DEF StopPromise
<1>4. CASE \E s \in Stoppers : StopStep(s) \/ StopDeadline(s)
  <2> PICK s \in Stoppers : StopStep(s) \/ StopDeadline(s)
    BY <1>4
  <2>1. CASE t = s
    BY <2>1, StopOwnStep
  <2>2. CASE t # s
    <3>1. spc'[t] = spc[t] /\ sgen'[t] = sgen[t] /\ UNCHANGED ngen /\ UNCHANGED wpc
      BY Zenon, <1>0, <2>2, StopEffect DEF TypeOK, workerVars
    <3>2. CASE spc[t] \in {"cancel", "poll", "wait", "repair", "settle"}
      <4>1. sgen[t] \in Gens
        BY Zenon, <3>2, StopGen DEF IInv, TypeOK
      <4>2. outcome'[sgen[t]] = "none" =>
                /\ outcome[sgen[t]] = "none"
                /\ cur = sgen[t] /\ stopping => cur' = sgen[t] /\ stopping'
        BY <4>1, StopOutcomes
      <4>3. GenDone(sgen[t]) => GenDone(sgen[t])'
        BY Zenon, <3>1 DEF GenDone
      <4> QED BY <1>0, <3>1, <4>2, <4>3, StopKept, Zenon
    <3>3. CASE spc[t] \notin {"cancel", "poll", "wait", "repair", "settle"}
      BY Zenon, <3>1, <3>3 DEF StopPromise
    <3> QED BY Zenon, <3>2, <3>3
  <2> QED BY <2>1, <2>2
<1>5. CASE /\ ~Start /\ ~Crash /\ ~ \E p \in Procs : WorkerStep(p)
           /\ ~ \E s \in Stoppers : StopStep(s) \/ StopDeadline(s)
  <2>1. UNCHANGED <<workerVars, poolVars, stopVars>>
    BY <1>5, WorkerFrame, PoolFrame
  <2>2. UNCHANGED <<wpc, spc, sgen, cur, ngen, stopping, outcome>>
    BY <2>1 DEF workerVars, poolVars, stopVars
  <2>3. GenDone(sgen[t]) => GenDone(sgen[t])'
    BY <2>2 DEF GenDone
  <2> QED BY <1>0, <2>2, <2>3, StopKept
<1> QED BY <1>1, <1>2, <1>3, <1>4, <1>5

-----------------------------------------------------------------------------
(* Items and stored jobs *)

\* What a queue holds are requests, never the worker's "no item".
LEMMA ItemsAreRequests ==
    ASSUME NEW q \in Seq(Requests)
    PROVE  Nil \notin Requests /\ \A i \in 1 .. Len(q) : q[i] \in Requests
BY PipelineAssumption

\* What a worker receives is the first of the queue, and the others move up.
LEMMA QueueParts ==
    ASSUME NEW q \in Seq(Requests), q # <<>>, NEW rest, rest = Tail(q)
    PROVE  /\ Head(q) = q[1] /\ 1 \in 1 .. Len(q)
           /\ \A i \in 1 .. Len(rest) :
                 rest[i] = q[i + 1] /\ i + 1 \in 1 .. Len(q) /\ i + 1 # 1
OBVIOUS

\* Every step keeps work items in one place.
LEMMA ItemShapeStep ==
    ASSUME IInv, [Next]_vars
    PROVE  ItemShape'
<1> USE DEF ItemShape, ItemInOnePlace
<1>0. TypeOK /\ WorkerShape /\ ItemShape
  BY SMTT(60), ZenonT(60) DEF IInv
<1>t. queue \in Seq(Requests) /\ witem \in [Procs -> Requests \cup {Nil}]
  BY <1>0 DEF TypeOK, QueueTypes, WorkerTypes
<1>1. CASE \E p \in Procs : WorkerStep(p)
  <2> PICK p \in Procs : WorkerStep(p)
    BY <1>1
  <2>1. \A q \in Procs \ {p} : witem'[q] = witem[q]
    BY <1>0, WorkerEffect, Zenon
  <2>2. UNCHANGED hpc
    BY Zenon, <1>1 DEF WorkerStep, WorkerExits, ReceiveItem, CheckContext, ServiceCheck,
       Transit, TransitUnacknowledged, ServiceCallFails, AnnounceRunning, AnnounceTerminal,
       ExistsByEmail, SaveUser, CreateUserFails, handlerVars
  <2>3. CASE ReceiveItem(p)
    <3>0. queue # <<>> /\ queue' = Tail(queue) /\ witem'[p] = Head(queue)
      BY <1>t, <2>3, Zenon DEF ReceiveItem
    <3>1. witem'[p] = queue[1]
      BY <1>t, <3>0, QueueParts, Zenon
    <3>2. \A i \in 1 .. Len(queue') : queue'[i] = queue[i + 1]
      BY <1>t, <3>0, QueueParts, Zenon
    <3>3. \A i \in 1 .. Len(queue') : i + 1 \in 1 .. Len(queue) /\ i + 1 # 1
      BY <1>t, <3>0, QueueParts, Zenon
    <3>4. 1 \in 1 .. Len(queue) /\ \A i \in 1 .. Len(queue) : queue[i] \in Requests
      BY <1>t, <3>0, QueueParts, ItemsAreRequests, Zenon
    <3>5. \A i, j \in 1 .. Len(queue') : queue'[i] = queue'[j] => i = j
      <4> SUFFICES ASSUME NEW i \in 1 .. Len(queue'), NEW j \in 1 .. Len(queue'),
                          queue'[i] = queue'[j]
                   PROVE  i = j
        OBVIOUS
      <4>1. queue[i + 1] = queue[j + 1]
        BY <3>2
      <4>2. i + 1 = j + 1
        BY <1>0, <3>3, <4>1, Zenon
      <4> QED BY <4>2
    <3>6. \A q \in Procs : \A i \in 1 .. Len(queue') : witem'[q] # queue'[i]
      <4> SUFFICES ASSUME NEW q \in Procs, NEW i \in 1 .. Len(queue')
                   PROVE  witem'[q] # queue[i + 1]
        BY <3>2, ZenonT(40)
      <4>1. CASE q = p
        BY <1>0, <3>1, <3>3, <3>4, <4>1
      <4>2. CASE q # p
        BY <1>0, <2>1, <3>3, <4>2, SMTT(60), ZenonT(60)
      <4> QED BY <4>1, <4>2
    <3>7. \A q, q2 \in Procs : witem'[q] = witem'[q2] /\ witem'[q] # Nil => q = q2
      <4> SUFFICES ASSUME NEW q \in Procs, NEW q2 \in Procs, witem'[q] = witem'[q2],
                          witem'[q] # Nil
                   PROVE  q = q2
        BY Zenon
      <4>1. CASE q # p /\ q2 # p
        BY <1>0, <2>1, <4>1, Zenon
      <4>2. CASE q = p /\ q2 # p
        <5>1. witem[q2] = queue[1]
          BY <2>1, <3>1, <4>2, Zenon
        <5> QED BY <1>0, <3>4, <5>1, Zenon
      <4>3. CASE q # p /\ q2 = p
        <5>1. witem[q] = queue[1]
          BY <2>1, <3>1, <4>3, Zenon
        <5> QED BY <1>0, <3>4, <5>1, Zenon
      <4> QED BY <4>1, <4>2, <4>3, Zenon
    <3>8. \A i \in 1 .. Len(queue') : hpc[queue'[i]] = "accepted"
      <4> SUFFICES ASSUME NEW i \in 1 .. Len(queue') PROVE hpc[queue[i + 1]] = "accepted"
        BY <3>2, ZenonT(40)
      <4> QED BY <1>0, <3>3, ZenonT(40)
    <3>9. \A q \in Procs : witem'[q] # Nil => hpc[witem'[q]] = "accepted"
      <4>1. witem'[p] # Nil => hpc[witem'[p]] = "accepted"
        BY <1>0, <3>1, <3>4, Zenon
      <4> QED BY <1>0, <2>1, <4>1, Zenon
    <3> QED BY <2>2, <3>5, <3>6, <3>7, <3>8, <3>9, Zenon
  <2>4. CASE UNCHANGED queue /\ witem'[p] \in {witem[p], Nil}
    <3>1. \A q \in Procs : witem'[q] # Nil => witem'[q] = witem[q]
      BY <2>1, <2>4
    <3>2. Nil \notin Requests /\ \A i \in 1 .. Len(queue) : queue[i] \in Requests
      BY <1>t, ItemsAreRequests, Zenon
    <3>3. \A q \in Procs : \A i \in 1 .. Len(queue) : witem'[q] # queue[i]
      BY <1>0, <3>1, <3>2, ZenonT(60)
    <3> QED BY <1>0, <2>2, <2>4, <3>1, <3>3, SMTT(60), ZenonT(60)
  <2> QED BY <1>0, <2>3, <2>4, WorkerEffect, Zenon
<1>2. CASE \E r \in Requests : HandlerStep(r)
  <2> PICK r \in Requests : HandlerStep(r)
    BY <1>2
  <2>1. /\ hpc[r] # "accepted" /\ UNCHANGED witem
        /\ \A q \in Requests \ {r} : hpc'[q] = hpc[q]
    BY <1>0, HandlerEffect, Zenon DEF workerVars
  <2>2. \A i \in 1 .. Len(queue) : queue[i] \in Requests \ {r} /\ hpc'[queue[i]] = "accepted"
    <3> SUFFICES ASSUME NEW i \in 1 .. Len(queue)
                 PROVE  queue[i] \in Requests \ {r} /\ hpc'[queue[i]] = "accepted"
      OBVIOUS
    <3>1. queue[i] \in Requests
      BY <1>t
    <3>2. hpc[queue[i]] = "accepted"
      BY <1>0, Zenon
    <3> QED BY <2>1, <3>1, <3>2, Zenon
  <2>3. \A q \in Procs : witem[q] # Nil => witem[q] \in Requests \ {r} /\ hpc'[witem[q]] = "accepted"
    BY <1>0, <1>t, <2>1, ZenonT(40)
  <2>4. CASE Enqueue(r)
    <3>1. queue' = Append(queue, r) /\ hpc'[r] = "accepted"
      BY <1>0, <2>4 DEF Enqueue, TypeOK, HandlerTypes
    <3>2. /\ Len(queue') = Len(queue) + 1 /\ Len(queue) \in Nat
          /\ queue'[Len(queue) + 1] = r
          /\ \A i \in 1 .. Len(queue) : queue'[i] = queue[i]
      BY <1>t, <3>1
    <3>3. \A i \in 1 .. Len(queue') : i \in 1 .. Len(queue) \/ i = Len(queue) + 1
      BY <3>2
    <3>4. \A i, j \in 1 .. Len(queue') : queue'[i] = queue'[j] => i = j
      <4>0. \A i, j \in 1 .. Len(queue) : queue[i] = queue[j] => i = j
        BY <1>0
      <4> SUFFICES ASSUME NEW i \in 1 .. Len(queue'), NEW j \in 1 .. Len(queue'),
                          queue'[i] = queue'[j]
                   PROVE  i = j
        OBVIOUS
      <4>1. CASE i \in 1 .. Len(queue) /\ j \in 1 .. Len(queue)
        <5>1. queue[i] = queue[j]
          BY <3>2, <4>1
        <5> QED BY <4>0, <4>1, <5>1, SMTT(60)
      <4>2. CASE i \in 1 .. Len(queue) /\ j = Len(queue) + 1
        <5>1. queue[i] = r
          BY <3>2, <4>2
        <5> QED BY <2>2, <4>2, <5>1
      <4>3. CASE i = Len(queue) + 1 /\ j \in 1 .. Len(queue)
        <5>1. queue[j] = r
          BY <3>2, <4>3
        <5> QED BY <2>2, <4>3, <5>1
      <4>4. CASE i = Len(queue) + 1 /\ j = Len(queue) + 1
        BY <4>4, SMTT(60)
      <4> QED BY <3>3, <4>1, <4>2, <4>3, <4>4, Zenon
    <3>5. \A q \in Procs : \A i \in 1 .. Len(queue') : witem[q] # queue'[i]
      <4> SUFFICES ASSUME NEW q \in Procs, NEW i \in 1 .. Len(queue')
                   PROVE  witem[q] # queue'[i]
        BY Zenon
      <4>1. CASE i \in 1 .. Len(queue)
        BY <1>0, <3>2, <4>1, Zenon
      <4>2. CASE i = Len(queue) + 1
        <5>1. Nil # r
          BY PipelineAssumption
        <5> QED BY <2>3, <3>2, <4>2, <5>1, Zenon
      <4> QED BY <3>3, <4>1, <4>2, Zenon
    <3>6. \A i \in 1 .. Len(queue') : hpc'[queue'[i]] = "accepted"
      BY <2>2, <3>1, <3>2, <3>3, SMTT(60), ZenonT(60)
    <3> QED BY <1>0, <2>1, <2>3, <3>4, <3>5, <3>6, SMTT(60), ZenonT(60)
  <2>5. CASE UNCHANGED queue
    <3>1. ItemInOnePlace'
      BY <1>0, <2>1, <2>5, Zenon
    <3>2. \A i \in 1 .. Len(queue') : hpc'[queue'[i]] = "accepted"
      BY <2>2, <2>5, Zenon
    <3>3. \A q \in Procs : witem'[q] # Nil => hpc'[witem'[q]] = "accepted"
      BY <2>1, <2>3, Zenon
    <3> QED BY <3>1, <3>2, <3>3, Zenon
  <2> QED BY <1>0, <2>4, <2>5, HandlerEffect, Zenon
<1>3. CASE Crash
  <2>1. queue' = <<>> /\ \A p \in Procs : witem'[p] = Nil
    BY <1>3 DEF Crash
  <2>2. 1 .. Len(queue') = {}
    BY <2>1, SMTT(60)
  <2> QED BY <1>t, <2>1, <2>2, PipelineAssumption
<1>4. CASE /\ ~Crash /\ ~ \E p \in Procs : WorkerStep(p)
           /\ ~ \E r \in Requests : HandlerStep(r)
  <2>1. UNCHANGED <<queue, hpc>>
    BY <1>4, QueueFrame, HandlerFrame
  <2>2. UNCHANGED witem
    BY <1>4, WorkerFrame, Zenon DEF workerVars, Start
  <2> QED BY <1>0, <2>1, <2>2
<1> QED BY <1>1, <1>2, <1>3, <1>4, ZenonT(40)

\* Outside the handlers, a status only moves among those of a stored job.
LEMMA StatusMoves ==
    ASSUME TypeOK, WorkerShape, [Next]_vars, ~ \E r \in Requests : HandlerStep(r)
    PROVE  \A r \in Requests :
               \/ status'[r] = status[r]
               \/ status[r] \in Statuses /\ status'[r] \in Statuses
<1>1. CASE FailActiveRows
  <2>1. \A r \in Requests : status'[r] = IF IsActive(status[r]) THEN "failed" ELSE status[r]
    BY <1>1, Zenon DEF FailActiveRows
  <2> QED BY <2>1 DEF IsActive, Statuses
<1>2. CASE \E p \in Procs : RepoTransition(p)
  <2> PICK p \in Procs : RepoTransition(p)
    BY <1>2
  <2>1. wintent[p] # "none"
    BY Zenon DEF RepoTransition, WorkerShape
  <2>2. JobIntent(wintent[p]) \in Intents /\ jobTransitionSpecs[JobIntent(wintent[p])].To \in Statuses
    BY <2>1, TargetType DEF TypeOK
  <2>3. status[witem[p]] \in Statuses
    <3>1. CanTransitionJob(status[witem[p]], JobIntent(wintent[p]))
      BY Zenon DEF RepoTransition
    <3> QED BY <2>2, <3>1, OnlyActiveMoves, Zenon
  <2>4. \A r \in Requests : status'[r] = IF r = witem[p]
                                        THEN jobTransitionSpecs[JobIntent(wintent[p])].To
                                        ELSE status[r]
    BY Zenon DEF RepoTransition, TypeOK, StoreTypes
  <2> QED BY <2>2, <2>3, <2>4
<1>3. CASE UNCHANGED status
  BY <1>3
<1> QED BY <1>1, <1>2, <1>3, StoreFrame

\* Every step keeps the handlers' jobs in the store.
LEMMA StoreShapeStep ==
    ASSUME IInv, [Next]_vars
    PROVE  StoreShape'
<1> USE DEF StoreShape
<1>0. TypeOK /\ WorkerShape /\ StoreShape
  BY SMTT(60) DEF IInv
<1>1. CASE \E r \in Requests : HandlerStep(r)
  <2> PICK r \in Requests : HandlerStep(r)
    BY <1>1
  <2>1. \A q \in Requests \ {r} : hpc'[q] = hpc[q] /\ status'[q] = status[q]
    BY <1>0, HandlerEffect
  <2>2. /\ hpc'[r] # "new"
        /\ hpc'[r] \in {"saved", "published", "enqueuing", "accepted", "rollback"} => status'[r] \in Statuses
    BY <1>0, Zenon DEF HandlerStep, SaveJob, SaveJobFails, PublishQueuedJob, BeginEnqueue,
       Enqueue, EnqueueRejected, DeleteJobAfterFailedEnqueue, TypeOK, HandlerTypes, StoreTypes,
       Statuses, storeVars
  <2> QED BY <1>0, <2>1, <2>2, SMTT(60), ZenonT(60)
<1>2. CASE ~ \E r \in Requests : HandlerStep(r)
  <2>1. \A r \in Requests : hpc'[r] = hpc[r] \/ hpc'[r] = "lost"
    <3>1. CASE Crash
      BY <3>1, SMTT(60), ZenonT(60) DEF Crash
    <3> QED BY <1>2, <3>1, HandlerFrame
  <2>2. \A r \in Requests :
            \/ status'[r] = status[r]
            \/ status[r] \in Statuses /\ status'[r] \in Statuses
    BY <1>0, <1>2, StatusMoves
  <2> QED BY <1>0, <2>1, <2>2, Zenon DEF Statuses
<1> QED BY <1>1, <1>2

-----------------------------------------------------------------------------
(* The invariant holds *)

\* The inductive invariant holds initially ...
LEMMA IInvInit == Init => IInv
<1> SUFFICES ASSUME Init PROVE IInv
  OBVIOUS
<1>1. TypeOK
  <2>1. /\ 0 \in 0 .. MaxGen /\ 0 \in 0 .. MaxCrashes
        /\ queue \in Seq(Requests) /\ events \in [Requests -> Seq(Statuses)]
        /\ metrics \in [Statuses -> Nat]
    <3>1. 0 \in 0 .. MaxGen /\ 0 \in 0 .. MaxCrashes
      BY PipelineAssumption
    <3>2. queue = <<>> /\ events = [r \in Requests |-> <<>>] /\ metrics = [s \in Statuses |-> 0]
      BY Zenon DEF Init
    <3> QED BY <3>1, <3>2
  <2> QED BY Zenon, <2>1 DEF Init, TypeOK, StoreTypes, UserTypes, QueueTypes, HandlerTypes,
                      WorkerTypes, PoolTypes, StopTypes, EnvTypes, ObsTypes
<1>2. WorkerShape /\ StoreShape /\ StopShape
  BY SMTT(60), ZenonT(60) DEF Init, WorkerShape, StoreShape, StopShape, StopPromise
<1>3. ItemShape
  <2>1. 1 .. Len(queue) = {}
    BY DEF Init
  <2>2. \A p \in Procs : witem[p] = Nil
    BY Zenon DEF Init
  <2> QED BY <2>1, <2>2, Zenon DEF ItemShape, ItemInOnePlace
<1>4. PoolShape
  <2>1. cur = 0 /\ ngen = 0 /\ ~stopping /\ \A p \in Procs : wpc[p] = "unborn"
    BY Zenon DEF Init
  <2>2. \A p \in Procs : p[1] > 0
    BY PipelineAssumption DEF Procs, Gens
  <2> QED BY <2>1, <2>2 DEF PoolShape
<1> QED BY <1>1, <1>2, <1>3, <1>4 DEF IInv

\* ... every step preserves it ...
LEMMA IInvStep == IInv /\ [Next]_vars => IInv'
BY TypeStep, WorkerShapeStep, ItemShapeStep, StoreShapeStep, PoolShapeStep, StopShapeStep
   DEF IInv

\* ... so it always holds.
LEMMA IInvAlways == Spec => []IInv
BY IInvInit, IInvStep, PTL DEF Spec

-----------------------------------------------------------------------------
(* What the invariant says by itself *)

\* The pipeline's variables keep their types.
THEOREM TypeCorrect == Spec => []TypeOK
BY IInvAlways, PTL DEF IInv

\* Enqueue, the workers' receive and the repair never duplicate a work item.
THEOREM ItemsInOnePlace == Spec => []ItemInOnePlace
<1>1. IInv => ItemInOnePlace
  BY DEF IInv, ItemShape
<1> QED BY <1>1, IInvAlways, PTL

\* Start never runs workers beside those of an earlier generation.
THEOREM GenerationsDoNotOverlap == Spec => []OneLiveGeneration
<1>1. IInv => OneLiveGeneration
  BY SMTT(60) DEF IInv, PoolShape, OneLiveGeneration
<1> QED BY <1>1, IInvAlways, PTL
=============================================================================
