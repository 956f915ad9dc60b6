------------------------- MODULE AsyncJobsOutcomes --------------------------
(***************************************************************************)
(* What follows from the invariant of AsyncJobs about control: execution   *)
(* is undisturbed, StopAccepting is a barrier, JobLifecycle is refined,    *)
(* and what Stop calls report and leave behind; then about the users that  *)
(* jobs create.  Each section states the invariant that it adds to IInv.   *)
(***************************************************************************)
EXTENDS AsyncJobsInvariant

-----------------------------------------------------------------------------
(* The transition table *)

\* The transition table, row by row (jobTransitionSpecs of entity/job.go), and
\* the row a shutdown uses.
LEMMA TransitionTable ==
    /\ jobTransitionSpecs["start"].To = "running"
    /\ jobTransitionSpecs["succeed"].To = "succeeded"
    /\ jobTransitionSpecs["fail"].To = "failed"
    /\ "running" \in jobTransitionSpecs["succeed"].From
    /\ "running" \in jobTransitionSpecs["fail"].From
    /\ \A i \in {"start", "succeed", "fail"} : JobIntent(i) = i
    /\ JobIntent("shutdown") = "fail"
<1>1. jobTransitionSpecs["start"].To = "running"
  BY Zenon DEF jobTransitionSpecs
<1>2. jobTransitionSpecs["succeed"].To = "succeeded"
  BY Zenon DEF jobTransitionSpecs
<1>3. jobTransitionSpecs["fail"].To = "failed"
  BY Zenon DEF jobTransitionSpecs
<1>4. "running" \in jobTransitionSpecs["succeed"].From
  BY Zenon DEF jobTransitionSpecs
<1>5. "running" \in jobTransitionSpecs["fail"].From
  BY Zenon DEF jobTransitionSpecs
<1>6. \A i \in {"start", "succeed", "fail"} : JobIntent(i) = i
  BY Zenon DEF JobIntent
<1>7. JobIntent("shutdown") = "fail"
  BY Zenon DEF JobIntent
<1> QED BY <1>1, <1>2, <1>3, <1>4, <1>5, <1>6, <1>7, Zenon

-----------------------------------------------------------------------------
(* Nobody changes a job under the worker that executes it *)

\* A worker that executes a job holds its item.
LEMMA ExecutingHolds ==
    ASSUME IInv, NEW p \in Procs, Executing(p)
    PROVE  /\ wpc[p] \notin {"unborn", "exited"} /\ witem[p] \in Requests
           /\ hpc[witem[p]] = "accepted"
<1>1. wpc[p] \in {"received", "check", "cas", "announce", "exists", "save"}
  BY SMTT(60) DEF Executing
<1>2. witem[p] \in Requests /\ witem[p] # Nil
  BY <1>1, HeldItem, PipelineAssumption DEF IInv, TypeOK
<1> QED BY <1>1, <1>2, SMTT(60) DEF IInv, ItemShape

\* A worker's own step keeps its job running while it executes it.
LEMMA OwnStepKeepsRunning ==
    ASSUME IInv, ExecutingJobIsRunning, NEW p \in Procs, WorkerStep(p), Executing(p)'
    PROVE  status'[witem'[p]] = "running"
<1> USE DEF Executing
<1>0. /\ WorkerTypes /\ StoreTypes /\ WorkerShape
      /\ Executing(p) => status[witem[p]] = "running"
  BY DEF IInv, TypeOK, ExecutingJobIsRunning
<1>1. CASE WorkerExits(p) \/ ReceiveItem(p)
  BY Zenon, <1>0, <1>1 DEF WorkerExits, ReceiveItem, WorkerTypes
<1>2. CASE CheckContext(p)
  BY <1>0, <1>2, SMTT(60), ZenonT(60) DEF CheckContext, Call, WorkerTypes
<1>3. CASE ServiceCheck(p) \/ AnnounceRunning(p)
  BY <1>0, <1>3 DEF ServiceCheck, AnnounceRunning, WorkerTypes, storeVars
<1>4. CASE Transit(p)
  <2>1. wintent[p] = "start" /\ witem'[p] = witem[p] /\ wpc[p] = "cas"
    BY Zenon, <1>0, <1>4 DEF Transit, RepoTransition, WorkerTypes
  <2>2. status' = [status EXCEPT ![witem[p]] = "running"]
    <3>1. JobIntent(wintent[p]) = "start" /\ jobTransitionSpecs["start"].To = "running"
      BY <2>1, TransitionTable, Zenon
    <3> QED BY Zenon, <1>4, <3>1 DEF Transit, RepoTransition
  <2>3. witem[p] \in Requests
    BY <1>0, <2>1, HeldItem, Zenon
  <2> QED BY Zenon, <2>1, <2>2, <2>3, <1>0 DEF StoreTypes
<1>5. CASE TransitUnacknowledged(p) \/ ServiceCallFails(p) \/ AnnounceTerminal(p)
  BY <1>0, <1>5, SMTT(60), ZenonT(60) DEF TransitUnacknowledged, ServiceCallFails,
     AnnounceTerminal, DropItem, WorkerTypes
<1>6. CASE ExistsByEmail(p) \/ SaveUser(p) \/ CreateUserFails(p)
  <2>1. wpc[p] \in {"exists", "save"} /\ UNCHANGED <<status, witem>>
    BY Zenon, <1>6 DEF ExistsByEmail, SaveUser, CreateUserFails, Call, storeVars
  <2> QED BY <1>0, <2>1, Zenon
<1> QED BY <1>1, <1>2, <1>3, <1>4, <1>5, <1>6, ZenonT(40) DEF WorkerStep

\* On a database of its own, every step keeps every executing job running.
LEMMA ExecutingStep ==
    ASSUME ~SharedDB, IInv, ExecutingJobIsRunning, [Next]_vars
    PROVE  ExecutingJobIsRunning'
<1> USE DEF ExecutingJobIsRunning
<1>1. CASE \E q \in Procs : WorkerStep(q)
  <2> PICK q \in Procs : WorkerStep(q)
    BY <1>1, ZenonT(40)
  <2> SUFFICES ASSUME NEW p \in Procs, Executing(p)' PROVE status'[witem'[p]] = "running"
    OBVIOUS
  <2>1. CASE p = q
    BY <2>1, OwnStepKeepsRunning, Zenon
  <2>2. CASE p # q
    <3>1. wpc'[p] = wpc[p] /\ witem'[p] = witem[p] /\ wintent'[p] = wintent[p]
      BY <2>2, WorkerEffect DEF IInv
    <3>2. Executing(p)
      BY Zenon, <3>1 DEF Executing
    <3>3. witem[p] \in Requests /\ witem[p] # witem[q]
      BY <2>2, <3>2, ExecutingHolds, PipelineAssumption, Zenon DEF IInv, ItemShape,
         ItemInOnePlace
    <3>4. status'[witem[p]] = status[witem[p]]
      <4>1. UNCHANGED status \/ RepoTransition(q)
        BY Zenon DEF WorkerStep, WorkerExits, ReceiveItem, CheckContext, ServiceCheck, Transit,
               TransitUnacknowledged, ServiceCallFails, AnnounceRunning, AnnounceTerminal,
               ExistsByEmail, SaveUser, CreateUserFails, storeVars
      <4>2. CASE RepoTransition(q)
        BY Zenon, <3>3, <4>2 DEF RepoTransition, IInv, TypeOK, StoreTypes
      <4> QED BY <4>1, <4>2, Zenon
    <3> QED BY Zenon, <3>1, <3>2, <3>4
  <2> QED BY <2>1, <2>2, Zenon
<1>2. CASE \E r \in Requests : HandlerStep(r)
  <2> PICK r \in Requests : HandlerStep(r)
    BY <1>2, Zenon
  <2>1. /\ hpc[r] # "accepted" /\ UNCHANGED workerVars
        /\ \A x \in Requests \ {r} : status'[x] = status[x]
    BY Zenon, HandlerEffect DEF IInv
  <2>2. \A p \in Procs : Executing(p)' => Executing(p) /\ witem[p] \in Requests \ {r}
    BY <2>1, ExecutingHolds, ZenonT(40) DEF workerVars, Executing
  <2> QED BY <2>1, <2>2, Zenon DEF workerVars
<1>3. CASE Start
  <2>1. \A p \in Procs : Executing(p)' => Executing(p)
    BY <1>3, ZenonT(40) DEF Start, Executing
  <2>2. UNCHANGED <<status, witem>>
    BY <1>3 DEF Start, storeVars
  <2> QED BY <2>1, <2>2
<1>4. CASE Crash
  <2>1. \A p \in Procs : wpc'[p] \in {"unborn", "exited"}
    BY Zenon, <1>4 DEF Crash
  <2> QED BY <2>1 DEF Executing
<1>5. CASE \E s \in Stoppers : CompleteStopRepair(s)
  <2> PICK s \in Stoppers : CompleteStopRepair(s)
    BY <1>5
  <2>1. cur = sgen[s] /\ GenDone(cur)
    BY Zenon DEF CompleteStopRepair, IInv, StopShape, StopPromise
  <2>2. \A p \in Procs : wpc[p] \in {"unborn", "exited"}
    BY <2>1, ProcPairs DEF GenDone, IInv, PoolShape
  <2>3. UNCHANGED workerVars
    BY ZenonT(40) DEF CompleteStopRepair
  <2> QED BY <2>2, <2>3, SMTT(60) DEF Executing, workerVars
<1>6. CASE /\ ~ \E q \in Procs : WorkerStep(q)
           /\ ~ \E r \in Requests : HandlerStep(r)
           /\ ~Start /\ ~Crash /\ ~ \E s \in Stoppers : CompleteStopRepair(s)
  <2>1. UNCHANGED workerVars
    BY <1>6, WorkerFrame
  <2>2. UNCHANGED status
    BY Zenon, <1>6 DEF Next, vars, StopStep, StopDeadline, StopCall, StopCallIdle, StopCancel,
                StopPoll, StopWaitDone, StopTimesOut, CompleteStopRepeated,
                CompleteStopSettle, UserRequest, SyncCreateUser, FreeEmail, ClientCancels,
                StopAccepting, Signal,
                ForeignRepair, storeVars
  <2> QED BY <2>1, <2>2, ZenonT(40) DEF Executing, workerVars
<1> QED BY Zenon, <1>1, <1>2, <1>3, <1>4, <1>5, <1>6

\* Without a second instance on the database, no repair, rollback or other
\* worker changes a job while a worker executes it (WorkerPool, completeStop).
THEOREM ExecutionIsUndisturbed == ~SharedDB => (Spec => []ExecutingJobIsRunning)
<1> SUFFICES ASSUME ~SharedDB PROVE Spec => []ExecutingJobIsRunning
  OBVIOUS
<1>1. Init => ExecutingJobIsRunning
  BY DEF Init, ExecutingJobIsRunning, Executing
<1>2. IInv /\ ExecutingJobIsRunning /\ [Next]_vars => ExecutingJobIsRunning'
  BY ExecutingStep
<1> QED BY <1>1, <1>2, IInvAlways, PTL DEF Spec

-----------------------------------------------------------------------------
(* StopAccepting is a barrier *)

\* No handler is inside Enqueue once the flag is set: StopAccepting takes the
\* lock that Enqueue holds for reading.
Barred == stopped => \A r \in Requests : hpc[r] # "enqueuing"

\* Only StopAccepting and a crash change the flag.
LEMMA StoppedFrame ==
    ASSUME [Next]_vars, ~StopAccepting, ~Crash
    PROVE  UNCHANGED stopped
<1> USE DEF queueVars
<1>1. CASE UNCHANGED vars
  BY <1>1 DEF vars
<1>2. CASE \E r \in Requests : HandlerStep(r) \/ ClientCancels(r)
  BY Zenon, <1>2 DEF HandlerStep, ClientCancels, SaveJob, SaveJobFails, PublishQueuedJob,
              BeginEnqueue, Enqueue, EnqueueRejected, DeleteJobAfterFailedEnqueue
<1>3. CASE \E s \in Stoppers : StopStep(s) \/ StopDeadline(s)
  BY <1>3, Zenon DEF StopStep, StopDeadline, StopCall, StopCallIdle, StopCancel, StopPoll,
              StopWaitDone, StopTimesOut, CompleteStopRepair, CompleteStopRepeated,
              CompleteStopSettle
<1>4. CASE \E p \in Procs : WorkerStep(p)
  BY Zenon, <1>4 DEF WorkerStep, WorkerExits, ReceiveItem, CheckContext, ServiceCheck, Transit,
              TransitUnacknowledged, ServiceCallFails, AnnounceRunning, AnnounceTerminal,
              ExistsByEmail, SaveUser, CreateUserFails
<1>5. CASE (\E e \in Emails : UserRequest(e)) \/ Start \/ Signal \/ ForeignRepair
  BY Zenon, <1>5 DEF UserRequest, SyncCreateUser, FreeEmail, Start, Signal, ForeignRepair
<1> QED BY <1>1, <1>2, <1>3, <1>4, <1>5 DEF Next

\* A handler's step enters Enqueue only while the flag is down.
LEMMA EntersEnqueue ==
    ASSUME TypeOK, NEW r \in Requests, HandlerStep(r), hpc'[r] = "enqueuing"
    PROVE  ~stopped
<1>1. hpc \in [Requests -> {"new", "saved", "published", "enqueuing", "accepted",
                            "rollback", "rejected", "errored", "lost"}]
  BY DEF TypeOK, HandlerTypes
<1>2. CASE BeginEnqueue(r)
  BY <1>2, Zenon DEF BeginEnqueue
<1>3. CASE ~BeginEnqueue(r)
  <2>1. \E x \in {"saved", "errored", "published", "accepted", "rollback", "rejected"} :
            hpc' = [hpc EXCEPT ![r] = x]
    BY Zenon, <1>3 DEF HandlerStep, SaveJob, SaveJobFails, PublishQueuedJob, Enqueue,
                EnqueueRejected, DeleteJobAfterFailedEnqueue
  <2> QED BY <1>1, <2>1
<1> QED BY <1>2, <1>3

\* Every step keeps handlers out of Enqueue while the flag is set.
LEMMA BarredStep ==
    ASSUME IInv, Barred, [Next]_vars
    PROVE  Barred'
<1> SUFFICES ASSUME NEW r \in Requests, stopped' PROVE hpc'[r] # "enqueuing"
  BY DEF Barred
<1>1. CASE Crash
  <2>1. stopped' = FALSE
    BY <1>1, Zenon DEF Crash
  <2> QED BY <2>1
<1>2. CASE StopAccepting
  BY <1>2 DEF StopAccepting, handlerVars
<1>3. CASE ~Crash /\ ~StopAccepting
  <2>1. stopped
    BY <1>3, StoppedFrame
  <2>2. CASE \E q \in Requests : HandlerStep(q)
    <3> PICK q \in Requests : HandlerStep(q)
      BY <2>2
    <3>1. CASE q = r
      BY <2>1, <3>1, EntersEnqueue DEF IInv
    <3>2. CASE q # r
      <4>1. hpc'[r] = hpc[r]
        BY <3>2, HandlerEffect, Zenon DEF IInv
      <4> QED BY <2>1, <4>1 DEF Barred
    <3> QED BY <3>1, <3>2
  <2>3. CASE ~ \E q \in Requests : HandlerStep(q)
    BY <1>3, <2>1, <2>3, HandlerFrame DEF Barred
  <2> QED BY <2>2, <2>3
<1> QED BY <1>1, <1>2, <1>3

\* With the flag set, a step takes items out of the queue or leaves it alone.
LEMMA QueueShrinks ==
    ASSUME IInv, Barred, [Next]_vars, stopped
    PROVE  queue' = queue \/ Len(queue') < Len(queue)
<1>0. queue \in Seq(Requests)
  BY DEF IInv, TypeOK, QueueTypes
<1>1. CASE Crash
  <2>1. queue' = <<>>
    BY <1>1 DEF Crash
  <2> QED BY <1>0, <2>1
<1>2. CASE \E p \in Procs : WorkerStep(p)
  <2> PICK p \in Procs : WorkerStep(p)
    BY <1>2
  <2>1. CASE ReceiveItem(p)
    <3>1. queue # <<>> /\ queue' = Tail(queue)
      BY <2>1 DEF ReceiveItem
    <3> QED BY <1>0, <3>1
  <2>2. CASE UNCHANGED queue
    BY <2>2
  <2> QED BY <2>1, <2>2, WorkerEffect, Zenon DEF IInv
<1>3. CASE \E r \in Requests : HandlerStep(r)
  <2> PICK r \in Requests : HandlerStep(r)
    BY <1>3
  <2>1. ~Enqueue(r)
    BY ZenonT(40) DEF Enqueue, Barred
  <2> QED BY <2>1, HandlerEffect, Zenon DEF IInv
<1>4. CASE /\ ~Crash /\ ~ \E p \in Procs : WorkerStep(p)
           /\ ~ \E r \in Requests : HandlerStep(r)
  BY <1>4, QueueFrame
<1> QED BY <1>1, <1>2, <1>3, <1>4

\* No Enqueue succeeds after StopAccepting has returned, however many
\* handlers were under way (Queue.StopAccepting, Queue.Enqueue).
THEOREM NothingIsAdmittedAfterStop == Spec => StopAcceptingIsABarrier
<1>1. Init => Barred
  BY DEF Init, Barred
<1>2. IInv /\ Barred /\ [Next]_vars => Barred'
  BY BarredStep
<1>3. IInv /\ Barred /\ [Next]_vars =>
          [stopped => queue' = queue \/ Len(queue') < Len(queue)]_vars
  BY QueueShrinks
<1> QED BY <1>1, <1>2, <1>3, IInvAlways, PTL DEF Spec, StopAcceptingIsABarrier

-----------------------------------------------------------------------------
(* The pipeline implements JobLifecycle *)

\* Only an Enqueue changes which jobs are accepted; a crash does not.
LEMMA AcceptedFrame ==
    ASSUME IInv, [Next]_vars, ~ \E r \in Requests : Enqueue(r)
    PROVE  UNCHANGED Accepted
<1>1. \A r \in Requests : hpc'[r] = "accepted" <=> hpc[r] = "accepted"
  <2>1. CASE \E r \in Requests : HandlerStep(r)
    BY <2>1, HandlerEffect DEF IInv
  <2>2. CASE Crash
    BY <2>2 DEF Crash
  <2>3. CASE ~Crash /\ ~ \E r \in Requests : HandlerStep(r)
    BY <2>3, HandlerFrame
  <2> QED BY <2>1, <2>2, <2>3
<1> QED BY <1>1, Zenon DEF Accepted

\* A handler's step saves, accepts or rolls back its job, or stutters.
LEMMA HandlerRefines ==
    ASSUME IInv, [Next]_vars, NEW r \in Requests, HandlerStep(r)
    PROVE  \/ Lifecycle!Save(r) \/ Lifecycle!Accept(r) \/ Lifecycle!Rollback(r)
           \/ UNCHANGED <<status, Accepted>>
<1>0. /\ TypeOK
      /\ hpc[r] = "new" => status[r] = "none"
      /\ hpc[r] \in {"saved", "published", "enqueuing", "accepted", "rollback"} => status[r] \in Statuses
  BY DEF IInv, StoreShape
<1>1. CASE Enqueue(r)
  <2>1. hpc[r] = "enqueuing" /\ hpc' = [hpc EXCEPT ![r] = "accepted"] /\ UNCHANGED status
    BY <1>1 DEF Enqueue, storeVars
  <2>2. Accepted' = Accepted \cup {r}
    BY <1>0, <2>1 DEF Accepted, TypeOK, HandlerTypes
  <2> QED BY <1>0, <2>1, <2>2 DEF Lifecycle!Accept, Lifecycle!Statuses, Statuses
<1>2. CASE ~Enqueue(r)
  <2>1. UNCHANGED Accepted
    <3>1. \A x \in Requests : hpc'[x] = "accepted" <=> hpc[x] = "accepted"
      BY <1>0, <1>2, HandlerEffect, ZenonT(40)
    <3> QED BY Zenon, <3>1 DEF Accepted
  <2>2. CASE SaveJob(r) \/ SaveJobFails(r)
    BY <1>0, <2>1, <2>2 DEF SaveJob, SaveJobFails, Lifecycle!Save
  <2>3. CASE PublishQueuedJob(r) \/ BeginEnqueue(r) \/ EnqueueRejected(r)
    BY <2>1, <2>3 DEF PublishQueuedJob, BeginEnqueue, EnqueueRejected, storeVars
  <2>4. CASE DeleteJobAfterFailedEnqueue(r)
    <3>1. hpc[r] = "rollback" /\ r \notin Accepted
      BY <2>4 DEF DeleteJobAfterFailedEnqueue, Accepted
    <3>2. UNCHANGED status \/ status' = [status EXCEPT ![r] = "removed"]
      BY <2>4 DEF DeleteJobAfterFailedEnqueue, storeVars
    <3> QED BY <1>0, <2>1, <3>1, <3>2 DEF Lifecycle!Rollback, Lifecycle!Statuses, Statuses
  <2> QED BY <1>2, <2>2, <2>3, <2>4 DEF HandlerStep
<1> QED BY <1>1, <1>2, SMTT(60)

\* Every step of the pipeline is a step of JobLifecycle or leaves it alone.
LEMMA StepRefines ==
    ASSUME IInv, [Next]_vars
    PROVE  [Lifecycle!LifecycleNext]_<<status, Accepted>>
<1>1. CASE \E r \in Requests : HandlerStep(r)
  BY <1>1, HandlerRefines DEF Lifecycle!LifecycleNext
<1>2. CASE ~ \E r \in Requests : HandlerStep(r)
  <2>1. UNCHANGED Accepted
    BY <1>2, AcceptedFrame DEF HandlerStep
  <2>2. CASE FailActiveRows
    BY Zenon, <2>1, <2>2 DEF FailActiveRows, Lifecycle!LifecycleNext, Lifecycle!FailActive,
       IsActive, Lifecycle!IsActive
  <2>3. CASE \E p \in Procs : RepoTransition(p)
    <3> PICK p \in Procs : RepoTransition(p)
      BY <2>3
    <3> DEFINE intent == JobIntent(wintent[p])
    <3>1. wpc[p] = "cas"
      BY DEF RepoTransition
    <3>2. intent \in Intents
      BY Zenon, <3>1, TargetType DEF IInv, TypeOK, WorkerShape
    <3>3. witem[p] \in Requests /\ witem[p] \in Accepted
      BY <3>1, HeldItem, PipelineAssumption DEF IInv, TypeOK, WorkerShape, ItemShape, Accepted
    <3>4. Lifecycle!Transition(witem[p], intent)
      BY Zenon, <2>1, <3>3 DEF RepoTransition, Lifecycle!Transition, CanTransitionJob,
         Lifecycle!CanTransitionJob, jobTransitionSpecs, Lifecycle!jobTransitionSpecs
    <3> QED BY Zenon, <3>2, <3>3, <3>4 DEF Lifecycle!LifecycleNext, Intents, Lifecycle!Intents
  <2> QED BY <1>2, <2>1, <2>2, <2>3, StoreFrame
<1> QED BY <1>1, <1>2

\* Whatever handlers, workers, Stop calls, crashes and other instances do,
\* the job store shows the behaviour that JobLifecycle promises.
THEOREM PipelineImplementsLifecycle == Spec => ImplementsLifecycle
<1>1. Init => Lifecycle!LifecycleInit
  BY DEF Init, Lifecycle!LifecycleInit, Accepted
<1>2. IInv /\ [Next]_vars => [Lifecycle!LifecycleNext]_Lifecycle!absVars
  BY StepRefines DEF Lifecycle!absVars
<1> QED BY <1>1, <1>2, IInvAlways, PTL
        DEF Spec, ImplementsLifecycle, Lifecycle!LifecycleSpec

-----------------------------------------------------------------------------
(* What the Stop calls report *)

\* A Stop call that saw its generation stop reports the outcome of the one
\* repair of that generation.
Reports(s) ==
    /\ spc[s] = "idle" => sgen[s] = 0
    /\ spc[s] = "returned" /\ sgen[s] # 0 /\ sres[s] # "timeout" =>
          outcome[sgen[s]] # "none" /\ sres[s] = outcome[sgen[s]]

\* Only the repair sets an outcome.
LEMMA OutcomeFrame ==
    ASSUME [Next]_vars, ~ \E s \in Stoppers : CompleteStopRepair(s)
    PROVE  UNCHANGED outcome
<1>1. CASE Start \/ Crash
  BY <1>1, Zenon DEF Start, Crash
<1>2. CASE \E s \in Stoppers : StopStep(s) \/ StopDeadline(s)
  BY <1>2, Zenon DEF StopStep, StopDeadline, StopCall, StopCallIdle, StopCancel, StopPoll,
     StopWaitDone, StopTimesOut, CompleteStopRepeated, CompleteStopSettle, poolVars
<1>3. CASE ~Start /\ ~Crash /\ ~ \E s \in Stoppers : StopStep(s) \/ StopDeadline(s)
  BY <1>3, PoolFrame, Zenon DEF poolVars
<1> QED BY <1>1, <1>2, <1>3

\* stopOnce: the outcome of a generation never changes once it is known.
LEMMA OutcomeIsFinal ==
    ASSUME IInv, [Next]_vars, NEW g \in Gens, outcome[g] # "none"
    PROVE  outcome'[g] = outcome[g]
<1>0. /\ outcome \in [Gens -> {"none", "ok", "err"}]
      /\ \A s \in Stoppers : spc[s] = "repair" => sgen[s] \in Gens
  BY StopGen DEF IInv, TypeOK, PoolTypes
<1>1. CASE \E s \in Stoppers : CompleteStopRepair(s)
  <2>1. PICK s \in Stoppers : CompleteStopRepair(s)
    BY <1>1
  <2>2. PICK o \in {"ok", "err"} : outcome' = [outcome EXCEPT ![sgen[s]] = o]
    BY <2>1, Zenon DEF CompleteStopRepair
  <2>3. g # sgen[s]
    BY <2>1 DEF CompleteStopRepair
  <2> QED BY <1>0, <2>2, <2>3
<1>2. CASE ~ \E s \in Stoppers : CompleteStopRepair(s)
  BY <1>2, OutcomeFrame
<1> QED BY <1>1, <1>2

\* Every step keeps the reports of the Stop calls.
LEMMA ReportsStep ==
    ASSUME IInv, [Next]_vars, NEW t \in Stoppers, Reports(t)
    PROVE  Reports(t)'
<1>0. /\ spc \in [Stoppers -> {"idle", "cancel", "poll", "wait", "repair", "settle", "returned"}]
      /\ sgen \in [Stoppers -> 0 .. MaxGen]
      /\ sgen[t] # 0 => sgen[t] \in Gens
      /\ sres \in [Stoppers -> {"none", "ok", "err", "timeout"}]
  BY DEF IInv, TypeOK, StopTypes, Gens
<1>f. ASSUME UNCHANGED <<spc, sgen, sres>> \/ (spc'[t] = spc[t] /\ sgen'[t] = sgen[t] /\ sres'[t] = sres[t])
      PROVE  Reports(t)'
  <2>1. spc'[t] = spc[t] /\ sgen'[t] = sgen[t] /\ sres'[t] = sres[t]
    BY <1>f, Zenon
  <2>2. spc[t] = "returned" /\ sgen[t] # 0 /\ sres[t] # "timeout" => outcome'[sgen[t]] = outcome[sgen[t]]
    <3>1. \A g \in Gens : outcome[g] # "none" => outcome'[g] = outcome[g]
      BY OutcomeIsFinal
    <3> QED BY <1>0, <3>1, Zenon DEF Reports
  <2> QED BY <2>1, <2>2, Zenon DEF Reports
<1>1. CASE Crash
  <2>1. spc'[t] = "idle" /\ sgen'[t] = 0
    BY <1>1 DEF Crash
  <2> QED BY <2>1, ZenonT(40) DEF Reports
<1>2. CASE Start
  BY <1>2, <1>f, Zenon DEF Start, stopVars
<1>3. CASE \E s \in Stoppers : StopStep(s) \/ StopDeadline(s)
  <2>1. PICK s \in Stoppers : StopStep(s) \/ StopDeadline(s)
    BY <1>3, Zenon
  <2>2. CASE s # t
    <3>1. spc'[t] = spc[t] /\ sgen'[t] = sgen[t]
      BY <2>1, <2>2, StopEffect, Zenon DEF IInv, TypeOK
    <3>2. UNCHANGED sres \/ \E x : sres' = [sres EXCEPT ![s] = x]
      BY <2>1, Zenon DEF StopStep, StopDeadline, StopCall, StopCallIdle, StopCancel, StopPoll,
         StopWaitDone, StopTimesOut, CompleteStopRepair, CompleteStopRepeated,
         CompleteStopSettle, Return
    <3> QED BY <1>0, <2>2, <3>1, <3>2, <1>f
  <2>3. CASE s = t
    <3>1. CASE StopDeadline(t)
      BY <3>1, <1>f, Zenon DEF StopDeadline
    <3>2. CASE StopCallIdle(t)
      <4>1. sgen'[t] = 0 /\ spc'[t] = "returned"
        BY <1>0, <3>2 DEF StopCallIdle, Return, Reports
      <4> QED BY <4>1, ZenonT(40) DEF Reports
    <3>3. CASE StopTimesOut(t)
      <4>1. sres'[t] = "timeout" /\ spc'[t] = "returned"
        BY <1>0, <3>3, SMTT(60) DEF StopTimesOut, Return
      <4> QED BY <4>1, ZenonT(40) DEF Reports
    <3>4. CASE CompleteStopSettle(t)
      <4>1. /\ spc[t] = "settle" /\ sres'[t] = outcome[sgen[t]] /\ UNCHANGED <<sgen, outcome>>
            /\ spc'[t] = "returned"
        BY <1>0, <3>4 DEF CompleteStopSettle, Return
      <4>2. outcome[sgen[t]] # "none"
        BY <4>1, Zenon DEF IInv, StopShape, StopPromise
      <4>3. /\ spc'[t] # "idle"
            /\ outcome'[sgen'[t]] # "none" /\ sres'[t] = outcome'[sgen'[t]]
        BY <4>1, <4>2
      <4> QED BY <4>3, Zenon DEF Reports
    <3>5. CASE \/ StopCall(t) \/ StopCancel(t) \/ StopPoll(t) \/ StopWaitDone(t)
               \/ CompleteStopRepair(t) \/ CompleteStopRepeated(t)
      <4>1. spc'[t] \in {"cancel", "poll", "wait", "repair", "settle"}
        BY <1>0, <3>5, Zenon DEF StopCall, StopCancel, StopPoll, StopWaitDone,
           CompleteStopRepair, CompleteStopRepeated
      <4> QED BY <4>1, Zenon DEF Reports
    <3> QED BY <2>1, <2>3, <3>1, <3>2, <3>3, <3>4, <3>5, Zenon DEF StopStep
  <2> QED BY <2>2, <2>3
<1>4. CASE ~Start /\ ~Crash /\ ~ \E s \in Stoppers : StopStep(s) \/ StopDeadline(s)
  BY <1>4, <1>f, PoolFrame, Zenon DEF stopVars
<1> QED BY <1>1, <1>2, <1>3, <1>4

\* Every Stop call that sees its generation stop reports the same outcome,
\* whichever of them ran the repair (WorkerPool.completeStop, stopOnce).
THEOREM StopCallsAgree == Spec => []StopOutcomeShared
<1> DEFINE Inv == \A s \in Stoppers : Reports(s)
<1>1. Init => Inv
  BY DEF Init, Reports
<1>2. IInv /\ Inv /\ [Next]_vars => Inv'
  BY ReportsStep, SMTT(60)
<1>3. Inv => StopOutcomeShared
  BY DEF Reports, StopOutcomeShared
<1> HIDE DEF Inv
<1> QED BY <1>1, <1>2, <1>3, IInvAlways, PTL DEF Spec

-----------------------------------------------------------------------------
(* A Stop that reports success leaves nothing active *)

Ended == \A r \in Requests : hpc[r] \in {"accepted", "lost"} => IsTerminal(status[r])

\* The repair of the current generation, or of the last one, succeeded.
Drained == (cur # 0 /\ outcome[cur] = "ok") \/ last = "ok"

\* A generation without workers yet has no outcome, and a job that a crash cut
\* off after its Save is stored ...
DrainShape ==
    /\ \A g \in Gens : g > ngen => outcome[g] = "none"
    /\ \A r \in Requests : hpc[r] = "lost" => status[r] \in Statuses

\* ... and under the supervisor a Stop call runs only after StopAccepting, and
\* a successful repair has seen every job that was or will be accepted.
DrainPromise ==
    /\ \A s \in Stoppers : spc[s] \in {"cancel", "poll", "wait", "repair", "settle"} => stopped
    /\ Drained => stopped /\ Ended

\* No step changes the status of a finished job that has left its handler.
LEMMA TerminalIsFinal ==
    ASSUME IInv, [Next]_vars, NEW r \in Requests, IsTerminal(status[r]),
           hpc[r] \notin {"new", "rollback"}
    PROVE  status'[r] = status[r]
<1>0. status \in [Requests -> Statuses \cup {"none", "removed"}]
  BY DEF IInv, TypeOK, StoreTypes
<1>1. CASE \E q \in Requests : HandlerStep(q)
  <2>1. PICK q \in Requests : HandlerStep(q)
    BY <1>1, ZenonT(40)
  <2>2. CASE q = r
    <3>1. UNCHANGED status
      BY <2>1, <2>2, Zenon DEF HandlerStep, SaveJob, SaveJobFails, PublishQueuedJob,
         BeginEnqueue, Enqueue, EnqueueRejected, DeleteJobAfterFailedEnqueue, storeVars
    <3> QED BY <3>1
  <2>3. CASE q # r
    BY <2>1, <2>3, HandlerEffect, ZenonT(40) DEF IInv
  <2> QED BY <2>2, <2>3
<1>2. CASE FailActiveRows
  BY <1>2, SMTT(60) DEF FailActiveRows, IsActive, IsTerminal
<1>3. CASE \E p \in Procs : RepoTransition(p)
  <2>1. PICK p \in Procs : RepoTransition(p)
    BY <1>3, Zenon
  <2>2. JobIntent(wintent[p]) \in Intents /\ witem[p] \in Requests
    BY <2>1, TargetType, HeldItem, Zenon DEF RepoTransition, IInv, TypeOK, WorkerShape
  <2>4. witem[p] # r
    <3>1. CanTransitionJob(status[witem[p]], JobIntent(wintent[p]))
      BY <2>1, Zenon DEF RepoTransition
    <3>2. ~IsTerminal(status[witem[p]])
      BY <2>2, <3>1, OnlyActiveMoves, Zenon DEF IsTerminal
    <3> QED BY <3>2, Zenon
  <2>5. \E x : status' = [status EXCEPT ![witem[p]] = x]
    BY <2>1, Zenon DEF RepoTransition
  <2> QED BY <1>0, <2>2, <2>4, <2>5
<1>4. CASE UNCHANGED status
  BY <1>4, Zenon
<1> QED BY <1>1, <1>2, <1>3, <1>4, StoreFrame, Zenon

\* The flag of the queue stays set until the process ends.
LEMMA StoppedStays ==
    ASSUME [Next]_vars, ~Crash, stopped
    PROVE  stopped'
<1>1. CASE StopAccepting
  BY <1>1, Zenon DEF StopAccepting
<1>2. CASE ~StopAccepting
  BY <1>2, StoppedFrame, Zenon
<1> QED BY <1>1, <1>2

\* Every step keeps the shape.
LEMMA DrainShapeStep ==
    ASSUME IInv, DrainShape, [Next]_vars
    PROVE  DrainShape'
<1>0. /\ outcome \in [Gens -> {"none", "ok", "err"}] /\ ngen \in Nat
      /\ TypeOK /\ WorkerShape /\ StoreShape
  BY DEF IInv, TypeOK, PoolTypes
<1>1. ASSUME NEW g \in Gens, g > ngen' PROVE outcome'[g] = "none"
  <2>1. g > ngen
    <3>1. ngen' = ngen \/ ngen' = ngen + 1
      BY PoolFrame, StopEffect, Zenon DEF IInv, TypeOK, Start, Crash, poolVars
    <3> QED BY <1>0, <1>1, <3>1 DEF Gens
  <2>2. CASE \E s \in Stoppers : CompleteStopRepair(s)
    <3>1. PICK s \in Stoppers : CompleteStopRepair(s)
      BY <2>2
    <3>2. sgen[s] \in 1 .. ngen /\ \E o : outcome' = [outcome EXCEPT ![sgen[s]] = o]
      BY <3>1, Zenon DEF CompleteStopRepair, IInv, StopShape, StopPromise
    <3>3. g # sgen[s]
      BY <1>0, <2>1, <3>2 DEF Gens
    <3>4. outcome[g] = "none"
      BY <2>1 DEF DrainShape
    <3> QED BY <1>0, <3>2, <3>3, <3>4
  <2>3. CASE ~ \E s \in Stoppers : CompleteStopRepair(s)
    <3>1. UNCHANGED outcome
      BY <2>3, OutcomeFrame
    <3> QED BY <2>1, <3>1 DEF DrainShape
  <2> QED BY <2>2, <2>3
<1>2. ASSUME NEW r \in Requests, hpc'[r] = "lost" PROVE status'[r] \in Statuses
  <2>1. CASE \E q \in Requests : HandlerStep(q)
    <3>1. PICK q \in Requests : HandlerStep(q)
      BY <2>1
    <3>2. q # r
      <4>1. \E x : hpc' = [hpc EXCEPT ![q] = x] /\ x # "lost"
        BY <3>1, Zenon DEF HandlerStep, SaveJob, SaveJobFails, PublishQueuedJob, BeginEnqueue,
           Enqueue, EnqueueRejected, DeleteJobAfterFailedEnqueue
      <4> QED BY <1>0, <1>2, <4>1 DEF TypeOK, HandlerTypes
    <3> QED BY <1>0, <1>2, <3>1, <3>2, HandlerEffect DEF DrainShape
  <2>2. CASE ~ \E q \in Requests : HandlerStep(q)
    <3>1. status[r] \in Statuses
      <4>1. CASE Crash
        <5>1. hpc[r] \in {"saved", "published", "enqueuing", "rollback", "lost"}
          BY <1>2, <4>1 DEF Crash
        <5> QED BY <1>0, <5>1 DEF StoreShape, DrainShape
      <4>2. CASE ~Crash
        BY <1>2, <2>2, <4>2, HandlerFrame DEF DrainShape
      <4> QED BY <4>1, <4>2
    <3> QED BY <1>0, <2>2, <3>1, StatusMoves
  <2> QED BY <2>1, <2>2, SMTT(60)
<1> QED BY <1>1, <1>2 DEF DrainShape

\* Only a repair that failed every active row makes the pool drained.
LEMMA DrainedCause ==
    ASSUME IInv, DrainShape, [Next]_vars, ~Drained, Drained'
    PROVE  \E s \in Stoppers : CompleteStopRepair(s) /\ FailActiveRows
<1>0. /\ outcome \in [Gens -> {"none", "ok", "err"}] /\ ngen \in 0 .. MaxGen /\ MaxGen \in Nat
      /\ cur \in 0 .. MaxGen
  BY PipelineAssumption DEF IInv, TypeOK, PoolTypes
<1>1. CASE Crash
  BY <1>1, Zenon DEF Crash, Drained
<1>2. CASE Start
  <2>1. cur' = ngen + 1 /\ last' = "none" /\ outcome' = outcome /\ ngen < MaxGen
    BY <1>2, Zenon DEF Start
  <2>2. ngen + 1 \in Gens /\ ngen + 1 > ngen
    BY <1>0, <2>1 DEF Gens
  <2>3. outcome[ngen + 1] = "none"
    BY <2>2, Zenon DEF DrainShape
  <2> QED BY <2>1, <2>3 DEF Drained
<1>3. CASE \E s \in Stoppers : CompleteStopSettle(s)
  <2>1. PICK s \in Stoppers : CompleteStopSettle(s)
    BY <1>3
  <2>2. CASE cur = sgen[s]
    <3>1. cur' = 0 /\ last' = outcome[cur] /\ spc[s] = "settle"
      BY <2>1, <2>2, Zenon DEF CompleteStopSettle
    <3>2. cur # 0
      <4>1. sgen[s] \in 1 .. ngen
        BY <3>1, Zenon DEF IInv, StopShape, StopPromise
      <4> QED BY <1>0, <2>2, <4>1
    <3> QED BY <3>1, <3>2, Zenon DEF Drained
  <2>3. CASE cur # sgen[s]
    <3>1. UNCHANGED <<cur, last, outcome>>
      BY <2>1, <2>3, Zenon DEF CompleteStopSettle
    <3> QED BY <3>1, Zenon DEF Drained
  <2> QED BY <2>2, <2>3
<1>4. CASE \E s \in Stoppers : CompleteStopRepair(s)
  <2>1. PICK s \in Stoppers : CompleteStopRepair(s)
    BY <1>4
  <2>2. cur = sgen[s] /\ cur' = cur /\ last' = last /\ sgen[s] \in Gens
    BY <2>1, StopGen, Zenon DEF CompleteStopRepair, IInv, TypeOK, StopShape, StopPromise
  <2>3. FailActiveRows \/ outcome' = [outcome EXCEPT ![sgen[s]] = "err"]
    BY <2>1, Zenon DEF CompleteStopRepair
  <2>4. outcome'[cur] = "ok"
    BY <2>2, Zenon DEF Drained
  <2>5. ~(outcome' = [outcome EXCEPT ![sgen[s]] = "err"])
    BY <1>0, <2>2, <2>4
  <2> QED BY <2>1, <2>3, <2>5
<1>5. CASE /\ ~Crash /\ ~Start /\ ~ \E s \in Stoppers : CompleteStopSettle(s)
           /\ ~ \E s \in Stoppers : CompleteStopRepair(s)
  <2>1. UNCHANGED <<cur, last>>
    <3>1. CASE \E s \in Stoppers : StopStep(s) \/ StopDeadline(s)
      BY <1>5, <3>1, Zenon DEF StopStep, StopDeadline, StopCall, StopCallIdle, StopCancel,
         StopPoll, StopWaitDone, StopTimesOut, CompleteStopRepeated, poolVars
    <3>2. CASE ~ \E s \in Stoppers : StopStep(s) \/ StopDeadline(s)
      BY <1>5, <3>2, PoolFrame, Zenon DEF poolVars
    <3> QED BY <3>1, <3>2
  <2> QED BY <1>5, <2>1, OutcomeFrame, Zenon DEF Drained
<1> QED BY <1>1, <1>2, <1>3, <1>4, <1>5

\* With the flag of the queue set, finished jobs are all there are.
LEMMA EndedStays ==
    ASSUME IInv, Barred, [Next]_vars, ~Crash, stopped, Ended
    PROVE  Ended'
<1> SUFFICES ASSUME NEW r \in Requests, hpc'[r] \in {"accepted", "lost"}
             PROVE  IsTerminal(status'[r])
  BY Zenon DEF Ended
<1>1. hpc[r] \in {"accepted", "lost"}
  <2>1. CASE \E q \in Requests : HandlerStep(q)
    <3>1. PICK q \in Requests : HandlerStep(q)
      BY <2>1
    <3>2. \E x \in {"saved", "errored", "published", "enqueuing", "rollback", "rejected"} :
              hpc' = [hpc EXCEPT ![q] = x]
      BY <3>1, Zenon DEF HandlerStep, SaveJob, SaveJobFails, PublishQueuedJob, BeginEnqueue,
         Enqueue, EnqueueRejected, DeleteJobAfterFailedEnqueue, Barred
    <3> QED BY <3>2 DEF IInv, TypeOK, HandlerTypes
  <2>2. CASE ~ \E q \in Requests : HandlerStep(q)
    BY <2>2, HandlerFrame
  <2> QED BY <2>1, <2>2
<1>2. IsTerminal(status[r])
  BY <1>1, Zenon DEF Ended
<1> QED BY <1>1, <1>2, TerminalIsFinal

\* A repair that fails every active row ends every stored job.
LEMMA RepairEnds ==
    ASSUME IInv, DrainShape, FailActiveRows, UNCHANGED hpc
    PROVE  Ended'
<1> SUFFICES ASSUME NEW r \in Requests, hpc[r] \in {"accepted", "lost"}
             PROVE  IsTerminal(status'[r])
  BY Zenon DEF Ended
<1>1. status[r] \in Statuses
  BY DEF IInv, StoreShape, DrainShape
<1> QED BY <1>1 DEF FailActiveRows, IsActive, IsTerminal, Statuses

\* Every step keeps the promise of the supervised pool.
LEMMA DrainPromiseStep ==
    ASSUME Supervised, IInv, Barred, DrainShape, DrainPromise, [Next]_vars
    PROVE  DrainPromise'
<1>0. /\ spc \in [Stoppers -> {"idle", "cancel", "poll", "wait", "repair", "settle", "returned"}]
      /\ StopTypes
  BY DEF IInv, TypeOK, StopTypes
<1>1. CASE Crash
  <2>1. ~Drained'
    BY <1>1, Zenon DEF Crash, Drained
  <2>2. \A s \in Stoppers : spc'[s] = "idle"
    BY <1>1 DEF Crash
  <2> QED BY <2>1, <2>2 DEF DrainPromise
<1>2. CASE ~Crash
  <2>1. ASSUME NEW t \in Stoppers, spc'[t] \in {"cancel", "poll", "wait", "repair", "settle"}
        PROVE  stopped'
    <3>1. CASE spc'[t] = spc[t]
      BY <1>2, <2>1, <3>1, StoppedStays DEF DrainPromise
    <3>2. CASE spc'[t] # spc[t]
      <4>1. \E s \in Stoppers : StopStep(s) \/ StopDeadline(s)
        <5>1. CASE Start
          BY <3>2, <5>1, Zenon DEF Start, stopVars
        <5> QED BY <1>2, <3>2, <5>1, PoolFrame, Zenon DEF stopVars
      <4>2. PICK s \in Stoppers : StopStep(s) \/ StopDeadline(s)
        BY <4>1, Zenon
      <4>3. s = t
        BY <1>0, <3>2, <4>2, StopEffect, Zenon
      <4>4. stopped
        <5>1. CASE StopCall(t) \/ StopCallIdle(t)
          BY <5>1 DEF StopCall, StopCallIdle, MayStop
        <5>2. CASE ~StopCall(t) /\ ~StopCallIdle(t)
          <6>1. spc[t] \in {"cancel", "poll", "wait", "repair", "settle"}
            BY <1>0, <3>2, <4>2, <4>3, <5>2, Zenon DEF StopStep, StopDeadline, StopCancel,
               StopPoll, StopWaitDone, StopTimesOut, CompleteStopRepair, CompleteStopRepeated,
               CompleteStopSettle
          <6> QED BY <6>1, Zenon DEF DrainPromise
        <5> QED BY <5>1, <5>2
      <4> QED BY <1>2, <4>4, StoppedStays
    <3> QED BY <3>1, <3>2
  <2>2. ASSUME Drained' PROVE stopped' /\ Ended'
    <3>1. CASE Drained
      BY <1>2, <3>1, StoppedStays, EndedStays DEF DrainPromise
    <3>2. CASE ~Drained
      <4>1. PICK s \in Stoppers : CompleteStopRepair(s) /\ FailActiveRows
        BY <2>2, <3>2, DrainedCause
      <4>2. spc[s] = "repair" /\ UNCHANGED <<hpc, stopped>>
        BY <4>1, Zenon DEF CompleteStopRepair, handlerVars, queueVars
      <4> QED BY <4>1, <4>2, RepairEnds DEF DrainPromise
    <3> QED BY <3>1, <3>2
  <2> QED BY <2>1, <2>2, Zenon DEF DrainPromise
<1> QED BY <1>1, <1>2

\* Once the supervisor's Stop has reported success, every job answered with
\* 202, or cut off by a crash after its Save, is terminal, whatever the
\* handlers and workers were doing (APIServer.cleanup, WorkerPool.Stop).
THEOREM SuccessfulStopLeavesNothing == Spec => []StopLeavesNothingActive
<1> DEFINE Inv == Supervised => DrainPromise
<1>1. Init => Barred /\ DrainShape /\ Inv
  BY DEF Init, Barred, DrainShape, DrainPromise, Drained, Ended
<1>2. IInv /\ Barred /\ DrainShape /\ Inv /\ [Next]_vars => (Barred /\ DrainShape /\ Inv)'
  BY BarredStep, DrainShapeStep, DrainPromiseStep
<1>3. Inv => StopLeavesNothingActive
  BY DEF DrainPromise, Drained, Ended, StopLeavesNothingActive
<1> HIDE DEF Inv
<1> QED BY <1>1, <1>2, <1>3, IInvAlways, PTL DEF Spec

-----------------------------------------------------------------------------
(* Jobs and the users they create *)

\* The worker of a job has inserted the user of its request.
Created(r) == r \in creators[EmailOf[r]]

\* The worker has not come to its insert yet.
Before(p) == wpc[p] \in {"received", "exists", "save"} \/ wintent[p] = "start"

\* What a worker knows of the user of its item.
ItemUser(p) ==
    /\ witem[p] = Nil => wintent[p] = "none" /\ wproblem[p] = "none"
    /\ witem[p] # Nil =>
        /\ Before(p) => ~Created(witem[p])
        /\ wintent[p] = "succeed" => Created(witem[p])
        /\ wproblem[p] = "conflict" => creators[EmailOf[witem[p]]] \ {witem[p]} # {}

\* A taken e-mail has been inserted by somebody, and a user is created for a
\* job only while one worker holds its item.
UserShape ==
    /\ \A e \in Emails : users[e] => creators[e] # {}
    /\ \A r \in Requests : Created(r) => hpc[r] = "accepted"
    /\ \A i \in 1 .. Len(queue) : ~Created(queue[i])
    /\ \A p \in Procs : ItemUser(p)

Inserts(p) == (SaveUser(p) \/ CreateUserFails(p)) /\ InsertUser(EmailOf[witem[p]], witem[p])

\* Users are inserted by synchronous requests and by workers at their insert.
LEMMA UserFrame ==
    ASSUME [Next]_vars
    PROVE  \/ UNCHANGED userVars
           \/ \E e \in Emails : FreeEmail(e) \/ SyncCreateUser(e)
           \/ \E p \in Procs : Inserts(p)
<1>1. CASE UNCHANGED vars
  BY <1>1, Zenon DEF vars, userVars
<1>2. CASE \E r \in Requests : HandlerStep(r) \/ ClientCancels(r)
  BY Zenon, <1>2 DEF HandlerStep, ClientCancels, SaveJob, SaveJobFails, PublishQueuedJob,
              BeginEnqueue, Enqueue, EnqueueRejected, DeleteJobAfterFailedEnqueue
<1>3. CASE \E s \in Stoppers : StopStep(s) \/ StopDeadline(s)
  BY Zenon, <1>3 DEF StopStep, StopDeadline, StopCall, StopCallIdle, StopCancel, StopPoll,
              StopWaitDone, StopTimesOut, CompleteStopRepair, CompleteStopRepeated,
              CompleteStopSettle
<1>4. CASE \E p \in Procs : WorkerStep(p)
  <2>1. PICK p \in Procs : WorkerStep(p)
    BY <1>4
  <2>2. CASE SaveUser(p) \/ CreateUserFails(p)
    BY <2>2, Zenon DEF Inserts, SaveUser, CreateUserFails
  <2>3. CASE ~(SaveUser(p) \/ CreateUserFails(p))
    BY Zenon, <2>1, <2>3 DEF WorkerStep, WorkerExits, ReceiveItem, CheckContext, ServiceCheck,
       Transit, TransitUnacknowledged, ServiceCallFails, AnnounceRunning, AnnounceTerminal,
       ExistsByEmail
  <2> QED BY <2>2, <2>3
<1>5. CASE \/ \E e \in Emails : UserRequest(e)
           \/ Start \/ StopAccepting \/ Signal \/ ForeignRepair \/ Crash
  BY Zenon, <1>5 DEF UserRequest, Start, StopAccepting, Signal, ForeignRepair, Crash
<1> QED BY <1>1, <1>2, <1>3, <1>4, <1>5 DEF Next

\* Nobody is forgotten as the creator of a user, and a job is added only by
\* the worker that holds it, at its insert.
LEMMA CreatorsGrow ==
    ASSUME IInv, [Next]_vars
    PROVE  /\ \A e \in Emails : creators[e] \subseteq creators'[e]
           /\ \A e \in Emails : users'[e] => users[e] \/ creators'[e] # {}
           /\ \A r \in Requests : Created(r)' /\ ~Created(r) =>
                  \E p \in Procs : Inserts(p) /\ wpc[p] = "save" /\ witem[p] = r
<1>0. /\ users \in [Emails -> BOOLEAN] /\ creators \in [Emails -> SUBSET (Requests \cup {Sync})]
      /\ EmailOf \in [Requests -> Emails] /\ Sync \notin Requests
  BY PipelineAssumption DEF IInv, TypeOK, UserTypes
<1>1. CASE UNCHANGED userVars
  BY <1>1, Zenon DEF userVars, Created
<1>2. CASE \E e \in Emails : FreeEmail(e)
  <2>1. PICK e \in Emails : FreeEmail(e)
    BY <1>2
  <2>2. UNCHANGED creators /\ users' = [users EXCEPT ![e] = FALSE]
    BY <2>1, Zenon DEF FreeEmail
  <2>3. \A x \in Emails : users'[x] => users[x]
    BY <1>0, <2>2
  <2> QED BY <2>2, <2>3, Zenon DEF Created
<1>3. CASE \E e \in Emails : SyncCreateUser(e)
  <2>1. PICK e \in Emails : SyncCreateUser(e)
    BY <1>3
  <2>2. /\ users' = [users EXCEPT ![e] = TRUE]
        /\ creators' = [creators EXCEPT ![e] = @ \cup {Sync}]
    BY <2>1, Zenon DEF SyncCreateUser, InsertUser
  <2>3. \A x \in Emails : /\ creators[x] \subseteq creators'[x]
                          /\ creators'[x] \subseteq creators[x] \cup {Sync}
    BY <1>0, <2>2
  <2>4. \A x \in Emails : users'[x] => users[x] \/ creators'[x] # {}
    BY <1>0, <2>2
  <2> QED BY <1>0, <2>3, <2>4 DEF Created
<1>4. CASE \E p \in Procs : Inserts(p)
  <2>1. PICK p \in Procs : Inserts(p)
    BY <1>4
  <2> DEFINE e == EmailOf[witem[p]]
  <2>2. /\ users' = [users EXCEPT ![e] = TRUE]
        /\ creators' = [creators EXCEPT ![e] = @ \cup {witem[p]}]
    BY <2>1, Zenon DEF Inserts, InsertUser
  <2>3. wpc[p] \in {"exists", "save"}
    BY <2>1, Zenon DEF Inserts, SaveUser, CreateUserFails
  <2>4. witem[p] \in Requests /\ e \in Emails
    BY <1>0, <2>3, HeldItem DEF IInv, TypeOK
  <2> HIDE DEF e
  <2>5. \A x \in Emails : /\ creators[x] \subseteq creators'[x]
                          /\ creators'[x] \subseteq creators[x] \cup {witem[p]}
    BY <1>0, <2>2, <2>4
  <2>6. \A x \in Emails : users'[x] => users[x] \/ creators'[x] # {}
    BY <1>0, <2>2, <2>4
  <2>7. \A r \in Requests : Created(r)' /\ ~Created(r) => witem[p] = r
    BY <1>0, <2>5 DEF Created
  <2>8. (\E r \in Requests : Created(r)' /\ ~Created(r)) => wpc[p] = "save"
    <3> SUFFICES ASSUME wpc[p] # "save" PROVE UNCHANGED creators
      BY <1>0, Zenon DEF Created
    <3> QED BY <2>1, Zenon DEF Inserts, SaveUser, CreateUserFails, userVars
  <2> QED BY <2>1, <2>5, <2>6, <2>7, <2>8, Zenon
<1> QED BY <1>1, <1>2, <1>3, <1>4, UserFrame, Zenon

\* A worker's step keeps what it knows of the user of its item.
LEMMA ItemUserOwn ==
    ASSUME IInv, UserShape, NEW p \in Procs, WorkerStep(p), [Next]_vars
    PROVE  ItemUser(p)'
<1> DEFINE r == witem[p]
           e == EmailOf[r]
<1>0. /\ ItemUser(p) /\ WorkerTypes
      /\ r # Nil <=> wpc[p] \in {"received", "check", "cas", "announce", "exists", "save"}
      /\ r \in Requests \cup {Nil}
  BY DEF UserShape, IInv, TypeOK, WorkerTypes, WorkerShape
<1>1. /\ \A x \in Emails : creators[x] \subseteq creators'[x]
      /\ r # Nil => r \in Requests /\ e \in Emails
  BY <1>0, CreatorsGrow, PipelineAssumption
<1>2. CASE UNCHANGED <<witem, wintent, wproblem>> /\ UNCHANGED creators /\ (Before(p)' => Before(p))
  BY <1>0, <1>2, Zenon DEF ItemUser, Created
<1>3. CASE DropItem(p)
  <2>1. witem'[p] = Nil /\ wintent'[p] = "none" /\ wproblem'[p] = "none"
    BY <1>0, <1>3 DEF DropItem, WorkerTypes
  <2> QED BY <2>1, Zenon DEF ItemUser
<1>4. ASSUME NEW i, NEW prob, Call(p, i, prob), wpc[p] # "select",
             i = "start" => Before(p) /\ UNCHANGED creators,
             i = "succeed" => r \in creators'[e],
             prob = "conflict" => creators[e] \ {r} # {},
             r # Nil
      PROVE  ItemUser(p)'
  <2>1. wpc'[p] = "check" /\ witem'[p] = r /\ wintent'[p] = i /\ wproblem'[p] = prob
    BY <1>0, <1>4 DEF Call, WorkerTypes
  <2>2. Before(p)' => Before(p) /\ UNCHANGED creators
    BY <1>4, <2>1 DEF Before
  <2>3. Before(p)' => ~(r \in creators'[e])
    BY <1>0, <1>4, <2>2, Zenon DEF ItemUser, Created
  <2>4. prob = "conflict" => creators'[e] \ {r} # {}
    BY <1>1, <1>4
  <2> QED BY <1>4, <2>1, <2>3, <2>4, Zenon DEF ItemUser, Created
<1>5. CASE WorkerExits(p) \/ ServiceCheck(p) \/ Transit(p) \/ AnnounceRunning(p)
  <2>1. /\ UNCHANGED <<witem, wintent, wproblem, creators>>
        /\ wpc'[p] \in {"exited", "cas", "announce", "exists"}
        /\ wpc'[p] = "exists" => wintent[p] = "start"
    BY <1>0, <1>5 DEF WorkerExits, ServiceCheck, Transit, AnnounceRunning, userVars, WorkerTypes
  <2> QED BY <1>2, <2>1, Zenon DEF Before
<1>6. CASE ReceiveItem(p)
  <2>1. /\ wpc[p] = "select" /\ wpc'[p] = "received" /\ witem'[p] = queue[1] /\ queue # <<>>
        /\ UNCHANGED <<wintent, wproblem, creators>> /\ 1 \in 1 .. Len(queue)
    <3>1. queue \in Seq(Requests)
      BY Zenon DEF IInv, TypeOK, QueueTypes
    <3>2. /\ wpc[p] = "select" /\ wpc'[p] = "received" /\ witem'[p] = Head(queue) /\ queue # <<>>
          /\ UNCHANGED <<wintent, wproblem, creators>>
      BY <1>0, <1>6, Zenon DEF ReceiveItem, WorkerTypes, userVars
    <3> QED BY <3>1, <3>2, QueueParts, Zenon
  <2>2. wintent[p] = "none" /\ wproblem[p] = "none"
    BY <1>0, <2>1 DEF ItemUser
  <2>3. ~Created(queue[1]) /\ queue[1] # Nil
    <3>1. queue \in Seq(Requests)
      BY Zenon DEF IInv, TypeOK, QueueTypes
    <3>2. queue[1] \in Requests
      BY <2>1, <3>1, ItemsAreRequests, Zenon
    <3>3. queue[1] # Nil
      BY <3>1, <3>2, ItemsAreRequests, Zenon
    <3> QED BY <2>1, <3>3, Zenon DEF UserShape
  <2> QED BY <2>1, <2>2, <2>3, Zenon DEF ItemUser, Created
<1>7. CASE CheckContext(p)
  <2>1. wpc[p] = "received" /\ UNCHANGED creators /\ Before(p) /\ r # Nil
    BY <1>0, <1>7 DEF CheckContext, userVars, Before
  <2>2. Call(p, "shutdown", "shutdown") \/ Call(p, "start", "none")
    BY <1>7, Zenon DEF CheckContext
  <2>3. CASE Call(p, "shutdown", "shutdown")
    BY <1>4, <2>1, <2>3
  <2>4. CASE Call(p, "start", "none")
    BY <1>4, <2>1, <2>4
  <2> QED BY <2>2, <2>3, <2>4
<1>8. CASE TransitUnacknowledged(p) \/ ServiceCallFails(p) \/ AnnounceTerminal(p)
  BY <1>3, <1>8, Zenon DEF TransitUnacknowledged, ServiceCallFails, AnnounceTerminal
<1>9. CASE ExistsByEmail(p) \/ SaveUser(p) \/ CreateUserFails(p)
  <2>1. r # Nil /\ Before(p) /\ wpc[p] # "select" /\ r \notin creators[e] /\ e \in Emails
    <3>1. wpc[p] \in {"exists", "save"}
      BY <1>9, Zenon DEF ExistsByEmail, SaveUser, CreateUserFails
    <3>2. r # Nil /\ Before(p) /\ wpc[p] # "select"
      BY <1>0, <3>1 DEF Before
    <3> QED BY <1>0, <1>1, <3>2, Zenon DEF ItemUser, Created
  <2>2. users[e] => creators[e] \ {r} # {}
    <3>1. users[e] => creators[e] # {}
      BY <2>1, Zenon DEF UserShape
    <3> QED BY <2>1, <3>1
  <2>3. CASE users[e] /\ Call(p, "fail", "conflict")
    BY <1>4, <2>1, <2>2, <2>3
  <2>4. CASE \E prob \in {"shutdown", "internal"} : Call(p, "fail", prob)
    <3>1. PICK prob \in {"shutdown", "internal"} : Call(p, "fail", prob)
      BY <2>4
    <3> QED BY <1>4, <2>1, <3>1
  <2>5. CASE Call(p, "succeed", "none") /\ InsertUser(e, r)
    <3>1. r \in creators'[e]
      BY <2>1, <2>5 DEF InsertUser, IInv, TypeOK, UserTypes
    <3> QED BY <1>4, <2>1, <2>5, <3>1
  <2>6. CASE ExistsByEmail(p) /\ ~users[e]
    BY <1>2, <2>1, <2>6, Zenon DEF ExistsByEmail, userVars
  <2> QED BY <1>9, <2>3, <2>4, <2>5, <2>6, Zenon DEF ExistsByEmail, SaveUser, CreateUserFails
<1> QED BY <1>5, <1>6, <1>7, <1>8, <1>9, Zenon DEF WorkerStep

\* A worker at rest knows of its user what it knew.
LEMMA ItemUserOther ==
    ASSUME IInv, UserShape, [Next]_vars, NEW p \in Procs, ~WorkerStep(p)
    PROVE  ItemUser(p)'
<1>0. /\ ItemUser(p) /\ WorkerTypes /\ witem[p] \in Requests \cup {Nil}
      /\ wpc[p] = "unborn" => witem[p] = Nil
  BY DEF UserShape, IInv, TypeOK, WorkerTypes, WorkerShape
<1>1. CASE Crash
  <2>1. witem'[p] = Nil /\ wintent'[p] = "none" /\ wproblem'[p] = "none"
    BY <1>1 DEF Crash
  <2> QED BY <2>1, Zenon DEF ItemUser
<1>2. CASE ~Crash
  <2>1. /\ witem'[p] = witem[p] /\ wintent'[p] = wintent[p] /\ wproblem'[p] = wproblem[p]
        /\ wpc'[p] = wpc[p] \/ wpc[p] = "unborn"
    <3>1. CASE \E q \in Procs : WorkerStep(q)
      <4>1. PICK q \in Procs : WorkerStep(q)
        BY <3>1
      <4>2. q # p
        BY <4>1
      <4>3. wpc'[p] = wpc[p] /\ witem'[p] = witem[p] /\ wintent'[p] = wintent[p]
        BY <4>1, <4>2, WorkerEffect DEF IInv
      <4>4. UNCHANGED wproblem \/ \E x : wproblem' = [wproblem EXCEPT ![q] = x]
        BY <4>1, Zenon DEF WorkerStep, WorkerExits, ReceiveItem, CheckContext, ServiceCheck,
           Transit, TransitUnacknowledged, ServiceCallFails, AnnounceRunning, AnnounceTerminal,
           ExistsByEmail, SaveUser, CreateUserFails, Call, DropItem
      <4>5. wproblem'[p] = wproblem[p]
        BY <1>0, <4>2, <4>4 DEF WorkerTypes
      <4> QED BY <4>3, <4>5
    <3>2. CASE Start
      <4>1. UNCHANGED <<witem, wintent, wproblem>>
        BY <3>2, Zenon DEF Start
      <4>2. wpc'[p] = wpc[p] \/ p[1] = ngen + 1
        BY <3>2 DEF Start
      <4> QED BY <4>1, <4>2, NextUnborn DEF IInv, TypeOK
    <3>3. CASE ~Start /\ ~ \E q \in Procs : WorkerStep(q)
      BY <1>2, <3>3, WorkerFrame, Zenon DEF workerVars
    <3> QED BY <3>1, <3>2, <3>3
  <2>2. CASE witem[p] = Nil
    BY <1>0, <2>1, <2>2, Zenon DEF ItemUser
  <2>3. CASE witem[p] # Nil
    <3>1. PICK r \in Requests : r = witem[p]
      BY <1>0, <2>3
    <3>2. EmailOf[r] \in Emails /\ wpc'[p] = wpc[p] /\ witem'[p] = r /\ r # Nil
      BY <1>0, <2>1, <2>3, <3>1, PipelineAssumption
    <3>3. creators[EmailOf[r]] \ {r} # {} => creators'[EmailOf[r]] \ {r} # {}
      BY <3>2, CreatorsGrow
    <3>4. Created(r) => Created(r)'
      BY <3>2, CreatorsGrow DEF Created
    <3>5. Created(r)' => Created(r)
      <4> SUFFICES ASSUME Created(r)', ~Created(r) PROVE FALSE
        OBVIOUS
      <4>1. \E q \in Procs : Inserts(q) /\ witem[q] = r
        BY CreatorsGrow
      <4>2. Inserts(p)
        BY <2>3, <3>1, <4>1 DEF IInv, ItemShape, ItemInOnePlace
      <4> QED BY <4>2 DEF Inserts, WorkerStep
    <3>6. Before(p)' => Before(p)
      BY <2>1, <3>2, Zenon DEF Before
    <3> QED BY <1>0, <2>1, <3>1, <3>2, <3>3, <3>4, <3>5, <3>6, Zenon DEF ItemUser, Created
  <2> QED BY <2>2, <2>3
<1> QED BY <1>1, <1>2

\* An accepted job stays accepted, even across a crash.
LEMMA AcceptedStays ==
    ASSUME IInv, [Next]_vars, NEW r \in Requests, hpc[r] = "accepted"
    PROVE  hpc'[r] = "accepted"
<1>1. CASE \E q \in Requests : HandlerStep(q)
  BY <1>1, HandlerEffect DEF IInv
<1>2. CASE Crash
  BY <1>2 DEF Crash
<1>3. CASE ~Crash /\ ~ \E q \in Requests : HandlerStep(q)
  BY <1>3, HandlerFrame
<1> QED BY <1>1, <1>2, <1>3

\* An item in the queue was there before, or has just been enqueued.
LEMMA QueueMoves ==
    ASSUME IInv, [Next]_vars, NEW i \in 1 .. Len(queue')
    PROVE  \/ \E j \in 1 .. Len(queue) : queue'[i] = queue[j]
           \/ \E r \in Requests : Enqueue(r) /\ queue'[i] = r
<1>0. queue \in Seq(Requests)
  BY DEF IInv, TypeOK, QueueTypes
<1>1. CASE Crash
  <2>1. queue' = <<>>
    BY <1>1 DEF Crash
  <2> QED BY <2>1
<1>2. CASE \E r \in Requests : Enqueue(r)
  <2>1. PICK r \in Requests : Enqueue(r)
    BY <1>2
  <2>2. queue' = Append(queue, r)
    BY <2>1 DEF Enqueue
  <2>3. (i \in 1 .. Len(queue) /\ queue'[i] = queue[i]) \/ queue'[i] = r
    BY <1>0, <2>2
  <2> QED BY <2>1, <2>3
<1>3. CASE \E p \in Procs : ReceiveItem(p)
  <2>1. queue # <<>> /\ queue' = Tail(queue)
    BY <1>3 DEF ReceiveItem
  <2>2. i + 1 \in 1 .. Len(queue) /\ queue'[i] = queue[i + 1]
    BY <1>0, <2>1
  <2> QED BY <2>2
<1>4. CASE UNCHANGED queue
  BY <1>4
<1> QED BY <1>1, <1>2, <1>3, <1>4, QueueFrame, HandlerEffect, WorkerEffect DEF IInv

\* Every step keeps the users' shape.
LEMMA UserShapeStep ==
    ASSUME IInv, UserShape, [Next]_vars
    PROVE  UserShape'
<1>1. \A e \in Emails : users'[e] => creators'[e] # {}
  <2> SUFFICES ASSUME NEW e \in Emails, users'[e] PROVE creators'[e] # {}
    OBVIOUS
  <2>1. users[e] \/ creators'[e] # {}
    BY CreatorsGrow
  <2>2. users[e] => creators[e] # {}
    BY Zenon DEF UserShape
  <2>3. creators[e] \subseteq creators'[e]
    BY CreatorsGrow
  <2> QED BY <2>1, <2>2, <2>3
<1>2. ASSUME NEW p \in Procs, Inserts(p), wpc[p] = "save", NEW r \in Requests, witem[p] = r
      PROVE  hpc[r] = "accepted" /\ \A j \in 1 .. Len(queue) : queue[j] # r
  <2>1. witem[p] # Nil
    BY <1>2, PipelineAssumption
  <2> QED BY <1>2, <2>1 DEF IInv, ItemShape, ItemInOnePlace
<1>2a. ASSUME NEW r \in Requests, Created(r)', ~Created(r)
       PROVE  hpc[r] = "accepted" /\ \A j \in 1 .. Len(queue) : queue[j] # r
  <2>1. PICK p \in Procs : Inserts(p) /\ wpc[p] = "save" /\ witem[p] = r
    BY <1>2a, CreatorsGrow, ZenonT(60)
  <2> QED BY <1>2, <2>1, ZenonT(60)
<1>3. ASSUME NEW r \in Requests, Created(r)' PROVE hpc'[r] = "accepted"
  <2>1. hpc[r] = "accepted"
    <3>1. CASE Created(r)
      BY <3>1, Zenon DEF UserShape
    <3>2. CASE ~Created(r)
      BY <1>2a, <1>3, <3>2, ZenonT(60)
    <3> QED BY <3>1, <3>2
  <2> QED BY <2>1, AcceptedStays
<1>4. ASSUME NEW i \in 1 .. Len(queue') PROVE ~Created(queue[i])'
  <2>0. PICK r \in Requests : r = queue'[i]
    BY TypeStep DEF IInv, TypeOK, QueueTypes
  <2>1. ~Created(r) /\ (hpc[r] # "accepted" \/ \E j \in 1 .. Len(queue) : queue[j] = r)
    <3>1. CASE \E j \in 1 .. Len(queue) : queue'[i] = queue[j]
      BY <2>0, <3>1 DEF UserShape
    <3>2. CASE \E x \in Requests : Enqueue(x) /\ queue'[i] = x
      BY <2>0, <3>2 DEF UserShape, Enqueue
    <3> QED BY <3>1, <3>2, QueueMoves
  <2>2. ~Created(r)'
    BY <1>2a, <2>1, ZenonT(60)
  <2> QED BY <2>0, <2>2 DEF Created
<1>5. \A p \in Procs : ItemUser(p)'
  BY ItemUserOwn, ItemUserOther
<1> QED BY <1>1, <1>3, <1>4, <1>5, Zenon DEF UserShape

\* A job becomes succeeded, or reports a conflict, only by the update of the
\* worker that holds its item.
LEMMA RowMoves ==
    ASSUME IInv, [Next]_vars, NEW r \in Requests
    PROVE  /\ status'[r] = "succeeded" =>
                \/ status[r] = "succeeded"
                \/ \E p \in Procs : RepoTransition(p) /\ witem[p] = r /\ wintent[p] = "succeed"
           /\ problem'[r] = "conflict" =>
                \/ problem[r] = "conflict"
                \/ \E p \in Procs : RepoTransition(p) /\ witem[p] = r /\ wproblem[p] = "conflict"
<1>0. /\ status \in [Requests -> Statuses \cup {"none", "removed"}]
      /\ problem \in [Requests -> Problems \cup {"none"}]
  BY DEF IInv, TypeOK, StoreTypes
<1>1. CASE \E q \in Requests : HandlerStep(q)
  <2>1. PICK q \in Requests : HandlerStep(q)
    BY <1>1
  <2>2. /\ UNCHANGED status \/ \E x \in {"queued", "removed"} : status' = [status EXCEPT ![q] = x]
        /\ UNCHANGED problem \/ problem' = [problem EXCEPT ![q] = "none"]
    BY <2>1, Zenon DEF HandlerStep, SaveJob, SaveJobFails, PublishQueuedJob, BeginEnqueue,
       Enqueue, EnqueueRejected, DeleteJobAfterFailedEnqueue, storeVars
  <2> QED BY <1>0, <2>2
<1>2. CASE FailActiveRows
  BY <1>2 DEF FailActiveRows
<1>3. CASE \E p \in Procs : RepoTransition(p)
  <2>1. PICK p \in Procs : RepoTransition(p)
    BY <1>3
  <2>2. wintent[p] \in {"start", "succeed", "fail", "shutdown"}
    BY <2>1 DEF RepoTransition, IInv, TypeOK, WorkerTypes, WorkerShape, Intents
  <2>3. jobTransitionSpecs[JobIntent(wintent[p])].To = "succeeded" => wintent[p] = "succeed"
    BY <2>2, TransitionTable, Zenon
  <2>4. /\ status' = [status EXCEPT ![witem[p]] = jobTransitionSpecs[JobIntent(wintent[p])].To]
        /\ problem' = [problem EXCEPT ![witem[p]] = wproblem[p]]
    BY <2>1, Zenon DEF RepoTransition
  <2> QED BY <1>0, <2>1, <2>3, <2>4
<1>4. CASE UNCHANGED status /\ UNCHANGED problem
  BY <1>4
<1> QED BY <1>1, <1>2, <1>3, <1>4, StoreFrame, Zenon

\* The users' shape holds in every state.
LEMMA UserShapeAlways == Spec => [](IInv /\ UserShape)
<1>1. Init => UserShape
  BY PipelineAssumption, SMTT(60), ZenonT(60) DEF Init, UserShape, ItemUser, Created
<1>2. IInv /\ UserShape /\ [Next]_vars => UserShape'
  BY UserShapeStep
<1> QED BY <1>1, <1>2, IInvAlways, PTL DEF Spec

\* A worker at its update has inserted the user it is about to report, or has
\* met the user it reports as a conflict.
LEMMA UpdateHasCause ==
    ASSUME IInv, UserShape, NEW p \in Procs, RepoTransition(p), NEW r \in Requests, witem[p] = r
    PROVE  /\ wintent[p] = "succeed" => Created(r)
           /\ wproblem[p] = "conflict" => creators[EmailOf[r]] \ {r} # {}
<1>1. ItemUser(p) /\ witem[p] # Nil
  BY PipelineAssumption DEF UserShape
<1> QED BY <1>1, Zenon DEF ItemUser

\* A job is reported succeeded only after its user was inserted, and the
\* record of that insert is never lost (processUserCreateJob).
THEOREM SuccessIsBacked == Spec => []SucceededCreatedUser
<1>1. Init => SucceededCreatedUser
  BY SMTT(60), ZenonT(60) DEF Init, SucceededCreatedUser
<1>2. IInv /\ UserShape /\ SucceededCreatedUser /\ [Next]_vars => SucceededCreatedUser'
  <2> SUFFICES ASSUME IInv, UserShape, SucceededCreatedUser, [Next]_vars,
                      NEW r \in Requests, status'[r] = "succeeded"
               PROVE  Created(r)'
    BY DEF SucceededCreatedUser, Created
  <2>1. Created(r)
    <3>1. CASE status[r] = "succeeded"
      BY <3>1, Zenon DEF SucceededCreatedUser, Created
    <3>2. ASSUME NEW p \in Procs, RepoTransition(p), witem[p] = r, wintent[p] = "succeed"
          PROVE  Created(r)
      BY <3>2, UpdateHasCause, Zenon
    <3> QED BY <3>1, <3>2, RowMoves, Zenon
  <2>2. creators[EmailOf[r]] \subseteq creators'[EmailOf[r]]
    BY CreatorsGrow, PipelineAssumption
  <2> QED BY <2>1, <2>2 DEF Created
<1> QED BY <1>1, <1>2, UserShapeAlways, PTL DEF Spec

\* A conflict has another creator behind it: no job ever conflicts with the
\* user it has inserted itself (CreateUser, ToJobProblem).
THEOREM ConflictsAreReal == Spec => []ConflictHasCause
<1>1. Init => ConflictHasCause
  BY DEF Init, ConflictHasCause
<1>2. IInv /\ UserShape /\ ConflictHasCause /\ [Next]_vars => ConflictHasCause'
  <2> SUFFICES ASSUME IInv, UserShape, ConflictHasCause, [Next]_vars,
                      NEW r \in Requests, problem'[r] = "conflict"
               PROVE  creators'[EmailOf[r]] \ {r} # {}
    BY DEF ConflictHasCause
  <2>1. creators[EmailOf[r]] \ {r} # {}
    <3>1. CASE problem[r] = "conflict"
      BY <3>1, Zenon DEF ConflictHasCause
    <3>2. ASSUME NEW p \in Procs, RepoTransition(p), witem[p] = r, wproblem[p] = "conflict"
          PROVE  creators[EmailOf[r]] \ {r} # {}
      BY <3>2, UpdateHasCause, Zenon
    <3> QED BY <3>1, <3>2, RowMoves, Zenon
  <2>2. creators[EmailOf[r]] \subseteq creators'[EmailOf[r]]
    BY CreatorsGrow, PipelineAssumption
  <2> QED BY <2>1, <2>2
<1> QED BY <1>1, <1>2, UserShapeAlways, PTL DEF Spec

-----------------------------------------------------------------------------
(* A failed job in memory has created nothing *)

\* A worker is reporting the success of its job.
Succeeding(p) == wpc[p] \in {"check", "cas"} /\ wintent[p] = "succeed"

\* In memory, a job whose user exists has succeeded or is about to.
MemoryShape ==
    \A r \in Requests : Created(r) =>
        \/ status[r] = "succeeded"
        \/ status[r] = "running" /\ \E p \in Procs : witem[p] = r /\ Succeeding(p)

\* The intents that end a job, a shutdown included, lead from running to a
\* terminal status.
LEMMA EndingIntents ==
    \A i \in {"succeed", "fail", "shutdown"} :
        /\ IsTerminal(jobTransitionSpecs[JobIntent(i)].To)
        /\ CanTransitionJob("running", JobIntent(i))
<1>1. ASSUME NEW i \in {"succeed", "fail"}
      PROVE  IsTerminal(jobTransitionSpecs[i].To) /\ CanTransitionJob("running", i)
  BY TransitionTable, Zenon DEF IsTerminal, CanTransitionJob
<1> QED BY <1>1, TransitionTable, Zenon

\* In memory, a worker that reports success goes on until the store has it.
LEMMA SucceedingStep ==
    ASSUME ~Durable, IInv, [Next]_vars, NEW p \in Procs, NEW r \in Requests, witem[p] = r,
           Succeeding(p), status[r] = "running"
    PROVE  \/ status'[r] = "succeeded"
           \/ witem'[p] = r /\ Succeeding(p)'
<1>0. WorkerTypes /\ StoreTypes
  BY DEF IInv, TypeOK
<1>1. CASE WorkerStep(p)
  <2>0. JobIntent(wintent[p]) = "succeed" /\ jobTransitionSpecs["succeed"].To = "succeeded"
    BY TransitionTable, Zenon DEF Succeeding
  <2>1. ~ServiceCallFails(p) /\ ~TransitUnacknowledged(p)
    <3>1. CanTransitionJob(status[witem[p]], JobIntent(wintent[p]))
      <4>1. wintent[p] = "succeed" /\ status[witem[p]] = "running"
        BY Zenon DEF Succeeding
      <4> QED BY <4>1, EndingIntents, Zenon
    <3> QED BY <3>1, Zenon DEF ServiceCallFails, TransitUnacknowledged
  <2>2. ServiceCheck(p) \/ Transit(p)
    BY <1>1, <2>1, ZenonT(40) DEF WorkerStep, WorkerExits, ReceiveItem, CheckContext,
       AnnounceRunning, AnnounceTerminal, ExistsByEmail, SaveUser, CreateUserFails, Succeeding
  <2>3. CASE ServiceCheck(p)
    <3>1. wpc' = [wpc EXCEPT ![p] = "cas"] /\ UNCHANGED witem /\ UNCHANGED wintent
      BY <2>3, Zenon DEF ServiceCheck
    <3> QED BY <1>0, <3>1 DEF Succeeding, WorkerTypes
  <2>4. CASE Transit(p)
    <3>1. status' = [status EXCEPT ![r] = "succeeded"]
      BY <2>0, <2>4, Zenon DEF Transit, RepoTransition
    <3> QED BY <1>0, <3>1 DEF StoreTypes
  <2> QED BY <2>2, <2>3, <2>4
<1>2. CASE \E q \in Procs : q # p /\ WorkerStep(q)
  BY <1>2, WorkerEffect DEF IInv, Succeeding
<1>3. CASE Start
  <2>1. p[1] # ngen + 1
    BY SMTT(60), ZenonT(60) DEF Succeeding, IInv, PoolShape, TypeOK, PoolTypes
  <2>2. wpc'[p] = wpc[p] /\ UNCHANGED witem /\ UNCHANGED wintent
    BY <1>3, <2>1 DEF Start
  <2> QED BY <2>2 DEF Succeeding
<1>4. CASE UNCHANGED workerVars
  BY <1>4 DEF workerVars, Succeeding
<1>5. ~Crash
  BY DEF Crash
<1> QED BY <1>1, <1>2, <1>3, <1>4, <1>5, WorkerFrame

\* Every step in memory keeps this.
LEMMA MemoryStep ==
    ASSUME ~Durable, IInv, UserShape, ExecutingJobIsRunning, MemoryShape, [Next]_vars
    PROVE  MemoryShape'
<1> SUFFICES ASSUME NEW r \in Requests, Created(r)'
             PROVE  \/ status'[r] = "succeeded"
                    \/ status'[r] = "running" /\ \E p \in Procs : witem'[p] = r /\ Succeeding(p)'
  BY DEF MemoryShape
<1>0. ExecutingJobIsRunning'
  BY ExecutingStep, PipelineAssumption
<1>1. ASSUME NEW p \in Procs, witem'[p] = r, Succeeding(p)' PROVE status'[r] = "running"
  BY <1>0, <1>1, Zenon DEF ExecutingJobIsRunning, Executing, Succeeding
<1>2. CASE Created(r)
  <2>1. CASE status[r] = "succeeded"
    <3>1. hpc[r] = "accepted"
      BY <1>2, Zenon DEF UserShape
    <3> QED BY <2>1, <3>1, TerminalIsFinal DEF IsTerminal
  <2>2. CASE status[r] = "running" /\ \E p \in Procs : witem[p] = r /\ Succeeding(p)
    BY <1>1, <2>2, SucceedingStep
  <2> QED BY <1>2, <2>1, <2>2 DEF MemoryShape
<1>3. CASE ~Created(r)
  <2>1. PICK p \in Procs : Inserts(p) /\ witem[p] = r
    BY <1>3, CreatorsGrow
  <2>2. SaveUser(p) /\ ~UNCHANGED userVars
    BY <1>3, <2>1, Zenon DEF Inserts, CreateUserFails, userVars, Created
  <2>3. Call(p, "succeed", "none")
    BY <2>2, Zenon DEF SaveUser
  <2>4. witem'[p] = r /\ Succeeding(p)'
    BY <2>1, <2>3 DEF Call, Succeeding, IInv, TypeOK, WorkerTypes
  <2> QED BY <1>1, <2>4
<1> QED BY <1>2, <1>3

\* With the memory repositories a job marked failed has not created its user,
\* whichever of worker, repair and cancellation failed it (markJobFailed,
\* completeStop).
THEOREM FailureCreatesNothing == Spec => []FailedCreatedNoUser
<1>1. CASE Durable
  BY <1>1, PTL DEF FailedCreatedNoUser
<1>2. CASE ~Durable
  <2>1. Init => ExecutingJobIsRunning /\ MemoryShape
    BY PipelineAssumption, SMTT(60), ZenonT(60) DEF Init, MemoryShape, Created,
       ExecutingJobIsRunning, Executing
  <2>2. IInv /\ UserShape /\ ExecutingJobIsRunning /\ MemoryShape /\ [Next]_vars
            => (ExecutingJobIsRunning /\ MemoryShape)'
    BY <1>2, MemoryStep, ExecutingStep, PipelineAssumption
  <2>3. MemoryShape => FailedCreatedNoUser
    BY DEF MemoryShape, FailedCreatedNoUser, Created
  <2> QED BY <2>1, <2>2, <2>3, UserShapeAlways, PTL DEF Spec
<1> QED BY <1>1, <1>2
=============================================================================
