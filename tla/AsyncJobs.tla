----------------------------- MODULE AsyncJobs -----------------------------
(***************************************************************************)
(* The asynchronous user-creation pipeline: the POST ?async=1 handler, the *)
(* bounded queue, the worker pool with its generations, the job service    *)
(* and repository, and the user repository the workers write to.           *)
(*                                                                         *)
(* A request names the job it creates: the store assigns a fresh id to     *)
(* every saved job, so request and job are one identity here.  The payload *)
(* of a request is its e-mail, the only field two requests compete for.    *)
(* A handler inside Queue.Enqueue holds the read side of the queue's       *)
(* RWMutex; StopAccepting needs the write side.                            *)
(***************************************************************************)
EXTENDS JobTransitions, Naturals, Sequences, FiniteSets

CONSTANTS
    Requests,     \* asynchronous create requests, and the jobs they create
    Emails,       \* e-mail addresses
    EmailOf,      \* [Requests -> Emails], the payload of a request
    Workers,      \* worker slots of one generation
    MaxGen,       \* bound: worker generations created by Start
    Stoppers,     \* callers of WorkerPool.Stop
    Capacity,     \* capacity of the queue's channel
    Durable,      \* TRUE: the sqlx repositories, FALSE: the memory ones
    SharedDB,     \* TRUE: another instance runs on the same database
    Supervised,   \* TRUE: Start and Stop are called as APIServer.Run does
    UserDeletes,  \* TRUE: users are deleted in the meantime
    MaxCrashes,   \* bound: process crashes
    Nil, Sync     \* no item; the creator of users in synchronous requests

ASSUME PipelineAssumption ==
    /\ EmailOf \in [Requests -> Emails]
    /\ MaxGen \in Nat /\ MaxCrashes \in Nat /\ Capacity \in Nat \ {0}
    /\ Durable \in BOOLEAN /\ SharedDB \in BOOLEAN /\ Supervised \in BOOLEAN
    /\ UserDeletes \in BOOLEAN
    /\ SharedDB => Durable   \* instances share a database, never a memory
    /\ Nil \notin Requests /\ Sync \notin Requests /\ Nil # Sync

Gens == 1 .. MaxGen

Procs == Gens \X Workers   \* worker goroutines: generation and slot

Problems == {"shutdown", "conflict", "internal"}

VARIABLES
    \* job repository: status of every job and the kind of its Error
    status, problem,
    \* user repository: whether an e-mail is taken; history: who created a
    \* user with it, deleted since or not
    users, creators,
    \* queue: buffered work items, and the admission flag
    queue, stopped,
    \* asynchronous handlers: control state, and whether r.Context() is done
    hpc, hcancel,
    \* workers: control state, held item, service call under way, its problem
    wpc, witem, wintent, wproblem,
    \* pool: current generation (0: nil), generations made, stopping flag,
    \* cancelled generation contexts, stopOnce outcomes, lastOutcome
    cur, ngen, stopping, gcancel, outcome, last,
    \* Stop callers: control state, captured generation, result, ctx expired
    spc, sgen, sres, sexpired,
    \* application context of main, and crashes so far
    appDone, crashes,
    \* event hub log per job, and the jobs_total counters
    events, metrics

storeVars   == <<status, problem>>
userVars    == <<users, creators>>
queueVars   == <<queue, stopped>>
handlerVars == <<hpc, hcancel>>
workerVars  == <<wpc, witem, wintent, wproblem>>
poolVars    == <<cur, ngen, stopping, gcancel, outcome, last>>
stopVars    == <<spc, sgen, sres, sexpired>>
envVars     == <<appDone, crashes>>
obsVars     == <<events, metrics>>

vars == <<status, problem, users, creators, queue, stopped, hpc, hcancel, wpc,
          witem, wintent, wproblem, cur, ngen, stopping, gcancel, outcome, last,
          spc, sgen, sres, sexpired, appDone, crashes, events, metrics>>

Init ==
    /\ status = [r \in Requests |-> "none"]
    /\ problem = [r \in Requests |-> "none"]
    /\ users = [e \in Emails |-> FALSE]
    /\ creators = [e \in Emails |-> {}]
    /\ queue = <<>> /\ stopped = FALSE
    /\ hpc = [r \in Requests |-> "new"]
    /\ hcancel = [r \in Requests |-> FALSE]
    /\ wpc = [p \in Procs |-> "unborn"]
    /\ witem = [p \in Procs |-> Nil]
    /\ wintent = [p \in Procs |-> "none"]
    /\ wproblem = [p \in Procs |-> "none"]
    /\ cur = 0 /\ ngen = 0 /\ stopping = FALSE
    /\ gcancel = [g \in Gens |-> FALSE]
    /\ outcome = [g \in Gens |-> "none"]
    /\ last = "none"
    /\ spc = [s \in Stoppers |-> "idle"]
    /\ sgen = [s \in Stoppers |-> 0]
    /\ sres = [s \in Stoppers |-> "none"]
    /\ sexpired = [s \in Stoppers |-> FALSE]
    /\ appDone = FALSE /\ crashes = 0
    /\ events = [r \in Requests |-> <<>>]
    /\ metrics = [m \in Statuses |-> 0]

-----------------------------------------------------------------------------
(* Shared effects *)

Publish(r, type) == events' = [events EXCEPT ![r] = Append(@, type)]

Count(m) == metrics' = [metrics EXCEPT ![m] = @ + 1]

\* The user repository stores a new user.
InsertUser(e, by) ==
    /\ users' = [users EXCEPT ![e] = TRUE]
    /\ creators' = [creators EXCEPT ![e] = @ \cup {by}]

\* Variant with a bug: the two columns of the update are swapped.
FailActiveRowsSwapped ==
    /\ status' = [r \in Requests |-> IF IsActive(status[r]) THEN "shutdown" ELSE status[r]]
    /\ problem' = [r \in Requests |-> IF IsActive(status[r]) THEN "failed" ELSE problem[r]]

\* Variant with a bug: queued rows are forgotten.
FailActiveRowsRunningOnly ==
    /\ status' = [r \in Requests |-> IF status[r] = "running" THEN "failed" ELSE status[r]]
    /\ problem' = [r \in Requests |-> IF status[r] = "running" THEN "shutdown" ELSE problem[r]]

\* FailActive: every queued or running row becomes failed.
FailActiveRows ==
    /\ status' = [r \in Requests |-> IF IsActive(status[r]) THEN "failed" ELSE status[r]]
    /\ problem' = [r \in Requests |-> IF IsActive(status[r]) THEN "shutdown" ELSE problem[r]]

-----------------------------------------------------------------------------
(* UsersHandler.Create with async=1 *)

\* APIServer.Run starts the pool before it serves.
Serving == Supervised => (cur # 0 \/ stopped)

ClientCancels(r) ==
    /\ hpc[r] \in {"new", "saved", "published", "enqueuing"} /\ ~hcancel[r]
    /\ hcancel' = [hcancel EXCEPT ![r] = TRUE]
    /\ UNCHANGED <<hpc, userVars, storeVars, queueVars, workerVars, poolVars, stopVars,
                   envVars, obsVars>>

\* Variant with a bug: the handler enqueues the job without announcing it.
SaveJobUnannounced(r) ==
    /\ hpc[r] = "new" /\ Serving
    /\ ~(Durable /\ hcancel[r])
    /\ status' = [status EXCEPT ![r] = "queued"]
    /\ hpc' = [hpc EXCEPT ![r] = "published"]
    /\ UNCHANGED <<problem, hcancel, userVars, queueVars, workerVars, poolVars, stopVars,
                   envVars, obsVars>>

SaveJob(r) ==
    /\ hpc[r] = "new" /\ Serving
    /\ ~(Durable /\ hcancel[r])
    /\ status' = [status EXCEPT ![r] = "queued"]
    /\ hpc' = [hpc EXCEPT ![r] = "saved"]
    /\ UNCHANGED <<problem, hcancel, userVars, queueVars, workerVars, poolVars, stopVars,
                   envVars, obsVars>>

\* The insert fails, or commits without the handler learning of it.
SaveJobFails(r) ==
    /\ hpc[r] = "new" /\ Serving /\ Durable
    /\ \/ UNCHANGED status
       \/ ~hcancel[r] /\ status' = [status EXCEPT ![r] = "queued"]
    /\ hpc' = [hpc EXCEPT ![r] = "errored"]
    /\ UNCHANGED <<problem, hcancel, userVars, queueVars, workerVars, poolVars, stopVars,
                   envVars, obsVars>>

PublishQueuedJob(r) ==
    /\ hpc[r] = "saved"
    /\ Count("queued") /\ Publish(r, "queued")
    /\ hpc' = [hpc EXCEPT ![r] = "published"]
    /\ UNCHANGED <<hcancel, userVars, storeVars, queueVars, workerVars, poolVars, stopVars,
                   envVars>>

\* Queue.Enqueue takes the read lock; stopped and the context are checked
\* under it ...
BeginEnqueue(r) ==
    /\ hpc[r] = "published" /\ ~hcancel[r] /\ ~stopped
    /\ hpc' = [hpc EXCEPT ![r] = "enqueuing"]
    /\ UNCHANGED <<hcancel, userVars, storeVars, queueVars, workerVars, poolVars, stopVars,
                   envVars, obsVars>>

\* Variant with a bug: a successful send is retried.
EnqueueRetried(r) ==
    /\ hpc[r] \in {"enqueuing", "accepted"} /\ Len(queue) < Capacity
    /\ queue' = Append(queue, r)
    /\ hpc' = [hpc EXCEPT ![r] = "accepted"]
    /\ UNCHANGED <<stopped, hcancel, userVars, storeVars, workerVars, poolVars, stopVars,
                   envVars, obsVars>>

\* ... and the select sends without waiting, even if the context has just
\* been cancelled.
Enqueue(r) ==
    /\ hpc[r] = "enqueuing" /\ Len(queue) < Capacity
    /\ queue' = Append(queue, r)
    /\ hpc' = [hpc EXCEPT ![r] = "accepted"]
    /\ UNCHANGED <<stopped, hcancel, userVars, storeVars, workerVars, poolVars, stopVars,
                   envVars, obsVars>>

EnqueueRejected(r) ==
    /\ \/ hpc[r] = "published" /\ (hcancel[r] \/ stopped)
       \/ hpc[r] = "enqueuing" /\ (hcancel[r] \/ Len(queue) = Capacity)
    /\ hpc' = [hpc EXCEPT ![r] = "rollback"]
    /\ UNCHANGED <<hcancel, userVars, storeVars, queueVars, workerVars, poolVars, stopVars,
                   envVars, obsVars>>

\* The rollback runs on a detached context; on the database it may still
\* fail, with or without having deleted the row.
DeleteJobAfterFailedEnqueue(r) ==
    /\ hpc[r] = "rollback"
    /\ \/ /\ status' = [status EXCEPT ![r] = "removed"]
          /\ problem' = [problem EXCEPT ![r] = "none"]
       \/ Durable /\ UNCHANGED storeVars
    /\ hpc' = [hpc EXCEPT ![r] = "rejected"]
    /\ UNCHANGED <<hcancel, userVars, queueVars, workerVars, poolVars, stopVars, envVars,
                   obsVars>>

HandlerStep(r) ==
    \/ SaveJob(r) \/ SaveJobFails(r) \/ PublishQueuedJob(r)
    \/ BeginEnqueue(r) \/ Enqueue(r) \/ EnqueueRejected(r)
    \/ DeleteJobAfterFailedEnqueue(r)

\* A synchronous create request, or another instance, creates a user.
SyncCreateUser(e) ==
    /\ ~users[e]
    /\ InsertUser(e, Sync)
    /\ UNCHANGED <<storeVars, queueVars, handlerVars, workerVars, poolVars, stopVars,
                   envVars, obsVars>>

\* UserService.Delete of the user with an e-mail: an operation of the service
\* that no route calls yet.
FreeEmail(e) ==
    /\ UserDeletes /\ users[e]
    /\ users' = [users EXCEPT ![e] = FALSE]
    /\ UNCHANGED <<creators, storeVars, queueVars, handlerVars, workerVars, poolVars,
                   stopVars, envVars, obsVars>>

UserRequest(e) == SyncCreateUser(e) \/ FreeEmail(e)

\* Variant with a bug: the flag is set without the lock.
StopAcceptingUnlocked ==
    /\ ~stopped
    /\ stopped' = TRUE
    /\ UNCHANGED <<queue, userVars, storeVars, handlerVars, workerVars, poolVars, stopVars,
                   envVars, obsVars>>

StopAccepting ==
    /\ ~stopped /\ \A r \in Requests : hpc[r] # "enqueuing"
    /\ stopped' = TRUE
    /\ UNCHANGED <<queue, userVars, storeVars, handlerVars, workerVars, poolVars, stopVars,
                   envVars, obsVars>>

-----------------------------------------------------------------------------
(* workerLoop *)

Cancelled(g) == appDone \/ gcancel[g]   \* gen.ctx derives from main's context

\* Service calls that run on gen.ctx.  markJobFailed uses a detached one.
CtxDead(p) == Durable /\ Cancelled(p[1]) /\ wintent[p] \in {"start", "succeed"}

JobIntent(i) == IF i = "shutdown" THEN "fail" ELSE i

\* The worker is between its queued -> running update and its final update.
Executing(p) ==
    \/ wpc[p] \in {"exists", "save"}
    \/ wpc[p] = "announce" /\ wintent[p] = "start"
    \/ wpc[p] \in {"check", "cas"} /\ wintent[p] \in {"succeed", "fail"}

Call(p, intent, prob) ==
    /\ wpc' = [wpc EXCEPT ![p] = "check"]
    /\ wintent' = [wintent EXCEPT ![p] = intent]
    /\ wproblem' = [wproblem EXCEPT ![p] = prob]
    /\ UNCHANGED witem

\* Back to the select, or out of the loop after the shutdown branch.
DropItem(p) ==
    /\ wpc' = [wpc EXCEPT ![p] = IF wintent[p] = "shutdown" THEN "exited" ELSE "select"]
    /\ witem' = [witem EXCEPT ![p] = Nil]
    /\ wintent' = [wintent EXCEPT ![p] = "none"]
    /\ wproblem' = [wproblem EXCEPT ![p] = "none"]

WorkerExits(p) ==
    /\ wpc[p] = "select" /\ Cancelled(p[1])
    /\ wpc' = [wpc EXCEPT ![p] = "exited"]
    /\ UNCHANGED <<witem, wintent, wproblem, userVars, storeVars, queueVars, handlerVars,
                   poolVars, stopVars, envVars, obsVars>>

ReceiveItem(p) ==
    /\ wpc[p] = "select" /\ queue # <<>>
    /\ queue' = Tail(queue)
    /\ wpc' = [wpc EXCEPT ![p] = "received"]
    /\ witem' = [witem EXCEPT ![p] = Head(queue)]
    /\ UNCHANGED <<stopped, wintent, wproblem, userVars, storeVars, handlerVars, poolVars,
                   stopVars, envVars, obsVars>>

CheckContext(p) ==
    /\ wpc[p] = "received"
    /\ IF Cancelled(p[1]) THEN Call(p, "shutdown", "shutdown") ELSE Call(p, "start", "none")
    /\ UNCHANGED <<userVars, storeVars, queueVars, handlerVars, poolVars, stopVars, envVars,
                   obsVars>>

\* JobService.transition reads the job and checks the table ...
ServiceCheck(p) ==
    /\ wpc[p] = "check" /\ ~CtxDead(p)
    /\ CanTransitionJob(status[witem[p]], JobIntent(wintent[p]))
    /\ wpc' = [wpc EXCEPT ![p] = "cas"]
    /\ UNCHANGED <<witem, wintent, wproblem, userVars, storeVars, queueVars, handlerVars,
                   poolVars, stopVars, envVars, obsVars>>

\* Variant with a bug: the update trusts the service's check.
RepoTransitionUnchecked(p) ==
    LET r == witem[p] intent == JobIntent(wintent[p])
    IN  /\ wpc[p] = "cas" /\ ~CtxDead(p)
        /\ status' = [status EXCEPT ![r] = jobTransitionSpecs[intent].To]
        /\ problem' = [problem EXCEPT ![r] = wproblem[p]]

\* ... and the repository compares again while it updates the row.
RepoTransition(p) ==
    LET r == witem[p] intent == JobIntent(wintent[p])
    IN  /\ wpc[p] = "cas" /\ ~CtxDead(p)
        /\ CanTransitionJob(status[r], intent)
        /\ status' = [status EXCEPT ![r] = jobTransitionSpecs[intent].To]
        /\ problem' = [problem EXCEPT ![r] = wproblem[p]]

Transit(p) ==
    /\ RepoTransition(p)
    /\ wpc' = [wpc EXCEPT ![p] = "announce"]
    /\ UNCHANGED <<witem, wintent, wproblem, userVars, queueVars, handlerVars, poolVars,
                   stopVars, envVars, obsVars>>

\* The database commits the update but the worker sees an error.
TransitUnacknowledged(p) ==
    /\ Durable /\ RepoTransition(p) /\ DropItem(p)
    /\ UNCHANGED <<userVars, queueVars, handlerVars, poolVars, stopVars, envVars, obsVars>>

\* Variant with a bug: the error is logged and the loop goes on to announce.
ServiceCallFailsIgnored(p) ==
    /\ wpc[p] \in {"check", "cas"}
    /\ Durable \/ ~CanTransitionJob(status[witem[p]], JobIntent(wintent[p]))
    /\ wpc' = [wpc EXCEPT ![p] = "announce"]
    /\ UNCHANGED <<witem, wintent, wproblem, userVars, storeVars, queueVars, handlerVars,
                   poolVars, stopVars, envVars, obsVars>>

\* Not found, conflict, or (on the database) a failed query: logged, and the
\* item is consumed.
ServiceCallFails(p) ==
    /\ wpc[p] \in {"check", "cas"}
    /\ Durable \/ ~CanTransitionJob(status[witem[p]], JobIntent(wintent[p]))
    /\ DropItem(p)
    /\ UNCHANGED <<userVars, storeVars, queueVars, handlerVars, poolVars, stopVars, envVars,
                   obsVars>>

AnnounceRunning(p) ==
    /\ wpc[p] = "announce" /\ wintent[p] = "start"
    /\ Count("running") /\ Publish(witem[p], "running")
    /\ wpc' = [wpc EXCEPT ![p] = "exists"]
    /\ UNCHANGED <<witem, wintent, wproblem, userVars, storeVars, queueVars, handlerVars,
                   poolVars, stopVars, envVars>>

\* The shutdown branch publishes but does not count the failure.
AnnounceTerminal(p) ==
    /\ wpc[p] = "announce" /\ wintent[p] # "start"
    /\ LET to == jobTransitionSpecs[JobIntent(wintent[p])].To
       IN  /\ Publish(witem[p], to)
           /\ IF wintent[p] = "shutdown" THEN UNCHANGED metrics ELSE Count(to)
    /\ DropItem(p)
    /\ UNCHANGED <<userVars, storeVars, queueVars, handlerVars, poolVars, stopVars, envVars>>

\* Variant with a bug: a conflict is logged but the job is not marked failed.
ExistsByEmailUnmarked(p) ==
    /\ wpc[p] = "exists" /\ ~CtxDead(p)
    /\ IF users[EmailOf[witem[p]]]
       THEN DropItem(p)
       ELSE /\ wpc' = [wpc EXCEPT ![p] = "save"]
            /\ UNCHANGED <<witem, wintent, wproblem>>
    /\ UNCHANGED <<userVars, storeVars, queueVars, handlerVars, poolVars, stopVars, envVars,
                   obsVars>>

ExistsByEmail(p) ==
    /\ wpc[p] = "exists" /\ ~CtxDead(p)
    /\ IF users[EmailOf[witem[p]]]
       THEN Call(p, "fail", "conflict")
       ELSE /\ wpc' = [wpc EXCEPT ![p] = "save"]
            /\ UNCHANGED <<witem, wintent, wproblem>>
    /\ UNCHANGED <<userVars, storeVars, queueVars, handlerVars, poolVars, stopVars, envVars,
                   obsVars>>

\* Variant with a bug: the insert ignores a duplicate e-mail.
SaveUserIgnoresConflict(p) ==
    LET r == witem[p] e == EmailOf[witem[p]]
    IN  /\ wpc[p] = "save" /\ ~CtxDead(p)
        /\ Call(p, "succeed", "none")
        /\ IF users[e] THEN UNCHANGED userVars ELSE InsertUser(e, r)
        /\ UNCHANGED <<storeVars, queueVars, handlerVars, poolVars, stopVars, envVars,
                       obsVars>>

SaveUser(p) ==
    LET r == witem[p] e == EmailOf[witem[p]]
    IN  /\ wpc[p] = "save" /\ ~CtxDead(p)
        /\ IF users[e]
           THEN Call(p, "fail", "conflict") /\ UNCHANGED userVars
           ELSE Call(p, "succeed", "none") /\ InsertUser(e, r)
        /\ UNCHANGED <<storeVars, queueVars, handlerVars, poolVars, stopVars, envVars,
                       obsVars>>

\* Variant with a bug: every repository error is reported as a conflict.
CreateUserFailsAsConflict(p) ==
    /\ Durable /\ wpc[p] \in {"exists", "save"}
    /\ Call(p, "fail", "conflict")
    /\ UNCHANGED <<userVars, storeVars, queueVars, handlerVars, poolVars, stopVars, envVars,
                   obsVars>>

\* A query that is cancelled or times out is reported as the shutdown
\* problem, any other failure as an internal one (ToJobProblem).  The insert
\* may have been committed all the same.
CreateUserFails(p) ==
    LET r == witem[p] e == EmailOf[witem[p]]
    IN  /\ Durable /\ wpc[p] \in {"exists", "save"}
        /\ \/ UNCHANGED userVars
           \/ wpc[p] = "save" /\ ~CtxDead(p) /\ ~users[e] /\ InsertUser(e, r)
        /\ \E prob \in {"shutdown", "internal"} :
               (CtxDead(p) => prob = "shutdown") /\ Call(p, "fail", prob)
        /\ UNCHANGED <<storeVars, queueVars, handlerVars, poolVars, stopVars, envVars,
                       obsVars>>

WorkerStep(p) ==
    \/ WorkerExits(p) \/ ReceiveItem(p) \/ CheckContext(p) \/ ServiceCheck(p)
    \/ Transit(p) \/ TransitUnacknowledged(p) \/ ServiceCallFails(p)
    \/ AnnounceRunning(p) \/ AnnounceTerminal(p)
    \/ ExistsByEmail(p) \/ SaveUser(p) \/ CreateUserFails(p)

-----------------------------------------------------------------------------
(* WorkerPool.Start and WorkerPool.Stop *)

GenDone(g) == \A w \in Workers : wpc[<<g, w>>] = "exited"   \* gen.done is closed

\* Variant with a bug: a generation whose Stop is still at work is dropped.
SettledGenerationEarly == IF cur # 0 /\ GenDone(cur) THEN 0 ELSE cur

\* settleStoppedLocked: the generation Start finds, 0 when there is none.
SettledGeneration == IF cur # 0 /\ GenDone(cur) /\ ~stopping THEN 0 ELSE cur

\* Start creates a generation; with one still in place it changes nothing
\* (nil while it runs, ErrPoolStopping while it stops).
Start ==
    /\ ngen < MaxGen
    /\ Supervised => cur = 0 /\ ~stopped
    /\ SettledGeneration = 0
    /\ ngen' = ngen + 1
    /\ cur' = ngen + 1
    /\ stopping' = FALSE
    /\ last' = "none"
    /\ wpc' = [p \in Procs |-> IF p[1] = ngen + 1 THEN "select" ELSE wpc[p]]
    /\ UNCHANGED <<gcancel, outcome, witem, wintent, wproblem, userVars, storeVars,
                   queueVars, handlerVars, stopVars, envVars, obsVars>>

Return(s, res) ==
    /\ spc' = [spc EXCEPT ![s] = "returned"]
    /\ sres' = [sres EXCEPT ![s] = res]

\* APIServer.cleanup stops the queue before it stops the pool.
MayStop == Supervised => stopped

\* The locked prologue of Stop, with a generation to stop ...
StopCall(s) ==
    /\ spc[s] = "idle" /\ MayStop /\ cur # 0
    /\ sgen' = [sgen EXCEPT ![s] = cur]
    /\ spc' = [spc EXCEPT ![s] = IF stopping THEN "poll" ELSE "cancel"]
    /\ stopping' = TRUE
    /\ UNCHANGED <<sres, sexpired, cur, ngen, gcancel, outcome, last, userVars, storeVars,
                   queueVars, handlerVars, workerVars, envVars, obsVars>>

\* ... and without one: it answers with the last outcome.
StopCallIdle(s) ==
    /\ spc[s] = "idle" /\ MayStop /\ cur = 0
    /\ Return(s, IF last = "none" THEN "ok" ELSE last)
    /\ UNCHANGED <<sgen, sexpired, userVars, storeVars, queueVars, handlerVars, workerVars,
                   poolVars, envVars, obsVars>>

\* Variant with a bug: the generation's context is not cancelled.
StopCancelForgotten(s) ==
    /\ spc[s] = "cancel"
    /\ spc' = [spc EXCEPT ![s] = "poll"]
    /\ UNCHANGED <<sgen, sres, sexpired, userVars, storeVars, queueVars, handlerVars,
                   workerVars, poolVars, envVars, obsVars>>

StopCancel(s) ==
    /\ spc[s] = "cancel"
    /\ gcancel' = [gcancel EXCEPT ![sgen[s]] = TRUE]
    /\ spc' = [spc EXCEPT ![s] = "poll"]
    /\ UNCHANGED <<sgen, sres, sexpired, cur, ngen, stopping, outcome, last, userVars,
                   storeVars, queueVars, handlerVars, workerVars, envVars, obsVars>>

\* Variant with a bug: Stop goes on to the repair while workers are still busy.
StopPollImpatient(s) ==
    /\ spc[s] = "poll"
    /\ spc' = [spc EXCEPT ![s] = "repair"]
    /\ UNCHANGED <<sgen, sres, sexpired, userVars, storeVars, queueVars, handlerVars,
                   workerVars, poolVars, envVars, obsVars>>

\* The first select has a default branch, the second one waits.
StopPoll(s) ==
    /\ spc[s] = "poll"
    /\ spc' = [spc EXCEPT ![s] = IF GenDone(sgen[s]) THEN "repair" ELSE "wait"]
    /\ UNCHANGED <<sgen, sres, sexpired, userVars, storeVars, queueVars, handlerVars,
                   workerVars, poolVars, envVars, obsVars>>

StopWaitDone(s) ==
    /\ spc[s] = "wait" /\ GenDone(sgen[s])
    /\ spc' = [spc EXCEPT ![s] = "repair"]
    /\ UNCHANGED <<sgen, sres, sexpired, userVars, storeVars, queueVars, handlerVars,
                   workerVars, poolVars, envVars, obsVars>>

\* Variant with a bug: a Stop that gave up forgets the generation.
StopTimesOutForgets(s) ==
    /\ spc[s] = "wait" /\ sexpired[s]
    /\ Return(s, "timeout")
    /\ cur' = 0 /\ stopping' = FALSE
    /\ UNCHANGED <<sgen, sexpired, ngen, gcancel, outcome, last, userVars, storeVars,
                   queueVars, handlerVars, workerVars, envVars, obsVars>>

StopTimesOut(s) ==
    /\ spc[s] = "wait" /\ sexpired[s]
    /\ Return(s, "timeout")
    /\ UNCHANGED <<sgen, sexpired, userVars, storeVars, queueVars, handlerVars, workerVars,
                   poolVars, envVars, obsVars>>

StopDeadline(s) ==
    /\ spc[s] \notin {"idle", "returned"} /\ ~sexpired[s]
    /\ sexpired' = [sexpired EXCEPT ![s] = TRUE]
    /\ UNCHANGED <<spc, sgen, sres, userVars, storeVars, queueVars, handlerVars, workerVars,
                   poolVars, envVars, obsVars>>

\* gen.stopOnce runs the repair once per generation.  The repair context is
\* detached from Stop's but keeps its deadline: past it, the database
\* refuses; the memory repository does not look at the context.
CompleteStopRepair(s) ==
    /\ spc[s] = "repair" /\ outcome[sgen[s]] = "none"
    /\ \/ /\ ~(Durable /\ sexpired[s])
          /\ FailActiveRows
          /\ \E o \in {"ok", "err"} :
                (o = "err" => Durable) /\ outcome' = [outcome EXCEPT ![sgen[s]] = o]
       \/ /\ Durable
          /\ outcome' = [outcome EXCEPT ![sgen[s]] = "err"]
          /\ UNCHANGED storeVars
    /\ spc' = [spc EXCEPT ![s] = "settle"]
    /\ UNCHANGED <<sgen, sres, sexpired, cur, ngen, stopping, gcancel, last, userVars,
                   queueVars, handlerVars, workerVars, envVars, obsVars>>

\* Variant with a bug: without stopOnce a late Stop repairs again.
CompleteStopRepairsAgain(s) ==
    /\ spc[s] = "repair" /\ outcome[sgen[s]] # "none"
    /\ FailActiveRows
    /\ outcome' = [outcome EXCEPT ![sgen[s]] = "ok"]
    /\ spc' = [spc EXCEPT ![s] = "settle"]
    /\ UNCHANGED <<sgen, sres, sexpired, cur, ngen, stopping, gcancel, last, userVars,
                   queueVars, handlerVars, workerVars, envVars, obsVars>>

CompleteStopRepeated(s) ==
    /\ spc[s] = "repair" /\ outcome[sgen[s]] # "none"
    /\ spc' = [spc EXCEPT ![s] = "settle"]
    /\ UNCHANGED <<sgen, sres, sexpired, userVars, storeVars, queueVars, handlerVars,
                   workerVars, poolVars, envVars, obsVars>>

CompleteStopSettle(s) ==
    /\ spc[s] = "settle"
    /\ IF cur = sgen[s]
       THEN cur' = 0 /\ stopping' = FALSE /\ last' = outcome[sgen[s]]
       ELSE UNCHANGED <<cur, stopping, last>>
    /\ Return(s, outcome[sgen[s]])
    /\ UNCHANGED <<sgen, sexpired, ngen, gcancel, outcome, userVars, storeVars, queueVars,
                   handlerVars, workerVars, envVars, obsVars>>

StopStep(s) ==
    \/ StopCall(s) \/ StopCallIdle(s) \/ StopCancel(s) \/ StopPoll(s)
    \/ StopWaitDone(s) \/ StopTimesOut(s)
    \/ CompleteStopRepair(s) \/ CompleteStopRepeated(s) \/ CompleteStopSettle(s)

-----------------------------------------------------------------------------
(* Environment *)

\* SIGINT or SIGTERM: signal.NotifyContext cancels main's context.
Signal ==
    /\ ~appDone
    /\ appDone' = TRUE
    /\ UNCHANGED <<crashes, userVars, storeVars, queueVars, handlerVars, workerVars,
                   poolVars, stopVars, obsVars>>

\* Another instance on the same database shuts down and repairs.
ForeignRepair ==
    /\ SharedDB
    /\ FailActiveRows
    /\ UNCHANGED <<userVars, queueVars, handlerVars, workerVars, poolVars, stopVars, envVars,
                   obsVars>>

\* The process dies and is started again; only the database survives.
Crash ==
    /\ Durable /\ crashes < MaxCrashes
    /\ crashes' = crashes + 1
    /\ appDone' = FALSE
    /\ queue' = <<>> /\ stopped' = FALSE
    /\ hpc' = [r \in Requests |->
                  IF hpc[r] \in {"saved", "published", "enqueuing", "rollback"} THEN "lost"
                  ELSE hpc[r]]
    /\ wpc' = [p \in Procs |-> IF wpc[p] = "unborn" THEN "unborn" ELSE "exited"]
    /\ witem' = [p \in Procs |-> Nil]
    /\ wintent' = [p \in Procs |-> "none"]
    /\ wproblem' = [p \in Procs |-> "none"]
    /\ cur' = 0 /\ stopping' = FALSE /\ last' = "none"
    /\ spc' = [s \in Stoppers |-> "idle"]
    /\ sgen' = [s \in Stoppers |-> 0]
    /\ sres' = [s \in Stoppers |-> "none"]
    /\ sexpired' = [s \in Stoppers |-> FALSE]
    /\ events' = [r \in Requests |-> <<>>]
    /\ metrics' = [m \in Statuses |-> 0]
    /\ UNCHANGED <<userVars, status, problem, hcancel, ngen, gcancel, outcome>>

Next ==
    \/ \E r \in Requests : HandlerStep(r) \/ ClientCancels(r)
    \/ \E e \in Emails : UserRequest(e)
    \/ StopAccepting
    \/ \E p \in Procs : WorkerStep(p)
    \/ Start
    \/ \E s \in Stoppers : StopStep(s) \/ StopDeadline(s)
    \/ Signal \/ ForeignRepair \/ Crash

Spec == Init /\ [][Next]_vars

\* Goroutines that can run do run.  Clients, signals, deadlines and crashes
\* are not fair; after a signal, APIServer.Run goes on to its cleanup.
Fairness ==
    /\ \A r \in Requests : WF_vars(hpc[r] # "new" /\ HandlerStep(r))
    /\ \A p \in Procs : WF_vars(WorkerStep(p))
    /\ \A s \in Stoppers : WF_vars(StopStep(s))
    /\ WF_vars(appDone /\ StopAccepting)

FairSpec == Spec /\ Fairness

-----------------------------------------------------------------------------
(* Properties *)

Accepted == {r \in Requests : hpc[r] = "accepted"}

StoreTypes ==
    /\ status \in [Requests -> Statuses \cup {"none", "removed"}]
    /\ problem \in [Requests -> Problems \cup {"none"}]

UserTypes ==
    /\ users \in [Emails -> BOOLEAN]
    /\ creators \in [Emails -> SUBSET (Requests \cup {Sync})]

QueueTypes == queue \in Seq(Requests) /\ stopped \in BOOLEAN

HandlerTypes ==
    /\ hpc \in [Requests -> {"new", "saved", "published", "enqueuing", "accepted",
                             "rollback", "rejected", "errored", "lost"}]
    /\ hcancel \in [Requests -> BOOLEAN]

WorkerTypes ==
    /\ wpc \in [Procs -> {"unborn", "select", "received", "check", "cas", "announce",
                          "exists", "save", "exited"}]
    /\ witem \in [Procs -> Requests \cup {Nil}]
    /\ wintent \in [Procs -> Intents \cup {"none", "shutdown"}]
    /\ wproblem \in [Procs -> Problems \cup {"none"}]

PoolTypes ==
    /\ cur \in 0 .. MaxGen /\ ngen \in 0 .. MaxGen
    /\ stopping \in BOOLEAN /\ gcancel \in [Gens -> BOOLEAN]
    /\ outcome \in [Gens -> {"none", "ok", "err"}] /\ last \in {"none", "ok", "err"}

StopTypes ==
    /\ spc \in [Stoppers -> {"idle", "cancel", "poll", "wait", "repair", "settle",
                             "returned"}]
    /\ sgen \in [Stoppers -> 0 .. MaxGen]
    /\ sres \in [Stoppers -> {"none", "ok", "err", "timeout"}]
    /\ sexpired \in [Stoppers -> BOOLEAN]

EnvTypes == appDone \in BOOLEAN /\ crashes \in 0 .. MaxCrashes

ObsTypes ==
    /\ events \in [Requests -> Seq(Statuses)]
    /\ metrics \in [Statuses -> Nat]

\* Type invariant of the pipeline.
TypeOK ==
    /\ StoreTypes /\ UserTypes /\ QueueTypes /\ HandlerTypes /\ WorkerTypes
    /\ PoolTypes /\ StopTypes /\ EnvTypes /\ ObsTypes

\* The job store keeps the promise of JobLifecycle whatever the interleaving
\* of handlers, workers and repairs: statuses follow the transition table,
\* terminal statuses never change, an accepted job is never deleted.
Lifecycle == INSTANCE JobLifecycle
                WITH Jobs <- Requests, status <- status, accepted <- Accepted

ImplementsLifecycle == Lifecycle!LifecycleSpec

\* While a worker executes a job, the job is running: no repair, rollback or
\* other worker changes it underneath (WorkerPool runs the repair only once
\* all workers of the generation are gone, and before the next generation).
ExecutingJobIsRunning == \A p \in Procs : Executing(p) => status[witem[p]] = "running"

\* A work item is in one place: in the queue once, or with one worker.
ItemInOnePlace ==
    /\ \A i, j \in 1 .. Len(queue) : queue[i] = queue[j] => i = j
    /\ \A p \in Procs : \A i \in 1 .. Len(queue) : witem[p] # queue[i]
    /\ \A p, q \in Procs : witem[p] = witem[q] /\ witem[p] # Nil => p = q

\* After the supervisor's Stop reported success, every job that was answered
\* with 202, or that a crash cut off between its Save and its Enqueue, is
\* terminal: StopAccepting keeps new items out of the queue before the repair
\* looks at the store, and the repair sees rows no queue knows of.
StopLeavesNothingActive ==
    Supervised /\ last = "ok" =>
        \A r \in Requests : hpc[r] \in {"accepted", "lost"} => IsTerminal(status[r])

\* README.md, "Shutdown semantics" and step 7 of "Graceful shutdown": when the
\* supervisor's Stop has returned, every job answered with 202 is terminal.
\* Stop gives up at its deadline without a repair, so the code keeps only
\* StopLeavesNothingActive.
ShutdownFailsActiveJobs ==
    Supervised /\ (\E s \in Stoppers : spc[s] = "returned" /\ sgen[s] # 0) =>
        \A r \in Accepted : IsTerminal(status[r])

\* Once StopAccepting has returned, no Enqueue that is still under way adds
\* an item: items only leave the queue ("a strict post-return admission
\* barrier", queue.go).
StopAcceptingIsABarrier == [][stopped => queue' = queue \/ Len(queue') < Len(queue)]_vars

\* A terminal event names the status of the stored job, and no event follows
\* it: the hub never announces an outcome that was not committed.
EventsAgreeWithStore ==
    \A r \in Requests : \A i \in 1 .. Len(events[r]) :
        IsTerminal(events[r][i]) => i = Len(events[r]) /\ status[r] = events[r][i]

\* Events of a job appear in the order queued, running, outcome, with
\* running missing only when shutdown fails a job that was never started; and
\* jobs_total never shows more outcomes than starts, or more starts than
\* queued jobs (the handler publishes and counts before it enqueues).
EventsInOrder ==
    /\ \A r \in Requests : events[r] \in
        {<<>>, <<"queued">>, <<"queued", "running">>, <<"queued", "failed">>,
         <<"queued", "running", "succeeded">>, <<"queued", "running", "failed">>}
    /\ metrics["succeeded"] + metrics["failed"] <= metrics["running"]
    /\ metrics["running"] <= metrics["queued"]

\* A succeeded job has created the user of its request.
SucceededCreatedUser == \A r \in Requests : status[r] = "succeeded" => r \in creators[EmailOf[r]]

\* With the memory repositories a failed job has not created its user: the
\* shutdown repair never fails a job whose worker may still insert it.
FailedCreatedNoUser ==
    ~Durable => \A r \in Requests : status[r] = "failed" => r \notin creators[EmailOf[r]]

\* A conflict is reported only when somebody else had taken the e-mail: a job
\* never conflicts with its own insert.
ConflictHasCause ==
    \A r \in Requests : problem[r] = "conflict" => creators[EmailOf[r]] \ {r} # {}

\* All Stop calls on one generation that see it stop report one outcome.
StopOutcomeShared ==
    \A s \in Stoppers : spc[s] = "returned" /\ sgen[s] # 0 /\ sres[s] # "timeout" =>
        sres[s] = outcome[sgen[s]]

\* At most one generation has workers that have not exited.
OneLiveGeneration ==
    \A p, q \in Procs : wpc[p] \notin {"unborn", "exited"} /\ wpc[q] \notin {"unborn", "exited"}
        => p[1] = q[1]

\* Every job answered with 202 ends, unless a Stop gave up waiting.
AcceptedJobEnds ==
    \A r \in Requests : (r \in Accepted) ~>
        (IsTerminal(status[r]) \/ \E s \in Stoppers : sres[s] = "timeout")

\* Every Stop call returns.
StopReturns == \A s \in Stoppers : (spc[s] # "idle") ~> (spc[s] = "returned")
=============================================================================
