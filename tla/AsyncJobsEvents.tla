--------------------------- MODULE AsyncJobsEvents --------------------------
(***************************************************************************)
(* What the pipeline tells the world: the events that the hub gets and the *)
(* counters, and what Stop tells the supervisor.  Two invariants are added *)
(* to IInv of AsyncJobsInvariant: what the log of a job holds at each      *)
(* point of its life, and what a cancelled generation and a Stop call say  *)
(* about the pool.                                                         *)
(***************************************************************************)
EXTENDS AsyncJobsOutcomes, FiniteSetTheorems

-----------------------------------------------------------------------------
(* Events and counters *)

\* The worker has announced that its job runs.
Started(p) ==
    \/ wpc[p] \in {"exists", "save"}
    \/ wpc[p] \in {"check", "cas", "announce"} /\ wintent[p] \in {"succeed", "fail"}

\* What the hub has seen of a job, by where its request and its item are.
Logs == {<<>>, <<"queued">>, <<"queued", "running">>, <<"queued", "failed">>,
         <<"queued", "running", "succeeded">>, <<"queued", "running", "failed">>}

ItemLog(p) ==
    witem[p] # Nil =>
        events[witem[p]] = IF Started(p) THEN <<"queued", "running">> ELSE <<"queued">>

\* An outcome is stored before it is announced.
ItemOutcome(p) ==
    wpc[p] = "announce" /\ wintent[p] # "start" =>
        status[witem[p]] = jobTransitionSpecs[JobIntent(wintent[p])].To

LogShape ==
    /\ \A r \in Requests :
        /\ events[r] \in Logs
        /\ hpc[r] \in {"new", "saved"} => events[r] = <<>>
        /\ hpc[r] \in {"published", "enqueuing", "rollback"} => events[r] = <<"queued">>
    /\ \A i \in 1 .. Len(queue) : events[queue[i]] = <<"queued">>
    /\ \A p \in Procs : ItemLog(p) /\ ItemOutcome(p)

Announces(p) == AnnounceRunning(p) \/ AnnounceTerminal(p)

\* Handlers publish queued, workers what follows, and a crash empties the hub.
LEMMA EventFrame ==
    ASSUME [Next]_vars
    PROVE  \/ UNCHANGED events /\ UNCHANGED metrics
           \/ \E r \in Requests : PublishQueuedJob(r)
           \/ \E p \in Procs : Announces(p)
           \/ Crash
<1> USE DEF obsVars
<1>1. CASE UNCHANGED vars
  BY <1>1, Zenon DEF vars
<1>2. CASE \E r \in Requests : HandlerStep(r) \/ ClientCancels(r)
  BY Zenon, <1>2 DEF HandlerStep, ClientCancels, SaveJob, SaveJobFails,
              BeginEnqueue, Enqueue, EnqueueRejected, DeleteJobAfterFailedEnqueue
<1>3. CASE \E s \in Stoppers : StopStep(s) \/ StopDeadline(s)
  BY Zenon, <1>3 DEF StopStep, StopDeadline, StopCall, StopCallIdle, StopCancel, StopPoll,
              StopWaitDone, StopTimesOut, CompleteStopRepair, CompleteStopRepeated,
              CompleteStopSettle
<1>4. CASE \E p \in Procs : WorkerStep(p)
  BY Zenon, <1>4 DEF WorkerStep, Announces, WorkerExits, ReceiveItem, CheckContext,
     ServiceCheck, Transit, TransitUnacknowledged, ServiceCallFails, ExistsByEmail, SaveUser,
     CreateUserFails
<1>5. CASE \/ \E e \in Emails : UserRequest(e)
           \/ Start \/ StopAccepting \/ Signal \/ ForeignRepair
  BY Zenon, <1>5 DEF UserRequest, SyncCreateUser, FreeEmail, Start, StopAccepting, Signal,
              ForeignRepair
<1> QED BY <1>1, <1>2, <1>3, <1>4, <1>5 DEF Next

\* Sequences are equal entry by entry.
LEMMA SameEntries ==
    ASSUME NEW S, NEW s \in Seq(S), NEW t \in Seq(S),
           Len(s) = Len(t), \A i \in 1 .. Len(s) : s[i] = t[i]
    PROVE  s = t
OBVIOUS

\* A log with one or two entries grows by one.
LEMMA LogGrows ==
    \A a, b, c \in Statuses : Append(<<a>>, b) = <<a, b>> /\ Append(<<a, b>>, c) = <<a, b, c>>
<1> SUFFICES ASSUME NEW S, NEW a \in S, NEW b \in S, NEW c \in S
             PROVE  Append(<<a>>, b) = <<a, b>> /\ Append(<<a, b>>, c) = <<a, b, c>>
  BY Zenon
<1> DEFINE s == <<a>>
           t == <<a, b>>
           u == <<a, b, c>>
<1>1. s \in Seq(S) /\ Len(s) = 1 /\ s[1] = a
  OBVIOUS
<1>2. t \in Seq(S) /\ Len(t) = 2 /\ t[1] = a /\ t[2] = b
  OBVIOUS
<1>3. u \in Seq(S) /\ Len(u) = 3 /\ u[1] = a /\ u[2] = b /\ u[3] = c
  OBVIOUS
<1>4. Append(s, b) \in Seq(S) /\ Len(Append(s, b)) = 2 /\ Append(s, b)[1] = a /\ Append(s, b)[2] = b
  BY <1>1
<1>5. /\ Append(t, c) \in Seq(S) /\ Len(Append(t, c)) = 3
      /\ Append(t, c)[1] = a /\ Append(t, c)[2] = b /\ Append(t, c)[3] = c
  BY <1>2
<1> HIDE DEF s, t, u
<1>6. Append(s, b) = t
  <2>1. \A i \in 1 .. 2 : t[i] = Append(s, b)[i]
    BY <1>2, <1>4
  <2> QED BY <1>2, <1>4, <2>1, SameEntries, Zenon
<1>7. Append(t, c) = u
  <2>1. \A i \in 1 .. 3 : u[i] = Append(t, c)[i]
    BY <1>3, <1>5
  <2> QED BY <1>3, <1>5, <2>1, SameEntries, Zenon
<1> QED BY <1>6, <1>7, Zenon DEF s, t, u

\* The handler's announcement is the first entry of a job's log.
LEMMA QueuedEffect ==
    ASSUME IInv, LogShape, NEW r \in Requests, PublishQueuedJob(r)
    PROVE  /\ events[r] = <<>> /\ events' = [events EXCEPT ![r] = <<"queued">>]
           /\ metrics' = [metrics EXCEPT !["queued"] = @ + 1]
           /\ hpc[r] = "saved" /\ hpc' = [hpc EXCEPT ![r] = "published"]
<1>1. /\ hpc[r] = "saved" /\ hpc' = [hpc EXCEPT ![r] = "published"]
      /\ events' = [events EXCEPT ![r] = Append(events[r], "queued")]
      /\ metrics' = [metrics EXCEPT !["queued"] = @ + 1]
  BY DEF PublishQueuedJob, Publish, Count
<1>2. events[r] = <<>>
  BY <1>1 DEF LogShape
<1>3. Append(events[r], "queued") = <<"queued">>
  BY <1>2
<1> QED BY <1>1, <1>2, <1>3

\* A worker that announces holds an accepted job.
LEMMA AnnouncerHolds ==
    ASSUME IInv, NEW p \in Procs, Announces(p)
    PROVE  witem[p] \in Requests /\ witem[p] # Nil /\ hpc[witem[p]] = "accepted"
<1>1. wpc[p] = "announce"
  BY DEF Announces, AnnounceRunning, AnnounceTerminal
<1>2. witem[p] \in Requests /\ witem[p] # Nil
  BY <1>1, HeldItem, PipelineAssumption DEF IInv, TypeOK
<1> QED BY <1>2 DEF IInv, ItemShape

\* Its first announcement follows the handler's ...
LEMMA RunningEffect ==
    ASSUME IInv, LogShape, NEW p \in Procs, AnnounceRunning(p), NEW r \in Requests, witem[p] = r
    PROVE  /\ events[r] = <<"queued">> /\ events' = [events EXCEPT ![r] = <<"queued", "running">>]
           /\ metrics' = [metrics EXCEPT !["running"] = @ + 1]
<1>1. /\ wpc[p] = "announce" /\ wintent[p] = "start"
      /\ events' = [events EXCEPT ![r] = Append(events[r], "running")]
      /\ metrics' = [metrics EXCEPT !["running"] = @ + 1]
  BY DEF AnnounceRunning, Publish, Count
<1>2. events[r] = <<"queued">>
  BY <1>1, PipelineAssumption DEF LogShape, ItemLog, Started
<1>3. Append(events[r], "running") = <<"queued", "running">>
  BY <1>2, LogGrows DEF Statuses
<1> QED BY <1>1, <1>2, <1>3, ZenonT(40)

\* ... and its last one names the stored outcome, without a running entry or
\* a count when the shutdown branch made it.
LEMMA TerminalEffect ==
    ASSUME IInv, LogShape, NEW p \in Procs, AnnounceTerminal(p), NEW r \in Requests, witem[p] = r
    PROVE  \/ /\ status[r] = "failed" /\ events[r] = <<"queued">> /\ UNCHANGED metrics
              /\ events' = [events EXCEPT ![r] = <<"queued", "failed">>]
           \/ /\ status[r] \in {"succeeded", "failed"} /\ events[r] = <<"queued", "running">>
              /\ metrics' = [metrics EXCEPT ![status[r]] = @ + 1]
              /\ events' = [events EXCEPT ![r] = <<"queued", "running", status[r]>>]
<1>1. wpc[p] = "announce" /\ wintent[p] \in {"succeed", "fail", "shutdown"}
  BY DEF AnnounceTerminal, IInv, WorkerShape, TypeOK, WorkerTypes, Intents
<1>2. /\ status[r] = jobTransitionSpecs[JobIntent(wintent[p])].To
      /\ events[r] = IF Started(p) THEN <<"queued", "running">> ELSE <<"queued">>
  BY <1>1, PipelineAssumption, Zenon DEF LogShape, ItemLog, ItemOutcome
<1>3. /\ events' = [events EXCEPT ![r] = Append(events[r], status[r])]
      /\ IF wintent[p] = "shutdown" THEN UNCHANGED metrics
         ELSE metrics' = [metrics EXCEPT ![status[r]] = @ + 1]
  BY <1>2, ZenonT(40) DEF AnnounceTerminal, Publish, Count
<1>4. /\ wintent[p] = "shutdown" => status[r] = "failed"
      /\ status[r] \in {"succeeded", "failed"}
  BY <1>1, <1>2, TransitionTable, Zenon
<1>5. CASE wintent[p] = "shutdown"
  <2>1. events[r] = <<"queued">>
    BY <1>1, <1>2, <1>5 DEF Started
  <2>2. Append(events[r], status[r]) = <<"queued", "failed">>
    BY <1>4, <1>5, <2>1, LogGrows DEF Statuses
  <2> QED BY <1>3, <1>4, <1>5, <2>1, <2>2
<1>6. CASE wintent[p] # "shutdown"
  <2>1. events[r] = <<"queued", "running">>
    BY <1>1, <1>2, <1>6 DEF Started
  <2>2. Append(events[r], status[r]) = <<"queued", "running", status[r]>>
    BY <1>4, <2>1, LogGrows DEF Statuses
  <2> QED BY <1>3, <1>4, <1>6, <2>1, <2>2
<1> QED BY <1>5, <1>6

\* What one step adds to the log of a job, and who adds it.
LEMMA EventMoves ==
    ASSUME IInv, LogShape, [Next]_vars, ~Crash, NEW r \in Requests
    PROVE  \/ events'[r] = events[r]
           \/ PublishQueuedJob(r) /\ events'[r] = <<"queued">>
           \/ \E p \in Procs :
                /\ Announces(p) /\ witem[p] = r
                /\ \/ events'[r] = <<"queued", "running">> /\ AnnounceRunning(p)
                   \/ events'[r] = <<"queued", "failed">> /\ status[r] = "failed"
                   \/ /\ events'[r] = <<"queued", "running", status[r]>>
                      /\ status[r] \in {"succeeded", "failed"}
<1>0. events \in [Requests -> Seq(Statuses)]
  BY DEF IInv, TypeOK, ObsTypes
<1>1. CASE UNCHANGED events
  BY <1>1
<1>2. CASE \E q \in Requests : PublishQueuedJob(q)
  <2>1. PICK q \in Requests : PublishQueuedJob(q)
    BY <1>2
  <2>2. events' = [events EXCEPT ![q] = <<"queued">>]
    BY <2>1, QueuedEffect
  <2> QED BY <1>0, <2>1, <2>2
<1>3. CASE \E p \in Procs : Announces(p)
  <2>1. PICK p \in Procs : Announces(p)
    BY <1>3
  <2>2. PICK q \in Requests : witem[p] = q
    BY <2>1, AnnouncerHolds
  <2>3. CASE AnnounceRunning(p)
    <3>1. events' = [events EXCEPT ![q] = <<"queued", "running">>]
      BY <2>2, <2>3, RunningEffect
    <3> QED BY <1>0, <2>1, <2>2, <2>3, <3>1
  <2>4. CASE AnnounceTerminal(p)
    <3>1. CASE status[q] = "failed" /\ events' = [events EXCEPT ![q] = <<"queued", "failed">>]
      BY <1>0, <2>1, <2>2, <3>1
    <3>2. CASE /\ status[q] \in {"succeeded", "failed"}
               /\ events' = [events EXCEPT ![q] = <<"queued", "running", status[q]>>]
      BY <1>0, <2>1, <2>2, <3>2
    <3> QED BY <2>2, <2>4, <3>1, <3>2, TerminalEffect
  <2> QED BY <2>1, <2>3, <2>4, Zenon DEF Announces
<1> QED BY <1>1, <1>2, <1>3, EventFrame

\* The log of an accepted job changes only by the worker that holds its item.
LEMMA AcceptedLog ==
    ASSUME IInv, LogShape, [Next]_vars, ~Crash, NEW r \in Requests, hpc[r] = "accepted",
           \A p \in Procs : witem[p] = r => ~Announces(p)
    PROVE  events'[r] = events[r]
<1>1. ~PublishQueuedJob(r)
  BY DEF PublishQueuedJob
<1> QED BY <1>1, EventMoves

\* Every step keeps the log of a job in line with its request ...
LEMMA RequestLogStep ==
    ASSUME IInv, LogShape, [Next]_vars, NEW r \in Requests
    PROVE  /\ events'[r] \in Logs
           /\ hpc'[r] \in {"new", "saved"} => events'[r] = <<>>
           /\ hpc'[r] \in {"published", "enqueuing", "rollback"} => events'[r] = <<"queued">>
<1>0. /\ events[r] \in Logs
      /\ hpc[r] \in {"new", "saved"} => events[r] = <<>>
      /\ hpc[r] \in {"published", "enqueuing", "rollback"} => events[r] = <<"queued">>
  BY DEF LogShape
<1>t. HandlerTypes
  BY DEF IInv, TypeOK
<1>1. CASE Crash
  <2>1. events'[r] = <<>> /\ hpc'[r] \notin {"published", "enqueuing", "rollback"}
    BY <1>1 DEF Crash
  <2> QED BY <2>1 DEF Logs
<1>2. CASE ~Crash /\ events'[r] = events[r]
  <2>1. CASE \E q \in Requests : HandlerStep(q)
    <3>1. PICK q \in Requests : HandlerStep(q)
      BY <2>1
    <3>2. CASE q # r
      BY <1>0, <1>2, <3>1, <3>2, HandlerEffect DEF IInv
    <3>3. CASE q = r /\ PublishQueuedJob(r)
      <4>1. events[r] = <<>> /\ events' = [events EXCEPT ![r] = <<"queued">>]
            /\ hpc' = [hpc EXCEPT ![r] = "published"]
        BY <3>3, QueuedEffect
      <4>2. events'[r] = <<"queued">> /\ hpc'[r] = "published"
        BY <1>t, <4>1 DEF HandlerTypes, IInv, TypeOK, ObsTypes
      <4> QED BY <4>2 DEF Logs
    <3>4. CASE q = r /\ ~PublishQueuedJob(r)
      <4>1. \/ hpc[r] = "new" /\ hpc'[r] \in {"saved", "errored"}
            \/ hpc[r] \in {"published", "enqueuing"} /\ hpc'[r] \in {"enqueuing", "accepted", "rollback"}
            \/ hpc'[r] = "rejected"
        BY <1>t, <3>1, <3>4 DEF HandlerStep, SaveJob, SaveJobFails, BeginEnqueue, Enqueue,
               EnqueueRejected, DeleteJobAfterFailedEnqueue, HandlerTypes
      <4> QED BY <1>0, <1>2, <4>1
    <3> QED BY <3>1, <3>2, <3>3, <3>4
  <2>2. CASE ~ \E q \in Requests : HandlerStep(q)
    BY <1>0, <1>2, <2>2, HandlerFrame
  <2> QED BY <2>1, <2>2
<1>3. CASE PublishQueuedJob(r) /\ events'[r] = <<"queued">>
  <2>1. hpc'[r] = "published"
    BY <1>t, <1>3 DEF PublishQueuedJob, HandlerTypes
  <2> QED BY <1>3, <2>1 DEF Logs
<1>4. CASE /\ \E p \in Procs : Announces(p) /\ witem[p] = r
           /\ events'[r] \in Logs
  <2>1. hpc[r] = "accepted"
    BY <1>4, AnnouncerHolds
  <2>2. hpc'[r] = "accepted"
    BY <2>1, AcceptedStays
  <2> QED BY <1>4, <2>2
<1>5. CASE ~Crash
  BY <1>2, <1>3, <1>4, <1>5, EventMoves DEF Logs
<1> QED BY <1>1, <1>5

\* ... and of the jobs in the queue at one entry.
LEMMA QueueLogStep ==
    ASSUME IInv, LogShape, [Next]_vars, NEW i \in 1 .. Len(queue')
    PROVE  events'[queue'[i]] = <<"queued">>
<1>0. ~Crash
  <2>1. Crash => queue' = <<>>
    BY DEF Crash
  <2> QED BY <2>1
<1>1. CASE \E j \in 1 .. Len(queue) : queue'[i] = queue[j]
  <2>1. PICK j \in 1 .. Len(queue) : queue'[i] = queue[j]
    BY <1>1
  <2>2. PICK r \in Requests : r = queue[j]
    BY DEF IInv, TypeOK, QueueTypes
  <2>3. hpc[r] = "accepted" /\ events[r] = <<"queued">> /\ \A p \in Procs : witem[p] # r
    BY <2>2 DEF IInv, ItemShape, ItemInOnePlace, LogShape
  <2> QED BY <1>0, <2>1, <2>2, <2>3, AcceptedLog
<1>2. CASE \E r \in Requests : Enqueue(r) /\ queue'[i] = r
  <2>1. PICK r \in Requests : Enqueue(r) /\ queue'[i] = r
    BY <1>2
  <2>2. hpc[r] = "enqueuing" /\ UNCHANGED events
    BY <2>1, Zenon DEF Enqueue, obsVars
  <2> QED BY <2>1, <2>2, Zenon DEF LogShape
<1> QED BY <1>1, <1>2, QueueMoves

\* A worker's own step takes the log of its item along.
LEMMA ItemLogOwn ==
    ASSUME IInv, LogShape, [Next]_vars, NEW p \in Procs, WorkerStep(p)
    PROVE  ItemLog(p)'
<1>0. WorkerTypes /\ WorkerShape /\ ItemLog(p) /\ ItemShape
  BY DEF IInv, TypeOK, LogShape
<1> SUFFICES ASSUME witem'[p] # Nil
             PROVE  events'[witem'[p]] = IF Started(p)' THEN <<"queued", "running">> ELSE <<"queued">>
  BY DEF ItemLog
<1>1. CASE WorkerExits(p)
  <2>1. witem'[p] = Nil
    BY <1>0, <1>1 DEF WorkerExits, WorkerShape
  <2> QED BY <2>1
<1>2. CASE ReceiveItem(p)
  <2>1. /\ queue # <<>> /\ witem'[p] = Head(queue) /\ wpc'[p] = "received" /\ UNCHANGED events
    BY <1>0, <1>2 DEF ReceiveItem, WorkerTypes, obsVars
  <2>2. events[Head(queue)] = <<"queued">>
    <3>1. Len(queue) > 0 /\ Head(queue) = queue[1]
      BY <2>1 DEF IInv, TypeOK, QueueTypes
    <3>2. 1 \in 1 .. Len(queue)
      BY <3>1 DEF IInv, TypeOK, QueueTypes
    <3> QED BY <3>1, <3>2, Zenon DEF LogShape
  <2> QED BY <2>1, <2>2 DEF Started
<1>3. CASE AnnounceRunning(p)
  <2>1. PICK r \in Requests : witem[p] = r
    BY <1>3, AnnouncerHolds DEF Announces
  <2>2. events' = [events EXCEPT ![r] = <<"queued", "running">>]
    BY <1>3, <2>1, RunningEffect
  <2>3. witem'[p] = r /\ wpc'[p] = "exists"
    BY <1>0, <1>3, <2>1 DEF AnnounceRunning, WorkerTypes
  <2> QED BY <2>2, <2>3 DEF Started, IInv, TypeOK, ObsTypes
<1>4. CASE TransitUnacknowledged(p) \/ ServiceCallFails(p) \/ AnnounceTerminal(p)
  <2>1. witem'[p] = Nil
    BY <1>0, <1>4, Zenon DEF TransitUnacknowledged, ServiceCallFails, AnnounceTerminal,
       DropItem, WorkerTypes
  <2> QED BY <2>1
<1>5. CASE ServiceCheck(p) \/ Transit(p)
  <2>1. /\ UNCHANGED events /\ UNCHANGED witem /\ UNCHANGED wintent
        /\ wpc[p] \in {"check", "cas"} /\ wpc'[p] \in {"cas", "announce"}
    BY <1>0, <1>5, Zenon DEF ServiceCheck, Transit, RepoTransition, WorkerTypes, obsVars
  <2> QED BY <1>0, <2>1, Zenon DEF ItemLog, Started
<1>6. CASE CheckContext(p)
  <2>1. /\ UNCHANGED events /\ UNCHANGED witem
        /\ wpc[p] = "received" /\ wpc'[p] = "check" /\ wintent'[p] \in {"start", "shutdown"}
    BY <1>0, <1>6 DEF CheckContext, Call, WorkerTypes, obsVars
  <2> QED BY <1>0, <2>1 DEF ItemLog, Started
<1>7. CASE ExistsByEmail(p) \/ SaveUser(p) \/ CreateUserFails(p)
  <2>1. /\ UNCHANGED events /\ UNCHANGED witem /\ wpc[p] \in {"exists", "save"}
        /\ wpc'[p] = "save" \/ (wpc'[p] = "check" /\ wintent'[p] \in {"succeed", "fail"})
    BY <1>0, <1>7, Zenon DEF ExistsByEmail, SaveUser, CreateUserFails, Call, WorkerTypes,
       obsVars
  <2> QED BY <1>0, <2>1 DEF ItemLog, Started
<1> QED BY <1>1, <1>2, <1>3, <1>4, <1>5, <1>6, <1>7, Zenon DEF WorkerStep

\* A worker stores the outcome of its job right before it announces it.
LEMMA ItemOutcomeOwn ==
    ASSUME IInv, [Next]_vars, NEW p \in Procs, WorkerStep(p)
    PROVE  ItemOutcome(p)'
<1>0. WorkerTypes /\ StoreTypes
  BY DEF IInv, TypeOK
<1>1. CASE Transit(p)
  <2>1. witem[p] \in Requests
    BY <1>1, HeldItem, Zenon DEF Transit, RepoTransition, IInv, TypeOK
  <2>2. /\ status' = [status EXCEPT ![witem[p]] = jobTransitionSpecs[JobIntent(wintent[p])].To]
        /\ UNCHANGED witem /\ UNCHANGED wintent
    BY <1>1, Zenon DEF Transit, RepoTransition
  <2>3. status'[witem[p]] = jobTransitionSpecs[JobIntent(wintent[p])].To
    BY <1>0, <2>1, <2>2, Zenon DEF StoreTypes
  <2> QED BY <2>2, <2>3, Zenon DEF ItemOutcome, JobIntent
<1>2. CASE ~Transit(p)
  <2>1. wpc'[p] # "announce"
    <3>1. CASE WorkerExits(p) \/ ReceiveItem(p) \/ ServiceCheck(p) \/ AnnounceRunning(p)
      BY <1>0, <3>1 DEF WorkerExits, ReceiveItem, ServiceCheck, AnnounceRunning, WorkerTypes
    <3>2. CASE CheckContext(p) \/ ExistsByEmail(p) \/ SaveUser(p) \/ CreateUserFails(p)
      BY <1>0, <3>2, Zenon DEF CheckContext, ExistsByEmail, SaveUser, CreateUserFails, Call,
         WorkerTypes
    <3>3. CASE TransitUnacknowledged(p) \/ ServiceCallFails(p) \/ AnnounceTerminal(p)
      BY <1>0, <3>3, Zenon DEF TransitUnacknowledged, ServiceCallFails, AnnounceTerminal,
         DropItem, WorkerTypes
    <3> QED BY <1>2, <3>1, <3>2, <3>3 DEF WorkerStep
  <2> QED BY <2>1, Zenon DEF ItemOutcome
<1> QED BY <1>1, <1>2

\* The other steps leave a worker with an item alone, or end it with a crash.
LEMMA OthersKeepWorker ==
    ASSUME IInv, [Next]_vars, NEW p \in Procs, ~WorkerStep(p), witem[p] # Nil, ~Crash
    PROVE  wpc'[p] = wpc[p] /\ witem'[p] = witem[p] /\ wintent'[p] = wintent[p]
<1>1. CASE \E q \in Procs : WorkerStep(q)
  BY <1>1, WorkerEffect, Zenon DEF IInv
<1>2. CASE Start
  <2>1. wpc[p] # "unborn" /\ ngen \in Nat
    <3>1. wpc[p] \in {"received", "check", "cas", "announce", "exists", "save"}
      BY ZenonT(40) DEF IInv, WorkerShape
    <3>2. ngen \in 0 .. MaxGen
      BY Zenon DEF IInv, TypeOK, PoolTypes
    <3> QED BY <3>1, <3>2
  <2>2. ~(p[1] > ngen)
    BY <2>1, Zenon DEF IInv, PoolShape
  <2>3. p[1] # ngen + 1
    BY <2>1, <2>2
  <2> QED BY <1>2, <2>3, Zenon DEF Start
<1>3. CASE ~Start /\ ~ \E q \in Procs : WorkerStep(q)
  BY <1>3, WorkerFrame DEF workerVars
<1> QED BY <1>1, <1>2, <1>3, ZenonT(40)

\* Nobody else adds to the log of a worker's item, or changes its outcome.
LEMMA ItemLogOther ==
    ASSUME IInv, LogShape, [Next]_vars, NEW p \in Procs, ~WorkerStep(p)
    PROVE  ItemLog(p)' /\ ItemOutcome(p)'
<1>0. ItemLog(p) /\ ItemOutcome(p)
  BY DEF LogShape
<1>1. CASE Crash
  <2>1. witem'[p] = Nil /\ wpc'[p] # "announce"
    BY <1>1 DEF Crash
  <2> QED BY <2>1 DEF ItemLog, ItemOutcome
<1>2. CASE ~Crash /\ witem[p] # Nil
  <2>1. wpc'[p] = wpc[p] /\ witem'[p] = witem[p] /\ wintent'[p] = wintent[p]
    BY <1>2, OthersKeepWorker
  <2>2. PICK r \in Requests : r = witem[p]
    BY <1>2 DEF IInv, TypeOK, WorkerTypes
  <2>3. hpc[r] = "accepted"
    BY <1>2, <2>2 DEF IInv, ItemShape
  <2>4. ASSUME NEW q \in Procs, witem[q] = r PROVE ~Announces(q)
    <3>1. q = p
      BY <2>2, <2>4, <1>2 DEF IInv, ItemShape, ItemInOnePlace
    <3> QED BY <3>1 DEF Announces, WorkerStep
  <2>5. events'[r] = events[r]
    BY <1>2, <2>3, <2>4, AcceptedLog
  <2>6. ItemLog(p)'
    BY <1>0, <2>1, <2>2, <2>5 DEF ItemLog, Started
  <2>7. ItemOutcome(p)'
    <3>1. CASE wpc[p] = "announce" /\ wintent[p] # "start"
      <4>1. wintent[p] \in {"succeed", "fail", "shutdown"}
        BY <3>1 DEF IInv, WorkerShape, TypeOK, WorkerTypes, Intents
      <4>2. status[r] = jobTransitionSpecs[JobIntent(wintent[p])].To
        BY <1>0, <2>2, <3>1 DEF ItemOutcome
      <4>3. IsTerminal(status[r])
        BY <4>1, <4>2, EndingIntents, Zenon
      <4>4. status'[r] = status[r]
        BY <2>3, <4>3, TerminalIsFinal
      <4> QED BY <2>1, <2>2, <4>2, <4>4, Zenon DEF ItemOutcome, JobIntent
    <3>2. CASE ~(wpc[p] = "announce" /\ wintent[p] # "start")
      BY <2>1, <3>2 DEF ItemOutcome
    <3> QED BY <3>1, <3>2
  <2> QED BY <2>6, <2>7
<1>3. CASE ~Crash /\ witem[p] = Nil
  <2>1. witem'[p] = Nil /\ wpc'[p] # "announce"
    <3>1. wpc[p] # "announce"
      BY <1>3 DEF IInv, WorkerShape
    <3>2. CASE \E q \in Procs : WorkerStep(q)
      BY <1>3, <3>1, <3>2, WorkerEffect DEF IInv
    <3>3. CASE Start
      BY <1>3, <3>1, <3>3 DEF Start
    <3>4. CASE ~Start /\ ~ \E q \in Procs : WorkerStep(q)
      BY <1>3, <3>1, <3>4, WorkerFrame DEF workerVars
    <3> QED BY <3>2, <3>3, <3>4
  <2> QED BY <2>1 DEF ItemLog, ItemOutcome
<1> QED BY <1>1, <1>2, <1>3

\* Every step keeps the logs' shape.
LEMMA LogShapeStep ==
    ASSUME IInv, LogShape, [Next]_vars
    PROVE  LogShape'
<1>1. \A p \in Procs : ItemLog(p)' /\ ItemOutcome(p)'
  BY ItemLogOwn, ItemOutcomeOwn, ItemLogOther
<1> QED BY <1>1, RequestLogStep, QueueLogStep, Zenon DEF LogShape

\* An outcome is the last entry of a log that has more than one.
LEMMA OutcomeIsLast ==
    ASSUME NEW l \in Logs, NEW i \in 1 .. Len(l), IsTerminal(l[i])
    PROVE  i = Len(l) /\ l # <<>> /\ l # <<"queued">>
<1>1. l # <<>> /\ l # <<"queued">> /\ l # <<"queued", "running">>
  BY DEF IsTerminal
<1>2. CASE l = <<"queued", "failed">>
  <2>1. Len(l) = 2 /\ l[1] = "queued"
    BY <1>2
  <2> QED BY <1>1, <2>1 DEF IsTerminal
<1>3. CASE \E x : l = <<"queued", "running", x>>
  <2>1. Len(l) = 3 /\ l[1] = "queued" /\ l[2] = "running"
    BY <1>3
  <2> QED BY <1>1, <2>1 DEF IsTerminal
<1> QED BY <1>1, <1>2, <1>3 DEF Logs

\* The jobs announced as queued, as running, and as ended after they ran.
Reached(l, n) == l # <<>> /\ Len(l) >= n /\ (n > 1 => l[2] = "running")

Announced(n) == {r \in Requests : Reached(events[r], n)}

\* The counters count announcements.
CounterShape ==
    /\ IsFiniteSet(Announced(1))
    /\ metrics["queued"] = Cardinality(Announced(1))
    /\ metrics["running"] = Cardinality(Announced(2))
    /\ metrics["succeeded"] + metrics["failed"] = Cardinality(Announced(3))

\* Every step keeps the outcomes in the logs and in the store the same.
LEMMA AgreementStep ==
    ASSUME IInv, LogShape, EventsAgreeWithStore, [Next]_vars
    PROVE  EventsAgreeWithStore'
<1> SUFFICES ASSUME NEW r \in Requests, NEW i \in 1 .. Len(events'[r]), IsTerminal(events'[r][i])
             PROVE  i = Len(events'[r]) /\ status'[r] = events'[r][i]
  BY DEF EventsAgreeWithStore
<1>1. /\ i = Len(events'[r]) /\ events'[r] # <<>> /\ events'[r] # <<"queued">>
  BY RequestLogStep, OutcomeIsLast
<1>2. ~Crash
  BY <1>1 DEF Crash
<1>3. status[r] = events'[r][i] /\ hpc[r] \notin {"new", "rollback"}
  <2>1. CASE events'[r] = events[r]
    BY <1>1, <2>1, Zenon DEF LogShape, EventsAgreeWithStore
  <2>2. CASE \E p \in Procs : Announces(p) /\ witem[p] = r
    <3>1. hpc[r] = "accepted"
      BY <2>2, AnnouncerHolds, Zenon
    <3>2. CASE events'[r] = <<"queued", "running">>
      BY <3>2 DEF IsTerminal
    <3>3. CASE events'[r] = <<"queued", "failed">> /\ status[r] = "failed"
      BY <1>1, <3>1, <3>3, SMTT(60)
    <3>4. CASE events'[r] = <<"queued", "running", status[r]>>
      BY <1>1, <3>1, <3>4
    <3> QED BY <1>1, <1>2, <2>1, <3>2, <3>3, <3>4, EventMoves, Zenon
  <2> QED BY <1>1, <1>2, <2>1, <2>2, EventMoves
<1>4. status'[r] = status[r]
  BY <1>3, TerminalIsFinal
<1> QED BY <1>1, <1>3, <1>4

\* How far the logs reach that the counters tell apart.
LEMMA LogsReach ==
    /\ ~Reached(<<>>, 1) /\ ~Reached(<<>>, 2) /\ ~Reached(<<>>, 3)
    /\ Reached(<<"queued">>, 1) /\ ~Reached(<<"queued">>, 2) /\ ~Reached(<<"queued">>, 3)
    /\ \A x \in Statuses : /\ Reached(<<"queued", x>>, 1) /\ ~Reached(<<"queued", x>>, 3)
                           /\ Reached(<<"queued", x>>, 2) <=> x = "running"
    /\ \A x \in Statuses : /\ Reached(<<"queued", "running", x>>, 1)
                           /\ Reached(<<"queued", "running", x>>, 2)
                           /\ Reached(<<"queued", "running", x>>, 3)
<1>1. ~Reached(<<>>, 1) /\ ~Reached(<<>>, 2) /\ ~Reached(<<>>, 3)
  BY Zenon DEF Reached
<1>2. Reached(<<"queued">>, 1) /\ ~Reached(<<"queued">>, 2) /\ ~Reached(<<"queued">>, 3)
  BY DEF Reached
<1>3. ASSUME NEW x \in Statuses
      PROVE  /\ Reached(<<"queued", x>>, 1) /\ ~Reached(<<"queued", x>>, 3)
             /\ Reached(<<"queued", x>>, 2) <=> x = "running"
  BY DEF Reached
<1>4. ASSUME NEW x \in Statuses
      PROVE  /\ Reached(<<"queued", "running", x>>, 1)
             /\ Reached(<<"queued", "running", x>>, 2)
             /\ Reached(<<"queued", "running", x>>, 3)
  BY DEF Reached
<1> QED BY <1>1, <1>2, <1>3, <1>4, Zenon

\* A job enters the sets of announced jobs one after the other.
LEMMA AnnouncedMoves ==
    ASSUME IInv, NEW r \in Requests, NEW l, events' = [events EXCEPT ![r] = l]
    PROVE  /\ (events[r] = <<>> /\ l = <<"queued">>) =>
                /\ r \notin Announced(1) /\ Announced(1)' = Announced(1) \cup {r}
                /\ Announced(2)' = Announced(2) /\ Announced(3)' = Announced(3)
           /\ (events[r] = <<"queued">> /\ l = <<"queued", "running">>) =>
                /\ r \notin Announced(2) /\ Announced(2)' = Announced(2) \cup {r}
                /\ Announced(1)' = Announced(1) /\ Announced(3)' = Announced(3)
           /\ (events[r] = <<"queued">> /\ l = <<"queued", "failed">>) =>
                /\ Announced(1)' = Announced(1) /\ Announced(2)' = Announced(2)
                /\ Announced(3)' = Announced(3)
           /\ (\E x \in Statuses : events[r] = <<"queued", "running">> /\ l = <<"queued", "running", x>>) =>
                /\ r \notin Announced(3) /\ Announced(3)' = Announced(3) \cup {r}
                /\ Announced(1)' = Announced(1) /\ Announced(2)' = Announced(2)
<1>0. events'[r] = l /\ \A q \in Requests : q # r => events'[q] = events[q]
  BY DEF IInv, TypeOK, ObsTypes
<1>1. ASSUME NEW n, Reached(l, n) <=> Reached(events[r], n) PROVE Announced(n)' = Announced(n)
  BY <1>0, <1>1, Zenon DEF Announced
<1>2. ASSUME NEW n, Reached(l, n), ~Reached(events[r], n)
      PROVE  r \notin Announced(n) /\ Announced(n)' = Announced(n) \cup {r}
  BY <1>0, <1>2, Zenon DEF Announced
<1>3. "running" \in Statuses /\ "failed" \in Statuses /\ "failed" # "running"
  BY DEF Statuses
<1>4. (events[r] = <<>> /\ l = <<"queued">>) =>
        /\ r \notin Announced(1) /\ Announced(1)' = Announced(1) \cup {r}
        /\ Announced(2)' = Announced(2) /\ Announced(3)' = Announced(3)
  BY <1>1, <1>2, LogsReach, Zenon
<1>5. (events[r] = <<"queued">> /\ l = <<"queued", "running">>) =>
        /\ r \notin Announced(2) /\ Announced(2)' = Announced(2) \cup {r}
        /\ Announced(1)' = Announced(1) /\ Announced(3)' = Announced(3)
  BY <1>1, <1>2, <1>3, LogsReach, Zenon
<1>6. (events[r] = <<"queued">> /\ l = <<"queued", "failed">>) =>
        /\ Announced(1)' = Announced(1) /\ Announced(2)' = Announced(2)
        /\ Announced(3)' = Announced(3)
  BY <1>1, <1>3, LogsReach, Zenon
<1>7. ASSUME NEW x \in Statuses, events[r] = <<"queued", "running">>, l = <<"queued", "running", x>>
      PROVE  /\ r \notin Announced(3) /\ Announced(3)' = Announced(3) \cup {r}
             /\ Announced(1)' = Announced(1) /\ Announced(2)' = Announced(2)
  BY <1>1, <1>2, <1>3, <1>7, LogsReach, Zenon
<1> QED BY <1>4, <1>5, <1>6, <1>7, Zenon

\* The jobs that ended were announced as running, and those as queued.
LEMMA AnnouncedNest == Announced(3) \subseteq Announced(2) /\ Announced(2) \subseteq Announced(1)
BY DEF Announced, Reached

\* Every step keeps the counters in line with the logs.
LEMMA CounterStep ==
    ASSUME IInv, LogShape, CounterShape, [Next]_vars
    PROVE  CounterShape'
<1>0. /\ IsFiniteSet(Announced(1)) /\ IsFiniteSet(Announced(2)) /\ IsFiniteSet(Announced(3))
      /\ metrics \in [Statuses -> Nat]
  BY AnnouncedNest, FS_Subset DEF CounterShape, IInv, TypeOK, ObsTypes
<1>1. CASE UNCHANGED events /\ UNCHANGED metrics
  BY <1>1 DEF CounterShape, Announced
<1>2. CASE Crash
  <2>1. \A n : Announced(n)' = {}
    BY <1>2 DEF Crash, Announced, Reached
  <2>2. metrics' = [m \in Statuses |-> 0]
    BY <1>2 DEF Crash
  <2> QED BY <2>1, <2>2, FS_EmptySet DEF CounterShape, Statuses
<1>3. CASE \E r \in Requests : PublishQueuedJob(r)
  <2>1. PICK r \in Requests : PublishQueuedJob(r)
    BY <1>3
  <2>2. metrics' = [metrics EXCEPT !["queued"] = @ + 1]
    BY <2>1, QueuedEffect
  <2>3. /\ r \notin Announced(1) /\ Announced(1)' = Announced(1) \cup {r}
        /\ Announced(2)' = Announced(2) /\ Announced(3)' = Announced(3)
    BY <2>1, QueuedEffect, AnnouncedMoves
  <2>4. IsFiniteSet(Announced(1))' /\ Cardinality(Announced(1))' = Cardinality(Announced(1)) + 1
    BY <1>0, <2>3, FS_AddElement
  <2> QED BY <1>0, <2>2, <2>3, <2>4 DEF CounterShape, Statuses
<1>4. CASE \E p \in Procs : AnnounceRunning(p)
  <2>1. PICK p \in Procs, r \in Requests : AnnounceRunning(p) /\ witem[p] = r
    BY <1>4, AnnouncerHolds DEF Announces
  <2>2. metrics' = [metrics EXCEPT !["running"] = @ + 1]
    BY <2>1, RunningEffect
  <2>3. /\ r \notin Announced(2) /\ Announced(2)' = Announced(2) \cup {r}
        /\ Announced(1)' = Announced(1) /\ Announced(3)' = Announced(3)
    BY <2>1, RunningEffect, AnnouncedMoves
  <2>4. Cardinality(Announced(2))' = Cardinality(Announced(2)) + 1
    BY <1>0, <2>3, FS_AddElement
  <2> QED BY <1>0, <2>2, <2>3, <2>4 DEF CounterShape, Statuses
<1>5. CASE \E p \in Procs : AnnounceTerminal(p)
  <2>1. PICK p \in Procs, r \in Requests : AnnounceTerminal(p) /\ witem[p] = r
    BY <1>5, AnnouncerHolds DEF Announces
  <2>2. CASE /\ events[r] = <<"queued">> /\ UNCHANGED metrics
             /\ events' = [events EXCEPT ![r] = <<"queued", "failed">>]
    <3>1. Announced(1)' = Announced(1) /\ Announced(2)' = Announced(2) /\ Announced(3)' = Announced(3)
      BY <2>2, AnnouncedMoves
    <3> QED BY <2>2, <3>1 DEF CounterShape
  <2>3. CASE /\ status[r] \in {"succeeded", "failed"} /\ events[r] = <<"queued", "running">>
             /\ metrics' = [metrics EXCEPT ![status[r]] = @ + 1]
             /\ events' = [events EXCEPT ![r] = <<"queued", "running", status[r]>>]
    <3>1. /\ r \notin Announced(3) /\ Announced(3)' = Announced(3) \cup {r}
          /\ Announced(1)' = Announced(1) /\ Announced(2)' = Announced(2)
      BY <2>3, AnnouncedMoves DEF Statuses
    <3>2. Cardinality(Announced(3))' = Cardinality(Announced(3)) + 1
      BY <1>0, <3>1, FS_AddElement
    <3>3. /\ metrics'["succeeded"] + metrics'["failed"] = metrics["succeeded"] + metrics["failed"] + 1
          /\ metrics'["queued"] = metrics["queued"] /\ metrics'["running"] = metrics["running"]
      BY <1>0, <2>3, SMTT(60) DEF Statuses
    <3> QED BY <3>1, <3>2, <3>3 DEF CounterShape
  <2> QED BY <2>1, <2>2, <2>3, TerminalEffect
<1> QED BY <1>1, <1>2, <1>3, <1>4, <1>5, EventFrame DEF Announces

\* The logs' shape holds in every state.
LEMMA LogShapeAlways == Spec => [](IInv /\ LogShape)
<1>1. Init => LogShape
  <2> SUFFICES ASSUME Init PROVE LogShape
    OBVIOUS
  <2>1. \A r \in Requests : events[r] = <<>> /\ hpc[r] = "new" /\ events[r] \in Logs
    BY DEF Init, Logs
  <2>2. \A p \in Procs : wpc[p] = "unborn" /\ witem[p] = Nil
    BY DEF Init
  <2>3. queue = <<>>
    BY DEF Init
  <2>4. \A i \in 1 .. Len(queue) : FALSE
    BY <2>3
  <2>5. \A p \in Procs : ItemLog(p) /\ ItemOutcome(p)
    BY <2>2 DEF ItemLog, ItemOutcome
  <2> QED BY <2>1, <2>4, <2>5, Zenon DEF LogShape
<1>2. IInv /\ LogShape /\ [Next]_vars => LogShape'
  BY LogShapeStep
<1> QED BY <1>1, <1>2, IInvAlways, PTL DEF Spec

\* The hub never announces an outcome that was not committed, and announces
\* nothing after it (workerLoop, publishJobEvent).
THEOREM AnnouncementsAreCommitted == Spec => []EventsAgreeWithStore
<1>1. Init => EventsAgreeWithStore
  <2> SUFFICES ASSUME Init, NEW r \in Requests PROVE Len(events[r]) = 0
    BY DEF EventsAgreeWithStore
  <2> QED BY DEF Init
<1>2. IInv /\ LogShape /\ EventsAgreeWithStore /\ [Next]_vars => EventsAgreeWithStore'
  BY AgreementStep
<1> QED BY <1>1, <1>2, LogShapeAlways, PTL DEF Spec

\* Announcements of a job come in order, and jobs_total never shows more
\* outcomes than starts or more starts than queued jobs, for any number of
\* requests, workers and generations (PublishQueuedJob, workerLoop).
THEOREM AnnouncementsAreOrdered == Spec => []EventsInOrder
<1>1. Init => CounterShape
  <2> SUFFICES ASSUME Init PROVE CounterShape
    OBVIOUS
  <2>1. \A n : Announced(n) = {}
    BY DEF Init, Announced, Reached
  <2>2. metrics = [m \in Statuses |-> 0]
    BY DEF Init
  <2> QED BY <2>1, <2>2, FS_EmptySet DEF CounterShape, Statuses
<1>2. IInv /\ LogShape /\ CounterShape /\ [Next]_vars => CounterShape'
  BY CounterStep
<1>3. LogShape /\ CounterShape => EventsInOrder
  <2> SUFFICES ASSUME LogShape, CounterShape PROVE EventsInOrder
    OBVIOUS
  <2>1. IsFiniteSet(Announced(2)) /\ Cardinality(Announced(2)) <= Cardinality(Announced(1))
    BY AnnouncedNest, FS_Subset DEF CounterShape
  <2>2. Cardinality(Announced(3)) <= Cardinality(Announced(2))
    BY <2>1, AnnouncedNest, FS_Subset
  <2>3. \A r \in Requests : events[r] \in Logs
    BY DEF LogShape
  <2> QED BY <2>1, <2>2, <2>3, Zenon DEF CounterShape, EventsInOrder, Logs
<1> QED BY <1>1, <1>2, <1>3, LogShapeAlways, PTL DEF Spec

-----------------------------------------------------------------------------
(* What Stop tells APIServer.Run *)

\* The control states of a Stop call that has a generation to stop.
UnderWay == {"cancel", "poll", "wait", "repair", "settle"}

\* No generation is cancelled but one that a Stop is taking down, and a worker
\* gives up its item only when its context is cancelled.
CancelInv ==
    /\ \A g \in Gens : gcancel[g] => g <= ngen /\ (cur = g => stopping)
    /\ \A p \in Procs : wintent[p] = "shutdown" => Cancelled(p[1])

\* Repairs fail on a database only.
ErrorInv == Durable \/ (last # "err" /\ \A g \in Gens : outcome[g] # "err")

\* The generation of a Stop call is marked; under the supervisor no other one
\* follows it.
CallInv(s) ==
    /\ spc[s] \in UnderWay /\ cur = sgen[s] => stopping
    /\ Supervised /\ spc[s] # "idle" => stopped
    /\ Supervised /\ spc[s] \in UnderWay => cur \in {0, sgen[s]}

PoolInv == CancelInv /\ ErrorInv /\ \A s \in Stoppers : CallInv(s)

AllWorkersGone == \A p \in Procs : wpc[p] \in {"unborn", "exited"}

\* What APIServer.Run, as Supervisor models it, takes for granted of the pool.
\* Workers leave only once main's context is cancelled or the pool is being
\* stopped.  A Stop gives up only after its deadline and then changes nothing;
\* any other answer finds the workers gone, no generation left to stop, and is
\* an error on a database only.
PoolSeenByRun ==
    /\ \A p \in Procs :
        wpc[p] # "exited" /\ wpc'[p] = "exited" /\ UNCHANGED crashes =>
            appDone \/ (cur = p[1] /\ stopping)
    /\ \A s \in Stoppers : spc[s] # "returned" /\ spc'[s] = "returned" =>
        \/ sres'[s] = "timeout" /\ sexpired[s] /\ UNCHANGED <<workerVars, storeVars, poolVars>>
        \/ /\ sres'[s] \in {"ok", "err"} /\ (sres'[s] = "err" => Durable)
           /\ Supervised => AllWorkersGone /\ cur' = 0 /\ stopped
           /\ UNCHANGED <<workerVars, storeVars>>

\* Main's context stays cancelled until the process ends.
LEMMA CancelStays ==
    ASSUME [Next]_vars, ~Crash, appDone
    PROVE  appDone'
<1> USE DEF envVars
<1>1. CASE UNCHANGED vars
  BY <1>1 DEF vars
<1>2. CASE \E r \in Requests : HandlerStep(r) \/ ClientCancels(r)
  BY Zenon, <1>2 DEF HandlerStep, ClientCancels, SaveJob, SaveJobFails, PublishQueuedJob,
              BeginEnqueue, Enqueue, EnqueueRejected, DeleteJobAfterFailedEnqueue
<1>3. CASE \E s \in Stoppers : StopStep(s) \/ StopDeadline(s)
  BY <1>3, Zenon DEF StopStep, StopDeadline, StopCall, StopCallIdle, StopCancel, StopPoll,
              StopWaitDone, StopTimesOut, CompleteStopRepair, CompleteStopRepeated,
              CompleteStopSettle
<1>4. CASE \E p \in Procs : WorkerStep(p)
  BY Zenon, <1>4 DEF WorkerStep, WorkerExits, ReceiveItem, CheckContext, ServiceCheck, Transit,
              TransitUnacknowledged, ServiceCallFails, AnnounceRunning, AnnounceTerminal,
              ExistsByEmail, SaveUser, CreateUserFails
<1>5. CASE (\E e \in Emails : UserRequest(e)) \/ Start \/ ForeignRepair \/ StopAccepting \/ Signal
  BY Zenon, <1>5 DEF UserRequest, SyncCreateUser, FreeEmail, Start, Signal, ForeignRepair,
     StopAccepting
<1> QED BY <1>1, <1>2, <1>3, <1>4, <1>5 DEF Next

\* A step that leaves the pool and the Stop calls alone keeps what is said of
\* them.
LEMMA PoolKept ==
    ASSUME PoolInv, UNCHANGED <<poolVars, stopVars>>, stopped => stopped', appDone => appDone',
           \A p \in Procs : wintent'[p] = "shutdown" => wintent[p] = "shutdown" \/ Cancelled(p[1])
    PROVE  PoolInv'
<1>1. UNCHANGED <<cur, ngen, stopping, gcancel, outcome, last, spc, sgen>>
  BY DEF poolVars, stopVars
<1>2. \A p \in Procs : Cancelled(p[1]) => Cancelled(p[1])'
  BY <1>1, Zenon DEF Cancelled
<1>3. CancelInv'
  BY <1>1, <1>2, Zenon DEF PoolInv, CancelInv
<1>4. ErrorInv'
  BY <1>1, Zenon DEF PoolInv, ErrorInv
<1>5. \A s \in Stoppers : CallInv(s)'
  BY <1>1, Zenon DEF PoolInv, CallInv
<1> QED BY <1>3, <1>4, <1>5, Zenon DEF PoolInv

\* A worker decides to give up its item only when its context is cancelled.
LEMMA GivesUp ==
    ASSUME WorkerTypes, NEW p \in Procs, WorkerStep(p), wintent'[p] = "shutdown"
    PROVE  wintent[p] = "shutdown" \/ Cancelled(p[1])
<1>1. CASE WorkerExits(p) \/ ReceiveItem(p) \/ ServiceCheck(p) \/ Transit(p) \/ AnnounceRunning(p)
  <2>1. wintent'[p] \in {wintent[p], "none"}
    BY Zenon, <1>1 DEF WorkerExits, ReceiveItem, ServiceCheck, Transit, AnnounceRunning,
       WorkerTypes
  <2> QED BY <2>1
<1>2. CASE CheckContext(p)
  <2>1. ~Cancelled(p[1]) => wintent'[p] = "start"
    BY <1>2, Zenon DEF CheckContext, Call, WorkerTypes
  <2> QED BY <2>1
<1>3. CASE ExistsByEmail(p) \/ SaveUser(p) \/ CreateUserFails(p)
  <2>1. wintent'[p] \in {wintent[p], "succeed", "fail"}
    BY <1>3, ZenonT(40) DEF ExistsByEmail, SaveUser, CreateUserFails, Call, WorkerTypes
  <2> QED BY <2>1
<1>4. CASE TransitUnacknowledged(p) \/ ServiceCallFails(p) \/ AnnounceTerminal(p)
  <2>1. DropItem(p)
    BY <1>4, Zenon DEF TransitUnacknowledged, ServiceCallFails, AnnounceTerminal
  <2>2. wintent'[p] = "none"
    BY <2>1, Zenon DEF DropItem, WorkerTypes
  <2> QED BY <2>2
<1> QED BY <1>1, <1>2, <1>3, <1>4, Zenon DEF WorkerStep

\* Start finds no Stop under way, or one of an earlier generation.
LEMMA StartKeepsPool ==
    ASSUME IInv, PoolInv, Start
    PROVE  PoolInv'
<1>1. /\ cur' = ngen + 1 /\ ngen' = ngen + 1 /\ stopping' = FALSE /\ last' = "none"
      /\ UNCHANGED <<gcancel, outcome, wintent, spc, sgen, stopped, appDone>>
      /\ Supervised => ~stopped
  BY Zenon DEF Start, stopVars, envVars, queueVars
<1>2. ngen \in Nat /\ \A g \in Gens : g \in Nat
  BY PipelineAssumption DEF IInv, TypeOK, PoolTypes, Gens
<1>3. CancelInv'
  <2>1. \A g \in Gens : g <= ngen => g <= ngen' /\ cur' # g
    BY <1>1, <1>2
  <2>2. \A p \in Procs : Cancelled(p[1])' <=> Cancelled(p[1])
    BY <1>1, Zenon DEF Cancelled
  <2> QED BY <1>1, <2>1, <2>2, Zenon DEF PoolInv, CancelInv
<1>4. ErrorInv'
  BY <1>1 DEF PoolInv, ErrorInv
<1>5. ASSUME NEW s \in Stoppers PROVE CallInv(s)'
  <2>1. spc[s] \in UnderWay => sgen[s] \in 1 .. ngen
    BY Zenon DEF IInv, StopShape, StopPromise, UnderWay
  <2>2. spc[s] \in UnderWay => cur' # sgen[s]
    <3>1. cur' = ngen + 1
      BY <1>1, Zenon
    <3>2. \A g \in 1 .. ngen : g # ngen + 1
      BY <1>2, SMTT(60)
    <3> QED BY <2>1, <3>1, <3>2, Zenon
  <2>3. Supervised => spc[s] = "idle"
    BY <1>1, Zenon DEF PoolInv, CallInv
  <2>4. "idle" \notin UnderWay
    BY DEF UnderWay
  <2> QED BY <1>1, <2>2, <2>3, <2>4, Zenon DEF CallInv
<1> QED BY <1>3, <1>4, <1>5, Zenon DEF PoolInv

\* A crash leaves no call and no generation.
LEMMA CrashKeepsPool ==
    ASSUME IInv, PoolInv, Crash
    PROVE  PoolInv'
<1>1. /\ cur' = 0 /\ last' = "none" /\ UNCHANGED <<ngen, gcancel, outcome>>
      /\ \A p \in Procs : wintent'[p] = "none"
      /\ \A s \in Stoppers : spc'[s] = "idle"
  BY Zenon DEF Crash
<1>2. \A g \in Gens : g # 0
  BY PipelineAssumption DEF Gens
<1>3. CancelInv'
  BY <1>1, <1>2 DEF PoolInv, CancelInv
<1>4. ErrorInv'
  BY <1>1 DEF PoolInv, ErrorInv
<1>5. \A s \in Stoppers : CallInv(s)'
  BY <1>1 DEF CallInv, UnderWay
<1> QED BY <1>3, <1>4, <1>5, Zenon DEF PoolInv

\* A step of a Stop call keeps the pool in order.
LEMMA StopKeepsPool ==
    ASSUME IInv, PoolInv, [Next]_vars, NEW s \in Stoppers, StopStep(s) \/ StopDeadline(s)
    PROVE  PoolInv'
<1>0. /\ StopTypes /\ PoolTypes /\ \A t \in Stoppers : StopPromise(t)
      /\ spc \in [Stoppers -> {"idle", "cancel", "poll", "wait", "repair", "settle", "returned"}]
      /\ sgen \in [Stoppers -> 0 .. MaxGen]
  BY Zenon DEF IInv, TypeOK, StopTypes, StopShape
<1>1. /\ UNCHANGED <<ngen, wintent, stopped, appDone>>
      /\ \A t \in Stoppers \ {s} : spc'[t] = spc[t] /\ sgen'[t] = sgen[t]
  <2>1. UNCHANGED <<stopped, appDone>>
    BY Zenon DEF StopStep, StopDeadline, StopCall, StopCallIdle, StopCancel, StopPoll,
       StopWaitDone, StopTimesOut, CompleteStopRepair, CompleteStopRepeated,
       CompleteStopSettle, queueVars, envVars
  <2> QED BY <1>0, <2>1, StopEffect, Zenon DEF workerVars
<1>2. \A t \in Stoppers : CallInv(t)
  BY Zenon DEF PoolInv
<1>3. CASE StopCall(s)
  <2>1. /\ spc'[s] \in {"poll", "cancel"} /\ sgen'[s] = cur /\ stopping' = TRUE
        /\ UNCHANGED <<cur, gcancel, outcome, last>> /\ (Supervised => stopped)
    BY <1>0, <1>3, Zenon DEF StopCall, MayStop
  <2>2. CancelInv' /\ ErrorInv'
    BY <1>1, <2>1, Zenon DEF PoolInv, CancelInv, ErrorInv, Cancelled
  <2>3. CallInv(s)'
    BY <1>1, <2>1, Zenon DEF CallInv
  <2>4. \A t \in Stoppers \ {s} : CallInv(t)'
    BY <1>1, <1>2, <2>1, Zenon DEF CallInv
  <2> QED BY <2>2, <2>3, <2>4, Zenon DEF PoolInv
<1>4. CASE StopCancel(s)
  <2>1. /\ spc[s] = "cancel" /\ spc'[s] = "poll" /\ gcancel' = [gcancel EXCEPT ![sgen[s]] = TRUE]
        /\ UNCHANGED <<sgen, cur, stopping, outcome, last>>
    BY <1>0, <1>4, Zenon DEF StopCancel
  <2>2. /\ sgen[s] \in 1 .. ngen /\ (cur = sgen[s] => stopping)
    BY <1>0, <1>2, <2>1 DEF StopPromise, CallInv, UnderWay
  <2>3. sgen[s] <= ngen
    BY <1>0, <2>2 DEF PoolTypes
  <2>4. \A g \in Gens : gcancel'[g] <=> gcancel[g] \/ g = sgen[s]
    BY <1>0, <2>1, Zenon DEF PoolTypes
  <2>5. \A p \in Procs : Cancelled(p[1]) => Cancelled(p[1])'
    BY <1>1, <2>4, ProcPairs, Zenon DEF Cancelled
  <2>6. CancelInv'
    BY <1>1, <2>1, <2>2, <2>3, <2>4, <2>5, Zenon DEF PoolInv, CancelInv
  <2>7. ErrorInv'
    BY <2>1, Zenon DEF PoolInv, ErrorInv
  <2>8. CallInv(s)'
    BY <1>1, <1>2, <2>1 DEF CallInv, UnderWay
  <2>9. \A t \in Stoppers \ {s} : CallInv(t)'
    BY <1>1, <1>2, <2>1, Zenon DEF CallInv
  <2> QED BY <2>6, <2>7, <2>8, <2>9, Zenon DEF PoolInv
<1>5. CASE CompleteStopRepair(s)
  <2>1. /\ spc[s] = "repair" /\ spc'[s] = "settle"
        /\ UNCHANGED <<sgen, cur, stopping, gcancel, last>>
    BY <1>0, <1>5, Zenon DEF CompleteStopRepair
  <2>2. \E o \in {"ok", "err"} :
            outcome' = [outcome EXCEPT ![sgen[s]] = o] /\ (o = "err" => Durable)
    BY <1>5, Zenon DEF CompleteStopRepair
  <2>3. CancelInv'
    BY <1>1, <2>1, Zenon DEF PoolInv, CancelInv, Cancelled
  <2>4. ErrorInv'
    BY <1>0, <2>1, <2>2 DEF PoolInv, ErrorInv, PoolTypes
  <2>5. CallInv(s)'
    BY <1>1, <1>2, <2>1 DEF CallInv, UnderWay
  <2>6. \A t \in Stoppers \ {s} : CallInv(t)'
    BY <1>1, <1>2, <2>1, Zenon DEF CallInv
  <2> QED BY <2>3, <2>4, <2>5, <2>6, Zenon DEF PoolInv
<1>6. CASE CompleteStopSettle(s) /\ cur = sgen[s]
  <2>1. /\ spc[s] = "settle" /\ spc'[s] = "returned" /\ cur' = 0 /\ last' = outcome[sgen[s]]
        /\ UNCHANGED <<sgen, gcancel, outcome>>
    BY <1>0, <1>6, Zenon DEF CompleteStopSettle, Return
  <2>2. \A g \in Gens : g # 0
    BY PipelineAssumption DEF Gens
  <2>3. sgen[s] \in Gens
    BY <1>0, <2>1, StopGen DEF IInv
  <2>4. CancelInv'
    BY <1>1, <2>1, <2>2, Zenon DEF PoolInv, CancelInv, Cancelled
  <2>5. ErrorInv'
    BY <2>1, <2>3, Zenon DEF PoolInv, ErrorInv
  <2>6. CallInv(s)'
    BY <1>1, <1>2, <2>1 DEF CallInv, UnderWay
  <2>7. ASSUME NEW t \in Stoppers \ {s} PROVE CallInv(t)'
    <3>1. spc[t] \in UnderWay => sgen[t] # 0
      BY <1>0 DEF StopPromise, UnderWay
    <3> QED BY <1>1, <1>2, <2>1, <3>1, Zenon DEF CallInv
  <2> QED BY <2>4, <2>5, <2>6, <2>7, Zenon DEF PoolInv
<1>7. CASE /\ ~StopCall(s) /\ ~StopCancel(s) /\ ~CompleteStopRepair(s)
           /\ ~(CompleteStopSettle(s) /\ cur = sgen[s])
  <2>1. /\ UNCHANGED <<sgen, cur, stopping, gcancel, outcome, last>>
    BY <1>7, Zenon DEF StopStep, StopDeadline, StopCallIdle, StopPoll, StopWaitDone,
       StopTimesOut, CompleteStopRepeated, CompleteStopSettle, poolVars
  <2>2. CancelInv' /\ ErrorInv'
    BY <1>1, <2>1, Zenon DEF PoolInv, CancelInv, ErrorInv, Cancelled
  <2>3. /\ spc'[s] \in UnderWay => spc[s] \in UnderWay
        /\ spc'[s] # "idle" => spc[s] # "idle" \/ (Supervised => stopped)
    <3>1. CASE StopCallIdle(s) \/ StopTimesOut(s) \/ CompleteStopSettle(s)
      <4>1. spc'[s] = "returned" /\ (spc[s] # "idle" \/ (Supervised => stopped))
        BY <1>0, <3>1, Zenon DEF StopCallIdle, StopTimesOut, CompleteStopSettle, Return, MayStop
      <4> QED BY <4>1 DEF UnderWay
    <3>2. CASE StopPoll(s) \/ StopWaitDone(s) \/ CompleteStopRepeated(s)
      <4>1. spc[s] \in {"poll", "wait", "repair"}
        BY <3>2, Zenon DEF StopPoll, StopWaitDone, CompleteStopRepeated
      <4> QED BY <4>1 DEF UnderWay
    <3>3. CASE StopDeadline(s)
      BY <3>3, Zenon DEF StopDeadline
    <3> QED BY <1>7, <3>1, <3>2, <3>3, Zenon DEF StopStep
  <2>4. CallInv(s)'
    BY <1>1, <1>2, <2>1, <2>3, Zenon DEF CallInv
  <2>5. \A t \in Stoppers \ {s} : CallInv(t)'
    BY <1>1, <1>2, <2>1, Zenon DEF CallInv
  <2> QED BY <2>2, <2>4, <2>5, Zenon DEF PoolInv
<1> QED BY <1>3, <1>4, <1>5, <1>6, <1>7, Zenon

\* Every step keeps the pool in order.
LEMMA PoolInvStep == IInv /\ PoolInv /\ [Next]_vars => PoolInv'
<1> SUFFICES ASSUME IInv, PoolInv, [Next]_vars PROVE PoolInv'
  OBVIOUS
<1>1. CASE Start
  BY <1>1, StartKeepsPool
<1>2. CASE Crash
  BY <1>2, CrashKeepsPool
<1>3. CASE \E s \in Stoppers : StopStep(s) \/ StopDeadline(s)
  BY <1>3, StopKeepsPool
<1>4. CASE ~Start /\ ~Crash /\ ~ \E s \in Stoppers : StopStep(s) \/ StopDeadline(s)
  <2>1. UNCHANGED <<poolVars, stopVars>>
    BY <1>4, PoolFrame
  <2>2. (stopped => stopped') /\ (appDone => appDone')
    BY <1>4, StoppedStays, CancelStays
  <2>3. \A p \in Procs : wintent'[p] = "shutdown" => wintent[p] = "shutdown" \/ Cancelled(p[1])
    <3>1. CASE \E q \in Procs : WorkerStep(q)
      <4> PICK q \in Procs : WorkerStep(q)
        BY <3>1
      <4>1. TypeOK /\ WorkerTypes
        BY Zenon DEF IInv, TypeOK
      <4> QED BY <4>1, WorkerEffect, GivesUp, Zenon
    <3>2. CASE ~ \E q \in Procs : WorkerStep(q)
      BY <1>4, <3>2, WorkerFrame DEF workerVars
    <3> QED BY <3>1, <3>2
  <2> QED BY <2>1, <2>2, <2>3, PoolKept
<1> QED BY <1>1, <1>2, <1>3, <1>4

\* Only a worker whose context is cancelled leaves the pool.
LEMMA ExitHasCause ==
    ASSUME IInv, PoolInv, [Next]_vars, NEW p \in Procs, wpc[p] # "exited", wpc'[p] = "exited",
           UNCHANGED crashes
    PROVE  appDone \/ (cur = p[1] /\ stopping)
<1>1. ~Start
  <2>1. Start => wpc'[p] \in {"select", wpc[p]}
    BY Zenon DEF Start
  <2> QED BY <2>1
<1>2. ~Crash
  <2>1. crashes \in Nat
    <3>1. crashes \in 0 .. MaxCrashes
      BY Zenon DEF IInv, TypeOK, EnvTypes
    <3> QED BY <3>1, PipelineAssumption
  <2> QED BY <2>1 DEF Crash
<1>3. PICK q \in Procs : WorkerStep(q)
  BY <1>1, <1>2, WorkerFrame DEF workerVars
<1>4. TypeOK /\ WorkerTypes
  BY Zenon DEF IInv, TypeOK
<1>5. q = p
  BY <1>3, <1>4, WorkerEffect, Zenon
<1>6. cur = p[1]
  BY <1>3, <1>4, <1>5, WorkerEffect, Zenon DEF IInv, PoolShape
<1>7. Cancelled(p[1])
  <2>1. CASE WorkerExits(p)
    BY <2>1, Zenon DEF WorkerExits
  <2>2. CASE TransitUnacknowledged(p) \/ ServiceCallFails(p) \/ AnnounceTerminal(p)
    <3>1. DropItem(p)
      BY <2>2, Zenon DEF TransitUnacknowledged, ServiceCallFails, AnnounceTerminal
    <3>2. wintent[p] # "shutdown" => wpc'[p] = "select"
      BY <1>4, <3>1, Zenon DEF DropItem, WorkerTypes
    <3> QED BY <3>2, Zenon DEF PoolInv, CancelInv
  <2>3. CASE \/ ReceiveItem(p) \/ ServiceCheck(p) \/ Transit(p) \/ AnnounceRunning(p)
             \/ CheckContext(p) \/ ExistsByEmail(p) \/ SaveUser(p) \/ CreateUserFails(p)
    <3>1. wpc'[p] \in {"received", "check", "cas", "announce", "exists", "save"}
      BY <1>4, <2>3, ZenonT(40) DEF ReceiveItem, ServiceCheck, Transit, AnnounceRunning,
         CheckContext, ExistsByEmail, SaveUser, CreateUserFails, Call, WorkerTypes
    <3> QED BY <3>1
  <2> QED BY <1>3, <1>5, <2>1, <2>2, <2>3, Zenon DEF WorkerStep
<1>8. p[1] \in Gens
  BY ProcPairs
<1> QED BY <1>6, <1>7, <1>8, Zenon DEF Cancelled, PoolInv, CancelInv

\* What a Stop call finds when it returns.
LEMMA ReturnHasCause ==
    ASSUME IInv, PoolInv, [Next]_vars, NEW s \in Stoppers, spc[s] # "returned",
           spc'[s] = "returned"
    PROVE  \/ sres'[s] = "timeout" /\ sexpired[s] /\ UNCHANGED <<workerVars, storeVars, poolVars>>
           \/ /\ sres'[s] \in {"ok", "err"} /\ (sres'[s] = "err" => Durable)
              /\ Supervised => AllWorkersGone /\ cur' = 0 /\ stopped
              /\ UNCHANGED <<workerVars, storeVars>>
<1>0. /\ StopTypes /\ PoolTypes /\ PoolShape /\ StopPromise(s) /\ CallInv(s)
      /\ spc \in [Stoppers -> {"idle", "cancel", "poll", "wait", "repair", "settle", "returned"}]
      /\ sres \in [Stoppers -> {"none", "ok", "err", "timeout"}]
  BY Zenon DEF IInv, TypeOK, StopTypes, StopShape, PoolInv
<1>1. ~Start /\ ~Crash
  <2>1. Start => UNCHANGED spc
    BY Zenon DEF Start, stopVars
  <2>2. Crash => spc'[s] = "idle"
    BY Zenon DEF Crash
  <2> QED BY <2>1, <2>2
<1>2. StopStep(s) \/ StopDeadline(s)
  <2>1. PICK t \in Stoppers : StopStep(t) \/ StopDeadline(t)
    BY <1>1, PoolFrame DEF stopVars
  <2> QED BY <1>0, <2>1, StopEffect, Zenon
<1>3. CASE StopTimesOut(s)
  BY <1>0, <1>3, Zenon DEF StopTimesOut, Return
<1>4. CASE StopCallIdle(s)
  <2>1. /\ cur = 0 /\ UNCHANGED <<workerVars, storeVars, poolVars>> /\ (Supervised => stopped)
        /\ sres'[s] = (IF last = "none" THEN "ok" ELSE last)
    BY <1>0, <1>4, Zenon DEF StopCallIdle, Return, MayStop
  <2>2. sres'[s] \in {"ok", "err"} /\ (sres'[s] = "err" => Durable)
    BY <1>0, <2>1 DEF PoolTypes, PoolInv, ErrorInv
  <2>3. AllWorkersGone
    <3>1. \A p \in Procs : p[1] # 0
      BY ProcPairs, PipelineAssumption DEF Gens
    <3> QED BY <1>0, <2>1, <3>1, Zenon DEF PoolShape, AllWorkersGone
  <2>4. cur' = 0
    BY <2>1, Zenon DEF poolVars
  <2> QED BY <2>1, <2>2, <2>3, <2>4, Zenon
<1>5. CASE CompleteStopSettle(s)
  <2>1. /\ spc[s] = "settle" /\ sres'[s] = outcome[sgen[s]] /\ UNCHANGED <<workerVars, storeVars>>
        /\ (cur = sgen[s] /\ cur' = 0) \/ (cur # sgen[s] /\ cur' = cur)
    BY <1>0, <1>5, Zenon DEF CompleteStopSettle, Return
  <2>2. sgen[s] \in Gens /\ outcome[sgen[s]] # "none" /\ GenDone(sgen[s])
    BY <1>0, <2>1, StopGen, StopSettled DEF IInv, StopPromise
  <2>3. sres'[s] \in {"ok", "err"} /\ (sres'[s] = "err" => Durable)
    BY <1>0, <2>1, <2>2 DEF PoolTypes, PoolInv, ErrorInv
  <2>4. Supervised => cur \in {0, sgen[s]} /\ stopped
    BY <1>0, <2>1 DEF CallInv, UnderWay
  <2>5. ASSUME Supervised, NEW p \in Procs PROVE wpc[p] \in {"unborn", "exited"}
    <3>1. CASE p[1] = sgen[s]
      BY <2>2, <3>1, DoneExited
    <3>2. CASE p[1] # sgen[s]
      <4>1. p[1] # 0
        BY ProcPairs, PipelineAssumption DEF Gens
      <4> QED BY <1>0, <2>4, <2>5, <3>2, <4>1, Zenon DEF PoolShape
    <3> QED BY <3>1, <3>2
  <2>6. Supervised => cur' = 0
    BY <2>1, <2>4
  <2> QED BY <2>1, <2>3, <2>4, <2>5, <2>6, Zenon DEF AllWorkersGone
<1>6. CASE \/ StopCall(s) \/ StopCancel(s) \/ StopPoll(s) \/ StopWaitDone(s)
           \/ CompleteStopRepair(s) \/ CompleteStopRepeated(s) \/ StopDeadline(s)
  <2>1. spc'[s] \in {"cancel", "poll", "wait", "repair", "settle", spc[s]}
    BY <1>0, <1>6, Zenon DEF StopCall, StopCancel, StopPoll, StopWaitDone, CompleteStopRepair,
       CompleteStopRepeated, StopDeadline
  <2> QED BY <2>1
<1> QED BY <1>2, <1>3, <1>4, <1>5, <1>6, Zenon DEF StopStep

\* The pool behaves as the shutdown sequence takes it to: workers leave only
\* when told, Stop gives up only at its deadline, and any other answer finds
\* the workers gone, for any number of workers, generations and Stop calls
\* (WorkerPool.Stop, workerLoop; APIServer.cleanup relies on it).
THEOREM PoolIsWhatRunSees == Spec => [][PoolSeenByRun]_vars
<1>1. Init => PoolInv
  <2> SUFFICES ASSUME Init PROVE PoolInv
    OBVIOUS
  <2>1. CancelInv
    BY DEF Init, CancelInv
  <2>2. ErrorInv
    BY DEF Init, ErrorInv
  <2>3. \A s \in Stoppers : CallInv(s)
    BY DEF Init, CallInv, UnderWay
  <2> QED BY <2>1, <2>2, <2>3, Zenon DEF PoolInv
<1>2. IInv /\ PoolInv /\ [Next]_vars => [PoolSeenByRun]_vars
  BY ExitHasCause, ReturnHasCause, Zenon DEF PoolSeenByRun
<1> QED BY <1>1, <1>2, PoolInvStep, IInvAlways, PTL DEF Spec

=============================================================================
