---------------------------- MODULE JobLifecycle ----------------------------
(***************************************************************************)
(* What the job store promises to everyone who reads a job: a job is saved *)
(* queued, moves only along the transition table of internal/entity/job.go *)
(* and never leaves a terminal status.  An unaccepted job may be rolled    *)
(* back; a job whose creation was answered with 202 stays in the store.    *)
(*                                                                         *)
(* Refinement target of AsyncJobs.                                         *)
(***************************************************************************)
EXTENDS JobTransitions

CONSTANT Jobs

VARIABLES status,    \* [Jobs -> Statuses \cup {"none", "removed"}]
          accepted   \* the jobs whose work item entered the queue

absVars == <<status, accepted>>

-----------------------------------------------------------------------------
LifecycleInit ==
    /\ status = [j \in Jobs |-> "none"]
    /\ accepted = {}

Save(j) ==
    /\ status[j] = "none"
    /\ status' = [status EXCEPT ![j] = "queued"]
    /\ UNCHANGED accepted

\* The queue takes the work item of j.  The shutdown repair may have failed
\* the job in the meantime, so the status is not constrained any further.
Accept(j) ==
    /\ status[j] \in Statuses
    /\ accepted' = accepted \cup {j}
    /\ UNCHANGED status

Transition(j, intent) ==
    /\ j \in accepted
    /\ CanTransitionJob(status[j], intent)
    /\ status' = [status EXCEPT ![j] = jobTransitionSpecs[intent].To]
    /\ UNCHANGED accepted

FailActive ==
    /\ status' = [j \in Jobs |-> IF IsActive(status[j]) THEN "failed" ELSE status[j]]
    /\ UNCHANGED accepted

Rollback(j) ==
    /\ j \notin accepted
    /\ status[j] \in Statuses
    /\ status' = [status EXCEPT ![j] = "removed"]
    /\ UNCHANGED accepted

LifecycleNext ==
    \/ \E j \in Jobs : Save(j) \/ Accept(j) \/ Rollback(j)
    \/ \E j \in Jobs, intent \in Intents : Transition(j, intent)
    \/ FailActive

LifecycleSpec == LifecycleInit /\ [][LifecycleNext]_absVars
=============================================================================
