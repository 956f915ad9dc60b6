--------------------------- MODULE JobTransitions ---------------------------
(***************************************************************************)
(* The status of a job and its transition table (internal/entity/job.go),  *)
(* shared by the job store's promise (JobLifecycle) and by the pipeline    *)
(* that keeps it (AsyncJobs).                                              *)
(*                                                                         *)
(* A job without a row has one of two statuses: "none" (its id is not      *)
(* assigned yet) or "removed" (its row was deleted; ids are not reused).   *)
(***************************************************************************)
Statuses == {"queued", "running", "succeeded", "failed"}

Intents == {"start", "succeed", "fail"}

jobTransitionSpecs ==
    [start   |-> [From |-> {"queued"}, To |-> "running"],
     succeed |-> [From |-> {"running"}, To |-> "succeeded"],
     fail    |-> [From |-> {"queued", "running"}, To |-> "failed"]]

CanTransitionJob(from, intent) == from \in jobTransitionSpecs[intent].From

IsTerminal(s) == s \in {"succeeded", "failed"}

IsActive(s) == s \in {"queued", "running"}
=============================================================================
