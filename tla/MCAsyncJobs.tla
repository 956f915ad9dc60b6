---------------------------- MODULE MCAsyncJobs ----------------------------
(***************************************************************************)
(* Instances of AsyncJobs for TLC.                                         *)
(***************************************************************************)
EXTENDS AsyncJobs, TLC

\* All requests carry the same e-mail: every pair of jobs competes.
OneEmail == [r \in Requests |-> CHOOSE e \in Emails : TRUE]

\* Requests differ in nothing once they share an e-mail, and neither do Stop
\* callers or the workers of a generation.
Symmetry ==
    Permutations(Requests) \cup Permutations(Workers) \cup Permutations(Stoppers)
=============================================================================
