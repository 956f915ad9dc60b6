---------------------------- MODULE MCStreamHub ----------------------------
(***************************************************************************)
(* Instances of StreamHub for TLC.                                         *)
(***************************************************************************)
EXTENDS StreamHub

\* All streams watch one job.
OneJob == [s \in Streams |-> CHOOSE j \in Jobs : TRUE]
=============================================================================
