---------------------------- MODULE MCJobQueue ----------------------------
(***************************************************************************)
(* JobQueue for TLC.  No symmetry: the run checks liveness too.            *)
(***************************************************************************)
EXTENDS JobQueue
=============================================================================
