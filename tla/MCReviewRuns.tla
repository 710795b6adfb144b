---------------------------- MODULE MCReviewRuns ----------------------------
(***************************************************************************)
(* ReviewRuns for TLC: runs and claim ids are interchangeable.             *)
(***************************************************************************)
EXTENDS ReviewRuns, TLC

Symmetry == Permutations(Runs) \cup Permutations(Claims)
=============================================================================
