----------------------- MODULE MCIncrementalCoverage -----------------------
(***************************************************************************)
(* IncrementalCoverage for TLC: commits and runs are interchangeable.      *)
(***************************************************************************)
EXTENDS IncrementalCoverage, TLC

Symmetry == Permutations(Commits) \cup Permutations(Runs)
=============================================================================
