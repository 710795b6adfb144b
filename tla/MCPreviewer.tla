---------------------------- MODULE MCPreviewer ----------------------------
(***************************************************************************)
(* Previewer for TLC: drain loops, lease ids and claim ids are             *)
(* interchangeable in the safety run; heads are not (created orders them). *)
(***************************************************************************)
EXTENDS Previewer, TLC

Symmetry == Permutations(Workers) \cup Permutations(Leases) \cup Permutations(Claims)

\* Before anything happens nothing tells the heads apart: the PR is opened with
\* one of them, and the other comes with a push.
LiveInit == Init /\ prHead = CHOOSE h \in Heads : TRUE
LiveSpec == LiveInit /\ [][Next]_vars /\ Fairness
=============================================================================
