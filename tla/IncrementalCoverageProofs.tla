--------------------- MODULE IncrementalCoverageProofs ---------------------
(***************************************************************************)
(* Incremental review covers everything, for every set of commits, every   *)
(* history of pushes, force-pushes and resets, and any number of runs.     *)
(***************************************************************************)
EXTENDS IncrementalCoverage, TLAPS

USE CoverageAssumption

\* The branch, the rows and the runs keep their types in every step, only
\* pushed commits have rows, and a run at work has a head (pipeline.ts:88-117).
THEOREM TypeCorrect == Spec => []TypeOK
<1>1. Init => TypeOK
  BY DEF Init, TypeOK
<1>2. TypeOK /\ [Next]_vars => TypeOK'
  <2> SUFFICES ASSUME TypeOK, [Next]_vars PROVE TypeOK'
    OBVIOUS
  <2> USE DEF TypeOK, Results
  <2>1. ASSUME NEW c \in Commits, NEW onto \in Commits \cup {Base}, Push(c, onto)
        PROVE  TypeOK'
    BY <2>1 DEF Push, Reach, runVars
  <2>2. ASSUME NEW c \in Commits, Reset(c) PROVE TypeOK'
    BY <2>2 DEF Reset, runVars
  <2>3. ASSUME NEW r \in Runs, NEW force \in BOOLEAN, Start(r, force) PROVE TypeOK'
    BY <2>3 DEF Start
  <2>4. ASSUME NEW r \in Runs, Prepare(r) PROVE TypeOK'
    BY <2>4 DEF Prepare, LastReviewed, Reviewed
  <2>5. ASSUME NEW r \in Runs, NEW res \in Results, Record(r, res) PROVE TypeOK'
    BY <2>5 DEF Record, End, Range
  <2>6. ASSUME NEW r \in Runs, Throw(r) PROVE TypeOK'
    BY <2>6 DEF Throw, End
  <2>7. CASE UNCHANGED vars
    BY <2>7 DEF vars, runVars
  <2> QED
    BY <2>1, <2>2, <2>3, <2>4, <2>5, <2>6, <2>7 DEF Next
<1> QED
  BY <1>1, <1>2, PTL DEF Spec

-----------------------------------------------------------------------------
\* The two facts hold each other up: a covered head's range is examined because
\* its baseline was, and a baseline is examined because it was a covered head.
Sound == CoverageComplete /\ BaselinesExamined

\* No push, run or record makes a baseline or a covered head unexamined
\* (sqlite-store.ts:102-163).
LEMMA SoundStep ==
  ASSUME TypeOK, Sound, [Next]_vars PROVE Sound'
<1> USE DEF TypeOK, Results, Sound, CoverageComplete, BaselinesExamined, Reviewed, Reach
<1>1. ASSUME NEW c \in Commits, NEW onto \in Commits \cup {Base}, Push(c, onto)
      PROVE  Sound'
  BY <1>1 DEF Push, runVars
<1>2. ASSUME NEW c \in Commits, Reset(c) PROVE Sound'
  BY <1>2 DEF Reset, runVars
<1>3. ASSUME NEW r \in Runs, NEW force \in BOOLEAN, Start(r, force) PROVE Sound'
  BY <1>3 DEF Start
<1>4. ASSUME NEW r \in Runs, Prepare(r) PROVE Sound'
  BY <1>4 DEF Prepare, LastReviewed
<1>5. ASSUME NEW r \in Runs, NEW res \in Results, Record(r, res) PROVE Sound'
  BY <1>5 DEF Record, End, Range
<1>6. ASSUME NEW r \in Runs, Throw(r) PROVE Sound'
  BY <1>6 DEF Throw, End
<1>7. CASE UNCHANGED vars
  BY <1>7 DEF vars, runVars
<1> QED
  BY <1>1, <1>2, <1>3, <1>4, <1>5, <1>6, <1>7 DEF Next

\* Baselines and covered heads stand on examined commits in every reachable state.
LEMMA SoundInvariant == Spec => []Sound
<1>1. Init => Sound
  BY DEF Init, Sound, CoverageComplete, BaselinesExamined, Reviewed, Reach
<1>2. TypeOK /\ Sound /\ [Next]_vars => Sound'
  BY SoundStep
<1> QED
  BY <1>1, <1>2, TypeCorrect, PTL DEF Spec

\* Every commit of a head recorded as covered was examined by some run
\* (sqlite-store.ts:140-153).
THEOREM CoverageIsComplete == Spec => []CoverageComplete
  BY SoundInvariant, PTL DEF Sound

\* A run never diffs from a head below which something is unexamined
\* (workspace.ts:22-42, sqlite-store.ts:140-163).
THEOREM BaselinesAreExamined == Spec => []BaselinesExamined
  BY SoundInvariant, PTL DEF Sound
=============================================================================
