-------------------------- MODULE RepositoryProofs --------------------------
(***************************************************************************)
(* Theorems about the clones on disk (Checkout) and the context pack that  *)
(* onboarding keeps in one (Onboarding), for any number of reviews, any    *)
(* history, and any rules, answers and number of onboardings.              *)
(***************************************************************************)
EXTENDS Checkout, Onboarding, TLAPS

-----------------------------------------------------------------------------
(* Checkout                                                                *)

ChosenSteps == {"diff", "ready", "addWorktree", "localDiff", "localReady"}

\* A range that was chosen is sound from then on: it starts in the base's history
\* or right at what an incremental review goes on from.
Ranged ==
  \A r \in Reviews : pc[r] \in ChosenSteps =>
    /\ incremental[r] /\ from[r] # Base
         => start[r] = from[r] /\ from[r] \in History[head[r]]
    /\ start[r] \in History[head[r]] \cup {Base}
    /\ start[r] \in History[Base] \/ (incremental[r] /\ start[r] = from[r])

\* What is about to be renamed is a complete clone.
Complete == \A r \in Reviews : pc[r] = "rename" => clone[r] = "repo"

\* Whoever works where no repository is was robbed of it.
Robbed == dir = "partial" => \A r \in Reviews : pc[r] \in GitSteps => r \in disturbed

CheckoutInv == TypeOK /\ Ranged /\ Complete /\ Robbed /\ RightRepository /\ WorktreesRemoved

-----------------------------------------------------------------------------
(* The baseline                                                            *)

LEMMA MergeBaseCommon ==
  ASSUME NEW a \in Commits, NEW b \in Commits, History[a] \cap History[b] # {}
  PROVE  /\ MergeBase(a, b) \in History[a] \cap History[b]
         /\ \A d \in History[a] \cap History[b] : MergeBase(a, b) \in History[d] => MergeBase(a, b) = d
<1>1. \E c \in History[a] \cap History[b] :
        \A d \in History[a] \cap History[b] : c \in History[d] => c = d
  BY CheckoutAssumption
<1> QED
  BY <1>1 DEF MergeBase

\* The best common ancestor of a commit of h's history and h is that commit.
LEMMA MergeBaseOfAncestor ==
  ASSUME NEW h \in Commits, NEW f \in Commits, f \in History[h]
  PROVE  MergeBase(f, h) = f
<1>1. f \in History[f] \cap History[h]
  BY CheckoutAssumption
<1>2. MergeBase(f, h) \in History[f] \cap History[h]
  BY <1>1, MergeBaseCommon
<1>3. \A d \in History[f] \cap History[h] : MergeBase(f, h) \in History[d] => MergeBase(f, h) = d
  BY <1>1, MergeBaseCommon
<1> QED
  BY <1>1, <1>2, <1>3

\* What ChooseBaseline chooses is a sound range of commits.
LEMMA BaselineChosen ==
  ASSUME TypeOK, NEW r \in Reviews, NEW known \in SUBSET Commits,
         head[r] \in Commits, from[r] \in Commits, ChooseBaseline(r, known)
  PROVE  /\ incremental' \in [Reviews -> BOOLEAN]
         /\ start' \in [Reviews -> Commits \cup {NoCommit}]
         /\ incremental'[r] /\ from[r] # Base => start'[r] = from[r] /\ from[r] \in History[head[r]]
         /\ start'[r] \in History[head[r]] \cup {Base}
         /\ start'[r] \in History[Base] \/ (incremental'[r] /\ start'[r] = from[r])
         /\ \A s \in Reviews \ {r} : incremental'[s] = incremental[s] /\ start'[s] = start[s]
<1>1. PICK usable \in {Usable(from[r], head[r], known), FALSE}, failed \in BOOLEAN :
        LET inc == IF Asks(r) THEN usable ELSE incremental[r]
            eff == IF inc THEN from[r] ELSE Base
        IN /\ incremental' = [incremental EXCEPT ![r] = inc]
           /\ start' = [start EXCEPT ![r] =
                IF failed \/ History[eff] \cap History[head[r]] = {}
                  THEN eff ELSE MergeBase(eff, head[r])]
  BY DEF ChooseBaseline
<1> DEFINE inc == IF Asks(r) THEN usable ELSE incremental[r]
           eff == IF inc THEN from[r] ELSE Base
           chosen == IF failed \/ History[eff] \cap History[head[r]] = {}
                       THEN eff ELSE MergeBase(eff, head[r])
<1>2. incremental' = [incremental EXCEPT ![r] = inc] /\ start' = [start EXCEPT ![r] = chosen]
  BY <1>1
<1>3. inc \in BOOLEAN /\ (inc /\ from[r] # Base => from[r] \in History[head[r]])
  BY DEF Usable, Asks, TypeOK
<1>b. Base \in Commits /\ Base \in History[Base] /\ History[Base] \subseteq Commits
  BY CheckoutAssumption
<1>4. CASE inc /\ from[r] # Base
  <2>1. chosen = from[r]
    BY <1>3, <1>4, MergeBaseOfAncestor
  <2> HIDE DEF chosen, inc
  <2> QED
    BY <1>2, <1>3, <1>4, <2>1 DEF TypeOK
<1>5. CASE ~(inc /\ from[r] # Base)
  <2>1. eff = Base
    BY <1>5
  <2>2. chosen \in (History[Base] \cap History[head[r]]) \cup {Base}
    <3> HIDE DEF eff
    <3>1. CASE failed \/ History[Base] \cap History[head[r]] = {}
      BY <2>1, <3>1
    <3>2. CASE ~(failed \/ History[Base] \cap History[head[r]] = {})
      <4>1. MergeBase(Base, head[r]) \in History[Base] \cap History[head[r]]
        BY <3>2, <1>b, MergeBaseCommon
      <4>2. chosen = MergeBase(Base, head[r])
        BY <2>1, <3>2
      <4> HIDE DEF chosen
      <4> QED
        BY <4>1, <4>2
    <3> QED
      BY <3>1, <3>2
  <2> HIDE DEF chosen, eff, inc
  <2> QED
    BY <1>2, <1>3, <1>5, <1>b, <2>2 DEF TypeOK
<1> QED
  BY <1>4, <1>5

-----------------------------------------------------------------------------
(* The steps                                                               *)

LEMMA CheckoutInitInv == Init => CheckoutInv
<1> SUFFICES ASSUME Init PROVE CheckoutInv
  OBVIOUS
<1> USE CheckoutAssumption DEF Init
<1>1. TypeOK
  BY DEF TypeOK, Steps, GitSteps, LocalSteps
<1>2. Ranged /\ Complete /\ Robbed /\ RightRepository /\ WorktreesRemoved
  BY DEF Ranged, Complete, Robbed, RightRepository, WorktreesRemoved, ChosenSteps, GitSteps
<1> QED
  BY <1>1, <1>2 DEF CheckoutInv

\* The conjuncts, as one review's step changes them
LEMMA TypeStep == TypeOK /\ Complete /\ Next => TypeOK'
<1> SUFFICES ASSUME TypeOK, Complete, NEW r \in Reviews,
                    \/ \E q \in Requests, local \in BOOLEAN : Prepare(r, q, local)
                    \/ Step(r)
                    \/ Crash(r)
             PROVE  TypeOK'
  BY DEF Next
<1> USE DEF TypeOK, Steps, GitSteps, LocalSteps
<1>s. \A c \in Commits : c # NoCommit /\ c \in History[c] /\ History[c] \subseteq Commits
  BY CheckoutAssumption
<1>n. /\ pc[r] # "idle" => head[r] \in Commits /\ from[r] \in Commits
      /\ faults \in Nat
  OBVIOUS
<1>1. CASE \E q \in Requests, local \in BOOLEAN : Prepare(r, q, local)
  <2>1. PICK q \in Requests, local \in BOOLEAN : Prepare(r, q, local)
    BY <1>1
  <2>2. q.head \in Commits /\ q.from \in Commits /\ q.incremental \in BOOLEAN
    BY CheckoutAssumption
  <2> QED
    BY <2>1, <2>2, <1>s DEF Prepare
<1>2. CASE Look(r)
  BY <1>2, <1>s, <1>n DEF Look, Goto, requestVars, Fault
<1>3. CASE RemoveBegins(r)
  BY <1>3, <1>s, <1>n DEF RemoveBegins, Goto, requestVars, Others
<1>4. CASE RemoveEnds(r)
  BY <1>4, <1>s, <1>n DEF RemoveEnds, Goto, requestVars, Others
<1>5. CASE CloneBegins(r)
  BY <1>5, <1>s, <1>n DEF CloneBegins, Goto, requestVars
<1>6. CASE CloneEnds(r)
  BY <1>6, <1>s, <1>n DEF CloneEnds, Goto, requestVars
<1>7. CASE Rename(r)
  BY <1>7, <1>s, <1>n, CheckoutAssumption DEF Rename, Goto, requestVars, Complete
<1>8. CASE Fetch(r)
  BY <1>8, <1>s, <1>n DEF Fetch, Goto, Stray, requestVars
<1>9. CASE CheckoutHead(r)
  BY <1>9, <1>s, <1>n DEF CheckoutHead, Goto, requestVars
<1>10. CASE Baseline(r)
  <2>1. PICK known \in {present, IF Asks(r) THEN present \cup History[from[r]] ELSE present} :
          /\ present' = IF dir = "repo" THEN known ELSE present
          /\ ChooseBaseline(r, IF dir = "repo" THEN known ELSE {})
    BY <1>10 DEF Baseline
  <2>2. head[r] \in Commits /\ from[r] \in Commits /\ known \in SUBSET Commits
    BY <1>10, <1>s, <1>n DEF Baseline, Goto
  <2>3. /\ incremental' \in [Reviews -> BOOLEAN]
        /\ start' \in [Reviews -> Commits \cup {NoCommit}]
    BY <2>1, <2>2, BaselineChosen
  <2> QED
    BY <1>10, <1>s, <1>n, <2>1, <2>2, <2>3 DEF Baseline, Goto, Stray
<1>11. CASE Diff(r)
  BY <1>11, <1>s, <1>n DEF Diff, Goto, requestVars
<1>12. CASE LocalBaseline(r)
  <2>1. head[r] \in Commits /\ from[r] \in Commits
    BY <1>12, <1>s, <1>n DEF LocalBaseline, Goto
  <2>2. /\ incremental' \in [Reviews -> BOOLEAN]
        /\ start' \in [Reviews -> Commits \cup {NoCommit}]
    BY <1>12, <2>1, BaselineChosen DEF LocalBaseline
  <2> QED
    BY <1>12, <1>s, <1>n, <2>1, <2>2 DEF LocalBaseline, Goto
<1>13. CASE AddWorktree(r)
  BY <1>13, <1>s, <1>n DEF AddWorktree, Goto, requestVars
<1>14. CASE LocalDiff(r)
  BY <1>14, <1>s, <1>n DEF LocalDiff, Goto, requestVars
<1>15. CASE Finish(r)
  BY <1>15, <1>s, <1>n DEF Finish, Goto, requestVars, Stop
<1>16. CASE Throw(r)
  BY <1>16, <1>s, <1>n DEF Throw, Goto, requestVars, Stop, Fault
<1>17. CASE Crash(r)
  BY <1>17, <1>s, <1>n DEF Crash, Goto, requestVars, Stop, Fault
<1> QED
  BY <1>1, <1>2, <1>3, <1>4, <1>5, <1>6, <1>7, <1>8, <1>9, <1>10, <1>11, <1>12, <1>13, <1>14, <1>15, <1>16, <1>17 DEF Step

\* A review's range is chosen once and then left alone.
LEMMA RangeStep == TypeOK /\ Ranged /\ Next => Ranged'
<1> SUFFICES ASSUME TypeOK, Ranged, NEW r \in Reviews,
                    \/ \E q \in Requests, local \in BOOLEAN : Prepare(r, q, local)
                    \/ Step(r)
                    \/ Crash(r)
             PROVE  Ranged'
  BY DEF Next
<1> USE DEF Ranged, ChosenSteps, TypeOK
<1>1. CASE \E q \in Requests, local \in BOOLEAN : Prepare(r, q, local)
  <2>1. PICK q \in Requests, local \in BOOLEAN : Prepare(r, q, local)
    BY <1>1
  <2> QED
    BY <2>1 DEF Prepare
<1>2. CASE Look(r)
  BY <1>2 DEF Look, requestVars, Fault
<1>3. CASE RemoveBegins(r)
  BY <1>3 DEF RemoveBegins, Goto, requestVars, Others
<1>4. CASE RemoveEnds(r)
  BY <1>4 DEF RemoveEnds, Goto, requestVars, Others
<1>5. CASE CloneBegins(r)
  BY <1>5 DEF CloneBegins, Goto, requestVars
<1>6. CASE CloneEnds(r)
  BY <1>6 DEF CloneEnds, Goto, requestVars
<1>7. CASE Rename(r)
  BY <1>7 DEF Rename, Goto, requestVars
<1>8. CASE Fetch(r)
  BY <1>8 DEF Fetch, Goto, Stray, requestVars
<1>9. CASE CheckoutHead(r)
  BY <1>9 DEF CheckoutHead, Goto, requestVars
<1>10. CASE Baseline(r)
  <2>1. PICK known \in {present, IF Asks(r) THEN present \cup History[from[r]] ELSE present} :
          ChooseBaseline(r, IF dir = "repo" THEN known ELSE {})
    BY <1>10 DEF Baseline
  <2>2. head[r] \in Commits /\ from[r] \in Commits
    BY <1>10 DEF Baseline, Goto, TypeOK
  <2>3. History[from[r]] \subseteq Commits
    BY <2>2, CheckoutAssumption
  <2>4. known \in SUBSET Commits
    BY <2>1, <2>3 DEF TypeOK
  <2>5. /\ incremental'[r] /\ from[r] # Base => start'[r] = from[r] /\ from[r] \in History[head[r]]
        /\ start'[r] \in History[head[r]] \cup {Base}
        /\ start'[r] \in History[Base] \/ (incremental'[r] /\ start'[r] = from[r])
        /\ \A s \in Reviews \ {r} : incremental'[s] = incremental[s] /\ start'[s] = start[s]
    BY <2>1, <2>2, <2>4, BaselineChosen
  <2> QED
    BY <1>10, <2>5 DEF Baseline, Goto, TypeOK
<1>11. CASE Diff(r)
  BY <1>11 DEF Diff, Goto, requestVars
<1>12. CASE LocalBaseline(r)
  <2>1. head[r] \in Commits /\ from[r] \in Commits
    BY <1>12 DEF LocalBaseline, Goto, TypeOK
  <2>2. /\ incremental'[r] /\ from[r] # Base => start'[r] = from[r] /\ from[r] \in History[head[r]]
        /\ start'[r] \in History[head[r]] \cup {Base}
        /\ start'[r] \in History[Base] \/ (incremental'[r] /\ start'[r] = from[r])
        /\ \A s \in Reviews \ {r} : incremental'[s] = incremental[s] /\ start'[s] = start[s]
    BY <1>12, <2>1, BaselineChosen DEF LocalBaseline
  <2> QED
    BY <1>12, <2>2 DEF LocalBaseline, Goto, TypeOK
<1>13. CASE AddWorktree(r)
  BY <1>13 DEF AddWorktree, Goto, requestVars
<1>14. CASE LocalDiff(r)
  BY <1>14 DEF LocalDiff, Goto, requestVars
<1>15. CASE Finish(r)
  BY <1>15 DEF Finish, requestVars, Stop
<1>16. CASE Throw(r)
  BY <1>16 DEF Throw, requestVars, Stop, Fault
<1>17. CASE Crash(r)
  BY <1>17 DEF Crash, requestVars, Stop, Fault
<1> QED
  BY <1>1, <1>2, <1>3, <1>4, <1>5, <1>6, <1>7, <1>8, <1>9, <1>10, <1>11, <1>12, <1>13, <1>14, <1>15, <1>16, <1>17 DEF Step

\* A clone stays complete until it is renamed.
LEMMA CloneStep == TypeOK /\ Complete /\ Next => Complete'
<1> SUFFICES ASSUME TypeOK, Complete, NEW r \in Reviews,
                    \/ \E q \in Requests, local \in BOOLEAN : Prepare(r, q, local)
                    \/ Step(r)
                    \/ Crash(r)
             PROVE  Complete'
  BY DEF Next
<1> USE DEF Complete, TypeOK
<1>1. CASE \E q \in Requests, local \in BOOLEAN : Prepare(r, q, local)
  <2>1. PICK q \in Requests, local \in BOOLEAN : Prepare(r, q, local)
    BY <1>1
  <2> QED
    BY <2>1 DEF Prepare
<1>2. CASE Look(r)
  BY <1>2 DEF Look, requestVars, Fault
<1>3. CASE RemoveBegins(r)
  BY <1>3 DEF RemoveBegins, Goto, requestVars, Others
<1>4. CASE RemoveEnds(r)
  BY <1>4 DEF RemoveEnds, Goto, requestVars, Others
<1>5. CASE CloneBegins(r)
  BY <1>5 DEF CloneBegins, Goto, requestVars
<1>6. CASE CloneEnds(r)
  BY <1>6 DEF CloneEnds, Goto, requestVars
<1>7. CASE Rename(r)
  BY <1>7 DEF Rename, Goto, requestVars
<1>8. CASE Fetch(r)
  BY <1>8 DEF Fetch, Goto, Stray, requestVars
<1>9. CASE CheckoutHead(r)
  BY <1>9 DEF CheckoutHead, Goto, requestVars
<1>10. CASE Baseline(r)
  BY <1>10 DEF Baseline, Goto, requestVars, Stray
<1>11. CASE Diff(r)
  BY <1>11 DEF Diff, Goto, requestVars
<1>12. CASE LocalBaseline(r)
  BY <1>12 DEF LocalBaseline, Goto, requestVars
<1>13. CASE AddWorktree(r)
  BY <1>13 DEF AddWorktree, Goto, requestVars
<1>14. CASE LocalDiff(r)
  BY <1>14 DEF LocalDiff, Goto, requestVars
<1>15. CASE Finish(r)
  BY <1>15 DEF Finish, requestVars, Stop
<1>16. CASE Throw(r)
  BY <1>16 DEF Throw, requestVars, Stop, Fault
<1>17. CASE Crash(r)
  BY <1>17 DEF Crash, requestVars, Stop, Fault
<1> QED
  BY <1>1, <1>2, <1>3, <1>4, <1>5, <1>6, <1>7, <1>8, <1>9, <1>10, <1>11, <1>12, <1>13, <1>14, <1>15, <1>16, <1>17 DEF Step

\* Whoever removes a directory disturbs every review that works in it.
LEMMA StrayStep == TypeOK /\ Complete /\ Robbed /\ RightRepository /\ Next => (Robbed /\ RightRepository)'
<1> SUFFICES ASSUME TypeOK, Complete, Robbed, RightRepository, NEW r \in Reviews,
                    \/ \E q \in Requests, local \in BOOLEAN : Prepare(r, q, local)
                    \/ Step(r)
                    \/ Crash(r)
             PROVE  (Robbed /\ RightRepository)'
  BY DEF Next
<1> USE DEF Robbed, RightRepository, Complete, TypeOK, GitSteps, LocalSteps
<1>1. CASE \E q \in Requests, local \in BOOLEAN : Prepare(r, q, local)
  <2>1. PICK q \in Requests, local \in BOOLEAN : Prepare(r, q, local)
    BY <1>1
  <2> QED
    BY <2>1 DEF Prepare
<1>2. CASE Look(r)
  BY <1>2 DEF Look, requestVars, Fault
<1>3. CASE RemoveBegins(r)
  BY <1>3 DEF RemoveBegins, Goto, requestVars, Others
<1>4. CASE RemoveEnds(r)
  BY <1>4 DEF RemoveEnds, Goto, requestVars, Others
<1>5. CASE CloneBegins(r)
  BY <1>5 DEF CloneBegins, Goto, requestVars
<1>6. CASE CloneEnds(r)
  BY <1>6 DEF CloneEnds, Goto, requestVars
<1>7. CASE Rename(r)
  BY <1>7 DEF Rename, Goto, requestVars
<1>8. CASE Fetch(r)
  BY <1>8 DEF Fetch, Goto, Stray, requestVars
<1>9. CASE CheckoutHead(r)
  BY <1>9 DEF CheckoutHead, Goto, requestVars
<1>10. CASE Baseline(r)
  BY <1>10 DEF Baseline, Goto, requestVars, Stray
<1>11. CASE Diff(r)
  BY <1>11 DEF Diff, Goto, requestVars
<1>12. CASE LocalBaseline(r)
  BY <1>12 DEF LocalBaseline, Goto, requestVars
<1>13. CASE AddWorktree(r)
  BY <1>13 DEF AddWorktree, Goto, requestVars
<1>14. CASE LocalDiff(r)
  BY <1>14 DEF LocalDiff, Goto, requestVars
<1>15. CASE Finish(r)
  BY <1>15 DEF Finish, requestVars, Stop
<1>16. CASE Throw(r)
  BY <1>16 DEF Throw, requestVars, Stop, Fault
<1>17. CASE Crash(r)
  BY <1>17 DEF Crash, requestVars, Stop, Fault
<1> QED
  BY <1>1, <1>2, <1>3, <1>4, <1>5, <1>6, <1>7, <1>8, <1>9, <1>10, <1>11, <1>12, <1>13, <1>14, <1>15, <1>16, <1>17 DEF Step

\* A worktree is removed with the end of its review, or it is leaked.
LEMMA WorktreeStep == TypeOK /\ WorktreesRemoved /\ Next => WorktreesRemoved'
<1> SUFFICES ASSUME TypeOK, WorktreesRemoved, NEW r \in Reviews,
                    \/ \E q \in Requests, local \in BOOLEAN : Prepare(r, q, local)
                    \/ Step(r)
                    \/ Crash(r)
             PROVE  WorktreesRemoved'
  BY DEF Next
<1> USE DEF WorktreesRemoved, TypeOK
<1>1. CASE \E q \in Requests, local \in BOOLEAN : Prepare(r, q, local)
  <2>1. PICK q \in Requests, local \in BOOLEAN : Prepare(r, q, local)
    BY <1>1
  <2> QED
    BY <2>1 DEF Prepare
<1>2. CASE Look(r)
  BY <1>2 DEF Look, requestVars, Fault
<1>3. CASE RemoveBegins(r)
  BY <1>3 DEF RemoveBegins, Goto, requestVars, Others
<1>4. CASE RemoveEnds(r)
  BY <1>4 DEF RemoveEnds, Goto, requestVars, Others
<1>5. CASE CloneBegins(r)
  BY <1>5 DEF CloneBegins, Goto, requestVars
<1>6. CASE CloneEnds(r)
  BY <1>6 DEF CloneEnds, Goto, requestVars
<1>7. CASE Rename(r)
  BY <1>7 DEF Rename, Goto, requestVars
<1>8. CASE Fetch(r)
  BY <1>8 DEF Fetch, Goto, Stray, requestVars
<1>9. CASE CheckoutHead(r)
  BY <1>9 DEF CheckoutHead, Goto, requestVars
<1>10. CASE Baseline(r)
  BY <1>10 DEF Baseline, Goto, requestVars, Stray
<1>11. CASE Diff(r)
  BY <1>11 DEF Diff, Goto, requestVars
<1>12. CASE LocalBaseline(r)
  BY <1>12 DEF LocalBaseline, Goto, requestVars
<1>13. CASE AddWorktree(r)
  BY <1>13 DEF AddWorktree, Goto, requestVars
<1>14. CASE LocalDiff(r)
  BY <1>14 DEF LocalDiff, Goto, requestVars
<1>15. CASE Finish(r)
  BY <1>15 DEF Finish, requestVars, Stop
<1>16. CASE Throw(r)
  BY <1>16 DEF Throw, requestVars, Stop, Fault
<1>17. CASE Crash(r)
  BY <1>17 DEF Crash, requestVars, Stop, Fault
<1> QED
  BY <1>1, <1>2, <1>3, <1>4, <1>5, <1>6, <1>7, <1>8, <1>9, <1>10, <1>11, <1>12, <1>13, <1>14, <1>15, <1>16, <1>17 DEF Step

LEMMA CheckoutStepInv == CheckoutInv /\ [Next]_vars => CheckoutInv'
<1> SUFFICES ASSUME CheckoutInv, [Next]_vars PROVE CheckoutInv'
  OBVIOUS
<1>1. CASE Next
  BY <1>1, TypeStep, RangeStep, CloneStep, StrayStep, WorktreeStep DEF CheckoutInv
<1>2. CASE UNCHANGED vars
  BY <1>2 DEF vars, requestVars, CheckoutInv, TypeOK, Ranged, Complete, Robbed, RightRepository,
     WorktreesRemoved
<1> QED
  BY <1>1, <1>2

LEMMA CheckoutInvariant == Spec => []CheckoutInv
  BY CheckoutInitInv, CheckoutStepInv, PTL DEF Spec

-----------------------------------------------------------------------------
(* The theorems                                                            *)

\* Every reachable state is well typed; in particular the cache directory is a
\* repository exactly when it has commits (git.ts:110-145).
THEOREM CheckoutTyped == Spec => []TypeOK
<1>1. CheckoutInv => TypeOK
  BY DEF CheckoutInv
<1> QED
  BY <1>1, CheckoutInvariant, PTL

\* git runs outside the review's own repository only for a review whose directory
\* another one removed, for any number of reviews (git.ts:94-108).
THEOREM RepositoryRight == Spec => []RightRepository
<1>1. CheckoutInv => RightRepository
  BY DEF CheckoutInv
<1> QED
  BY <1>1, CheckoutInvariant, PTL

\* The range of every review is sound, for any history without cycles
\* (workspace.ts:22-42, git.ts:198-209).
THEOREM RangesSound == Spec => []RangeSound
<1>1. CheckoutInv => RangeSound
  <2>1. Base \in Commits /\ \A c \in History[Base] : History[c] \subseteq History[Base]
    BY CheckoutAssumption
  <2> QED
    BY <2>1 DEF CheckoutInv, Ranged, ChosenSteps, RangeSound
<1> QED
  BY <1>1, CheckoutInvariant, PTL

\* The operator's clone is left with no worktree but those of reviews that failed
\* or died over theirs (workspace.ts:70-82).
THEOREM WorktreesAreRemoved == Spec => []WorktreesRemoved
<1>1. CheckoutInv => WorktreesRemoved
  BY DEF CheckoutInv
<1> QED
  BY <1>1, CheckoutInvariant, PTL

\* The cache directory appears as a complete repository or not at all
\* (git.ts:110-127).
THEOREM DirectoryAppearsWhole == Spec => AppearsWhole
<1>1. CheckoutInv /\ [Next]_vars => [dir = "absent" => dir' \in {"absent", "repo"}]_vars
  <2> SUFFICES ASSUME CheckoutInv, Next, dir = "absent" PROVE dir' \in {"absent", "repo"}
    OBVIOUS
  <2>1. PICK r \in Reviews :
          \/ \E q \in Requests, local \in BOOLEAN : Prepare(r, q, local)
          \/ Step(r)
          \/ Crash(r)
    BY DEF Next
  <2>2. CASE Rename(r)
    BY <2>2 DEF CheckoutInv, Complete, Rename, Goto
  <2>3. CASE RemoveBegins(r) \/ RemoveEnds(r)
    BY <2>3 DEF RemoveBegins, RemoveEnds
  <2>4. CASE UNCHANGED dir
    BY <2>4
  <2> QED
    BY <2>1, <2>2, <2>3, <2>4
       DEF Step, Prepare, Look, CloneBegins, CloneEnds, Fetch, CheckoutHead, Baseline, Diff,
           LocalBaseline, AddWorktree, LocalDiff, Finish, Throw, Crash
<1> QED
  BY <1>1, CheckoutInvariant, PTL DEF Spec, AppearsWhole

-----------------------------------------------------------------------------
(* Onboarding                                                              *)

\* The steps in which files are written, and what is in place at each.
Writing == at \in PackFiles

Shape ==
  /\ disk = [f \in PackFiles |-> disk[f]]
  /\ disk.mandatory \in Parts /\ disk.profiles \in Parts
  /\ Writing => /\ SecurityBaseline \in draft.mandatory /\ SecurityBaseline \in draft.profiles
                /\ draft.mandatory \subseteq draft.profiles
                /\ draft.mandatory \in Parts /\ draft.profiles \in Parts
                /\ draft.mandatory # Absent /\ draft.profiles # Absent

\* Every file has the baseline.
Based ==
  /\ disk.mandatory # Absent => SecurityBaseline \in disk.mandatory
  /\ disk.profiles # Absent => SecurityBaseline \in disk.profiles

\* Every rule that is confirmed, or is about to be, was approved.
Approved ==
  /\ IdsOf(Confirmed(disk.rules)) \subseteq asked
  /\ IdsOf(Confirmed(previous.rules)) \subseteq asked
  /\ Writing => IdsOf(Confirmed(draft.rules)) \subseteq asked

\* A clone is partial only while it is made, or after that was cut short.
Cloned ==
  /\ clones = "partial" => at = "cloning" \/ interrupted
  /\ OwnClone

-----------------------------------------------------------------------------

LEMMA OwnCloneStep == Cloned /\ [OnboardingNext]_onboardingVars => Cloned'
<1> SUFFICES ASSUME Cloned, [OnboardingNext]_onboardingVars PROVE Cloned'
  OBVIOUS
<1> USE DEF Cloned, OwnClone
<1>1. CASE \E local, confirm, persist \in BOOLEAN : Onboard(local, confirm, persist)
  BY <1>1 DEF Onboard, packHistory
<1>2. CASE MakeDirectory
  BY <1>2 DEF MakeDirectory, packHistory
<1>3. CASE CloneDone
  BY <1>3 DEF CloneDone, packHistory
<1>4. CASE Refresh
  BY <1>4 DEF Refresh
<1>5. CASE LoadPrevious
  BY <1>5 DEF LoadPrevious
<1>6. CASE \E m, ps \in Parts : \/ \E proposed \in Proposals : Generate(m, ps, proposed)
                                \/ \E own \in Committed : Ingest(m, ps, own)
  BY <1>6 DEF Generate, Ingest, Draft
<1>7. CASE DryRun
  BY <1>7 DEF DryRun, End, packHistory
<1>8. CASE PutPack
  BY <1>8 DEF PutPack, Put, PutManifest, End, packHistory
<1>9. CASE Killed
  BY <1>9 DEF Killed, End
<1>10. CASE \E r \in Else(disk.rules, {}), verdict \in {"confirmed", "rejected"} : Judge(r, verdict)
  BY <1>10 DEF Judge
<1>11. CASE UNCHANGED onboardingVars
  BY <1>11 DEF onboardingVars, packHistory
<1> QED
  BY <1>1, <1>2, <1>3, <1>4, <1>5, <1>6, <1>7, <1>8, <1>9, <1>10, <1>11 DEF OnboardingNext

\* Onboarding's git works in its own clone until a clone was cut short, for any
\* number of onboardings (git.ts:147-163).
THEOREM OwnClones == OnboardingSpec => []OwnClone
<1>1. OnboardingInit => Cloned
  BY DEF OnboardingInit, Cloned, OwnClone
<1>2. Cloned => OwnClone
  BY DEF Cloned
<1> QED
  BY <1>1, <1>2, OwnCloneStep, PTL DEF OnboardingSpec

-----------------------------------------------------------------------------

LEMMA ShapeInit == OnboardingInit => Shape /\ Based /\ Approved
<1> SUFFICES ASSUME OnboardingInit PROVE Shape /\ Based /\ Approved
  OBVIOUS
<1> USE DEF OnboardingInit, NoPack
<1>1. \A f \in PackFiles : disk[f] = Absent /\ previous[f] = Absent
  OBVIOUS
<1>2. disk.mandatory = Absent /\ disk.profiles = Absent /\ disk.rules = Absent
      /\ previous.rules = Absent
  BY <1>1 DEF PackFiles
<1>3. ~Writing
  BY DEF Writing, PackFiles
<1> QED
  BY <1>2, <1>3 DEF Shape, Based, Approved, Parts, Confirmed, Else, IdsOf

\* Reconcile makes routing refer to defined profiles only, the baseline with them.
LEMMA Reconciled ==
  ASSUME NEW m, NEW ps
  PROVE  /\ SecurityBaseline \in Reconcile(m, ps)
         /\ SecurityBaseline \in ReconciledProfiles(ps)
         /\ Reconcile(m, ps) \subseteq ReconciledProfiles(ps)
  BY DEF Reconcile, ReconciledProfiles

\* Every pack that is drafted is whole and has the baseline.
LEMMA DraftShape ==
  ASSUME NEW m \in Parts, NEW ps \in Parts, NEW rules, Draft(m, ps, rules),
         previous.profiles \in Parts
  PROVE  /\ draft'.mandatory \subseteq draft'.profiles
         /\ SecurityBaseline \in draft'.mandatory /\ SecurityBaseline \in draft'.profiles
         /\ draft'.mandatory \in Profiled /\ draft'.profiles \in Profiled
         /\ draft'.rules = rules
         /\ at' = "mandatory"
         /\ UNCHANGED <<disk, previous>>
<1> DEFINE profiles == Else(ps, Else(previous.profiles, {}))
           listed == Else(m, Else(previous.mandatory, {}))
<1>1. /\ draft' = [mandatory |-> Reconcile(listed, profiles),
                   profiles |-> ReconciledProfiles(profiles), rules |-> rules, manifest |-> {}]
      /\ at' = "mandatory" /\ UNCHANGED <<disk, previous>>
  BY DEF Draft
<1>2. profiles \in Profiled
  BY DEF Else, Parts, Profiled
<1>3. ReconciledProfiles(profiles) \in Profiled /\ Reconcile(listed, profiles) \in Profiled
  BY <1>2, OnboardingAssumption DEF ReconciledProfiles, Reconcile, Profiled
<1> HIDE DEF profiles, listed
<1> QED
  BY <1>1, <1>3, Reconciled

\* The shape of what is on disk, drafted and found
PackInv ==
  /\ Shape /\ Based
  /\ previous.profiles \in Parts

LEMMA PackStep == PackInv /\ [OnboardingNext]_onboardingVars => PackInv'
<1> SUFFICES ASSUME PackInv, [OnboardingNext]_onboardingVars PROVE PackInv'
  OBVIOUS
<1> USE OnboardingAssumption DEF PackInv
<1>a. Absent \in Parts /\ Absent \notin Profiled /\ Profiled \subseteq Parts
  BY DEF Parts, Profiled
<1>b. NoPack.profiles = Absent
  BY DEF NoPack, PackFiles
<1>1. CASE \E local, confirm, persist \in BOOLEAN : Onboard(local, confirm, persist)
  BY <1>1 DEF Onboard, Shape, Based, Writing, PackFiles
<1>2. CASE MakeDirectory \/ CloneDone
  BY <1>2 DEF MakeDirectory, CloneDone, Shape, Based, Writing, PackFiles
<1>3. CASE Refresh
  BY <1>3 DEF Refresh, Shape, Based, Writing, PackFiles
<1>4. CASE LoadPrevious
  BY <1>4, <1>a, <1>b DEF LoadPrevious, Shape, Based, Writing, PackFiles
<1>5. CASE \E m, ps \in Parts : \/ \E proposed \in Proposals : Generate(m, ps, proposed)
                                \/ \E own \in Committed : Ingest(m, ps, own)
  <2>1. PICK m \in Parts, ps \in Parts : \E rules : Draft(m, ps, rules)
    BY <1>5 DEF Generate, Ingest
  <2>2. PICK rules : Draft(m, ps, rules)
    BY <2>1
  <2> QED
    BY <1>a, <2>2, DraftShape DEF Shape, Based, Writing, PackFiles
<1>6. CASE DryRun
  BY <1>6, <1>a, <1>b DEF DryRun, End, Shape, Based, Writing, PackFiles
<1>7. CASE PutPack
  <2>1. \E f \in PackFiles : /\ at = f /\ disk' = [disk EXCEPT ![f] = draft[f]]
                             /\ \/ UNCHANGED <<draft, previous>>
                                \/ at' = "idle" /\ previous' = NoPack
    BY <1>7 DEF PutPack, Put, PutManifest, End, PackFiles
  <2>2. PICK f \in PackFiles : /\ at = f /\ disk' = [disk EXCEPT ![f] = draft[f]]
                               /\ \/ UNCHANGED <<draft, previous>>
                                  \/ at' = "idle" /\ previous' = NoPack
    BY <2>1
  <2>3. /\ disk' = [g \in PackFiles |-> disk'[g]]
        /\ disk'.mandatory = IF f = "mandatory" THEN draft.mandatory ELSE disk.mandatory
        /\ disk'.profiles = IF f = "profiles" THEN draft.profiles ELSE disk.profiles
    BY <2>2 DEF Shape, PackFiles
  <2>4. Writing
    BY <2>2 DEF Writing
  <2> QED
    BY <1>a, <1>b, <2>2, <2>3, <2>4 DEF Shape, Based, Writing, PackFiles
<1>8. CASE Killed
  <2>1. /\ at' = "idle" /\ previous' = NoPack
        /\ \/ disk' = disk
           \/ \E f \in PackFiles : disk' = [disk EXCEPT ![f] = Absent]
    BY <1>8 DEF Killed, End
  <2>2. /\ disk' = [g \in PackFiles |-> disk'[g]]
        /\ disk'.mandatory \in {disk.mandatory, Absent}
        /\ disk'.profiles \in {disk.profiles, Absent}
    BY <2>1 DEF Shape, PackFiles
  <2> QED
    BY <1>a, <1>b, <2>1, <2>2 DEF Shape, Based, Writing, PackFiles
<1>9. CASE \E r \in Else(disk.rules, {}), verdict \in {"confirmed", "rejected"} : Judge(r, verdict)
  <2>1. /\ disk' = [g \in PackFiles |-> disk'[g]]
        /\ disk'.mandatory = disk.mandatory /\ disk'.profiles = disk.profiles
    BY <1>9 DEF Judge, Shape, PackFiles
  <2> QED
    BY <1>9, <2>1 DEF Judge, Shape, Based, Writing, PackFiles
<1>10. CASE UNCHANGED onboardingVars
  BY <1>10 DEF onboardingVars, Shape, Based, Writing
<1> QED
  BY <1>1, <1>2, <1>3, <1>4, <1>5, <1>6, <1>7, <1>8, <1>9, <1>10 DEF OnboardingNext

LEMMA PackInit == OnboardingInit => PackInv
<1>1. OnboardingInit => previous.profiles \in Parts
  BY DEF OnboardingInit, NoPack, PackFiles, Parts
<1> QED
  BY <1>1, ShapeInit DEF PackInv

\* Every pack a reviewer can load has the security baseline, whatever a model
\* answers and wherever a write was cut short (onboarding.ts:446-476).
THEOREM BaselineIsAlways == OnboardingSpec => []BaselineAlways
<1>1. PackInv => BaselineAlways
  <2> SUFFICES ASSUME PackInv, NEW p \in UsedPacks
               PROVE  SecurityBaseline \in p.mandatory /\ SecurityBaseline \in p.profiles
    BY DEF BaselineAlways
  <2>1. p.mandatory # Absent /\ p.profiles # Absent
    BY DEF UsedPacks, Loads, PackFiles
  <2>2. PICK new \in IF at \in PackFiles THEN SUBSET PackFiles ELSE {{}} :
          p = [f \in PackFiles |-> IF f \in new THEN draft[f] ELSE disk[f]]
    BY DEF UsedPacks, Readable
  <2>3. /\ p.mandatory = IF "mandatory" \in new THEN draft.mandatory ELSE disk.mandatory
        /\ p.profiles = IF "profiles" \in new THEN draft.profiles ELSE disk.profiles
        /\ new # {} => Writing
    BY <2>2 DEF PackFiles, Writing
  <2> QED
    BY <2>1, <2>3 DEF PackInv, Shape, Based
<1> QED
  BY <1>1, PackInit, PackStep, PTL DEF OnboardingSpec

-----------------------------------------------------------------------------
(* Rules                                                                   *)

RuleParts == (SUBSET Rules) \cup {Absent}

\* Merging keeps what was confirmed, and confirms nothing else by itself.
LEMMA MergeConfirmed ==
  ASSUME NEW proposed \in Proposals, NEW before \in RuleParts, NEW confirm \in BOOLEAN
  PROVE  /\ MergeRules(proposed, before, confirm) \in SUBSET Rules
         /\ IdsOf(Confirmed(before)) \subseteq IdsOf(Confirmed(MergeRules(proposed, before, confirm)))
         /\ ~confirm => IdsOf(Confirmed(MergeRules(proposed, before, confirm)))
                          \subseteq IdsOf(Confirmed(before))
         /\ IdsOf(Confirmed(MergeRules(proposed, before, confirm)))
              \subseteq IdsOf(MergeRules(proposed, before, confirm))
<1> DEFINE merged == MergeRules(proposed, before, confirm)
           kept == Confirmed(before)
           status(id) == IF id \in IdsOf(kept) \/ confirm THEN "confirmed" ELSE "needs_confirmation"
<1>1. kept \subseteq Rules /\ \A r \in kept : r.status = "confirmed"
  BY OnboardingAssumption DEF Confirmed, Else, RuleParts
<1>2. \A r \in proposed : r[1] \in RuleIds /\ r[2] \in Texts
  BY OnboardingAssumption
<1>3. merged = {[id |-> r[1], text |-> r[2], status |-> status(r[1])] : r \in proposed}
               \cup {r \in kept : \A s \in proposed : s[1] # r.id}
  BY DEF MergeRules
<1>4. \A id : status(id) \in Statuses
  BY DEF Statuses
<1> HIDE DEF kept, status
<1>5. merged \in SUBSET Rules
  <2> SUFFICES ASSUME NEW q \in merged PROVE q \in Rules
    OBVIOUS
  <2>1. CASE \E r \in proposed : q = [id |-> r[1], text |-> r[2], status |-> status(r[1])]
    BY <1>2, <1>4, <2>1 DEF Rules
  <2>2. CASE q \in kept
    BY <1>1, <2>2
  <2> QED
    BY <1>3, <2>1, <2>2
<1>6. Confirmed(merged) = {r \in merged : r.status = "confirmed"}
  BY <1>5, OnboardingAssumption DEF Confirmed, Else
<1>7. IdsOf(kept) \subseteq IdsOf(Confirmed(merged))
  <2> SUFFICES ASSUME NEW k \in kept PROVE \E q \in Confirmed(merged) : q.id = k.id
    BY DEF IdsOf
  <2>1. CASE \A s \in proposed : s[1] # k.id
    BY <1>1, <1>3, <1>6, <2>1
  <2>2. CASE \E s \in proposed : s[1] = k.id
    <3>1. PICK s \in proposed : s[1] = k.id
      BY <2>2
    <3>2. status(s[1]) = "confirmed"
      BY <3>1 DEF status, IdsOf
    <3>3. [id |-> s[1], text |-> s[2], status |-> "confirmed"] \in merged
      BY <1>3, <3>2
    <3> QED
      BY <1>6, <3>1, <3>3
  <2> QED
    BY <2>1, <2>2
<1>8. ASSUME ~confirm, NEW q \in Confirmed(merged) PROVE q.id \in IdsOf(kept)
  <2>1. q \in merged /\ q.status = "confirmed"
    BY <1>6, <1>8
  <2>2. CASE q \in kept
    BY <2>2 DEF IdsOf
  <2>3. CASE \E r \in proposed : q = [id |-> r[1], text |-> r[2], status |-> status(r[1])]
    <3>1. PICK r \in proposed : q = [id |-> r[1], text |-> r[2], status |-> status(r[1])]
      BY <2>3
    <3>2. status(r[1]) = "confirmed" /\ q.id = r[1]
      BY <2>1, <3>1
    <3> QED
      BY <1>8, <3>2 DEF status
  <2> QED
    BY <1>3, <2>1, <2>2, <2>3
<1>9. IdsOf(Confirmed(merged)) \subseteq IdsOf(merged)
  BY <1>6 DEF IdsOf
<1>10. ~confirm => IdsOf(Confirmed(merged)) \subseteq IdsOf(kept)
  BY <1>8 DEF IdsOf
<1> QED
  BY <1>5, <1>7, <1>9, <1>10 DEF kept

\* Rules of the repository's own stay rules.
LEMMA IngestType ==
  ASSUME NEW own \in Committed, NEW confirm \in BOOLEAN
  PROVE  IngestRules(own, confirm) \in SUBSET Rules
<1>1. own \in SUBSET Rules
  BY OnboardingAssumption
<1> QED
  BY <1>1 DEF IngestRules, Rules, Statuses

\* A judgement moves one rule in or out of what is confirmed.
LEMMA JudgedMoves ==
  ASSUME NEW rules \in SUBSET Rules, NEW r \in rules, NEW verdict \in {"confirmed", "rejected"},
         r.status # verdict
  PROVE  /\ Judged(rules, r, verdict) \in SUBSET Rules
         /\ verdict = "confirmed" => IdsOf(Confirmed(Judged(rules, r, verdict))) = IdsOf(Confirmed(rules)) \cup {r.id}
         /\ verdict = "rejected" => /\ IdsOf(Confirmed(Judged(rules, r, verdict))) \subseteq IdsOf(Confirmed(rules))
                                    /\ IdsOf(Confirmed(rules)) \ {r.id} \subseteq IdsOf(Confirmed(Judged(rules, r, verdict)))
<1> DEFINE new == [r EXCEPT !.status = verdict]
           judged == Judged(rules, r, verdict)
<1>1. new \in Rules /\ new.id = r.id /\ new.status = verdict
  BY DEF Rules, Statuses
<1>0. judged = (rules \ {r}) \cup {new}
  BY DEF Judged
<1> HIDE DEF new, judged
<1>2. judged \in SUBSET Rules
  BY <1>0, <1>1
<1>3. /\ Confirmed(judged) = {q \in judged : q.status = "confirmed"}
      /\ Confirmed(rules) = {q \in rules : q.status = "confirmed"}
  BY <1>2, OnboardingAssumption DEF Confirmed, Else
<1>4. CASE verdict = "confirmed"
  <2>1. Confirmed(judged) = Confirmed(rules) \cup {new}
    BY <1>0, <1>1, <1>3, <1>4
  <2>2. IdsOf(Confirmed(judged)) = IdsOf(Confirmed(rules)) \cup {r.id}
    BY <1>1, <2>1 DEF IdsOf
  <2> QED
    BY <1>2, <1>4, <2>2 DEF judged
<1>5. CASE verdict = "rejected"
  <2>1. Confirmed(judged) = Confirmed(rules) \ {r}
    BY <1>0, <1>1, <1>3, <1>5
  <2>2. /\ IdsOf(Confirmed(judged)) \subseteq IdsOf(Confirmed(rules))
        /\ IdsOf(Confirmed(rules)) \ {r.id} \subseteq IdsOf(Confirmed(judged))
    BY <2>1 DEF IdsOf
  <2> QED
    BY <1>2, <1>5, <2>2 DEF judged
<1> QED
  BY <1>4, <1>5

\* The rules on disk, found and drafted
RulesInv ==
  /\ disk = [f \in PackFiles |-> disk[f]]
  /\ disk.rules \in RuleParts /\ previous.rules \in RuleParts
  /\ options.confirm \in BOOLEAN
  /\ Writing => draft.rules \in SUBSET Rules
  /\ Approved

\* While nothing was torn: the disk has no pack or a whole one, and in between the
\* files before the one that is written are the draft's.
InPlace ==
  /\ ~Writing => disk = NoPack \/ Loads(disk)
  /\ Writing => /\ draft.manifest = {}
                /\ at # "mandatory" => disk.mandatory = draft.mandatory
                /\ at \in {"rules", "manifest"} => disk.profiles = draft.profiles
                /\ at = "manifest" => disk.rules = draft.rules

\* What a person approved is kept on disk, found and drafted.
Keeps ==
  /\ approved \subseteq IdsOf(Confirmed(disk.rules))
  /\ at = "generating" => approved \subseteq IdsOf(Confirmed(previous.rules))
  /\ Writing => approved \subseteq IdsOf(Confirmed(draft.rules))

KeptInv ==
  /\ ~torn => InPlace
  /\ unread => torn
  /\ ~torn /\ ~replaced => Keeps

LEMMA NoRules ==
  /\ NoPack.rules = Absent /\ Confirmed(Absent) = {} /\ IdsOf({}) = {}
  /\ Absent \in RuleParts
  BY DEF NoPack, PackFiles, Confirmed, Else, IdsOf, RuleParts

LEMMA RulesInit == OnboardingInit => RulesInv /\ KeptInv
<1> SUFFICES ASSUME OnboardingInit PROVE RulesInv /\ KeptInv
  OBVIOUS
<1> USE DEF OnboardingInit
<1>1. ~Writing /\ options.confirm \in BOOLEAN
  BY DEF Writing, PackFiles
<1>2. disk = [f \in PackFiles |-> disk[f]]
  BY DEF NoPack
<1> QED
  BY <1>1, <1>2, NoRules, ShapeInit DEF RulesInv, KeptInv, InPlace, Keeps

\* Every step of the command and of people, as it changes the rules.
LEMMA RulesStep ==
  ASSUME PackInv, RulesInv, KeptInv, [OnboardingNext]_onboardingVars
  PROVE  RulesInv' /\ KeptInv'
<1> USE DEF RulesInv, KeptInv, Approved, InPlace, Keeps, Writing, PackFiles
<1>1. CASE \E local, confirm, persist \in BOOLEAN : Onboard(local, confirm, persist)
  BY <1>1 DEF Onboard, packHistory, Loads
<1>2. CASE MakeDirectory \/ CloneDone
  BY <1>2 DEF MakeDirectory, CloneDone, packHistory, Loads
<1>3. CASE Refresh
  BY <1>3 DEF Refresh, Loads
<1>4. CASE LoadPrevious
  <2>1. /\ at = "loading" /\ at' = "generating" /\ UNCHANGED <<disk, draft, torn, replaced, approved, asked, options>>
        /\ previous' = IF Loads(disk) THEN disk ELSE NoPack
        /\ unread' = (unread \/ (~Loads(disk) /\ disk # NoPack))
    BY <1>4 DEF LoadPrevious
  <2>2. previous'.rules \in {disk.rules, Absent} /\ (~torn => previous'.rules = disk.rules)
    BY <2>1, NoRules
  <2>3. Loads(disk)' = Loads(disk)
    BY <2>1 DEF Loads
  <2> QED
    BY <2>1, <2>2, <2>3, NoRules
<1>5. CASE \E m, ps \in Parts : \E proposed \in Proposals : Generate(m, ps, proposed)
  <2>1. PICK m \in Parts, ps \in Parts, proposed \in Proposals : Generate(m, ps, proposed)
    BY <1>5
  <2> DEFINE rules == MergeRules(proposed, previous.rules, options.confirm)
  <2>2. /\ Draft(m, ps, rules)
        /\ asked' = IF options.confirm THEN asked \cup IdsOf(rules) ELSE asked
        /\ replaced' = replaced
    BY <2>1 DEF Generate
  <2>3. at = "generating" /\ UNCHANGED <<torn, options, approved, unread>> /\ draft'.manifest = {}
    BY <2>2 DEF Draft
  <2>4. draft'.rules = rules /\ at' = "mandatory" /\ UNCHANGED <<disk, previous>>
    BY <2>2, DraftShape DEF PackInv
  <2>5. /\ rules \in SUBSET Rules
        /\ IdsOf(Confirmed(previous.rules)) \subseteq IdsOf(Confirmed(rules))
        /\ ~options.confirm => IdsOf(Confirmed(rules)) \subseteq IdsOf(Confirmed(previous.rules))
        /\ IdsOf(Confirmed(rules)) \subseteq IdsOf(rules)
    BY MergeConfirmed
  <2> HIDE DEF rules
  <2>6. IdsOf(Confirmed(rules)) \subseteq asked' /\ asked \subseteq asked'
    BY <2>2, <2>5
  <2> QED
    BY <2>2, <2>3, <2>4, <2>5, <2>6
<1>6. CASE \E m, ps \in Parts : \E own \in Committed : Ingest(m, ps, own)
  <2>1. PICK m \in Parts, ps \in Parts, own \in Committed : Ingest(m, ps, own)
    BY <1>6
  <2> DEFINE rules == IngestRules(own, options.confirm)
  <2>2. Draft(m, ps, rules) /\ asked' = asked \cup IdsOf(Confirmed(rules)) /\ replaced'
    BY <2>1 DEF Ingest
  <2>3. at = "generating" /\ UNCHANGED <<torn, options, approved, unread>> /\ draft'.manifest = {}
    BY <2>2 DEF Draft
  <2>4. draft'.rules = rules /\ at' = "mandatory" /\ UNCHANGED <<disk, previous>>
    BY <2>2, DraftShape DEF PackInv
  <2>5. rules \in SUBSET Rules
    BY IngestType
  <2> HIDE DEF rules
  <2> QED
    BY <2>2, <2>3, <2>4, <2>5
<1>7. CASE DryRun
  <2>1. Loads(disk)' = Loads(disk)
    BY <1>7 DEF DryRun, Loads
  <2> QED
    BY <1>7, <2>1, NoRules DEF DryRun, End, packHistory
<1>8. CASE PutPack
  <2>1. CASE \/ Put("mandatory", "profiles")
             \/ Put("profiles", "rules")
             \/ Put("rules", "manifest")
    <3>1. PICK f \in {"mandatory", "profiles", "rules"} :
            /\ at = f /\ disk' = [disk EXCEPT ![f] = draft[f]]
            /\ at' = IF f = "mandatory" THEN "profiles" ELSE IF f = "profiles" THEN "rules" ELSE "manifest"
            /\ UNCHANGED <<options, previous, draft, approved, asked, unread, torn, replaced>>
      BY <2>1 DEF Put, packHistory
    <3>2. /\ disk'.mandatory = IF f = "mandatory" THEN draft.mandatory ELSE disk.mandatory
          /\ disk'.profiles = IF f = "profiles" THEN draft.profiles ELSE disk.profiles
          /\ disk'.rules = IF f = "rules" THEN draft.rules ELSE disk.rules
          /\ disk' = [g \in PackFiles |-> disk'[g]]
      BY <3>1
    <3>3. disk'.rules \in RuleParts /\ IdsOf(Confirmed(disk'.rules)) \subseteq asked
      BY <3>1, <3>2 DEF RuleParts
    <3>4. RulesInv'
      BY <3>1, <3>2, <3>3
    <3>5. ~torn' => InPlace'
      BY <3>1, <3>2
    <3>6. ~torn' /\ ~replaced' => Keeps'
      BY <3>1, <3>2
    <3> QED
      BY <3>1, <3>4, <3>5, <3>6
  <2>2. CASE PutManifest
    <3>1. /\ at = "manifest" /\ disk' = [disk EXCEPT !.manifest = draft.manifest]
          /\ approved' = IF options.confirm THEN approved \cup IdsOf(Confirmed(draft.rules)) ELSE approved
          /\ at' = "idle" /\ options'.confirm = FALSE /\ previous' = NoPack
          /\ UNCHANGED <<torn, asked, unread, replaced>>
      BY <2>2 DEF PutManifest, End
    <3>2. /\ disk'.mandatory = disk.mandatory /\ disk'.profiles = disk.profiles
          /\ disk'.rules = disk.rules /\ disk'.manifest = draft.manifest
          /\ disk' = [f \in PackFiles |-> disk'[f]]
      BY <3>1
    <3>3. ~torn => Loads(disk')
      <4>1. {} # Absent
        BY OnboardingAssumption
      <4>2. draft.rules # Absent
        BY <3>1, OnboardingAssumption
      <4> QED
        BY <3>1, <3>2, <4>1, <4>2 DEF Loads, PackInv, Shape
    <3>4. ~torn' => InPlace'
      BY <3>1, <3>3 DEF Loads
    <3>5. ~torn /\ ~replaced => Keeps'
      BY <3>1, <3>2
    <3> QED
      BY <3>1, <3>2, <3>4, <3>5, NoRules
  <2> QED
    BY <1>8, <2>1, <2>2 DEF PutPack
<1>9. CASE Killed
  <2>1. /\ at # "idle" /\ at' = "idle" /\ previous' = NoPack /\ options'.confirm = FALSE
        /\ torn' = (torn \/ at \in PackFiles)
        /\ \/ disk' = disk
           \/ Writing /\ \E f \in PackFiles : disk' = [disk EXCEPT ![f] = Absent]
        /\ UNCHANGED <<approved, asked, unread, replaced>>
    BY <1>9 DEF Killed, End
  <2>2. disk' = [f \in PackFiles |-> disk'[f]] /\ disk'.rules \in {disk.rules, Absent}
    BY <2>1
  <2>3. ~torn' => disk' = disk
    BY <2>1
  <2>4. disk' = disk => Loads(disk)' = Loads(disk)
    BY DEF Loads
  <2> QED
    BY <2>1, <2>2, <2>3, <2>4, NoRules
<1>10. CASE \E r \in Else(disk.rules, {}), verdict \in {"confirmed", "rejected"} : Judge(r, verdict)
  <2>1. PICK r \in Else(disk.rules, {}), verdict \in {"confirmed", "rejected"} : Judge(r, verdict)
    BY <1>10
  <2> DEFINE judged == Judged(disk.rules, r, verdict)
  <2>2. disk.rules \in SUBSET Rules /\ r \in disk.rules /\ disk.rules # Absent
    BY <2>1 DEF Else, RuleParts
  <2>3. /\ at = "idle" /\ r.status # verdict
        /\ disk' = [disk EXCEPT !.rules = judged]
        /\ approved' = IF verdict = "confirmed" THEN approved \cup {r.id} ELSE approved \ {r.id}
        /\ asked' = IF verdict = "confirmed" THEN asked \cup {r.id} ELSE asked
        /\ UNCHANGED <<at, options, previous, draft, unread, torn, replaced>>
    BY <2>1 DEF Judge
  <2>4. /\ judged \in SUBSET Rules
        /\ verdict = "confirmed" =>
             IdsOf(Confirmed(judged)) = IdsOf(Confirmed(disk.rules)) \cup {r.id}
        /\ verdict = "rejected" =>
             /\ IdsOf(Confirmed(judged)) \subseteq IdsOf(Confirmed(disk.rules))
             /\ IdsOf(Confirmed(disk.rules)) \ {r.id} \subseteq IdsOf(Confirmed(judged))
    BY <2>2, <2>3, JudgedMoves
  <2>5. judged # Absent
    BY <2>4, OnboardingAssumption
  <2> HIDE DEF judged
  <2>6. /\ disk'.rules = judged /\ disk'.mandatory = disk.mandatory
        /\ disk'.profiles = disk.profiles /\ disk'.manifest = disk.manifest
        /\ disk' = [f \in PackFiles |-> disk'[f]]
    BY <2>3
  <2>7. disk # NoPack
    BY <2>2, NoRules
  <2>8. ~torn => Loads(disk')
    BY <2>3, <2>5, <2>6, <2>7 DEF Loads
  <2>9. ~torn' => InPlace'
    BY <2>3, <2>8 DEF Loads
  <2>10. /\ IdsOf(Confirmed(disk'.rules)) \subseteq asked' /\ asked \subseteq asked'
         /\ approved \subseteq IdsOf(Confirmed(disk.rules)) =>
              approved' \subseteq IdsOf(Confirmed(disk'.rules))
    BY <2>3, <2>4, <2>6
  <2> QED
    BY <2>3, <2>4, <2>6, <2>9, <2>10 DEF RuleParts
<1>11. CASE UNCHANGED onboardingVars
  <2>1. UNCHANGED <<disk, at, options, previous, draft, approved, asked, unread, torn, replaced>>
    BY <1>11 DEF onboardingVars, packHistory
  <2>2. Loads(disk)' = Loads(disk)
    BY <2>1 DEF Loads
  <2> QED
    BY <2>1, <2>2
<1> QED
  BY <1>1, <1>2, <1>3, <1>4, <1>5, <1>6, <1>7, <1>8, <1>9, <1>10, <1>11 DEF OnboardingNext

LEMMA OnboardingInvariant == OnboardingSpec => [](PackInv /\ RulesInv /\ KeptInv)
<1>1. OnboardingInit => PackInv /\ RulesInv /\ KeptInv
  BY RulesInit, PackInit
<1>2. PackInv /\ RulesInv /\ KeptInv /\ [OnboardingNext]_onboardingVars
        => (PackInv /\ RulesInv /\ KeptInv)'
  BY RulesStep, PackStep
<1> QED
  BY <1>1, <1>2, PTL DEF OnboardingSpec

\* No model's answer, lost write or kill confirms a rule that no person approved,
\* in any pack a reviewer can load (core/runner.ts:86).
THEOREM NothingSelfApproved == OnboardingSpec => []NeverSelfApproved
<1>1. PackInv /\ RulesInv => NeverSelfApproved
  <2> SUFFICES ASSUME PackInv, RulesInv, NEW p \in UsedPacks
               PROVE  IdsOf(Confirmed(p.rules)) \subseteq asked
    BY DEF NeverSelfApproved
  <2>1. PICK new \in IF at \in PackFiles THEN SUBSET PackFiles ELSE {{}} :
          p = [f \in PackFiles |-> IF f \in new THEN draft[f] ELSE disk[f]]
    BY DEF UsedPacks, Readable
  <2>2. /\ p.rules = IF "rules" \in new THEN draft.rules ELSE disk.rules
        /\ new # {} => Writing
    BY <2>1 DEF PackFiles, Writing
  <2> QED
    BY <2>2 DEF RulesInv, Approved
<1> QED
  BY <1>1, OnboardingInvariant, PTL

\* What a person approved outlives every later onboarding, unless a write was cut
\* short or the repository brought rules of its own (onboarding.ts:348-364).
THEOREM ApprovalsKept == OnboardingSpec => []ApprovedKept
<1>1. KeptInv => ApprovedKept
  BY DEF KeptInv, Keeps, ApprovedKept
<1> QED
  BY <1>1, OnboardingInvariant, PTL
=============================================================================
