------------------------ MODULE IncrementalCoverage ------------------------
(***************************************************************************)
(* Which commits of a pull request were ever examined.  A review of head h *)
(* normally covers only last..h, where `last` is the head that             *)
(* SqliteStore.lastReviewedSha returns; this module asks whether those     *)
(* ranges add up: is every commit of a head recorded as covered really in  *)
(* some range a run examined, however the branch is pushed, force-pushed   *)
(* and reset, however runs overlap, fail and report late?                  *)
(*                                                                         *)
(* A commit stands for its content; history[c] is the set of commits       *)
(* reachable from c and not from the PR's base.  Claims are abstracted to  *)
(* what this question needs: a run may start on any head that is not       *)
(* covered, or on any head when forced, and may overlap other runs         *)
(* (ReviewRuns has the claim protocol).                                    *)
(***************************************************************************)
EXTENDS Integers, FiniteSets

CONSTANTS
  Commits,     \* commits that may be pushed
  Runs,        \* concurrent review runs
  Base,        \* the PR's base commit
  NoCommit,    \* no head: the run is idle
  MaxRecords   \* bound: review runs recorded

ASSUME CoverageAssumption ==
  /\ Base \notin Commits
  /\ NoCommit \notin Commits \cup {Base}

VARIABLES
  history,     \* commits reachable from each pushed commit, base excluded
  pushed,      \* commits pushed so far
  prHead,      \* the PR's head; Base before the first push
  status,      \* review_runs.status of each head
  finishedAt,  \* review_runs.finished_at
  clock,       \* rows are stamped in the order they are recorded
  pc,          \* where each run is
  head,        \* pr.headSha as the run read it
  full,        \* the run was forced to review base..head
  fromSha,     \* where the run's diff starts
  examined     \* history: commits in a range some covering run examined

runVars == <<pc, head, full, fromSha>>
vars == <<history, pushed, prHead, status, finishedAt, clock, runVars, examined>>

Results == {"ok", "skipped", "error"}

TypeOK ==
  /\ history \in [Commits -> SUBSET Commits]
  /\ pushed \subseteq Commits
  /\ prHead \in pushed \cup {Base}
  /\ status \in [Commits -> {"none", "running"} \cup Results]
  /\ finishedAt \in [Commits -> Nat]
  /\ clock \in Nat
  /\ pc \in [Runs -> {"idle", "claimed", "prepared"}]
  /\ head \in [Runs -> pushed \cup {NoCommit}]
  /\ full \in [Runs -> BOOLEAN]
  /\ fromSha \in [Runs -> pushed \cup {Base}]
  /\ examined \subseteq Commits
  /\ \A c \in Commits \ pushed : status[c] = "none"
  /\ \A r \in Runs : pc[r] = "idle" <=> head[r] = NoCommit

Init ==
  /\ history = [c \in Commits |-> {}]
  /\ pushed = {}
  /\ prHead = Base
  /\ status = [c \in Commits |-> "none"]
  /\ finishedAt = [c \in Commits |-> 0]
  /\ clock = 0
  /\ pc = [r \in Runs |-> "idle"]
  /\ head = [r \in Runs |-> NoCommit]
  /\ full = [r \in Runs |-> FALSE]
  /\ fromSha = [r \in Runs |-> Base]
  /\ examined = {}

-----------------------------------------------------------------------------
(* The branch                                                              *)

Reach(c) == IF c = Base THEN {} ELSE history[c]

\* A new commit on top of `onto`: an ordinary push when that is the head, a
\* force-push otherwise.
Push(c, onto) ==
  /\ c \in Commits \ pushed
  /\ onto \in pushed \cup {Base}
  /\ history' = [history EXCEPT ![c] = Reach(onto) \cup {c}]
  /\ pushed' = pushed \cup {c}
  /\ prHead' = c
  /\ UNCHANGED <<status, finishedAt, clock, runVars, examined>>

\* The branch is reset to a commit it had before.
Reset(c) ==
  /\ c \in pushed \ {prHead}
  /\ prHead' = c
  /\ UNCHANGED <<history, pushed, status, finishedAt, clock, runVars, examined>>

-----------------------------------------------------------------------------
(* The store                                                               *)

\* SqliteStore.isReviewed
Reviewed(c) == status[c] \in {"ok", "skipped"}

\* SqliteStore.lastReviewedSha: the covered head that finished last
AnyFinished(c) == status[c] \in Results
                  /\ \A d \in Commits : status[d] \in Results
                                          => finishedAt[d] <= finishedAt[c]
LastReviewed(c) == Reviewed(c) /\ \A d \in Commits : Reviewed(d)
                                          => finishedAt[d] <= finishedAt[c]

-----------------------------------------------------------------------------
(* reviewPipeline                                                          *)

\* The run reads the PR's head and claims it.
Start(r, force) ==
  /\ pc[r] = "idle"
  /\ prHead # Base
  /\ force \/ ~Reviewed(prHead)
  /\ pc' = [pc EXCEPT ![r] = "claimed"]
  /\ head' = [head EXCEPT ![r] = prHead]
  /\ full' = [full EXCEPT ![r] = force]
  /\ status' = [status EXCEPT ![prHead] = "running"]
  /\ UNCHANGED <<history, pushed, prHead, finishedAt, clock, fromSha, examined>>

\* effectiveFrom: an incremental diff only from a commit in head's history
Usable(from, h) == from \in history[h]

\* lastReviewedSha, then WorkspaceProvider.prepare: diff from the last covered
\* head, or from the base when the run is full, nothing is covered yet, the
\* branch was rewritten, or git cannot tell.
Prepare(r) ==
  /\ pc[r] = "claimed"
  /\ \/ fromSha' = [fromSha EXCEPT ![r] = Base]
     \/ /\ ~full[r]
        /\ \E c \in Commits :
             /\ LastReviewed(c)
             /\ Usable(c, head[r])
             /\ fromSha' = [fromSha EXCEPT ![r] = c]
  /\ pc' = [pc EXCEPT ![r] = "prepared"]
  /\ UNCHANGED <<history, pushed, prHead, status, finishedAt, clock, head, full, examined>>

\* gitDiff from..head
Range(r) == history[head[r]] \ Reach(fromSha[r])

End(r) ==
  /\ pc' = [pc EXCEPT ![r] = "idle"]
  /\ head' = [head EXCEPT ![r] = NoCommit]
  /\ full' = [full EXCEPT ![r] = FALSE]
  /\ fromSha' = [fromSha EXCEPT ![r] = Base]

\* The run is recorded: reviewed, gated out, or failed.
RecordOutcome(r, res) ==
  /\ pc[r] = "prepared"
  /\ clock < MaxRecords
  /\ status' = [status EXCEPT ![head[r]] = IF res = "ok" THEN "reviewed" ELSE res]
  /\ finishedAt' = [finishedAt EXCEPT ![head[r]] = clock + 1]
  /\ clock' = clock + 1
  /\ examined' = IF res = "error" THEN examined ELSE examined \cup Range(r)
  /\ End(r)
  /\ UNCHANGED <<history, pushed, prHead>>
Record(r, res) ==
  /\ pc[r] = "prepared"
  /\ clock < MaxRecords
  /\ status' = [status EXCEPT ![head[r]] = res]
  /\ finishedAt' = [finishedAt EXCEPT ![head[r]] = clock + 1]
  /\ clock' = clock + 1
  /\ examined' = IF res = "error" THEN examined ELSE examined \cup Range(r)
  /\ End(r)
  /\ UNCHANGED <<history, pushed, prHead>>

\* The run throws: its placeholder goes, unless another run claimed the head.
Throw(r) ==
  /\ pc[r] # "idle"
  /\ \/ status[head[r]] = "running" /\ status' = [status EXCEPT ![head[r]] = "none"]
     \/ UNCHANGED status
  /\ End(r)
  /\ UNCHANGED <<history, pushed, prHead, finishedAt, clock, examined>>

Next ==
  \/ \E c \in Commits :
       \/ \E onto \in Commits \cup {Base} : Push(c, onto)
       \/ Reset(c)
  \/ \E r \in Runs :
       \/ \E force \in BOOLEAN : Start(r, force)
       \/ Prepare(r)
       \/ \E res \in Results : Record(r, res)
       \/ Throw(r)

Spec == Init /\ [][Next]_vars

-----------------------------------------------------------------------------
(* Properties                                                              *)

\* Nothing is silently dropped: every commit of a head that counts as covered
\* lies in a range that some successful or gated-out run examined
\* (sqlite-store.ts:140-153, which recounts the incident where it did not).
CoverageComplete ==
  \A c \in Commits : Reviewed(c) => history[c] \subseteq examined

\* Every baseline is sound while it is used: a run that diffs from an earlier
\* head does so only when everything below that head was examined, even if the
\* head's row has been claimed again or failed since (workspace.ts:22-42).
BaselinesExamined == \A r \in Runs : Reach(fromSha[r]) \subseteq examined
=============================================================================
