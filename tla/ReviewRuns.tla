----------------------------- MODULE ReviewRuns -----------------------------
(***************************************************************************)
(* Review runs on the heads of one pull request: the review_runs table     *)
(* (store/sqlite-store.ts), the claim-review-publish-record sequence of    *)
(* apps/worker/pipeline.ts and the comment upsert of github/publish.ts.    *)
(*                                                                         *)
(* A run is one execution of reviewPipeline, whoever started it: a drain   *)
(* loop on a leased job (any job of the PR: the pipeline reviews the head  *)
(* the PR has NOW), the reconciler, or `previewer review`.  Runs on the    *)
(* same head therefore meet only in the row and in the comment thread.     *)
(* Time is relative: age[h] is now - started_at, counted up to Stale + 1   *)
(* and while the row is 'running' only: nothing asks for it otherwise.     *)
(***************************************************************************)
EXTENDS Integers, Sequences, FiniteSets

CONSTANTS
  Heads,       \* head SHAs of the pull request
  Runs,        \* concurrent executions of the pipeline
  Claims,      \* names for claim ids (randomUUID)
  NoClaim,     \* no claim held; also: an id no run holds
  NoHead,      \* the run is idle
  Chatter,     \* somebody else's comment
  Stale,       \* staleMs: a 'running' row older than this is reclaimable
  PageSize,    \* comments.list returns the first page only (100)
  \* bounds of the model
  MaxFaults,   \* crashes, and releases that fail
  MaxForces,   \* forced runs
  MaxThread,   \* comments in the thread
  MaxChatter   \* comments by others

ASSUME RunsAssumption ==
  /\ NoClaim \notin Claims
  /\ NoHead \notin Heads
  /\ Chatter \notin Heads
  /\ Stale \in Nat
  /\ PageSize \in Nat \ {0}

VARIABLES
  status,      \* review_runs.status, "none" when the head has no row
  owner,       \* review_runs.id, the owner token of the claim
  age,         \* now - review_runs.started_at of a running row
  pc,          \* where each run is in the pipeline
  head,        \* the head it works on
  claim,       \* its claimId
  result,      \* what the runner returned
  mine,        \* whether publish found the run's marker in the thread
  thread,      \* the PR's comment thread: whose marker each comment carries
  orphans,     \* history: heads whose claim was left behind by a crash
  stuck,       \* history: heads whose claim a release that failed left behind
  overtaken,   \* history: heads where a forced or stale claim met a live run
  faults, forces

rowVars == <<status, owner, age>>
runVars == <<pc, head, claim, result, mine>>
leftBehind == <<orphans, stuck>>
history == <<leftBehind, overtaken>>
vars == <<rowVars, runVars, thread, history, faults, forces>>

Steps == {"idle", "prepare", "review", "list", "upsert", "record"}
Results == {"ok", "error", "skipped"}

TypeOK ==
  /\ status \in [Heads -> {"none", "running"} \cup Results]
  /\ owner \in [Heads -> Claims \cup {NoClaim}]
  /\ age \in [Heads -> 0..(Stale + 1)]
  /\ pc \in [Runs -> Steps]
  /\ head \in [Runs -> Heads \cup {NoHead}]
  /\ claim \in [Runs -> Claims \cup {NoClaim}]
  /\ result \in [Runs -> Results]
  /\ mine \in [Runs -> BOOLEAN]
  /\ \A r \in Runs : (pc[r] = "idle" <=> head[r] = NoHead) /\ (pc[r] = "idle" <=> claim[r] = NoClaim)
  /\ thread \in Seq(Heads \cup {Chatter})
  /\ orphans \subseteq Heads
  /\ stuck \subseteq Heads
  /\ overtaken \subseteq Heads
  /\ faults \in Nat
  /\ forces \in Nat

Init ==
  /\ status = [h \in Heads |-> "none"]
  /\ owner = [h \in Heads |-> NoClaim]
  /\ age = [h \in Heads |-> 0]
  /\ pc = [r \in Runs |-> "idle"]
  /\ head = [r \in Runs |-> NoHead]
  /\ claim = [r \in Runs |-> NoClaim]
  /\ result = [r \in Runs |-> "ok"]
  /\ mine = [r \in Runs |-> FALSE]
  /\ thread = << >>
  /\ orphans = {}
  /\ stuck = {}
  /\ overtaken = {}
  /\ faults = 0
  /\ forces = 0

-----------------------------------------------------------------------------
Active(r) == pc[r] # "idle"
On(h) == {r \in Runs : Active(r) /\ head[r] = h}
Owns(r) == owner[head[r]] = claim[r]

\* the heads whose marker some comment carries
Posted == {thread[i] : i \in DOMAIN thread}

Goto(r, step) == pc' = [pc EXCEPT ![r] = step]

\* A run ends: its locals are gone.
End(r) ==
  /\ pc' = [pc EXCEPT ![r] = "idle"]
  /\ head' = [head EXCEPT ![r] = NoHead]
  /\ claim' = [claim EXCEPT ![r] = NoClaim]
  /\ result' = [result EXCEPT ![r] = "ok"]
  /\ mine' = [mine EXCEPT ![r] = FALSE]

(* SqliteStore.claimReview                                                 *)

\* the upsert's conflict condition, or no conflict at all
ClaimableAnyRunning(h, force) ==
  force \/ status[h] \in {"none", "error", "running"}
ClaimableAnyTerminal(h, force) ==
  force \/ status[h] # "running" \/ age[h] > Stale
ClaimableNeverStale(h, force) == force \/ status[h] \in {"none", "error"}
Claimable(h, force) ==
  \/ status[h] = "none"
  \/ force
  \/ status[h] = "error"
  \/ status[h] = "running" /\ age[h] > Stale

\* The run gets the head: the row carries its token from now on.  A run that
\* finds the head not claimable ends as a duplicate and changes nothing.
Claim(r, h, force) ==
  /\ pc[r] = "idle"
  /\ Claimable(h, force)
  /\ force => forces < MaxForces
  /\ forces' = IF force THEN forces + 1 ELSE forces
  /\ \E c \in Claims \ ({owner[g] : g \in Heads} \cup {claim[s] : s \in Runs}) :
       /\ owner' = [owner EXCEPT ![h] = c]
       /\ claim' = [claim EXCEPT ![r] = c]
  /\ status' = [status EXCEPT ![h] = "running"]
  /\ age' = [age EXCEPT ![h] = 0]
  /\ head' = [head EXCEPT ![r] = h]
  /\ Goto(r, "prepare")
  /\ orphans' = orphans \ {h}
  /\ stuck' = stuck \ {h}
  /\ overtaken' = IF On(h) # {} /\ (force \/ age[h] > Stale)
                    THEN overtaken \cup {h} ELSE overtaken
  /\ UNCHANGED <<result, mine, thread, faults>>

(* SqliteStore.releaseClaim: DELETE WHERE status = 'running' AND id = mine *)
ReleasedUnscoped(r) == {h \in {head[r]} : status[h] = "running"}
ReleasedNever(r) == {}
Released(r) == {h \in {head[r]} : status[h] = "running" /\ owner[h] = claim[r]}

(* SqliteStore.recordRun: an upsert on the key alone.  It keeps the row's  *)
(* id and started_at; without a row it inserts one under a new id.         *)
RecordRunOutcome(r, res) ==
  /\ status' = [status EXCEPT ![head[r]] = IF res = "ok" THEN "reviewed" ELSE res]
  /\ age' = [age EXCEPT ![head[r]] = 0]
  /\ owner' = owner
  /\ orphans' = orphans \ {head[r]}
  /\ stuck' = stuck \ {head[r]}
RecordRun(r, res) ==
  /\ status' = [status EXCEPT ![head[r]] = res]
  /\ age' = [age EXCEPT ![head[r]] = 0]
  /\ owner' = IF status[head[r]] = "none" THEN [owner EXCEPT ![head[r]] = NoClaim]
                                          ELSE owner
  /\ orphans' = orphans \ {head[r]}
  /\ stuck' = stuck \ {head[r]}

-----------------------------------------------------------------------------
(* reviewPipeline after the claim                                          *)

\* The gate found nothing to review.
Skip(r) ==
  /\ pc[r] = "prepare"
  /\ RecordRun(r, "skipped")
  /\ End(r)
  /\ UNCHANGED <<thread, overtaken, faults, forces>>

\* Workspace, context and runner are ready: the model is being paid from here.
StartReview(r) ==
  /\ pc[r] = "prepare"
  /\ Goto(r, "review")
  /\ UNCHANGED <<rowVars, head, claim, result, mine, thread, history, faults, forces>>

\* The runner answered.  An error goes straight to the record; a review, and a
\* note of the model that it skips this head, is published first.
ReviewedRecordFirst(r, res) ==
  /\ pc[r] = "review"
  /\ result' = [result EXCEPT ![r] = res]
  /\ Goto(r, "record")
  /\ UNCHANGED <<rowVars, head, claim, mine, thread, history, faults, forces>>
Reviewed(r, res) ==
  /\ pc[r] = "review"
  /\ result' = [result EXCEPT ![r] = res]
  /\ Goto(r, IF res = "error" THEN "record" ELSE "list")
  /\ UNCHANGED <<rowVars, head, claim, mine, thread, history, faults, forces>>

\* SingleCommentPublisher: look for the marker on the first page of comments ...
FirstPage == {thread[i] : i \in {j \in DOMAIN thread : j <= PageSize}}
ListComments(r) ==
  /\ pc[r] = "list"
  /\ mine' = [mine EXCEPT ![r] = head[r] \in FirstPage]
  /\ Goto(r, "upsert")
  /\ UNCHANGED <<rowVars, head, claim, result, thread, history, faults, forces>>

\* ... and edit the comment found, or create one.
UpsertBlind(r) ==
  /\ pc[r] = "upsert"
  /\ Len(thread) < MaxThread
  /\ thread' = Append(thread, head[r])
  /\ Goto(r, "record")
  /\ UNCHANGED <<rowVars, head, claim, result, mine, history, faults, forces>>
Upsert(r) ==
  /\ pc[r] = "upsert"
  /\ mine[r] \/ Len(thread) < MaxThread
  /\ thread' = IF mine[r] THEN thread ELSE Append(thread, head[r])
  /\ Goto(r, "record")
  /\ UNCHANGED <<rowVars, head, claim, result, mine, history, faults, forces>>

Record(r) ==
  /\ pc[r] = "record"
  /\ RecordRun(r, result[r])
  /\ End(r)
  /\ UNCHANGED <<thread, overtaken, faults, forces>>

\* Any await after the claim may throw (clone, context, runner, GitHub, the
\* store): the claim is released and the error goes to the caller ...
Throw(r) ==
  /\ Active(r)
  /\ status' = [h \in Heads |-> IF h \in Released(r) THEN "none" ELSE status[h]]
  /\ owner' = [h \in Heads |-> IF h \in Released(r) THEN NoClaim ELSE owner[h]]
  /\ age' = [h \in Heads |-> IF h \in Released(r) THEN 0 ELSE age[h]]
  /\ End(r)
  /\ UNCHANGED <<thread, history, faults, forces>>

\* What a run leaves behind that ends without touching its row.
Abandoned(r) == {h \in {head[r]} : status[h] = "running" /\ Owns(r)}

\* ... unless the release throws too: it is a write to the same store.
ReleaseFails(r) ==
  /\ Active(r)
  /\ faults < MaxFaults
  /\ faults' = faults + 1
  /\ stuck' = stuck \cup Abandoned(r)
  /\ End(r)
  /\ UNCHANGED <<rowVars, thread, orphans, overtaken, forces>>

\* The process dies; the row stays as it is.
Crash(r) ==
  /\ Active(r)
  /\ faults < MaxFaults
  /\ faults' = faults + 1
  /\ orphans' = orphans \cup Abandoned(r)
  /\ End(r)
  /\ UNCHANGED <<rowVars, thread, stuck, overtaken, forces>>

Comment ==
  /\ Len(thread) < MaxThread
  /\ Cardinality({i \in DOMAIN thread : thread[i] = Chatter}) < MaxChatter
  /\ thread' = Append(thread, Chatter)
  /\ UNCHANGED <<rowVars, runVars, history, faults, forces>>

\* the running rows whose age still makes a difference one unit later
Aging == {h \in Heads : status[h] = "running" /\ age[h] <= Stale}

Tick ==
  /\ Aging # {}
  /\ age' = [h \in Heads |-> IF h \in Aging THEN age[h] + 1 ELSE age[h]]
  /\ UNCHANGED <<status, owner, runVars, thread, history, faults, forces>>

Next ==
  \/ \E r \in Runs :
       \/ \E h \in Heads, force \in BOOLEAN : Claim(r, h, force)
       \/ Skip(r) \/ StartReview(r)
       \/ \E res \in Results : Reviewed(r, res)
       \/ ListComments(r) \/ Upsert(r) \/ Record(r)
       \/ Throw(r) \/ ReleaseFails(r) \/ Crash(r)
  \/ Comment
  \/ Tick

Spec == Init /\ [][Next]_vars

-----------------------------------------------------------------------------
(* Properties                                                              *)

\* A claim is never stranded: a 'running' row belongs to a run that is still
\* at work on the head, unless that run's process died or the store refused the
\* release itself (pipeline.ts:102-106, the review that a stuck row would silently
\* lose; the release at pipeline.ts:210 is an await like the others).
NoStrandedClaim ==
  \A h \in Heads : status[h] = "running" /\ h \notin orphans \cup stuck
                     => \E r \in On(h) : Owns(r)

\* As long as no live run lost its claim, to staleness or to a forced run, at
\* most one run works on a head: the model is not paid twice for it.
ExclusiveUnlessOvertaken ==
  \A h \in Heads \ overtaken : \A r, s \in On(h) : r = s

\* A run that fails removes only its own claim, never the one of the run that
\* took the head over (interfaces.ts:23-25).
ReleaseByOwner ==
  \A h \in Heads : status[h] = "running" /\ status'[h] = "none"
                     => \E r \in On(h) : Owns(r) /\ pc'[r] = "idle"

ReleaseOwnOnly == [][ReleaseByOwner]_vars

\* A reviewed head has its comment: 'ok' is recorded only after the comment is
\* in the thread, whatever crashed or failed in between.
ReviewedHasComment ==
  \A h \in Heads : status[h] = "ok" => h \in Posted

\* Retries do not duplicate: after a crash between publishing and recording the
\* next run edits the comment it finds.  Holds as long as no live run was
\* overtaken on the head and the thread fits on one page.
NoDuplicateComment ==
  Len(thread) <= PageSize =>
    \A i, j \in DOMAIN thread : thread[i] = thread[j] /\ thread[i] \in Heads \ overtaken => i = j

\* A covered head stays covered until somebody forces a re-review, unless an
\* overtaken run reports late (sqlite-store.ts:69-72).
CoverageKept ==
  \A h \in Heads \ overtaken :
    status[h] \in {"ok", "skipped"} /\ status'[h] # status[h] => forces' > forces

CoveredStays == [][CoverageKept]_vars

\* publish.ts:8, README.md:52: exactly one comment per head SHA.
OneCommentPerHead ==
  \A i, j \in DOMAIN thread : thread[i] = thread[j] /\ thread[i] \in Heads => i = j
=============================================================================
