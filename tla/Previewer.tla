----------------------------- MODULE Previewer -----------------------------
(***************************************************************************)
(* The platform on one pull request: the job queue (JobQueue) and the      *)
(* review runs (ReviewRuns) share the heads, the drain loops and the       *)
(* clock, GitHub moves the PR under them, and webhooks, /rereview and the  *)
(* reconciler feed the queue.                                              *)
(*                                                                         *)
(* A job is keyed by the head it was enqueued for, but the pipeline        *)
(* reviews the head the PR has when it looks; a duplicate, a gated-out     *)
(* head and a closed PR all ack the job; and a settled job is never        *)
(* enqueued again unless it is forced.  The question of this module is     *)
(* whether a head can lose its review that way.                            *)
(***************************************************************************)
EXTENDS Integers, Sequences, FiniteSets

CONSTANTS
  Heads, NoHead,
  Workers,       \* drain loops
  Operators,     \* people who run `previewer review` by hand
  Leases, NoLease, Claims, NoClaim, Chatter,
  Visibility, RetryDelay, TransientBase, TransientCap,
  MaxAttempts, UnknownMaxAttempts, Stale, PageSize,
  \* bounds of the model
  MaxOutages, MaxFaults, MaxForces, MaxForcedRuns, MaxThread, MaxChatter,
  MaxChanges     \* changes of the PR: pushes, resets, drafts, closings

VARIABLES
  jobStatus, leaseId, attempts, transientAttempts, wait, created,
  job, token, verdicts, forces,                        \* JobQueue
  runStatus, owner, age, pc, head, claim, result, mine, thread,
  orphans, stuck, overtaken, forcedRuns,               \* ReviewRuns
  faults,        \* of both
  prHead,        \* the PR's head on GitHub
  prState,       \* open, draft or closed
  events,        \* heads some pull_request event announced
  changes,
  jobFull,       \* jobs.full_review
  full,          \* the worker's job was leased with full_review set
  looked,        \* the head each run read from GitHub
  outcome,       \* how each worker will settle its job
  excused        \* history: heads whose job worked on another head or met a PR
                 \* that was not open, that used up their budget, that an
                 \* operator reviewed, whose forced review started under a
                 \* lease another /rereview had taken away, or whose job met a
                 \* claim that a failed release had left behind

Runs == Workers \cup Operators

queueVars == <<jobStatus, leaseId, attempts, transientAttempts, wait, created,
               job, token, verdicts, forces>>
runsVars == <<runStatus, owner, age, pc, head, claim, result, mine, thread,
              orphans, stuck, overtaken, forcedRuns>>
prVars == <<prHead, prState, events, changes>>
workVars == <<jobFull, full, looked, outcome, excused>>
vars == <<queueVars, runsVars, faults, prVars, workVars>>

Queue == INSTANCE JobQueue WITH
  Keys <- Heads, NoKey <- NoHead, status <- jobStatus

Review == INSTANCE ReviewRuns WITH
  status <- runStatus, forces <- forcedRuns, MaxForces <- MaxForcedRuns

\* The lease (35 minutes, loop.ts:112) outlives the age at which a claim may be
\* taken over (15 minutes, sqlite-store.ts:61).
ASSUME PreviewerAssumption ==
  /\ Queue!QueueAssumption
  /\ Review!RunsAssumption
  /\ Visibility > Stale
  /\ Workers \cap Operators = {}
  /\ MaxChanges \in Nat

TypeOK ==
  /\ Queue!TypeOK
  /\ Review!TypeOK
  /\ prHead \in Heads
  /\ prState \in {"open", "draft", "closed"}
  /\ events \subseteq Heads
  /\ changes \in 0..MaxChanges
  /\ jobFull \in [Heads -> BOOLEAN]
  /\ full \in [Workers -> BOOLEAN]
  /\ looked \in [Runs -> Heads \cup {NoHead}]
  /\ outcome \in [Workers -> {"none", "ack", "retry"}]
  /\ excused \subseteq Heads

\* A pull request was opened.
Init ==
  /\ Queue!Init
  /\ Review!Init
  /\ prHead \in Heads
  /\ prState = "open"
  /\ events = {prHead}
  /\ changes = 0
  /\ jobFull = [h \in Heads |-> FALSE]
  /\ full = [w \in Workers |-> FALSE]
  /\ looked = [r \in Runs |-> NoHead]
  /\ outcome = [w \in Workers |-> "none"]
  /\ excused = {}

-----------------------------------------------------------------------------
(* GitHub                                                                  *)

\* A push, or a reset of the branch to a head it had; open PRs announce it.
Push(h) ==
  /\ h # prHead
  /\ changes < MaxChanges
  /\ prHead' = h
  /\ changes' = changes + 1
  /\ events' = IF prState = "open" THEN events \cup {h} ELSE events
  /\ UNCHANGED <<queueVars, runsVars, faults, prState, workVars>>

\* Closed, reopened, made a draft, made ready for review.
Change(s) ==
  /\ s # prState
  /\ changes < MaxChanges
  /\ prState' = s
  /\ changes' = changes + 1
  /\ events' = IF s = "open" THEN events \cup {prHead} ELSE events
  /\ UNCHANGED <<queueVars, runsVars, faults, prHead, workVars>>

-----------------------------------------------------------------------------
(* What feeds the queue.  An enqueue that finds a row is a duplicate and   *)
(* changes nothing.                                                        *)

EnqueueAs(h, asFull) ==
  /\ Queue!Enqueue(h)
  /\ jobFull' = [jobFull EXCEPT ![h] = asFull]
  /\ UNCHANGED <<runsVars, prVars, full, looked, outcome, excused>>

\* handlePullRequest, early, late or (when it is never taken) lost
Webhook(h) == h \in events /\ EnqueueAs(h, FALSE)

\* handleIssueComment: a /rereview of the head the PR has
Rereview ==
  /\ prState = "open"
  /\ forces < MaxForces
  /\ \/ EnqueueAs(prHead, TRUE)
     \/ /\ Queue!Requeue(prHead)
        /\ jobFull' = [jobFull EXCEPT ![prHead] = TRUE]
        /\ UNCHANGED <<runsVars, prVars, full, looked, outcome, excused>>

\* SqliteStore.isReviewedOrInFlight
ReviewedOrInFlight(h) ==
  \/ runStatus[h] \in {"ok", "skipped"}
  \/ runStatus[h] = "running" /\ age[h] <= Stale

\* reconcile
Sweep ==
  /\ prState = "open"
  /\ ~ReviewedOrInFlight(prHead)
  /\ EnqueueAs(prHead, FALSE)

-----------------------------------------------------------------------------
(* The drain loops and the operators                                       *)

Busy(w) == token[w] # NoLease
Fresh(r) == pc[r] = "idle" /\ looked[r] = NoHead

Lease(w) ==
  /\ Queue!Lease(w)
  /\ full' = [full EXCEPT ![w] = jobFull[job'[w]]]
  /\ UNCHANGED <<runsVars, prVars, jobFull, looked, outcome, excused>>

\* The run is over: a worker goes on to settle its job, an operator goes away.
Outcome(r, o) ==
  /\ outcome' = [w \in Workers |-> IF w = r THEN o ELSE outcome[w]]
  /\ looked' = [looked EXCEPT ![r] = NoHead]

\* getPullRequest: the run is about the head the PR has now ...
Look(r) ==
  /\ Fresh(r)
  /\ r \in Workers => Busy(r) /\ outcome[r] = "none"
  /\ prState = "open"
  /\ looked' = [looked EXCEPT ![r] = prHead]
  /\ UNCHANGED <<queueVars, runsVars, faults, prVars, jobFull, full, outcome, excused>>

\* ... and of an open PR only.
NotOpen(w) ==
  /\ Fresh(w) /\ Busy(w) /\ outcome[w] = "none"
  /\ prState # "open"
  /\ outcome' = [outcome EXCEPT ![w] = "ack"]
  /\ excused' = excused \cup {job[w]}
  /\ UNCHANGED <<queueVars, runsVars, faults, prVars, jobFull, full, looked>>

\* GitHub fails, or the configuration names no runner.
LookFails(w) ==
  /\ Fresh(w) /\ Busy(w) /\ outcome[w] = "none"
  /\ outcome' = [outcome EXCEPT ![w] = "retry"]
  /\ UNCHANGED <<queueVars, runsVars, faults, prVars, jobFull, full, looked, excused>>

Looking(r) == looked[r] # NoHead

\* The heads a claim on h puts outside the question.
Outside(r, h) ==
  IF r \in Operators THEN {h} ELSE IF job[r] = h THEN {} ELSE {h, job[r]}

\* A forced review starts under a lease that a second /rereview took away: its
\* job may be done already, and no one retries it.
Unleased(r, force) == r \in Workers /\ force /\ leaseId[job[r]] # token[r]

Claim(r, force) ==
  /\ Looking(r)
  /\ r \in Workers => force = full[r]
  /\ Review!Claim(r, looked[r], force)
  /\ excused' = excused \cup Outside(r, looked[r])
                        \cup (IF Unleased(r, force) THEN {job[r]} ELSE {})
  /\ looked' = [looked EXCEPT ![r] = NoHead]
  /\ UNCHANGED <<queueVars, prVars, jobFull, full, outcome>>

Duplicate(r) ==
  /\ Looking(r)
  /\ ~Review!Claimable(looked[r], r \in Workers /\ full[r])
  /\ excused' = IF r \in Workers
                   THEN excused \cup Outside(r, looked[r]) \cup ({looked[r]} \cap stuck)
                   ELSE excused
  /\ Outcome(r, "ack")
  /\ UNCHANGED <<queueVars, runsVars, faults, prVars, jobFull, full>>

\* The pipeline's steps under the claim ...
Work(r) ==
  /\ \/ Review!StartReview(r)
     \/ \E res \in Review!Results : Review!Reviewed(r, res)
     \/ Review!ListComments(r)
     \/ Review!Upsert(r)
  /\ UNCHANGED <<queueVars, prVars, workVars>>

\* ... and its ends.  Every error of the runners is retriable.
Ends(r) ==
  /\ \/ Review!Skip(r) /\ Outcome(r, "ack")
     \/ Review!Record(r) /\ Outcome(r, IF result[r] = "error" THEN "retry" ELSE "ack")
     \/ (Review!Throw(r) \/ Review!ReleaseFails(r)) /\ Outcome(r, "retry")
  /\ UNCHANGED <<queueVars, prVars, jobFull, full, excused>>

Forget(w) ==
  /\ outcome' = [outcome EXCEPT ![w] = "none"]
  /\ looked' = [looked EXCEPT ![w] = NoHead]
  /\ full' = [full EXCEPT ![w] = FALSE]

Settle(w) ==
  /\ \/ outcome[w] = "ack" /\ Queue!Ack(w)
     \/ outcome[w] = "retry" /\ (Queue!FailUnknown(w) \/ Queue!FailPermanent(w)
                                                      \/ Queue!FailTransient(w))
  /\ Forget(w)
  /\ excused' = excused \cup {h \in Heads : jobStatus[h] # "dead_letter"
                                            /\ jobStatus'[h] = "dead_letter"}
  /\ UNCHANGED <<runsVars, prVars, jobFull>>

\* The process dies, in the queue and in the pipeline at once.
WorkerDies(w) ==
  /\ Queue!Crash(w)
  /\ IF pc[w] = "idle" THEN UNCHANGED runsVars ELSE Review!Crash(w)
  /\ Forget(w)
  /\ UNCHANGED <<prVars, jobFull, excused>>

OperatorDies(o) ==
  /\ Review!Crash(o)
  /\ looked' = [looked EXCEPT ![o] = NoHead]
  /\ UNCHANGED <<queueVars, prVars, jobFull, full, outcome, excused>>

\* One clock.  A unit is the claim's 15 minutes: it does not pass between a
\* lease and the claim that follows it within seconds.
Tick ==
  /\ \A w \in Workers : Busy(w) /\ outcome[w] = "none" => pc[w] # "idle"
  /\ \/ Queue!Tick /\ Review!Tick
     \/ Queue!Tick /\ Review!Aging = {} /\ UNCHANGED runsVars
     \/ Review!Tick /\ (\A h \in Heads : wait[h] = 0) /\ UNCHANGED queueVars
  /\ UNCHANGED <<prVars, workVars>>

Next ==
  \/ \E h \in Heads : Push(h) \/ Webhook(h)
  \/ \E s \in {"open", "draft", "closed"} : Change(s)
  \/ Rereview \/ Sweep
  \/ \E w \in Workers : Lease(w) \/ NotOpen(w) \/ LookFails(w) \/ Settle(w) \/ WorkerDies(w)
  \/ \E r \in Runs : Look(r) \/ Duplicate(r) \/ Work(r) \/ Ends(r)
                     \/ \E force \in BOOLEAN : Claim(r, force)
  \/ \E o \in Operators : OperatorDies(o)
  \/ Tick

Spec == Init /\ [][Next]_vars

\* Sweeps come round, the drain loops drain, reviews end and time passes.
Fairness ==
  /\ WF_vars(Sweep)
  /\ WF_vars(Tick)
  /\ \A w \in Workers : WF_vars(Lease(w))
                        /\ WF_vars(Look(w) \/ NotOpen(w) \/ LookFails(w) \/ Duplicate(w)
                                   \/ (\E force \in BOOLEAN : Claim(w, force))
                                   \/ Work(w) \/ Ends(w) \/ Settle(w))

FairSpec == Spec /\ Fairness

-----------------------------------------------------------------------------
(* Properties                                                              *)

\* A job that is done has done its work: its head is covered, unless the job
\* worked on another head or met a PR that was not open, an operator reviewed the
\* head beside it, a live run was overtaken there, a second /rereview took the
\* lease from a forced review before it claimed the head, or a retry came within
\* 15 minutes upon the claim that a failed release had left behind.  Crashes,
\* thrown errors whose claim was released, duplicates and redeliveries alone lose
\* no review (loop.ts:87-101, pipeline.ts:96-112, 209-211, sqlite-store.ts:61).
DoneMeansCovered ==
  \A h \in Heads \ (excused \cup overtaken) :
    jobStatus[h] = "done" => runStatus[h] \in {"ok", "skipped"}

\* The head of an open PR is reviewed in the end, whether or not its webhook
\* arrived, with the same exceptions (reconcile.ts:40-44).
Waiting(h) == prHead = h /\ prState = "open" /\ runStatus[h] \notin {"ok", "skipped"}
Dropped(h) == h \in excused \cup overtaken
UncoveredGetReviewed == \A h \in Heads : Waiting(h) ~> ~Waiting(h) \/ Dropped(h)

\* reconciler/main.ts:1, README.md:77: the reconciler is the completeness
\* guarantee, it reviews any head SHA of an open PR that has no successful review.
CompletenessGuarantee == \A h \in Heads : Waiting(h) ~> ~Waiting(h)
=============================================================================
