-------------------------- MODULE PreviewerProofs --------------------------
(***************************************************************************)
(* Theorems about Previewer for any sets of heads, workers and operators   *)
(* and any timing in which a lease outlives a claim.  What is proved of    *)
(* the queue and of the review runs on their own is carried over: a step   *)
(* of the platform is a step of the queue or leaves it alone, and the same *)
(* for the runs.                                                           *)
(***************************************************************************)
EXTENDS Previewer, FiniteSetTheorems, TLAPS

QueueLemmas == INSTANCE JobQueueProofs WITH
  Keys <- Heads, NoKey <- NoHead, status <- jobStatus

RunLemmas == INSTANCE ReviewRunsProofs WITH
  status <- runStatus, forces <- forcedRuns, MaxForces <- MaxForcedRuns

USE PreviewerAssumption

-----------------------------------------------------------------------------
(* The queue on its own                                                    *)

QueueInv ==
  /\ Queue!TypeOK
  /\ Queue!LeaseDiscipline
  /\ Queue!AttemptsAccounting
  /\ Queue!DeadLetterEarned

\* The two instances of the queue are the same.
LEMMA SameQueue ==
  /\ QueueInv <=> QueueLemmas!QueueInv
  /\ QueueInv' <=> QueueLemmas!QueueInv'
  /\ Queue!Init <=> QueueLemmas!Init
  /\ [Queue!Next]_(Queue!vars) <=> [QueueLemmas!Next]_(QueueLemmas!vars)
  /\ Queue!QueueAssumption <=> QueueLemmas!QueueAssumption
<1>1. QueueInv <=> QueueLemmas!QueueInv
  <2>1. Queue!TypeOK <=> QueueLemmas!TypeOK
    BY DEF Queue!TypeOK, Queue!Statuses, Queue!Live, Queue!Settled,
           QueueLemmas!TypeOK, QueueLemmas!Statuses, QueueLemmas!Live, QueueLemmas!Settled
  <2>2. Queue!LeaseDiscipline <=> QueueLemmas!LeaseDiscipline
    BY DEF Queue!LeaseDiscipline, QueueLemmas!LeaseDiscipline
  <2>3. Queue!AttemptsAccounting <=> QueueLemmas!AttemptsAccounting
    BY DEF Queue!AttemptsAccounting, QueueLemmas!AttemptsAccounting
  <2>4. Queue!DeadLetterEarned <=> QueueLemmas!DeadLetterEarned
    BY DEF Queue!DeadLetterEarned, QueueLemmas!DeadLetterEarned
  <2> QED
    BY <2>1, <2>2, <2>3, <2>4 DEF QueueInv, QueueLemmas!QueueInv
<1>2. Queue!Init <=> QueueLemmas!Init
  BY DEF Queue!Init, QueueLemmas!Init
<1>3. [Queue!Next]_(Queue!vars) <=> [QueueLemmas!Next]_(QueueLemmas!vars)
  BY DEF Queue!Next, Queue!Enqueue, Queue!Requeue, Queue!Lease, Queue!Ack, Queue!Nack,
         Queue!FailUnknown, Queue!FailPermanent, Queue!FailTransient, Queue!Crash,
         Queue!Tick, Queue!PutDown, Queue!RowsOf, Queue!Update, Queue!InUse,
         Queue!Leasable, Queue!Live, Queue!Oldest, Queue!Holders, Queue!TransientBackoff,
         Queue!Undone, Queue!Elapse, Queue!queueVars, Queue!vars, Queue!Cardinality,
         QueueLemmas!Next, QueueLemmas!Enqueue, QueueLemmas!Requeue, QueueLemmas!Lease,
         QueueLemmas!Ack, QueueLemmas!Nack, QueueLemmas!FailUnknown,
         QueueLemmas!FailPermanent, QueueLemmas!FailTransient, QueueLemmas!Crash,
         QueueLemmas!Tick, QueueLemmas!PutDown, QueueLemmas!RowsOf, QueueLemmas!Update,
         QueueLemmas!InUse, QueueLemmas!Leasable, QueueLemmas!Live, QueueLemmas!Oldest,
         QueueLemmas!Holders, QueueLemmas!TransientBackoff, QueueLemmas!Undone,
         QueueLemmas!Elapse, QueueLemmas!queueVars, QueueLemmas!vars,
         QueueLemmas!Cardinality
<1>4. Queue!QueueAssumption <=> QueueLemmas!QueueAssumption
  BY DEF Queue!QueueAssumption, QueueLemmas!QueueAssumption,
         Queue!IsFiniteSet, QueueLemmas!IsFiniteSet
<1>5. QueueInv' <=> QueueLemmas!QueueInv'
  BY <1>1, PTL
<1> QED
  BY <1>1, <1>2, <1>3, <1>4, <1>5

\* A step of the queue keeps the queue in order.
LEMMA QueueKept ==
  ASSUME QueueInv, [Queue!Next]_(Queue!vars) PROVE QueueInv'
<1>1. QueueLemmas!QueueInv /\ [QueueLemmas!Next]_(QueueLemmas!vars) /\ QueueLemmas!QueueAssumption
  BY SameQueue DEF PreviewerAssumption
<1>2. QueueLemmas!QueueInv'
  BY <1>1, QueueLemmas!QueueInvStep DEF QueueLemmas!QueueInvStep
<1> QED
  BY <1>2, SameQueue

\* Nothing the queue's order depends on changes outside its steps.
LEMMA QueueUntouched ==
  ASSUME QueueInv, UNCHANGED queueVars, faults' \in Nat PROVE QueueInv'
  BY DEF QueueInv, queueVars, Queue!TypeOK, Queue!LeaseDiscipline,
         Queue!AttemptsAccounting, Queue!DeadLetterEarned

-----------------------------------------------------------------------------
(* The review runs on their own                                            *)

\* The run at work on a head that nothing overtook is alone there and owns the row.
Solo ==
  \A h \in Heads \ overtaken : \A r \in Review!On(h) :
    /\ runStatus[h] = "running" /\ owner[h] = claim[r]
    /\ \A s \in Review!On(h) : r = s

\* The two instances of the runs are the same.
LEMMA SameRuns ==
  /\ RunLemmas!RunsInv =>
       Review!TypeOK /\ Review!NoStrandedClaim /\ Solo
       /\ Review!ReviewedHasComment /\ Review!NoDuplicateComment
  /\ Review!Init <=> RunLemmas!Init
  /\ [Review!Next]_(Review!vars) <=> [RunLemmas!Next]_(RunLemmas!vars)
  /\ Review!RunsAssumption <=> RunLemmas!RunsAssumption
<1>1. RunLemmas!RunsInv =>
        Review!TypeOK /\ Review!NoStrandedClaim /\ Solo
        /\ Review!ReviewedHasComment /\ Review!NoDuplicateComment
  <2>1. Review!TypeOK <=> RunLemmas!TypeOK
    BY DEF Review!TypeOK, Review!Steps, Review!Results,
           RunLemmas!TypeOK, RunLemmas!Steps, RunLemmas!Results
  <2>2. Review!NoStrandedClaim <=> RunLemmas!NoStrandedClaim
    BY DEF Review!NoStrandedClaim, Review!On, Review!Active, Review!Owns,
           RunLemmas!NoStrandedClaim, RunLemmas!On, RunLemmas!Active, RunLemmas!Owns
  <2>3. Solo <=> RunLemmas!Solo
    BY DEF Solo, Review!On, Review!Active, RunLemmas!Solo, RunLemmas!On, RunLemmas!Active
  <2>4. Review!ReviewedHasComment <=> RunLemmas!ReviewedHasComment
    BY DEF Review!ReviewedHasComment, Review!Posted,
           RunLemmas!ReviewedHasComment, RunLemmas!Posted
  <2>5. Review!NoDuplicateComment <=> RunLemmas!NoDuplicateComment
    BY DEF Review!NoDuplicateComment, RunLemmas!NoDuplicateComment
  <2> QED
    BY <2>1, <2>2, <2>3, <2>4, <2>5
       DEF RunLemmas!RunsInv, RunLemmas!Published, RunLemmas!Unduplicated
<1>2. Review!Init <=> RunLemmas!Init
  BY DEF Review!Init, RunLemmas!Init
<1>3. [Review!Next]_(Review!vars) <=> [RunLemmas!Next]_(RunLemmas!vars)
  BY DEF Review!Next, Review!Claim, Review!Claimable, Review!On, Review!Active,
         Review!Goto, Review!Skip, Review!StartReview, Review!Reviewed, Review!Results,
         Review!ListComments, Review!FirstPage, Review!Upsert, Review!Record,
         Review!RecordRun, Review!Throw, Review!Released, Review!ReleaseFails,
         Review!Abandoned, Review!Crash, Review!Owns, Review!Comment, Review!Tick, Review!Aging,
         Review!End, Review!rowVars, Review!runVars, Review!leftBehind, Review!history,
         Review!vars, Review!Cardinality,
         RunLemmas!Next, RunLemmas!Claim, RunLemmas!Claimable, RunLemmas!On,
         RunLemmas!Active, RunLemmas!Goto, RunLemmas!Skip, RunLemmas!StartReview,
         RunLemmas!Reviewed, RunLemmas!Results, RunLemmas!ListComments,
         RunLemmas!FirstPage, RunLemmas!Upsert, RunLemmas!Record, RunLemmas!RecordRun,
         RunLemmas!Throw, RunLemmas!Released, RunLemmas!ReleaseFails, RunLemmas!Abandoned,
         RunLemmas!Crash, RunLemmas!Owns,
         RunLemmas!Comment, RunLemmas!Tick, RunLemmas!Aging, RunLemmas!End,
         RunLemmas!rowVars, RunLemmas!runVars, RunLemmas!leftBehind, RunLemmas!history, RunLemmas!vars,
         RunLemmas!Cardinality
<1>4. Review!RunsAssumption <=> RunLemmas!RunsAssumption
  BY DEF Review!RunsAssumption, RunLemmas!RunsAssumption
<1> QED
  BY <1>1, <1>2, <1>3, <1>4

\* A step of the runs keeps the runs in order.
LEMMA RunsKept ==
  ASSUME RunLemmas!RunsInv, [Review!Next]_(Review!vars) PROVE RunLemmas!RunsInv'
<1>1. [RunLemmas!Next]_(RunLemmas!vars) /\ RunLemmas!RunsAssumption
  BY SameRuns DEF PreviewerAssumption
<1> QED
  BY <1>1, RunLemmas!RunsInvStep DEF RunLemmas!RunsInvStep

\* Nothing the runs' order depends on changes outside their steps.
LEMMA RunsUntouched ==
  ASSUME RunLemmas!RunsInv, UNCHANGED runsVars, faults' \in Nat PROVE RunLemmas!RunsInv'
  BY DEF runsVars, RunLemmas!RunsInv, RunLemmas!TypeOK, RunLemmas!NoStrandedClaim,
         RunLemmas!On, RunLemmas!Active, RunLemmas!Owns, RunLemmas!Solo,
         RunLemmas!Published, RunLemmas!ReviewedHasComment, RunLemmas!Posted,
         RunLemmas!CommentKnown, RunLemmas!Unduplicated,
         RunLemmas!NoDuplicateComment, RunLemmas!NothingThere

-----------------------------------------------------------------------------
(* The two together                                                        *)

\* A step of the queue, of the runs, of both (a worker's death, the clock) or of
\* neither: no other step touches their state.
QueueSteps == [Queue!Next]_(Queue!vars)
RunsStep == [Review!Next]_(Review!vars)
QueueAlone == QueueSteps /\ UNCHANGED runsVars
RunsAlone == RunsStep /\ UNCHANGED queueVars
Together == QueueSteps /\ RunsStep

\* What the platform adds to its parts.
OwnTypeOK ==
  /\ prHead \in Heads
  /\ prState \in {"open", "draft", "closed"}
  /\ events \subseteq Heads
  /\ changes \in 0..MaxChanges
  /\ jobFull \in [Heads -> BOOLEAN]
  /\ full \in [Workers -> BOOLEAN]
  /\ looked \in [Runs -> Heads \cup {NoHead}]
  /\ outcome \in [Workers -> {"none", "ack", "retry"}]
  /\ excused \subseteq Heads

\* Who moves in each action (pipeline.ts:92-213, loop.ts:60-103).
LEMMA WhoMoves ==
  ASSUME OwnTypeOK, [Next]_vars PROVE QueueAlone \/ RunsAlone \/ Together
<1> USE DEF QueueAlone, RunsAlone, Together, QueueSteps, RunsStep
<1>1. ASSUME UNCHANGED <<queueVars, runsVars, faults>> PROVE Together
  BY <1>1 DEF queueVars, runsVars, Queue!vars, Queue!queueVars, Review!vars,
              Review!rowVars, Review!runVars, Review!leftBehind, Review!history
<1>2. ASSUME NEW h \in Heads, NEW b \in BOOLEAN, EnqueueAs(h, b) PROVE QueueAlone
  BY <1>2 DEF EnqueueAs, Queue!Next
<1>3. CASE Rereview
  BY <1>2, <1>3 DEF Rereview, Queue!Next, OwnTypeOK
<1>4. CASE Sweep
  BY <1>2, <1>4 DEF Sweep, OwnTypeOK
<1>5. ASSUME NEW h \in Heads, Push(h) \/ Webhook(h) PROVE QueueAlone \/ Together
  BY <1>1, <1>2, <1>5 DEF Push, Webhook
<1>6. ASSUME NEW s, Change(s) PROVE Together
  BY <1>1, <1>6 DEF Change
<1>7. ASSUME NEW w \in Workers, Lease(w) \/ Settle(w) PROVE QueueAlone
  BY <1>7 DEF Lease, Settle, Queue!Next
<1>8. ASSUME NEW w \in Workers, NotOpen(w) \/ LookFails(w) PROVE Together
  BY <1>1, <1>8 DEF NotOpen, LookFails
<1>9. ASSUME NEW w \in Workers, WorkerDies(w) PROVE QueueAlone \/ Together
  BY <1>9 DEF WorkerDies, Queue!Next, Review!Next, Runs
<1>10. ASSUME NEW r \in Runs, Look(r) \/ Duplicate(r) PROVE Together
  BY <1>1, <1>10 DEF Look, Duplicate
<1>11. ASSUME NEW r \in Runs, NEW force \in BOOLEAN, Claim(r, force) PROVE RunsAlone
  <2>1. looked[r] \in Heads
    BY <1>11 DEF Claim, Looking, OwnTypeOK
  <2> QED
    BY <1>11, <2>1 DEF Claim, Review!Next
<1>12. ASSUME NEW r \in Runs, Work(r) \/ Ends(r) PROVE RunsAlone
  BY <1>12 DEF Work, Ends, Review!Next
<1>13. ASSUME NEW o \in Operators, OperatorDies(o) PROVE RunsAlone
  BY <1>13 DEF OperatorDies, Review!Next, Runs
<1>14. CASE Tick
  BY <1>14 DEF Tick, Queue!Next, Review!Next
<1>15. CASE UNCHANGED vars
  BY <1>1, <1>15 DEF vars
<1> QED
  BY <1>3, <1>4, <1>5, <1>6, <1>7, <1>8, <1>9, <1>10, <1>11, <1>12, <1>13, <1>14, <1>15
     DEF Next

\* Both parts stay in order, whoever moves.
LEMMA PartsKept ==
  ASSUME OwnTypeOK, QueueInv, RunLemmas!RunsInv, [Next]_vars
  PROVE  QueueInv' /\ RunLemmas!RunsInv'
<1>1. CASE QueueAlone
  <2>1. QueueInv'
    BY <1>1, QueueKept DEF QueueAlone, QueueSteps
  <2>2. faults' \in Nat
    BY <2>1 DEF QueueInv, Queue!TypeOK
  <2> QED
    BY <1>1, <2>1, <2>2, RunsUntouched DEF QueueAlone
<1>2. CASE RunsAlone
  <2>1. RunLemmas!RunsInv'
    BY <1>2, RunsKept DEF RunsAlone, RunsStep
  <2>2. faults' \in Nat
    BY <2>1 DEF RunLemmas!RunsInv, RunLemmas!TypeOK
  <2> QED
    BY <1>2, <2>1, <2>2, QueueUntouched DEF RunsAlone
<1>3. CASE Together
  BY <1>3, QueueKept, RunsKept DEF Together, QueueSteps, RunsStep
<1> QED
  BY <1>1, <1>2, <1>3, WhoMoves

-----------------------------------------------------------------------------
(* Workers and their jobs                                                  *)

\* A worker between jobs has nothing in hand, one that knows how its job ends is
\* out of the pipeline, and the job of a busy one has a row.
WorkersInOrder ==
  /\ \A w \in Workers :
       /\ ~Busy(w) => pc[w] = "idle" /\ outcome[w] = "none" /\ looked[w] = NoHead
       /\ outcome[w] # "none" => pc[w] = "idle" /\ looked[w] = NoHead
       /\ Busy(w) => job[w] \in Heads /\ jobStatus[job[w]] # "absent"
  /\ \A r \in Runs : pc[r] # "idle" => looked[r] = NoHead

\* What the platform adds keeps its types too (reconcile.ts:40-60, pipeline.ts:60-101).
LEMMA OwnTypeStep ==
  ASSUME OwnTypeOK, WorkersInOrder, Queue!TypeOK, [Next]_vars PROVE OwnTypeOK'
<1> USE DEF OwnTypeOK, prVars, workVars
<1>0. ASSUME NEW r \in Runs, Looking(r)
      PROVE  /\ Outside(r, looked[r]) \subseteq Heads
             /\ r \in Workers => job[r] \in Heads
  BY <1>0 DEF WorkersInOrder, Looking, Outside, Runs
<1>1. ASSUME NEW h \in Heads, NEW b \in BOOLEAN, EnqueueAs(h, b) PROVE OwnTypeOK'
  BY <1>1 DEF EnqueueAs
<1>2. CASE Rereview
  <2>1. ASSUME EnqueueAs(prHead, TRUE) PROVE OwnTypeOK'
    BY <1>1, <2>1
  <2>2. ASSUME jobFull' = [jobFull EXCEPT ![prHead] = TRUE],
               UNCHANGED <<prVars, full, looked, outcome, excused>>
        PROVE  OwnTypeOK'
    BY <2>2
  <2> QED
    BY <1>2, <2>1, <2>2 DEF Rereview
<1>3. CASE Sweep
  BY <1>1, <1>3 DEF Sweep
<1>4. ASSUME NEW h \in Heads, Push(h) PROVE OwnTypeOK'
  BY <1>4 DEF Push
<1>5. ASSUME NEW h \in Heads, Webhook(h) PROVE OwnTypeOK'
  BY <1>1, <1>5 DEF Webhook
<1>6. ASSUME NEW s \in {"open", "draft", "closed"}, Change(s) PROVE OwnTypeOK'
  BY <1>6 DEF Change
<1>7. ASSUME NEW w \in Workers, Lease(w) PROVE OwnTypeOK'
  <2>1. job'[w] \in Heads
    BY <1>7 DEF Lease, Queue!Lease, Queue!TypeOK
  <2>2. full' \in [Workers -> BOOLEAN]
    BY <1>7, <2>1 DEF Lease
  <2> QED
    BY <1>7, <2>2 DEF Lease
<1>8. ASSUME NEW w \in Workers, NotOpen(w) PROVE OwnTypeOK'
  <2>1. job[w] \in Heads
    BY <1>8 DEF NotOpen, WorkersInOrder
  <2> QED
    BY <1>8, <2>1 DEF NotOpen
<1>9. ASSUME NEW w \in Workers, LookFails(w) PROVE OwnTypeOK'
  BY <1>9 DEF LookFails
<1>10. ASSUME NEW w \in Workers, Settle(w) \/ WorkerDies(w) PROVE OwnTypeOK'
  BY <1>10 DEF Settle, WorkerDies, Forget
<1>11. ASSUME NEW r \in Runs, Look(r) PROVE OwnTypeOK'
  BY <1>11 DEF Look
<1>12. ASSUME NEW r \in Runs, NEW force \in BOOLEAN, Claim(r, force) PROVE OwnTypeOK'
  <2>1. Outside(r, looked[r]) \subseteq Heads /\ (r \in Workers => job[r] \in Heads)
    BY <1>0, <1>12 DEF Claim
  <2>2. excused' \subseteq Heads
    BY <1>12, <2>1 DEF Claim, Unleased
  <2> QED
    BY <1>12, <2>2 DEF Claim
<1>13. ASSUME NEW r \in Runs, Duplicate(r) PROVE OwnTypeOK'
  <2>1. Outside(r, looked[r]) \subseteq Heads /\ {looked[r]} \subseteq Heads
    BY <1>0, <1>13 DEF Duplicate, Looking
  <2>2. CASE r \in Workers
    BY <1>13, <2>1, <2>2 DEF Duplicate, Outcome
  <2>3. CASE r \notin Workers
    BY <1>13, <2>3 DEF Duplicate, Outcome
  <2> QED
    BY <2>2, <2>3
<1>14. ASSUME NEW r \in Runs, Ends(r) PROVE OwnTypeOK'
  BY <1>14 DEF Ends, Outcome
<1>15. ASSUME NEW r \in Runs, Work(r) PROVE OwnTypeOK'
  BY <1>15 DEF Work
<1>16. ASSUME NEW o \in Operators, OperatorDies(o) PROVE OwnTypeOK'
  BY <1>16 DEF OperatorDies, Runs
<1>17. CASE Tick
  BY <1>17 DEF Tick
<1>18. CASE UNCHANGED vars
  BY <1>18 DEF vars
<1> QED
  BY <1>2, <1>3, <1>4, <1>5, <1>6, <1>7, <1>8, <1>9, <1>10, <1>11, <1>12, <1>13, <1>14,
     <1>15, <1>16, <1>17, <1>18 DEF Next

\* What a verdict does: the worker's own row, if it still has one, and its hands.
LEMMA Verdict ==
  ASSUME Queue!TypeOK, Queue!LeaseDiscipline, NEW w \in Workers, Settle(w)
  PROVE  /\ token[w] # NoLease
         /\ job' = [job EXCEPT ![w] = NoHead] /\ token' = [token EXCEPT ![w] = NoLease]
         /\ Forget(w) /\ outcome[w] # "none"
         /\ \A h \in Heads :
              \/ /\ h = job[w] /\ leaseId[h] = token[w] /\ leaseId'[h] = NoLease
                 /\ jobStatus'[h] \in {"queued", "done", "dead_letter"}
                 /\ jobStatus'[h] = "done" => outcome[w] = "ack"
                 /\ outcome[w] = "ack" => wait'[h] = wait[h]
              \/ jobStatus'[h] = jobStatus[h] /\ leaseId'[h] = leaseId[h] /\ wait'[h] = wait[h]
<1> USE DEF Queue!TypeOK, Queue!PutDown, Queue!RowsOf, Queue!Update
<1>1. token[w] # NoLease /\ outcome[w] # "none" /\ Forget(w)
      /\ job' = [job EXCEPT ![w] = NoHead] /\ token' = [token EXCEPT ![w] = NoLease]
  BY DEF Settle, Queue!Ack, Queue!FailUnknown, Queue!FailPermanent, Queue!Nack, Queue!FailTransient
<1>2. Queue!RowsOf(w) \subseteq {job[w]} /\ \A h \in Queue!RowsOf(w) : leaseId[h] = token[w]
  BY <1>1 DEF Queue!LeaseDiscipline
<1>3. CASE outcome[w] = "ack" /\ Queue!Ack(w)
  BY <1>1, <1>2, <1>3 DEF Queue!Ack
<1>4. ASSUME NEW cap, outcome[w] = "retry", Queue!Nack(w, cap)
      PROVE  \A h \in Heads :
              \/ /\ h = job[w] /\ leaseId[h] = token[w] /\ leaseId'[h] = NoLease
                 /\ jobStatus'[h] \in {"queued", "dead_letter"}
              \/ jobStatus'[h] = jobStatus[h] /\ leaseId'[h] = leaseId[h] /\ wait'[h] = wait[h]
  BY <1>1, <1>2, <1>4 DEF Queue!Nack
<1>5. CASE outcome[w] = "retry" /\ Queue!FailTransient(w)
  BY <1>1, <1>2, <1>5 DEF Queue!FailTransient
<1> QED
  BY <1>1, <1>3, <1>4, <1>5 DEF Settle, Queue!FailUnknown, Queue!FailPermanent

\* What a lease does: the oldest row that waits no more goes to a free worker.
LEMMA Leased ==
  ASSUME Queue!TypeOK, NEW w \in Workers, Lease(w)
  PROVE  \E h \in Heads, l \in Leases :
           /\ token[w] = NoLease /\ l # NoLease
           /\ \A g \in Heads : leaseId[g] # l
           /\ \A v \in Workers : token[v] # l
           /\ jobStatus[h] # "absent" /\ wait[h] = 0
           /\ jobStatus' = [jobStatus EXCEPT ![h] = "running"]
           /\ leaseId' = [leaseId EXCEPT ![h] = l]
           /\ wait' = [wait EXCEPT ![h] = Visibility]
           /\ job' = [job EXCEPT ![w] = h]
           /\ token' = [token EXCEPT ![w] = l]
           /\ full' = [full EXCEPT ![w] = jobFull[h]]
<1>1. PICK h \in Heads, l \in Leases \ Queue!InUse :
        /\ Queue!Leasable(h)
        /\ jobStatus' = [jobStatus EXCEPT ![h] = "running"]
        /\ leaseId' = [leaseId EXCEPT ![h] = l]
        /\ wait' = [wait EXCEPT ![h] = Visibility]
        /\ job' = [job EXCEPT ![w] = h]
        /\ token' = [token EXCEPT ![w] = l]
  BY DEF Lease, Queue!Lease
<1>2. l # NoLease /\ (\A g \in Heads : leaseId[g] # l) /\ (\A v \in Workers : token[v] # l)
  BY DEF Queue!InUse, PreviewerAssumption, Queue!QueueAssumption
<1>3. jobStatus[h] # "absent" /\ wait[h] = 0
  BY <1>1 DEF Queue!Leasable, Queue!Live
<1>4. full' = [full EXCEPT ![w] = jobFull[h]]
  BY <1>1 DEF Lease, Queue!TypeOK
<1>5. token[w] = NoLease
  BY DEF Lease, Queue!Lease
<1> QED
  BY <1>1, <1>2, <1>3, <1>4, <1>5

\* What the pipeline does between the claim and the end: no row changes.
LEMMA Worked ==
  ASSUME Review!TypeOK, NEW r \in Runs, Work(r)
  PROVE  /\ pc[r] # "idle" /\ pc'[r] # "idle"
         /\ \A s \in Runs \ {r} : pc'[s] = pc[s]
         /\ UNCHANGED <<runStatus, owner, age, head, claim, stuck, overtaken, forcedRuns>>
         /\ UNCHANGED <<faults, queueVars, prVars, workVars>>
  BY DEF Work, Review!TypeOK, Review!StartReview, Review!Reviewed, Review!ListComments,
         Review!Upsert, Review!Goto, Review!rowVars, Review!leftBehind, Review!history

\* What the end of a run does to it.
LEMMA Ended ==
  ASSUME Review!TypeOK, NEW r \in Runs,
         \/ Review!Skip(r) \/ Review!Record(r) \/ Review!Crash(r)
         \/ Review!Throw(r) \/ Review!ReleaseFails(r)
  PROVE  /\ pc[r] # "idle" /\ pc'[r] = "idle"
         /\ \A s \in Runs \ {r} : pc'[s] = pc[s] /\ head'[s] = head[s] /\ claim'[s] = claim[s]
         /\ UNCHANGED <<overtaken, forcedRuns>>
  BY DEF Review!TypeOK, Review!Skip, Review!Record, Review!Throw, Review!ReleaseFails,
         Review!Crash, Review!End, Review!Active, Review!history

\* What the clock leaves alone, and what it does to a row and its claim.
LEMMA Ticked ==
  ASSUME Queue!TypeOK, Review!TypeOK, Tick
  PROVE  /\ UNCHANGED <<jobStatus, leaseId, job, token>>
         /\ UNCHANGED <<runStatus, owner, pc, head, claim, stuck, overtaken, prVars, workVars>>
         /\ \A h \in Heads : runStatus[h] = "running" /\ age'[h] <= Stale
              => /\ age[h] <= Stale
                 /\ wait[h] > 0 => wait'[h] + age'[h] = wait[h] + age[h]
<1>1. UNCHANGED <<jobStatus, leaseId, job, token>>
  BY DEF Tick, Queue!Tick, queueVars
<1>2. UNCHANGED <<runStatus, owner, pc, head, claim, stuck, overtaken, prVars, workVars>>
  BY DEF Tick, Review!Tick, Review!runVars, Review!leftBehind, Review!history, runsVars
<1>3. ASSUME NEW h \in Heads, runStatus[h] = "running", age'[h] <= Stale
      PROVE  age[h] <= Stale /\ (wait[h] > 0 => wait'[h] + age'[h] = wait[h] + age[h])
  <2> USE DEF Queue!TypeOK, Review!TypeOK
  <2>1. Review!Tick => age'[h] = (IF age[h] <= Stale THEN age[h] + 1 ELSE age[h])
    BY <1>3 DEF Review!Tick, Review!Aging
  <2>2. Queue!Tick => wait'[h] = (IF wait[h] > 0 THEN wait[h] - 1 ELSE wait[h])
    BY DEF Queue!Tick, Queue!Elapse
  <2>3. Review!Aging = {} => age[h] > Stale
    BY <1>3 DEF Review!Aging, PreviewerAssumption, Review!RunsAssumption
  <2>4. age[h] \in Nat /\ wait[h] \in Nat /\ Stale \in Nat
    BY DEF PreviewerAssumption, Review!RunsAssumption
  <2>5. CASE Queue!Tick /\ Review!Tick
    BY <1>3, <2>1, <2>2, <2>4, <2>5
  <2>6. CASE Review!Aging = {} /\ UNCHANGED runsVars
    BY <1>3, <2>3, <2>4, <2>6 DEF runsVars
  <2>7. CASE Review!Tick /\ wait[h] = 0
    BY <1>3, <2>1, <2>4, <2>7
  <2> QED
    BY <2>5, <2>6, <2>7 DEF Tick
<1> QED
  BY <1>1, <1>2, <1>3

\* Workers stay in order (loop.ts:60-126).
LEMMA WorkersStep ==
  ASSUME OwnTypeOK, Queue!TypeOK, Queue!LeaseDiscipline, Review!TypeOK,
         WorkersInOrder, [Next]_vars
  PROVE  WorkersInOrder'
<1> USE DEF WorkersInOrder, Busy, Runs, prVars, workVars, queueVars, runsVars
<1>0. /\ jobStatus \in [Heads -> Queue!Statuses] /\ job \in [Workers -> Heads \cup {NoHead}]
      /\ token \in [Workers -> Leases \cup {NoLease}]
      /\ pc \in [Runs -> Review!Steps] /\ looked \in [Runs -> Heads \cup {NoHead}]
      /\ outcome \in [Workers -> {"none", "ack", "retry"}] /\ prHead \in Heads
  BY DEF OwnTypeOK, Queue!TypeOK, Review!TypeOK
<1>1. ASSUME NEW h \in Heads, NEW b \in BOOLEAN, EnqueueAs(h, b) PROVE WorkersInOrder'
  BY <1>0, <1>1 DEF EnqueueAs, Queue!Enqueue
<1>2. CASE Rereview
  <2>1. CASE Queue!Requeue(prHead) /\ UNCHANGED <<runsVars, prVars, full, looked, outcome, excused>>
    BY <1>0, <2>1 DEF Queue!Requeue
  <2> QED
    BY <1>0, <1>1, <1>2, <2>1 DEF Rereview
<1>3. CASE Sweep
  BY <1>0, <1>1, <1>3 DEF Sweep
<1>4. ASSUME NEW h \in Heads, Push(h) \/ Webhook(h) PROVE WorkersInOrder'
  BY <1>1, <1>4 DEF Push, Webhook
<1>5. ASSUME NEW s, Change(s) PROVE WorkersInOrder'
  BY <1>0, <1>5 DEF Change
<1>6. ASSUME NEW w \in Workers, Lease(w) PROVE WorkersInOrder'
  <2>1. PICK h \in Heads, l \in Leases :
           /\ l # NoLease /\ jobStatus[h] # "absent" /\ token[w] = NoLease
           /\ jobStatus' = [jobStatus EXCEPT ![h] = "running"]
           /\ job' = [job EXCEPT ![w] = h]
           /\ token' = [token EXCEPT ![w] = l]
    BY <1>6, Leased
  <2>2. UNCHANGED <<pc, looked, outcome>>
    BY <1>0, <1>6 DEF Lease
  <2> QED
    BY <1>0, <2>1, <2>2
<1>7. ASSUME NEW w \in Workers, NotOpen(w) \/ LookFails(w) PROVE WorkersInOrder'
  BY <1>0, <1>7 DEF NotOpen, LookFails, Fresh
<1>8. ASSUME NEW w \in Workers, Settle(w) PROVE WorkersInOrder'
  <2>1. /\ \A h \in Heads : jobStatus'[h] = "absent" => jobStatus[h] = "absent"
        /\ outcome[w] # "none" /\ Forget(w)
        /\ job' = [job EXCEPT ![w] = NoHead] /\ token' = [token EXCEPT ![w] = NoLease]
    BY <1>8, Verdict
  <2>2. UNCHANGED pc
    BY <1>0, <1>8 DEF Settle
  <2> QED
    BY <1>0, <2>1, <2>2 DEF Forget
<1>9. ASSUME NEW w \in Workers, WorkerDies(w) PROVE WorkersInOrder'
  <2>1. pc'[w] = "idle" /\ \A s \in Runs \ {w} : pc'[s] = pc[s]
    BY <1>9, Ended DEF WorkerDies
  <2>2. /\ job' = [job EXCEPT ![w] = NoHead] /\ token' = [token EXCEPT ![w] = NoLease]
        /\ UNCHANGED jobStatus /\ Forget(w)
    BY <1>0, <1>9 DEF WorkerDies, Queue!Crash, Queue!PutDown, Queue!queueVars
  <2> QED
    BY <1>0, <2>1, <2>2 DEF Forget
<1>10. ASSUME NEW r \in Runs, Look(r) PROVE WorkersInOrder'
  BY <1>0, <1>10 DEF Look, Fresh
<1>11. ASSUME NEW r \in Runs, NEW force \in BOOLEAN, Claim(r, force) PROVE WorkersInOrder'
  BY <1>0, <1>11 DEF Claim, Looking, Review!Claim, Review!Goto
<1>12. ASSUME NEW r \in Runs, Duplicate(r) PROVE WorkersInOrder'
  BY <1>0, <1>12 DEF Duplicate, Outcome, Looking
<1>13. ASSUME NEW r \in Runs, Work(r) PROVE WorkersInOrder'
  BY <1>0, <1>13, Worked
<1>14. ASSUME NEW r \in Runs, Ends(r) PROVE WorkersInOrder'
  <2>1. PICK o \in {"ack", "retry"} : Outcome(r, o)
    BY <1>0, <1>14 DEF Ends
  <2>2. pc[r] # "idle" /\ pc'[r] = "idle" /\ \A s \in Runs \ {r} : pc'[s] = pc[s]
    BY <1>14, Ended DEF Ends
  <2>3. UNCHANGED <<token, job, jobStatus>> /\ looked[r] = NoHead
    BY <1>14, Ended DEF Ends
  <2> QED
    BY <1>0, <2>1, <2>2, <2>3 DEF Outcome
<1>15. ASSUME NEW o \in Operators, OperatorDies(o) PROVE WorkersInOrder'
  BY <1>0, <1>15, Ended DEF OperatorDies
<1>16. CASE Tick
  BY <1>16, Ticked DEF Tick
<1>17. CASE UNCHANGED vars
  BY <1>0, <1>17 DEF vars
<1> QED
  BY <1>2, <1>3, <1>4, <1>5, <1>6, <1>7, <1>8, <1>9, <1>10, <1>11, <1>12, <1>13, <1>14,
     <1>15, <1>16, <1>17 DEF Next

-----------------------------------------------------------------------------
(* The invariant behind DoneMeansCovered                                   *)

\* The heads the question is not about.
Beyond == excused \cup overtaken

\* The worker's job still carries its lease.
Holds(w) == Busy(w) /\ leaseId[job[w]] = token[w]

\* Another run may not claim the head yet.
LiveClaim(h) == runStatus[h] = "running" /\ age[h] <= Stale

Covered(h) == runStatus[h] \in {"ok", "skipped"}

\* A worker in the pipeline works on its job's head, or both heads are beyond.
OnItsJob ==
  /\ \A w \in Workers : pc[w] # "idle" => head[w] = job[w] \/ {head[w], job[w]} \subseteq excused
  /\ \A o \in Operators : pc[o] # "idle" => head[o] \in excused

\* Under its lease a worker knows whether the job is forced.
KnowsForced ==
  /\ \A w \in Workers : Holds(w) => (full[w] <=> jobFull[job[w]])
  /\ \A h \in Heads : jobStatus[h] = "absent" => ~jobFull[h]

\* Before its claim, a worker on an unforced job has its lease, and all of it.
LeaseIsFresh ==
  \A w \in Workers :
    Busy(w) /\ outcome[w] = "none" /\ pc[w] = "idle" /\ ~jobFull[job[w]]
      => Holds(w) /\ wait[job[w]] = Visibility

\* A lease outlives the claim made under it: whoever leases the job next finds a
\* claim that can be taken over.  Only a failed release leaves a claim behind whose
\* worker gives the lease back.
LeaseOutlivesClaim ==
  \A h \in Heads \ (Beyond \cup stuck) : ~jobFull[h] /\ LiveClaim(h) => wait[h] + age[h] >= Visibility

\* A worker that has its lease and is out of the pipeline sees no live claim.
NoClaimAhead ==
  \A w \in Workers :
    Holds(w) /\ pc[w] = "idle" /\ ~jobFull[job[w]] /\ job[w] \notin Beyond \cup stuck
      => ~LiveClaim(job[w])

\* A job about to be acked is covered.
AckMeansCovered ==
  \A w \in Workers :
    Holds(w) /\ outcome[w] = "ack" /\ job[w] \notin Beyond => Covered(job[w])

CoverageInv ==
  /\ OnItsJob
  /\ KnowsForced
  /\ LeaseIsFresh
  /\ LeaseOutlivesClaim
  /\ NoClaimAhead
  /\ AckMeansCovered
  /\ DoneMeansCovered

\* What the proof needs of the rows' types.
Shapes ==
  /\ jobStatus \in [Heads -> Queue!Statuses]
  /\ leaseId \in [Heads -> Leases \cup {NoLease}] /\ NoLease \notin Leases
  /\ wait \in [Heads -> Nat]
  /\ job \in [Workers -> Heads \cup {NoHead}] /\ token \in [Workers -> Leases \cup {NoLease}]
  /\ age \in [Heads -> Nat]
  /\ runStatus \in [Heads -> {"none", "running"} \cup Review!Results]
  /\ owner \in [Heads -> Claims \cup {NoClaim}]
  /\ pc \in [Runs -> Review!Steps]
  /\ head \in [Runs -> Heads \cup {NoHead}] /\ claim \in [Runs -> Claims \cup {NoClaim}]
  /\ looked \in [Runs -> Heads \cup {NoHead}]
  /\ outcome \in [Workers -> {"none", "ack", "retry"}]
  /\ jobFull \in [Heads -> BOOLEAN] /\ full \in [Workers -> BOOLEAN]
  /\ prHead \in Heads
  /\ Stale \in Nat /\ Visibility \in Nat /\ Visibility > Stale /\ Workers \cap Operators = {}
  /\ NoHead \notin Heads

\* They are part of the type invariants.
LEMMA ShapesHold == OwnTypeOK /\ Queue!TypeOK /\ Review!TypeOK => Shapes
  BY DEF Shapes, OwnTypeOK, Queue!TypeOK, Review!TypeOK, PreviewerAssumption,
         Queue!QueueAssumption, Review!RunsAssumption

\* Where nothing a coverage depends on moves, CoverageInv stays.
LEMMA NothingMoves ==
  ASSUME CoverageInv, UNCHANGED <<jobStatus, leaseId, wait, job, token, jobFull, full, outcome>>,
         UNCHANGED <<runStatus, age, head, stuck, overtaken, excused>>,
         \A r \in Runs : pc'[r] = "idle" <=> pc[r] = "idle"
  PROVE  CoverageInv'
<1> USE DEF CoverageInv, Busy, Holds, Beyond, LiveClaim, Covered, Runs
<1>1. OnItsJob'
  BY DEF OnItsJob
<1>2. KnowsForced' /\ LeaseIsFresh'
  BY DEF KnowsForced, LeaseIsFresh
<1>3. LeaseOutlivesClaim' /\ NoClaimAhead' /\ AckMeansCovered' /\ DoneMeansCovered'
  BY DEF LeaseOutlivesClaim, NoClaimAhead, AckMeansCovered, DoneMeansCovered
<1> QED
  BY <1>1, <1>2, <1>3

\* A new row: nobody holds it.
LEMMA EnqueueKeeps ==
  ASSUME Shapes, WorkersInOrder, CoverageInv, NEW h \in Heads, NEW b \in BOOLEAN, EnqueueAs(h, b)
  PROVE  CoverageInv'
<1> USE DEF CoverageInv, Busy, Holds, Beyond, LiveClaim, Covered
<1>1. /\ jobStatus[h] = "absent" /\ jobStatus' = [jobStatus EXCEPT ![h] = "queued"]
      /\ jobFull' = [jobFull EXCEPT ![h] = b]
      /\ UNCHANGED <<leaseId, wait, job, token, full, outcome>>
      /\ UNCHANGED <<runStatus, age, head, stuck, overtaken, excused, pc>>
  BY DEF EnqueueAs, Queue!Enqueue, runsVars
<1>2. \A w \in Workers : Busy(w) => job[w] \in Heads /\ job[w] # h
  BY <1>1 DEF WorkersInOrder
<1>3. OnItsJob'
  BY <1>1 DEF OnItsJob
<1>4. ~jobFull[h] /\ \A g \in Heads \ {h} : jobFull'[g] = jobFull[g] /\ jobStatus'[g] = jobStatus[g]
  BY <1>1 DEF KnowsForced, Shapes
<1>5. jobStatus'[h] = "queued"
  BY <1>1 DEF Shapes
<1>6. KnowsForced'
  BY <1>1, <1>2, <1>4, <1>5 DEF KnowsForced
<1>7. LeaseIsFresh' /\ NoClaimAhead'
  BY <1>1, <1>2, <1>4 DEF LeaseIsFresh, NoClaimAhead
<1>8. LeaseOutlivesClaim'
  BY <1>1, <1>4 DEF LeaseOutlivesClaim
<1>9. AckMeansCovered' /\ DoneMeansCovered'
  BY <1>1, <1>4, <1>5 DEF AckMeansCovered, DoneMeansCovered
<1> QED
  BY <1>3, <1>6, <1>7, <1>8, <1>9

\* /rereview of a row: it is forced from now on, and its lease is gone.
LEMMA RequeueKeeps ==
  ASSUME Shapes, WorkersInOrder, CoverageInv, Queue!Requeue(prHead),
         jobFull' = [jobFull EXCEPT ![prHead] = TRUE],
         UNCHANGED <<runsVars, full, outcome, excused>>
  PROVE  CoverageInv'
<1> USE DEF CoverageInv, Busy, Holds, Beyond, LiveClaim, Covered
<1>1. /\ jobStatus[prHead] # "absent" /\ jobStatus'[prHead] = "queued" /\ leaseId'[prHead] = NoLease
      /\ jobFull'[prHead]
      /\ \A g \in Heads \ {prHead} : /\ jobStatus'[g] = jobStatus[g] /\ leaseId'[g] = leaseId[g]
                                     /\ wait'[g] = wait[g] /\ (jobFull'[g] <=> jobFull[g])
      /\ UNCHANGED <<job, token, full, outcome>>
      /\ UNCHANGED <<runStatus, age, head, stuck, overtaken, excused, pc>>
  BY DEF Queue!Requeue, runsVars, Shapes
<1>2. \A w \in Workers : Busy(w) => job[w] \in Heads
  BY DEF WorkersInOrder
<1>3. \A w \in Workers : Holds(w)' => Holds(w) /\ job[w] # prHead
  BY <1>1, <1>2
<1>4. OnItsJob'
  BY <1>1 DEF OnItsJob
<1>5. KnowsForced'
  BY <1>1, <1>2, <1>3 DEF KnowsForced
<1>6. LeaseIsFresh'
  BY <1>1, <1>2 DEF LeaseIsFresh
<1>7. LeaseOutlivesClaim' /\ NoClaimAhead'
  BY <1>1, <1>2, <1>3 DEF LeaseOutlivesClaim, NoClaimAhead
<1>8. AckMeansCovered' /\ DoneMeansCovered'
  BY <1>1, <1>3 DEF AckMeansCovered, DoneMeansCovered
<1> QED
  BY <1>4, <1>5, <1>6, <1>7, <1>8

\* A lease: an unforced job that waits no more has no live claim, because the lease
\* under which the last claim was made has expired since.
LEMMA LeaseKeeps ==
  ASSUME Queue!TypeOK, Shapes, WorkersInOrder, CoverageInv, NEW w \in Workers, Lease(w)
  PROVE  CoverageInv'
<1> USE DEF CoverageInv, Busy, Holds, Beyond, LiveClaim, Covered
<1>1. PICK h \in Heads, l \in Leases :
        /\ token[w] = NoLease /\ l # NoLease
        /\ \A g \in Heads : leaseId[g] # l
        /\ \A v \in Workers : token[v] # l
        /\ jobStatus[h] # "absent" /\ wait[h] = 0
        /\ jobStatus' = [jobStatus EXCEPT ![h] = "running"]
        /\ leaseId' = [leaseId EXCEPT ![h] = l]
        /\ wait' = [wait EXCEPT ![h] = Visibility]
        /\ job' = [job EXCEPT ![w] = h]
        /\ token' = [token EXCEPT ![w] = l]
        /\ full' = [full EXCEPT ![w] = jobFull[h]]
  BY Leased
<1>2. /\ jobStatus'[h] = "running" /\ leaseId'[h] = l /\ wait'[h] = Visibility
      /\ job'[w] = h /\ token'[w] = l /\ (full'[w] <=> jobFull[h])
      /\ \A g \in Heads \ {h} : jobStatus'[g] = jobStatus[g] /\ leaseId'[g] = leaseId[g] /\ wait'[g] = wait[g]
      /\ \A v \in Workers \ {w} : job'[v] = job[v] /\ token'[v] = token[v] /\ (full'[v] <=> full[v])
  BY <1>1 DEF Shapes
<1>3. UNCHANGED <<runStatus, age, head, stuck, overtaken, excused, pc, jobFull, outcome>>
  BY DEF Lease, runsVars
<1>4. pc[w] = "idle" /\ outcome[w] = "none" /\ \A v \in Workers : Busy(v) => job[v] \in Heads
  BY <1>1 DEF WorkersInOrder
<1>5. \A v \in Workers \ {w} : Holds(v)' => Holds(v) /\ job[v] # h
  BY <1>1, <1>2, <1>4
<1>6. OnItsJob'
  BY <1>2, <1>3, <1>4 DEF OnItsJob
<1>7. KnowsForced'
  BY <1>1, <1>2, <1>3, <1>5 DEF KnowsForced
<1>8. LeaseIsFresh'
  <2>1. \A v \in Workers \ {w} :
          Busy(v) /\ outcome[v] = "none" /\ pc[v] = "idle" /\ ~jobFull[job[v]] => job[v] # h
    BY <1>1 DEF LeaseIsFresh, Shapes
  <2> QED
    BY <1>1, <1>2, <1>3, <1>4, <2>1 DEF LeaseIsFresh
<1>9. LeaseOutlivesClaim'
  BY <1>2, <1>3 DEF LeaseOutlivesClaim, Shapes
<1>10. NoClaimAhead'
  <2>1. ~jobFull[h] /\ h \notin Beyond \cup stuck => ~LiveClaim(h)
    BY <1>1 DEF LeaseOutlivesClaim, Shapes
  <2> QED
    BY <1>2, <1>3, <1>5, <2>1 DEF NoClaimAhead
<1>11. AckMeansCovered' /\ DoneMeansCovered'
  BY <1>2, <1>3, <1>4, <1>5 DEF AckMeansCovered, DoneMeansCovered
<1> QED
  BY <1>6, <1>7, <1>8, <1>9, <1>10, <1>11

\* The run does not start: the PR is not open, or GitHub fails.
LEMMA NoLookKeeps ==
  ASSUME Shapes, WorkersInOrder, CoverageInv, NEW w \in Workers, NotOpen(w) \/ LookFails(w)
  PROVE  CoverageInv'
<1> USE DEF CoverageInv, Busy, Holds, Beyond, LiveClaim, Covered
<1>1. /\ UNCHANGED <<jobStatus, leaseId, wait, job, token, jobFull, full>>
      /\ UNCHANGED <<runStatus, age, head, stuck, overtaken, pc>>
  BY DEF NotOpen, LookFails, queueVars, runsVars
<1>2. /\ excused \subseteq excused' /\ outcome'[w] # "none"
      /\ outcome'[w] = "ack" => job[w] \in excused'
      /\ \A v \in Workers \ {w} : outcome'[v] = outcome[v]
  BY DEF NotOpen, LookFails, Shapes
<1>3. OnItsJob' /\ KnowsForced'
  BY <1>1, <1>2 DEF OnItsJob, KnowsForced
<1>4. LeaseIsFresh'
  BY <1>1, <1>2 DEF LeaseIsFresh
<1>5. LeaseOutlivesClaim' /\ NoClaimAhead'
  BY <1>1, <1>2 DEF LeaseOutlivesClaim, NoClaimAhead
<1>6. AckMeansCovered' /\ DoneMeansCovered'
  BY <1>1, <1>2 DEF AckMeansCovered, DoneMeansCovered
<1> QED
  BY <1>3, <1>4, <1>5, <1>6

\* Two workers with one row's lease are one worker.
LEMMA OneHolder ==
  ASSUME Queue!LeaseDiscipline, NEW v \in Workers, NEW w \in Workers,
         Holds(v), Holds(w), job[v] = job[w]
  PROVE  v = w
  BY DEF Queue!LeaseDiscipline, Holds, Busy

\* The row of a held job is running.
LEMMA HeldRuns ==
  ASSUME Queue!LeaseDiscipline, NEW w \in Workers, Holds(w), job[w] \in Heads
  PROVE  jobStatus[job[w]] = "running"
  BY DEF Queue!LeaseDiscipline, Holds, Busy

\* A claim on a head that is not beyond is its worker's, who has the lease if the
\* job is forced, and the whole of it if it is not.
LEMMA ClaimIsDue ==
  ASSUME Shapes, WorkersInOrder, CoverageInv, NEW r \in Runs, NEW force \in BOOLEAN,
         Claim(r, force), looked[r] \notin excused'
  PROVE  /\ r \in Workers /\ Busy(r) /\ job[r] = looked[r]
         /\ ~jobFull[looked[r]] => Holds(r) /\ wait[looked[r]] = Visibility
         /\ Covered(looked[r]) => Holds(r)
<1> USE DEF Busy
<1>1. /\ looked[r] # NoHead /\ pc[r] = "idle"
      /\ r \in Workers => (force <=> full[r])
      /\ Review!Claimable(looked[r], force)
      /\ excused' = excused \cup Outside(r, looked[r]) \cup (IF Unleased(r, force) THEN {job[r]} ELSE {})
  BY DEF Claim, Looking, Review!Claim
<1>2. r \in Workers /\ job[r] = looked[r] /\ ~Unleased(r, force)
  BY <1>1 DEF Outside, Runs
<1>3. Busy(r) /\ outcome[r] = "none"
  BY <1>1, <1>2 DEF WorkersInOrder
<1>4. ~jobFull[looked[r]] => Holds(r) /\ wait[looked[r]] = Visibility
  BY <1>1, <1>2, <1>3 DEF CoverageInv, LeaseIsFresh
<1>5. force => Holds(r)
  BY <1>2, <1>3 DEF Unleased, Holds
<1>6. Covered(looked[r]) => force
  BY <1>1 DEF Review!Claimable, Covered
<1> QED
  BY <1>2, <1>3, <1>4, <1>5, <1>6

\* The claim: nothing that is done or about to be is claimed again, and the lease
\* over a claim on an unforced job has just begun.
LEMMA ClaimKeeps ==
  ASSUME Queue!LeaseDiscipline, Shapes, WorkersInOrder, CoverageInv,
         NEW r \in Runs, NEW force \in BOOLEAN, Claim(r, force)
  PROVE  CoverageInv'
<1> DEFINE h == looked[r]
<1>1. /\ r \in Workers /\ h \notin excused' => Busy(r) /\ job[r] = h
      /\ h \notin excused' => r \in Workers
      /\ h \notin excused' /\ ~jobFull[h] => Holds(r) /\ wait[h] = Visibility
      /\ h \notin excused' /\ Covered(h) => Holds(r)
  BY ClaimIsDue
<1>2. ASSUME NEW w \in Workers, Holds(w), job[w] = h, h \notin excused', Holds(r), r \in Workers
      PROVE  w = r
  BY <1>1, <1>2, OneHolder
<1>3. h \notin excused' /\ Covered(h) => jobStatus[h] # "done"
  <2>1. h \in Heads
    BY DEF Claim, Looking, Shapes
  <2> QED
    BY <1>1, <2>1, HeldRuns
<1>4. /\ h \in Heads /\ pc'[r] # "idle" /\ head'[r] = h
      /\ runStatus'[h] = "running" /\ age'[h] = 0
      /\ \A g \in Heads \ {h} : runStatus'[g] = runStatus[g] /\ age'[g] = age[g]
      /\ stuck' = stuck \ {h}
      /\ \A s \in Runs \ {r} : pc'[s] = pc[s] /\ head'[s] = head[s]
      /\ excused \subseteq excused' /\ overtaken \subseteq overtaken'
      /\ UNCHANGED <<jobStatus, leaseId, wait, job, token, jobFull, full, outcome>>
  BY DEF Claim, Looking, Review!Claim, Review!Goto, Shapes, queueVars
<1>5. r \in Workers => Busy(r) /\ outcome[r] = "none"
  BY DEF WorkersInOrder, Claim, Looking
<1> USE DEF CoverageInv, Busy, Holds, Beyond, LiveClaim, Covered
<1>6. OnItsJob'
  <2>1. r \in Workers => job[r] = h \/ {h, job[r]} \subseteq excused'
    BY DEF Claim, Outside, Shapes
  <2>2. r \in Operators => h \in excused'
    BY DEF Claim, Outside
  <2> QED
    BY <1>4, <2>1, <2>2 DEF OnItsJob, Runs
<1>7. KnowsForced' /\ LeaseIsFresh'
  BY <1>4 DEF KnowsForced, LeaseIsFresh, Runs
<1>8. LeaseOutlivesClaim'
  BY <1>1, <1>4 DEF LeaseOutlivesClaim, Shapes
<1>9. NoClaimAhead'
  <2> SUFFICES ASSUME NEW w \in Workers, Holds(w), pc'[w] = "idle", ~jobFull[job[w]],
                      job[w] \notin Beyond' \cup stuck', LiveClaim(job[w])'
               PROVE  FALSE
    BY <1>4 DEF NoClaimAhead
  <2>1. w # r /\ pc[w] = "idle"
    BY <1>4 DEF Runs
  <2>2. job[w] # h
    BY <1>1, <1>2, <2>1
  <2> QED
    BY <1>4, <1>5, <2>1, <2>2 DEF NoClaimAhead, WorkersInOrder
<1>10. AckMeansCovered'
  <2> SUFFICES ASSUME NEW w \in Workers, Holds(w), outcome[w] = "ack", job[w] \notin Beyond'
               PROVE  Covered(job[w])'
    BY <1>4 DEF AckMeansCovered
  <2>1. Covered(job[w]) /\ w # r
    BY <1>4, <1>5 DEF AckMeansCovered
  <2>2. job[w] # h
    BY <1>1, <1>2, <2>1
  <2> QED
    BY <1>4, <2>1, <2>2 DEF WorkersInOrder
<1>11. DoneMeansCovered'
  BY <1>3, <1>4 DEF DoneMeansCovered
<1> QED
  BY <1>6, <1>7, <1>8, <1>9, <1>10, <1>11

\* The duplicate: a worker that has its lease and may not claim its job's head acks
\* the job because the head is covered, never because a claim is still alive.
LEMMA DuplicateKeeps ==
  ASSUME Shapes, WorkersInOrder, CoverageInv, NEW r \in Runs, Duplicate(r)
  PROVE  CoverageInv'
<1> USE DEF CoverageInv, Busy, Beyond
<1>1. /\ UNCHANGED <<jobStatus, leaseId, wait, job, token, jobFull, full>>
      /\ UNCHANGED <<runStatus, age, head, stuck, overtaken, pc>>
      /\ excused \subseteq excused' /\ looked[r] \in Heads
      /\ r \in Workers => outcome'[r] = "ack"
      /\ \A w \in Workers \ {r} : outcome'[w] = outcome[w]
  BY DEF Duplicate, Outcome, Looking, Shapes, queueVars, runsVars
<1>2. OnItsJob' /\ KnowsForced'
  BY <1>1 DEF OnItsJob, KnowsForced, Holds
<1>3. LeaseIsFresh'
  BY <1>1 DEF LeaseIsFresh, Holds
<1>4. LeaseOutlivesClaim' /\ NoClaimAhead'
  BY <1>1 DEF LeaseOutlivesClaim, NoClaimAhead, LiveClaim, Holds
<1>5. DoneMeansCovered'
  BY <1>1 DEF DoneMeansCovered
<1>6. ASSUME r \in Workers, Holds(r), job[r] \notin Beyond' PROVE Covered(job[r])
  <2>1. job[r] = looked[r]
    BY <1>1, <1>6 DEF Duplicate, Outside, Shapes
  <2>2. pc[r] = "idle"
    BY <1>1 DEF WorkersInOrder, Duplicate, Looking
  <2>3. /\ ~full[r] /\ runStatus[looked[r]] \notin {"none", "error"}
        /\ ~(runStatus[looked[r]] = "running" /\ age[looked[r]] > Stale)
    BY <1>6 DEF Duplicate, Review!Claimable
  <2>4. ~jobFull[job[r]]
    BY <1>6, <2>3 DEF KnowsForced
  <2>5. job[r] \notin stuck
    BY <1>6, <2>1 DEF Duplicate
  <2>6. ~LiveClaim(job[r])
    BY <1>1, <1>6, <2>2, <2>4, <2>5 DEF NoClaimAhead
  <2> QED
    BY <1>1, <2>1, <2>3, <2>6 DEF LiveClaim, Covered, Shapes, Review!Results
<1>7. AckMeansCovered'
  BY <1>1, <1>6 DEF AckMeansCovered, Covered, Holds
<1> QED
  BY <1>2, <1>3, <1>4, <1>5, <1>7

\* What the end of a run does to its row: a run that nothing overtook leaves no
\* claim behind, unless its release fails, and reports a success only with the row
\* that says so.
LEMMA Reported ==
  ASSUME Review!TypeOK, Solo, NEW r \in Runs, Ends(r)
  PROVE  \E o \in {"ack", "retry"} :
           /\ Outcome(r, o) /\ head[r] \in Heads
           /\ \A g \in Heads \ {head[r]} :
                runStatus'[g] = runStatus[g] /\ age'[g] = age[g] /\ (g \in stuck => g \in stuck')
           /\ head[r] \notin overtaken =>
                /\ runStatus[head[r]] = "running"
                /\ runStatus'[head[r]] # "running" \/ head[r] \in stuck'
                /\ o = "ack" => runStatus'[head[r]] \in {"ok", "skipped"}
<1> DEFINE h == head[r]
<1>1. /\ h \in Heads /\ runStatus \in [Heads -> {"none", "running"} \cup Review!Results]
      /\ result[r] \in {"ok", "error", "skipped"} /\ age \in [Heads -> 0..(Stale + 1)]
  BY DEF Review!TypeOK, Review!Results, Ends, Review!Skip, Review!Record, Review!Throw,
         Review!ReleaseFails, Review!Active
<1>2. h \notin overtaken => runStatus[h] = "running" /\ owner[h] = claim[r]
  BY <1>1 DEF Solo, Review!On, Review!Active, Ends, Review!Skip, Review!Record,
              Review!Throw, Review!ReleaseFails
<1>3. ASSUME NEW res \in {"ok", "error", "skipped"}, Review!RecordRun(r, res)
      PROVE  /\ \A g \in Heads \ {h} :
                  runStatus'[g] = runStatus[g] /\ age'[g] = age[g] /\ (g \in stuck => g \in stuck')
             /\ runStatus'[h] = res
  BY <1>1, <1>3 DEF Review!RecordRun
<1>4. CASE Review!Skip(r) /\ Outcome(r, "ack")
  <2>1. Review!RecordRun(r, "skipped")
    BY <1>4 DEF Review!Skip
  <2> QED
    BY <1>1, <1>2, <1>3, <1>4, <2>1
<1>5. CASE Review!Record(r) /\ Outcome(r, IF result[r] = "error" THEN "retry" ELSE "ack")
  <2>1. Review!RecordRun(r, result[r])
    BY <1>5 DEF Review!Record
  <2>2. /\ runStatus'[h] = result[r]
        /\ \A g \in Heads \ {h} :
             runStatus'[g] = runStatus[g] /\ age'[g] = age[g] /\ (g \in stuck => g \in stuck')
    BY <1>1, <1>3, <2>1
  <2>3. CASE result[r] = "error"
    BY <1>1, <1>2, <1>5, <2>2, <2>3
  <2>4. CASE result[r] # "error"
    BY <1>1, <1>2, <1>5, <2>2, <2>4
  <2> QED
    BY <2>3, <2>4
<1>6. CASE Review!Throw(r) /\ Outcome(r, "retry")
  <2>1. /\ \A g \in Heads \ {h} : runStatus'[g] = runStatus[g] /\ age'[g] = age[g]
        /\ h \notin overtaken => runStatus'[h] = "none"
        /\ UNCHANGED stuck
    BY <1>1, <1>2, <1>6 DEF Review!Throw, Review!Released, Review!history, Review!leftBehind
  <2> QED
    BY <1>1, <1>2, <1>6, <2>1
<1>7. CASE Review!ReleaseFails(r) /\ Outcome(r, "retry")
  <2>1. /\ UNCHANGED <<runStatus, age>> /\ stuck \subseteq stuck'
        /\ h \notin overtaken => h \in stuck'
    BY <1>1, <1>2, <1>7 DEF Review!ReleaseFails, Review!Abandoned, Review!Owns, Review!rowVars
  <2> QED
    BY <1>1, <1>2, <1>7, <2>1
<1> QED
  BY <1>4, <1>5, <1>6, <1>7 DEF Ends

\* The end of a run: its job's worker settles what the row says.
LEMMA EndsKeeps ==
  ASSUME Review!TypeOK, Shapes, Solo, WorkersInOrder, CoverageInv, NEW r \in Runs, Ends(r)
  PROVE  CoverageInv'
<1>1. PICK o \in {"ack", "retry"} :
        /\ Outcome(r, o) /\ head[r] \in Heads
        /\ \A g \in Heads \ {head[r]} :
             runStatus'[g] = runStatus[g] /\ age'[g] = age[g] /\ (g \in stuck => g \in stuck')
        /\ head[r] \notin overtaken =>
             /\ runStatus[head[r]] = "running"
             /\ runStatus'[head[r]] # "running" \/ head[r] \in stuck'
             /\ o = "ack" => runStatus'[head[r]] \in {"ok", "skipped"}
  BY Reported
<1>2. /\ pc[r] # "idle" /\ pc'[r] = "idle"
      /\ \A s \in Runs \ {r} : pc'[s] = pc[s] /\ head'[s] = head[s]
      /\ UNCHANGED overtaken
  BY Ended DEF Ends
<1>3. UNCHANGED <<jobStatus, leaseId, wait, job, token, jobFull, full, excused>>
  BY DEF Ends, queueVars
<1>4. /\ r \in Workers => outcome'[r] = o
      /\ \A w \in Workers \ {r} : outcome'[w] = outcome[w]
  BY <1>1 DEF Outcome
<1>5. r \in Workers => Busy(r) /\ (head[r] = job[r] \/ {head[r], job[r]} \subseteq excused)
  BY <1>2 DEF WorkersInOrder, CoverageInv, OnItsJob
<1> USE DEF CoverageInv, Busy, Holds, Beyond, LiveClaim, Covered, Runs
<1>6. OnItsJob'
  BY <1>2, <1>3 DEF OnItsJob
<1>7. KnowsForced' /\ LeaseIsFresh'
  BY <1>1, <1>2, <1>3, <1>4 DEF KnowsForced, LeaseIsFresh
<1>8. LeaseOutlivesClaim'
  BY <1>1, <1>2, <1>3 DEF LeaseOutlivesClaim
<1>9. \A w \in Workers : Busy(w) => job[w] \in Heads
  BY DEF WorkersInOrder
<1>10. NoClaimAhead'
  <2>1. r \in Workers /\ job[r] \notin Beyond \cup stuck' => ~LiveClaim(job[r])'
    BY <1>1, <1>3, <1>5
  <2>2. \A w \in Workers \ {r} :
          Busy(w) /\ job[w] \notin Beyond \cup stuck' /\ LiveClaim(job[w])'
            => LiveClaim(job[w]) /\ job[w] \notin stuck
    BY <1>1, <1>3, <1>9
  <2> QED
    BY <1>2, <1>3, <2>1, <2>2 DEF NoClaimAhead
<1>11. AckMeansCovered'
  <2>1. r \in Workers /\ outcome'[r] = "ack" /\ job[r] \notin Beyond => Covered(job[r])'
    BY <1>1, <1>3, <1>4, <1>5
  <2>2. \A w \in Workers \ {r} : Busy(w) /\ job[w] \notin Beyond /\ Covered(job[w]) => Covered(job[w])'
    BY <1>1, <1>3, <1>9
  <2> QED
    BY <1>2, <1>3, <1>4, <2>1, <2>2 DEF AckMeansCovered
<1>12. DoneMeansCovered'
  BY <1>1, <1>2, <1>3 DEF DoneMeansCovered
<1> QED
  BY <1>6, <1>7, <1>8, <1>10, <1>11, <1>12

\* The verdict: an ack under the lease is of a covered head; a retry gives the row
\* back when no live claim is in its way.
LEMMA SettleKeeps ==
  ASSUME Queue!TypeOK, Queue!LeaseDiscipline, Shapes, WorkersInOrder, CoverageInv,
         NEW w \in Workers, Settle(w)
  PROVE  CoverageInv'
<1>1. /\ token[w] # NoLease
      /\ job' = [job EXCEPT ![w] = NoHead] /\ token' = [token EXCEPT ![w] = NoLease]
      /\ Forget(w) /\ outcome[w] # "none"
      /\ \A h \in Heads :
           \/ /\ h = job[w] /\ leaseId[h] = token[w] /\ leaseId'[h] = NoLease
              /\ jobStatus'[h] \in {"queued", "done", "dead_letter"}
              /\ jobStatus'[h] = "done" => outcome[w] = "ack"
              /\ outcome[w] = "ack" => wait'[h] = wait[h]
           \/ jobStatus'[h] = jobStatus[h] /\ leaseId'[h] = leaseId[h] /\ wait'[h] = wait[h]
  BY Verdict
<1>2. /\ UNCHANGED <<runStatus, age, pc, head, stuck, overtaken, jobFull>>
      /\ excused \subseteq excused'
  BY DEF Settle, runsVars
<1>3. /\ ~Busy(w)' /\ outcome'[w] = "none"
      /\ \A v \in Workers \ {w} : /\ job'[v] = job[v] /\ token'[v] = token[v]
                                  /\ outcome'[v] = outcome[v] /\ (full'[v] <=> full[v])
  BY <1>1 DEF Forget, Busy, Shapes
<1>4. pc[w] = "idle" /\ Busy(w) /\ \A v \in Workers : Busy(v) => job[v] \in Heads
  BY <1>1 DEF WorkersInOrder, Busy
<1>5. \A v \in Workers \ {w} : Busy(v) => token[v] # token[w]
  BY DEF Queue!LeaseDiscipline, Busy
<1> USE DEF CoverageInv, Busy, Holds, Beyond, LiveClaim, Covered
<1>6. \A v \in Workers \ {w} : Holds(v)' => Holds(v)
  BY <1>1, <1>3, <1>4
<1>7. OnItsJob'
  BY <1>2, <1>3, <1>4 DEF OnItsJob
<1>8. KnowsForced'
  BY <1>1, <1>2, <1>3, <1>6 DEF KnowsForced
<1>9. LeaseIsFresh'
  <2>1. \A v \in Workers \ {w} : Holds(v) => Holds(v)' /\ wait'[job[v]] = wait[job[v]]
    BY <1>1, <1>3, <1>4, <1>5
  <2> QED
    BY <1>2, <1>3, <2>1 DEF LeaseIsFresh
<1>10. LeaseOutlivesClaim'
  <2> SUFFICES ASSUME NEW h \in Heads, h \notin Beyond \cup stuck, ~jobFull[h], LiveClaim(h)
               PROVE  wait'[h] = wait[h]
    BY <1>2 DEF LeaseOutlivesClaim
  <2>1. ~(h = job[w] /\ leaseId[h] = token[w])
    BY <1>4 DEF NoClaimAhead
  <2> QED
    BY <1>1, <2>1
<1>11. NoClaimAhead' /\ AckMeansCovered'
  BY <1>2, <1>3, <1>6 DEF NoClaimAhead, AckMeansCovered
<1>12. DoneMeansCovered'
  <2> SUFFICES ASSUME NEW h \in Heads, h \notin Beyond, jobStatus'[h] = "done"
               PROVE  Covered(h)
    BY <1>2 DEF DoneMeansCovered
  <2>1. CASE jobStatus[h] = "done"
    BY <2>1 DEF DoneMeansCovered
  <2>2. CASE jobStatus[h] # "done"
    <3>1. h = job[w] /\ leaseId[h] = token[w] /\ outcome[w] = "ack"
      BY <1>1, <2>2
    <3> QED
      BY <1>4, <3>1 DEF AckMeansCovered
  <2> QED
    BY <2>1, <2>2
<1> QED
  BY <1>7, <1>8, <1>9, <1>10, <1>11, <1>12

\* A process that dies leaves rows, leases and claims as they are.
LEMMA DeathKeeps ==
  ASSUME Review!TypeOK, Shapes, WorkersInOrder, CoverageInv,
         NEW r \in Runs, IF r \in Workers THEN WorkerDies(r) ELSE OperatorDies(r)
  PROVE  CoverageInv'
<1>1. /\ pc'[r] = "idle"
      /\ \A s \in Runs \ {r} : pc'[s] = pc[s] /\ head'[s] = head[s]
      /\ UNCHANGED <<runStatus, age, stuck, overtaken>>
  BY Ended DEF WorkerDies, OperatorDies, Review!Crash, Review!rowVars, runsVars
<1>2. UNCHANGED <<jobStatus, leaseId, wait, jobFull, excused>>
  BY DEF WorkerDies, OperatorDies, Queue!Crash, Queue!queueVars, queueVars
<1>3. /\ r \in Workers => token'[r] = NoLease /\ outcome'[r] = "none"
      /\ \A v \in Workers \ {r} : /\ job'[v] = job[v] /\ token'[v] = token[v]
                                  /\ outcome'[v] = outcome[v] /\ (full'[v] <=> full[v])
  BY DEF WorkerDies, OperatorDies, Forget, Queue!Crash, Queue!PutDown, queueVars, Shapes
<1> USE DEF CoverageInv, Busy, Holds, Beyond, LiveClaim, Covered, Runs
<1>4. OnItsJob'
  BY <1>1, <1>2, <1>3 DEF OnItsJob
<1>5. KnowsForced' /\ LeaseIsFresh'
  BY <1>1, <1>2, <1>3 DEF KnowsForced, LeaseIsFresh
<1>6. LeaseOutlivesClaim' /\ NoClaimAhead'
  BY <1>1, <1>2, <1>3 DEF LeaseOutlivesClaim, NoClaimAhead
<1>7. AckMeansCovered' /\ DoneMeansCovered'
  BY <1>1, <1>2, <1>3 DEF AckMeansCovered, DoneMeansCovered
<1> QED
  BY <1>4, <1>5, <1>6, <1>7

\* Time: a row and its claim age together, and no lease ages before its claim.
LEMMA TickKeeps ==
  ASSUME Queue!TypeOK, Review!TypeOK, Shapes, WorkersInOrder, CoverageInv, Tick
  PROVE  CoverageInv'
<1>1. /\ UNCHANGED <<jobStatus, leaseId, job, token>>
      /\ UNCHANGED <<runStatus, owner, pc, head, claim, stuck, overtaken, prVars, workVars>>
      /\ \A h \in Heads : runStatus[h] = "running" /\ age'[h] <= Stale
           => /\ age[h] <= Stale
              /\ wait[h] > 0 => wait'[h] + age'[h] = wait[h] + age[h]
  BY Ticked
<1>2. \A w \in Workers : Busy(w) /\ outcome[w] = "none" => pc[w] # "idle"
  BY DEF Tick
<1> USE DEF CoverageInv, Busy, Holds, Beyond, LiveClaim, Covered, workVars
<1>3. OnItsJob' /\ KnowsForced'
  BY <1>1 DEF OnItsJob, KnowsForced
<1>4. LeaseIsFresh'
  BY <1>1, <1>2 DEF LeaseIsFresh
<1>5. LeaseOutlivesClaim'
  <2> SUFFICES ASSUME NEW h \in Heads, h \notin Beyond \cup stuck, ~jobFull[h],
                      runStatus[h] = "running", age'[h] <= Stale
               PROVE  wait'[h] + age'[h] >= Visibility
    BY <1>1 DEF LeaseOutlivesClaim
  <2>1. age[h] <= Stale /\ wait[h] + age[h] >= Visibility
    BY <1>1 DEF LeaseOutlivesClaim
  <2>2. wait[h] > 0
    BY <2>1 DEF Shapes
  <2> QED
    BY <1>1, <2>1, <2>2
<1>6. NoClaimAhead'
  <2>1. \A h \in Heads : LiveClaim(h)' => LiveClaim(h)
    BY <1>1
  <2> QED
    BY <1>1, <2>1 DEF NoClaimAhead, WorkersInOrder
<1>7. AckMeansCovered' /\ DoneMeansCovered'
  BY <1>1 DEF AckMeansCovered, DoneMeansCovered
<1> QED
  BY <1>3, <1>4, <1>5, <1>6, <1>7

\* Every step keeps the coverage, whoever moves (loop.ts:60-126, pipeline.ts:92-213).
LEMMA CoverageStep ==
  ASSUME OwnTypeOK, Queue!TypeOK, Queue!LeaseDiscipline, Review!TypeOK, Solo,
         WorkersInOrder, CoverageInv, [Next]_vars
  PROVE  CoverageInv'
<1>0. Shapes
  BY ShapesHold
<1>1. ASSUME NEW h \in Heads, NEW b \in BOOLEAN, EnqueueAs(h, b) PROVE CoverageInv'
  BY <1>0, <1>1, EnqueueKeeps
<1>2. CASE Rereview
  <2>1. CASE EnqueueAs(prHead, TRUE)
    BY <1>1, <2>1 DEF OwnTypeOK
  <2>2. CASE /\ Queue!Requeue(prHead) /\ jobFull' = [jobFull EXCEPT ![prHead] = TRUE]
             /\ UNCHANGED <<runsVars, prVars, full, looked, outcome, excused>>
    BY <1>0, <2>2, RequeueKeeps
  <2> QED
    BY <1>2, <2>1, <2>2 DEF Rereview
<1>3. CASE Sweep
  BY <1>1, <1>3 DEF Sweep, OwnTypeOK
<1>4. ASSUME NEW h \in Heads, Webhook(h) PROVE CoverageInv'
  BY <1>1, <1>4 DEF Webhook
<1>5. ASSUME NEW w \in Workers, Lease(w) PROVE CoverageInv'
  BY <1>0, <1>5, LeaseKeeps
<1>6. ASSUME NEW w \in Workers, NotOpen(w) \/ LookFails(w) PROVE CoverageInv'
  BY <1>0, <1>6, NoLookKeeps
<1>7. ASSUME NEW w \in Workers, Settle(w) PROVE CoverageInv'
  BY <1>0, <1>7, SettleKeeps
<1>8. ASSUME NEW w \in Workers, WorkerDies(w) PROVE CoverageInv'
  BY <1>0, <1>8, DeathKeeps DEF Runs
<1>9. ASSUME NEW o \in Operators, OperatorDies(o) PROVE CoverageInv'
  <2>1. o \in Runs /\ o \notin Workers
    BY DEF Runs, PreviewerAssumption
  <2> QED
    BY <1>0, <1>9, <2>1, DeathKeeps
<1>10. ASSUME NEW r \in Runs, NEW force \in BOOLEAN, Claim(r, force) PROVE CoverageInv'
  BY <1>0, <1>10, ClaimKeeps
<1>11. ASSUME NEW r \in Runs, Duplicate(r) PROVE CoverageInv'
  BY <1>0, <1>11, DuplicateKeeps
<1>12. ASSUME NEW r \in Runs, Ends(r) PROVE CoverageInv'
  BY <1>0, <1>12, EndsKeeps
<1>13. CASE Tick
  BY <1>0, <1>13, TickKeeps
<1>14. ASSUME UNCHANGED <<queueVars, runsVars, jobFull, full, outcome, excused>>
       PROVE  CoverageInv'
  BY <1>14, NothingMoves DEF queueVars, runsVars
<1>15. ASSUME NEW h \in Heads, Push(h) PROVE CoverageInv'
  BY <1>14, <1>15 DEF Push, workVars
<1>16. ASSUME NEW s, Change(s) PROVE CoverageInv'
  BY <1>14, <1>16 DEF Change, workVars
<1>17. ASSUME NEW r \in Runs, Look(r) PROVE CoverageInv'
  BY <1>14, <1>17 DEF Look
<1>18. ASSUME NEW r \in Runs, Work(r) PROVE CoverageInv'
  <2>1. /\ UNCHANGED <<jobStatus, leaseId, wait, job, token, jobFull, full, outcome>>
        /\ UNCHANGED <<runStatus, age, head, stuck, overtaken, excused>>
        /\ \A s \in Runs : pc'[s] = "idle" <=> pc[s] = "idle"
    BY <1>18, Worked DEF queueVars, workVars
  <2> QED
    BY <2>1, NothingMoves
<1>19. CASE UNCHANGED vars
  BY <1>14, <1>19 DEF vars, workVars
<1> QED
  BY <1>2, <1>3, <1>4, <1>5, <1>6, <1>7, <1>8, <1>9, <1>10, <1>11, <1>12, <1>13, <1>15,
     <1>16, <1>17, <1>18, <1>19 DEF Next

-----------------------------------------------------------------------------
(* Theorems                                                                *)

\* The inductive invariant of the platform.
PlatformInv ==
  /\ OwnTypeOK
  /\ QueueInv
  /\ RunLemmas!RunsInv
  /\ WorkersInOrder
  /\ CoverageInv

\* An open PR, an empty queue and no runs are in order.
LEMMA PlatformInit == Init => PlatformInv
<1> SUFFICES ASSUME Init PROVE PlatformInv
  OBVIOUS
<1>1. OwnTypeOK
  BY DEF Init, OwnTypeOK, PreviewerAssumption
<1>2. QueueInv
  <2>1. QueueLemmas!Init /\ QueueLemmas!QueueAssumption
    BY SameQueue DEF Init, PreviewerAssumption
  <2> QED
    BY <2>1, SameQueue, QueueLemmas!QueueInvInit DEF QueueLemmas!QueueInvInit
<1>3. RunLemmas!RunsInv
  <2>1. RunLemmas!Init /\ RunLemmas!RunsAssumption
    BY SameRuns DEF Init, PreviewerAssumption
  <2> QED
    BY <2>1, RunLemmas!RunsInvInit DEF RunLemmas!RunsInvInit
<1>4. WorkersInOrder
  BY DEF Init, Queue!Init, Review!Init, WorkersInOrder, Busy, Runs
<1>5. CoverageInv
  <2>1. /\ \A w \in Workers : ~Busy(w)
        /\ \A r \in Runs : pc[r] = "idle"
        /\ \A h \in Heads : jobStatus[h] = "absent" /\ runStatus[h] = "none" /\ ~jobFull[h]
    BY DEF Init, Queue!Init, Review!Init, Busy
  <2> QED
    BY <2>1 DEF CoverageInv, OnItsJob, KnowsForced, LeaseIsFresh, LeaseOutlivesClaim,
                NoClaimAhead, AckMeansCovered, DoneMeansCovered, Holds, LiveClaim, Runs
<1> QED
  BY <1>1, <1>2, <1>3, <1>4, <1>5 DEF PlatformInv

\* Every step of the platform keeps it.
LEMMA PlatformStep == PlatformInv /\ [Next]_vars => PlatformInv'
<1> SUFFICES ASSUME PlatformInv, [Next]_vars PROVE PlatformInv'
  OBVIOUS
<1>1. OwnTypeOK /\ QueueInv /\ RunLemmas!RunsInv /\ WorkersInOrder /\ CoverageInv
  BY DEF PlatformInv
<1>2. Queue!TypeOK /\ Queue!LeaseDiscipline /\ Review!TypeOK /\ Solo
  BY <1>1, SameRuns DEF QueueInv
<1>3. QueueInv' /\ RunLemmas!RunsInv'
  BY <1>1, PartsKept
<1>4. OwnTypeOK' /\ WorkersInOrder'
  BY <1>1, <1>2, OwnTypeStep, WorkersStep
<1>5. CoverageInv'
  BY <1>1, <1>2, CoverageStep
<1> QED
  BY <1>3, <1>4, <1>5 DEF PlatformInv

\* It holds always.
LEMMA PlatformInvariant == Spec => []PlatformInv
  BY PlatformInit, PlatformStep, PTL DEF Spec

\* The rows, runs and flags of the whole platform keep their types, on any number
\* of heads, workers and operators (pipeline.ts:60-213, loop.ts:60-126).
THEOREM TypeCorrect == Spec => []TypeOK
<1>1. PlatformInv => TypeOK
  BY SameRuns DEF PlatformInv, QueueInv, OwnTypeOK, TypeOK
<1> QED
  BY <1>1, PlatformInvariant, PTL

PartsKeepTheirPromises ==
  /\ Queue!LeaseDiscipline /\ Queue!AttemptsAccounting /\ Queue!DeadLetterEarned
  /\ Review!NoStrandedClaim /\ Review!ReviewedHasComment /\ Review!NoDuplicateComment

\* Put together, the queue and the pipeline still keep what each of them promises
\* alone: leases stay unambiguous and honestly counted, no claim is stranded but by
\* a death or by a release that itself fails, and a reviewed head has its comment,
\* once (sqlite-queue.ts:145-234, pipeline.ts:92-213, publish.ts:7-31).
THEOREM PartsPromise == Spec => []PartsKeepTheirPromises
<1>1. PlatformInv => PartsKeepTheirPromises
  BY SameRuns DEF PlatformInv, QueueInv, PartsKeepTheirPromises
<1> QED
  BY <1>1, PlatformInvariant, PTL

\* A job that is done has done its work, however the drain loops, the operators,
\* the webhooks, the deaths and the clock interleave: the acks of a worker that
\* has its lease are of covered heads, because that lease outlives any claim made
\* under the one before it.  A claim that a failed release left behind does not end
\* with its lease: the head of a retry that meets it is among the exceptions
\* (loop.ts:87-112, pipeline.ts:96-112, 209-211, sqlite-store.ts:61).
THEOREM DoneJobsAreCovered == Spec => []DoneMeansCovered
<1>1. PlatformInv => DoneMeansCovered
  BY DEF PlatformInv, CoverageInv
<1> QED
  BY <1>1, PlatformInvariant, PTL

-----------------------------------------------------------------------------
(* Steps                                                                   *)

StepsKeepTheirPromises ==
  Queue!LateVerdictsChangeNothing /\ Review!ReleaseByOwner /\ Review!CoverageKept

\* Nor does any step of the platform break what the parts promise of theirs: a
\* worker that lost its lease settles nothing, a failing run removes only its own
\* claim, and a covered head stays covered until somebody forces a review
\* (sqlite-queue.ts:179-214, sqlite-store.ts:69-91).
THEOREM StepsPromise == Spec => [][StepsKeepTheirPromises]_vars
<1>1. ASSUME PlatformInv, [Next]_vars PROVE Queue!LateVerdictsChangeNothing
  <2>1. CASE QueueSteps
    <3>1. QueueLemmas!TypeOK /\ QueueLemmas!LeaseDiscipline
      BY <1>1, SameQueue DEF PlatformInv, QueueLemmas!QueueInv
    <3>2. [QueueLemmas!Next]_(QueueLemmas!vars)
      BY <2>1, SameQueue DEF QueueSteps
    <3>3. QueueLemmas!LateVerdictsChangeNothing
      BY <3>1, <3>2, SameQueue, QueueLemmas!LateVerdictStep
         DEF QueueLemmas!LateVerdictStep, PreviewerAssumption
    <3> QED
      BY <3>3 DEF Queue!LateVerdictsChangeNothing, Queue!Settling, Queue!queueVars,
                  QueueLemmas!LateVerdictsChangeNothing, QueueLemmas!Settling,
                  QueueLemmas!queueVars
  <2>2. CASE UNCHANGED queueVars
    BY <2>2 DEF queueVars, Queue!LateVerdictsChangeNothing, Queue!Settling
  <2> QED
    BY <1>1, <2>1, <2>2, WhoMoves DEF PlatformInv, QueueAlone, RunsAlone, Together
<1>2. ASSUME PlatformInv, [Next]_vars PROVE Review!ReleaseByOwner /\ Review!CoverageKept
  <2>1. CASE RunsStep
    <3>1. RunLemmas!TypeOK /\ RunLemmas!Solo
      BY <1>2 DEF PlatformInv, RunLemmas!RunsInv
    <3>2. [RunLemmas!Next]_(RunLemmas!vars)
      BY <2>1, SameRuns DEF RunsStep
    <3>3. RunLemmas!ReleaseByOwner
      BY <3>1, <3>2, SameRuns, RunLemmas!ReleaseStep
         DEF RunLemmas!ReleaseStep, PreviewerAssumption
    <3>4. RunLemmas!CoverageKept
      BY <3>1, <3>2, SameRuns, RunLemmas!CoverageKeptStep
         DEF RunLemmas!CoverageKeptStep, PreviewerAssumption
    <3> QED
      BY <3>3, <3>4 DEF Review!ReleaseByOwner, Review!CoverageKept, Review!On, Review!Active,
         Review!Owns, RunLemmas!ReleaseByOwner, RunLemmas!CoverageKept, RunLemmas!On,
         RunLemmas!Active, RunLemmas!Owns
  <2>2. CASE UNCHANGED runsVars
    <3>1. UNCHANGED runStatus /\ runStatus \in [Heads -> {"none", "running"} \cup Review!Results]
      BY <1>2, <2>2, SameRuns DEF runsVars, PlatformInv, Review!TypeOK
    <3> QED
      BY <3>1 DEF Review!ReleaseByOwner, Review!CoverageKept
  <2> QED
    BY <1>2, <2>1, <2>2, WhoMoves DEF PlatformInv, QueueAlone, RunsAlone, Together
<1> QED
  BY <1>1, <1>2, PlatformInvariant, PTL DEF Spec, StepsKeepTheirPromises

-----------------------------------------------------------------------------
(* Refinement                                                              *)

\* The two instances map to the same delivery.
LEMMA SameDelivery ==
  /\ Queue!Delivery!Init <=> QueueLemmas!Delivery!Init
  /\ Queue!Delivery!Next <=> QueueLemmas!Delivery!Next
  /\ Queue!Delivery!vars = QueueLemmas!Delivery!vars
  /\ (Queue!Delivery!vars)' = (QueueLemmas!Delivery!vars)'
  BY DEF Queue!Delivery!Init, Queue!Delivery!Next, Queue!Delivery!Submit,
         Queue!Delivery!Resubmit, Queue!Delivery!Lose, Queue!Delivery!Deliver,
         Queue!Delivery!Conclude, Queue!Delivery!vars, Queue!PhaseOf, Queue!OwnerOf,
         Queue!Holders, QueueLemmas!Delivery!Init, QueueLemmas!Delivery!Next,
         QueueLemmas!Delivery!Submit, QueueLemmas!Delivery!Resubmit,
         QueueLemmas!Delivery!Lose, QueueLemmas!Delivery!Deliver,
         QueueLemmas!Delivery!Conclude, QueueLemmas!Delivery!vars, QueueLemmas!PhaseOf,
         QueueLemmas!OwnerOf, QueueLemmas!Holders

\* In the hands of the webhooks, the drain loops and the operators, the queue
\* still delivers its jobs as JobDelivery promises: nobody but it touches its rows.
THEOREM PlatformDelivers == Spec => Queue!ImplementsDelivery
<1>1. Init => Queue!Delivery!Init
  <2> SUFFICES ASSUME Init PROVE Queue!Delivery!Init
    OBVIOUS
  <2>1. Queue!Init
    BY DEF Init
  <2>2. \A h \in Heads : Queue!OwnerOf(h) = NoLease
    BY <2>1 DEF Queue!Init, Queue!OwnerOf, Queue!Holders
  <2>3. \A h \in Heads : Queue!PhaseOf(jobStatus[h]) = "none"
    BY <2>1 DEF Queue!Init, Queue!PhaseOf
  <2> QED
    BY <2>2, <2>3 DEF Queue!Delivery!Init
<1>2. PlatformInv => QueueLemmas!TypeOK /\ QueueLemmas!LeaseDiscipline
  BY SameQueue DEF PlatformInv, QueueLemmas!QueueInv
<1>3. PlatformInv => QueueLemmas!Owned
  BY <1>2, SameQueue, QueueLemmas!OwnerIsHolder DEF QueueLemmas!OwnerIsHolder, PreviewerAssumption
<1>4. ASSUME PlatformInv, QueueLemmas!Owned, QueueLemmas!Owned', [Next]_vars
      PROVE  [Queue!Delivery!Next]_(Queue!Delivery!vars)
  <2>1. CASE QueueSteps
    <3>1. [QueueLemmas!Next]_(QueueLemmas!vars)
      BY <2>1, SameQueue DEF QueueSteps
    <3>2. QueueLemmas!Stutter \/ QueueLemmas!Delivery!Next
      BY <1>2, <1>4, <3>1, SameQueue, QueueLemmas!StepRefines
         DEF QueueLemmas!StepRefines, PreviewerAssumption
    <3>3. QueueLemmas!Stutter => UNCHANGED QueueLemmas!Delivery!vars
      BY DEF QueueLemmas!Stutter, QueueLemmas!Delivery!vars, QueueLemmas!phaseBar,
             QueueLemmas!ownerBar
    <3> QED
      BY <3>2, <3>3, SameDelivery
  <2>2. CASE UNCHANGED queueVars
    BY <2>2 DEF queueVars, Queue!Delivery!vars, Queue!OwnerOf, Queue!Holders
  <2> QED
    BY <1>4, <2>1, <2>2, WhoMoves DEF PlatformInv, QueueAlone, RunsAlone, Together
<1> QED
  BY <1>1, <1>3, <1>4, PlatformInvariant, PTL
     DEF Spec, Queue!ImplementsDelivery, Queue!Delivery!Spec
=============================================================================
