------------------------------ MODULE JobQueue ------------------------------
(***************************************************************************)
(* The durable job queue (store/sqlite-queue.ts) and the drain loops that  *)
(* use it (apps/worker/loop.ts).  One row per review key, UNIQUE forever;  *)
(* a row is leased under a fresh lease id for a visibility window, and is  *)
(* settled by the lease id alone, so a call with an id no row carries any  *)
(* more does nothing.                                                      *)
(*                                                                         *)
(* Time is relative: wait[k] is how long row k stays invisible             *)
(* (visible_at - now, 0 once it has passed), and Tick lets time pass for   *)
(* all rows at once.                                                       *)
(***************************************************************************)
EXTENDS Integers, FiniteSets

CONSTANTS
  Keys,                 \* review keys
  Workers,              \* drain loops: ingress, reconciler, worker processes
  Leases,               \* names for lease ids (randomUUID)
  NoLease,              \* lease_id IS NULL; also: the worker holds no job
  NoKey,                \* the worker works on no job
  Visibility,           \* how long a lease hides a row
  RetryDelay,           \* how long nack hides a row
  TransientBase,        \* first transient back-off
  TransientCap,         \* longest transient back-off
  MaxAttempts,          \* nack's own dead-letter cap
  UnknownMaxAttempts,   \* the smaller cap for unclassified failures
  \* bounds of the model, not of the code
  MaxOutages,           \* transient failures of one row between resets
  MaxFaults,            \* worker deaths, and leases outlived by their worker
  MaxForces             \* forced re-reviews

ASSUME QueueAssumption ==
  /\ NoLease \notin Leases \cup Workers
  /\ NoKey \notin Keys
  /\ IsFiniteSet(Keys)
  /\ Visibility \in Nat /\ RetryDelay \in Nat
  /\ TransientBase \in Nat /\ TransientCap \in Nat
  /\ MaxAttempts \in Nat /\ UnknownMaxAttempts \in Nat
  /\ UnknownMaxAttempts <= MaxAttempts

VARIABLES
  status,              \* jobs.status; "absent" when the key has no row
  leaseId,             \* jobs.lease_id
  attempts,            \* jobs.attempts
  transientAttempts,   \* jobs.transient_attempts
  wait,                \* jobs.visible_at, relative to now
  created,             \* jobs.created_at, as the row's rank
  job,                 \* the key each worker was handed
  token,               \* the lease id each worker settles with
  verdicts,            \* history: leases of a row that were spent since its
                       \* last reset, by a verdict against it or by expiring
  faults, forces       \* bounded environment counters

queueVars == <<status, leaseId, attempts, transientAttempts, wait, created>>
vars == <<queueVars, job, token, verdicts, faults, forces>>

Live == {"queued", "running"}
Settled == {"done", "dead_letter"}
Statuses == {"absent"} \cup Live \cup Settled

TypeOK ==
  /\ status \in [Keys -> Statuses]
  /\ leaseId \in [Keys -> Leases \cup {NoLease}]
  /\ attempts \in [Keys -> Nat]
  /\ transientAttempts \in [Keys -> Nat]
  /\ wait \in [Keys -> Nat]
  /\ created \in [Keys -> Nat]
  /\ job \in [Workers -> Keys \cup {NoKey}]
  /\ token \in [Workers -> Leases \cup {NoLease}]
  /\ verdicts \in [Keys -> Nat]
  /\ faults \in Nat
  /\ forces \in Nat

Init ==
  /\ status = [k \in Keys |-> "absent"]
  /\ leaseId = [k \in Keys |-> NoLease]
  /\ attempts = [k \in Keys |-> 0]
  /\ transientAttempts = [k \in Keys |-> 0]
  /\ wait = [k \in Keys |-> 0]
  /\ created = [k \in Keys |-> 0]
  /\ job = [w \in Workers |-> NoKey]
  /\ token = [w \in Workers |-> NoLease]
  /\ verdicts = [k \in Keys |-> 0]
  /\ faults = 0
  /\ forces = 0

-----------------------------------------------------------------------------
(* Helpers: an UPDATE of the rows in S, and the queue's arithmetic.        *)

Update(f, S, v) == [k \in Keys |-> IF k \in S THEN v ELSE f[k]]

\* WHERE lease_id = the worker's lease id
RowsOfByKey(w) == {k \in Keys : k = job[w]}
RowsOf(w) == {k \in Keys : leaseId[k] = token[w]}

\* base * 2^(n-1), capped
TransientBackoff(n) ==
  LET scaled == TransientBase * 2^(n - 1)
  IN  IF scaled \in 0..TransientCap THEN scaled ELSE TransientCap

\* attempts after a transient failure: the lease's increment is undone
UndoneNot(n) == n
Undone(n) == IF n > 0 THEN n - 1 ELSE 0

\* the lease query's WHERE clause
LeasableQueuedOnly(k) == status[k] = "queued" /\ wait[k] = 0
Leasable(k) == status[k] \in Live /\ wait[k] = 0

\* the lease query's ORDER BY created_at LIMIT 1
Oldest(k) == \A j \in Keys : Leasable(j) => created[k] <= created[j]

\* the workers whose lease id is on the row
Holders(k) == {w \in Workers : leaseId[k] # NoLease /\ token[w] = leaseId[k]}

InUse == {leaseId[k] : k \in Keys} \cup {token[w] : w \in Workers}

-----------------------------------------------------------------------------
(* SqliteQueue.enqueue                                                     *)

\* The INSERT of a key without a row.  An unforced enqueue of a key that has
\* one is a "duplicate" and changes nothing.
Enqueue(k) ==
  /\ status[k] = "absent"
  /\ status' = [status EXCEPT ![k] = "queued"]
  /\ created' = [created EXCEPT ![k] = Cardinality({j \in Keys : status[j] # "absent"})]
  /\ UNCHANGED <<leaseId, attempts, transientAttempts, wait, job, token,
                 verdicts, faults, forces>>

\* The forced UPDATE (/rereview): the row starts over, whatever state it is in.
RequeueKeepingLease(k) ==
  /\ status[k] # "absent"
  /\ forces < MaxForces
  /\ status' = [status EXCEPT ![k] = "queued"]
  /\ attempts' = [attempts EXCEPT ![k] = 0]
  /\ transientAttempts' = [transientAttempts EXCEPT ![k] = 0]
  /\ wait' = [wait EXCEPT ![k] = 0]
  /\ verdicts' = [verdicts EXCEPT ![k] = 0]
  /\ forces' = forces + 1
  /\ UNCHANGED <<leaseId, created, job, token, faults>>

Requeue(k) ==
  /\ status[k] # "absent"
  /\ forces < MaxForces
  /\ status' = [status EXCEPT ![k] = "queued"]
  /\ leaseId' = [leaseId EXCEPT ![k] = NoLease]
  /\ attempts' = [attempts EXCEPT ![k] = 0]
  /\ transientAttempts' = [transientAttempts EXCEPT ![k] = 0]
  /\ wait' = [wait EXCEPT ![k] = 0]
  /\ verdicts' = [verdicts EXCEPT ![k] = 0]
  /\ forces' = forces + 1
  /\ UNCHANGED <<created, job, token, faults>>

-----------------------------------------------------------------------------
(* drainQueue and processLeased                                            *)

\* SqliteQueue.lease: the oldest leasable row, queued or running under a
\* lease that expired, goes to the worker under a fresh lease id.
Lease(w) ==
  /\ token[w] = NoLease
  /\ \E k \in Keys, l \in Leases \ InUse :
       /\ Leasable(k)
       /\ Oldest(k)
       /\ status' = [status EXCEPT ![k] = "running"]
       /\ leaseId' = [leaseId EXCEPT ![k] = l]
       /\ wait' = [wait EXCEPT ![k] = Visibility]
       /\ attempts' = [attempts EXCEPT ![k] = @ + 1]
       /\ verdicts' = IF status[k] = "running"
                        THEN [verdicts EXCEPT ![k] = @ + 1] ELSE verdicts
       /\ job' = [job EXCEPT ![w] = k]
       /\ token' = [token EXCEPT ![w] = l]
       /\ IF Holders(k) # {}
            THEN faults < MaxFaults /\ faults' = faults + 1   \* its worker is slow
            ELSE UNCHANGED faults
  /\ UNCHANGED <<transientAttempts, created, forces>>

\* The worker is through with its job.
PutDown(w) ==
  /\ token[w] # NoLease
  /\ job' = [job EXCEPT ![w] = NoKey]
  /\ token' = [token EXCEPT ![w] = NoLease]

\* SqliteQueue.ack: reviewed, skipped, duplicate, or a non-retriable error.
Ack(w) ==
  /\ PutDown(w)
  /\ status' = Update(status, RowsOf(w), "done")
  /\ leaseId' = Update(leaseId, RowsOf(w), NoLease)
  /\ UNCHANGED <<attempts, transientAttempts, wait, created, verdicts,
                 faults, forces>>

\* SqliteQueue.nack under a dead-letter cap.
Nack(w, cap) ==
  LET spent == {k \in RowsOf(w) : attempts[k] >= cap}
      again == RowsOf(w) \ spent
  IN  /\ PutDown(w)
      /\ status' = Update(Update(status, spent, "dead_letter"), again, "queued")
      /\ leaseId' = Update(leaseId, RowsOf(w), NoLease)
      /\ wait' = Update(wait, again, RetryDelay)
      /\ verdicts' = [k \in Keys |-> IF k \in RowsOf(w) THEN verdicts[k] + 1
                                                        ELSE verdicts[k]]
      /\ UNCHANGED <<attempts, transientAttempts, created, faults, forces>>

\* settleFailure's two bounded paths.
FailUnknown(w) == Nack(w, UnknownMaxAttempts)
FailPermanent(w) == Nack(w, MaxAttempts)

\* settleFailure's transient path, SqliteQueue.nackTransient.
FailTransient(w) ==
  /\ PutDown(w)
  /\ \A k \in RowsOf(w) : transientAttempts[k] < MaxOutages
  /\ status' = Update(status, RowsOf(w), "queued")
  /\ leaseId' = Update(leaseId, RowsOf(w), NoLease)
  /\ wait' = [k \in Keys |-> IF k \in RowsOf(w)
                               THEN TransientBackoff(transientAttempts[k] + 1)
                               ELSE wait[k]]
  /\ attempts' = [k \in Keys |-> IF k \in RowsOf(w) THEN Undone(attempts[k])
                                                    ELSE attempts[k]]
  /\ transientAttempts' = [k \in Keys |-> IF k \in RowsOf(w)
                                            THEN transientAttempts[k] + 1
                                            ELSE transientAttempts[k]]
  /\ UNCHANGED <<created, verdicts, faults, forces>>

\* The process dies, or settling itself throws out of the drain: the row
\* keeps the lease until it expires.
Crash(w) ==
  /\ PutDown(w)
  /\ faults < MaxFaults
  /\ faults' = faults + 1
  /\ UNCHANGED <<queueVars, verdicts, forces>>

\* visible_at - now, one unit later
ElapseUnclamped(n) == n - 1
Elapse(n) == IF n > 0 THEN n - 1 ELSE 0

Tick ==
  /\ \E k \in Keys : wait[k] > 0
  /\ wait' = [k \in Keys |-> Elapse(wait[k])]
  /\ UNCHANGED <<status, leaseId, attempts, transientAttempts, created,
                 job, token, verdicts, faults, forces>>

Settle(w) == Ack(w) \/ FailUnknown(w) \/ FailPermanent(w) \/ FailTransient(w)

Next ==
  \/ \E k \in Keys : Enqueue(k) \/ Requeue(k)
  \/ \E w \in Workers : Lease(w) \/ Ack(w) \/ FailUnknown(w) \/ FailPermanent(w)
                        \/ FailTransient(w) \/ Crash(w)
  \/ Tick

Spec == Init /\ [][Next]_vars

\* A drain loop keeps leasing and settles what it leased unless it dies; time
\* passes.
Fairness ==
  /\ \A w \in Workers : WF_vars(Lease(w)) /\ WF_vars(Settle(w) \/ Crash(w))
  /\ WF_vars(Tick)

FairSpec == Spec /\ Fairness

-----------------------------------------------------------------------------
(* Properties                                                              *)

\* A lease id means one thing: a row carries one exactly while it is running,
\* no two rows and no two workers ever have the same one, and the row that still
\* carries a worker's id is the job that worker was handed.  ack and nack address
\* rows by the lease id alone (sqlite-queue.ts:178-214).
LeaseDiscipline ==
  /\ \A k \in Keys : leaseId[k] # NoLease <=> status[k] = "running"
  /\ \A j, k \in Keys : leaseId[j] = leaseId[k] /\ leaseId[j] # NoLease => j = k
  /\ \A v, w \in Workers : token[v] = token[w] /\ token[v] # NoLease => v = w
  /\ \A w \in Workers, k \in Keys : leaseId[k] = token[w] /\ token[w] # NoLease => k = job[w]

\* The attempts column counts exactly the leases that ended badly for the job,
\* plus the one in progress: an outage costs nothing, a late settle from an
\* expired lease changes nothing, a forced re-review starts from zero
\* (sqlite-queue.ts:216-223).
AttemptsAccounting ==
  \A k \in Keys : attempts[k] = verdicts[k] + (IF status[k] \in {"running", "done"} THEN 1 ELSE 0)

\* Only genuine failures and lost leases dead-letter a job: it takes at least the
\* smaller of the two budgets (loop.ts:39-46).
DeadLetterEarned ==
  \A k \in Keys : status[k] = "dead_letter" => verdicts[k] >= UnknownMaxAttempts

\* A worker that lost its lease, to a redelivery after expiry or to a forced
\* requeue, settles nothing: whatever it reports, no row changes
\* (sqlite-queue.ts:179, 191, 214).
Settling(w) == token[w] # NoLease /\ token'[w] = NoLease

LateVerdictsChangeNothing ==
  \A w \in Workers : Settling(w) /\ leaseId[job[w]] # token[w] => UNCHANGED queueVars

StaleVerdictIgnored == [][LateVerdictsChangeNothing]_vars

\* Every job that is waiting or being worked on is settled in the end, once
\* outages, crashes and forced requeues stop (their bounds).
JobsSettle ==
  \A k \in Keys : status[k] \in Live ~> status[k] \in Settled

\* ARCHITECTURE.md:105: an expired lease costs an attempt and max_attempts
\* leads to dead_letter, so no job is ever leased more often than that.
AttemptsBounded == \A k \in Keys : attempts[k] <= MaxAttempts

-----------------------------------------------------------------------------
(* JobQueue implements JobDelivery.                                        *)

PhaseOf(s) ==
  CASE s = "absent" -> "none"
    [] s = "queued" -> "waiting"
    [] s = "running" -> "assigned"
    [] s = "done" -> "finished"
    [] OTHER -> "abandoned"

OwnerOf(k) == IF Holders(k) = {} THEN NoLease ELSE CHOOSE w \in Holders(k) : TRUE

Delivery == INSTANCE JobDelivery WITH
  Nobody <- NoLease,
  phase <- [k \in Keys |-> PhaseOf(status[k])],
  owner <- [k \in Keys |-> OwnerOf(k)]

ImplementsDelivery == Delivery!Spec
=============================================================================
