--------------------------- MODULE JobQueueProofs ---------------------------
(***************************************************************************)
(* Theorems about JobQueue for any sets of keys, workers and lease ids and *)
(* any values of the timing and budget parameters.                         *)
(***************************************************************************)
EXTENDS JobQueue, FiniteSetTheorems, TLAPS

USE QueueAssumption

-----------------------------------------------------------------------------
(* Type correctness                                                        *)

\* The back-off is a duration whatever the exponential does (sqlite-queue.ts:237-240).
LEMMA BackoffType == \A n : TransientBackoff(n) \in Nat
  BY DEF TransientBackoff

\* The rank a new row gets is a number.
LEMMA RankType == Cardinality({j \in Keys : status[j] # "absent"}) \in Nat
  BY FS_Subset, FS_CardinalityType

\* The rows, the workers and the counters keep their types in every step
\* (sqlite-queue.ts:100-234, loop.ts:105-126).
LEMMA TypeStep ==
  ASSUME TypeOK, [Next]_vars PROVE TypeOK'
<1> USE DEF TypeOK, Statuses, Live, Settled
<1>1. ASSUME NEW k \in Keys, Enqueue(k) PROVE TypeOK'
  BY <1>1, RankType DEF Enqueue
<1>2. ASSUME NEW k \in Keys, Requeue(k) PROVE TypeOK'
  BY <1>2 DEF Requeue
<1>3. ASSUME NEW w \in Workers, Lease(w) PROVE TypeOK'
  BY <1>3 DEF Lease
<1>4. ASSUME NEW w \in Workers, Ack(w) PROVE TypeOK'
  BY <1>4 DEF Ack, PutDown, Update
<1>5. ASSUME NEW w \in Workers, NEW cap, Nack(w, cap) PROVE TypeOK'
  BY <1>5 DEF Nack, PutDown, Update
<1>6. ASSUME NEW w \in Workers, FailTransient(w) PROVE TypeOK'
  BY <1>6, BackoffType DEF FailTransient, PutDown, Update, Undone
<1>7. ASSUME NEW w \in Workers, Crash(w) PROVE TypeOK'
  BY <1>7 DEF Crash, PutDown, queueVars
<1>8. CASE Tick
  BY <1>8 DEF Tick, Elapse
<1>9. CASE UNCHANGED vars
  BY <1>9 DEF vars, queueVars
<1> QED
  BY <1>1, <1>2, <1>3, <1>4, <1>5, <1>6, <1>7, <1>8, <1>9
     DEF Next, FailUnknown, FailPermanent

\* Every row always has a status, a lease and counters of the right kind
\* (sqlite-queue.ts:100-234, loop.ts:105-126).
THEOREM TypeCorrect == Spec => []TypeOK
<1>1. Init => TypeOK
  BY DEF Init, TypeOK, Statuses, Live, Settled
<1>2. TypeOK /\ [Next]_vars => TypeOK'
  BY TypeStep
<1> QED
  BY <1>1, <1>2, PTL DEF Spec

-----------------------------------------------------------------------------
(* Leases                                                                  *)

\* One lease id, one row, one worker, in every step (sqlite-queue.ts:145-214).
LEMMA LeaseDisciplineStep ==
  ASSUME TypeOK, LeaseDiscipline, [Next]_vars PROVE LeaseDiscipline'
<1> USE DEF TypeOK, LeaseDiscipline
<1>1. ASSUME NEW k \in Keys, Enqueue(k) PROVE LeaseDiscipline'
  BY <1>1 DEF Enqueue
<1>2. ASSUME NEW k \in Keys, Requeue(k) PROVE LeaseDiscipline'
  BY <1>2 DEF Requeue
<1>3. ASSUME NEW w \in Workers, Lease(w) PROVE LeaseDiscipline'
  <2>1. PICK k \in Keys, l \in Leases \ InUse :
           /\ status' = [status EXCEPT ![k] = "running"]
           /\ leaseId' = [leaseId EXCEPT ![k] = l]
           /\ job' = [job EXCEPT ![w] = k]
           /\ token' = [token EXCEPT ![w] = l]
    BY <1>3 DEF Lease
  <2>2. l # NoLease
    OBVIOUS
  <2>3. /\ \A j \in Keys : leaseId[j] # l
        /\ \A v \in Workers : token[v] # l
    BY DEF InUse
  <2> QED
    BY <2>1, <2>2, <2>3
<1>4. ASSUME NEW w \in Workers, Ack(w) PROVE LeaseDiscipline'
  BY <1>4 DEF Ack, PutDown, Update, RowsOf
<1>5. ASSUME NEW w \in Workers, NEW cap, Nack(w, cap) PROVE LeaseDiscipline'
  BY <1>5 DEF Nack, PutDown, Update, RowsOf
<1>6. ASSUME NEW w \in Workers, FailTransient(w) PROVE LeaseDiscipline'
  BY <1>6 DEF FailTransient, PutDown, Update, RowsOf
<1>7. ASSUME NEW w \in Workers, Crash(w) PROVE LeaseDiscipline'
  BY <1>7 DEF Crash, PutDown, queueVars
<1>8. CASE Tick
  BY <1>8 DEF Tick
<1>9. CASE UNCHANGED vars
  BY <1>9 DEF vars, queueVars
<1> QED
  BY <1>1, <1>2, <1>3, <1>4, <1>5, <1>6, <1>7, <1>8, <1>9
     DEF Next, FailUnknown, FailPermanent

\* A lease id never means two rows or two workers (sqlite-queue.ts:145-214).
THEOREM LeasesDisciplined == Spec => []LeaseDiscipline
<1>1. Init => LeaseDiscipline
  BY DEF Init, LeaseDiscipline
<1>2. TypeOK /\ LeaseDiscipline /\ [Next]_vars => LeaseDiscipline'
  BY LeaseDisciplineStep
<1> QED
  BY <1>1, <1>2, TypeCorrect, PTL DEF Spec

-----------------------------------------------------------------------------
(* Attempts and the dead-letter budget                                     *)

Budget == AttemptsAccounting /\ DeadLetterEarned

\* Every step books attempts and verdicts together (sqlite-queue.ts:123-140,
\* 158-164, 185-234).
LEMMA BudgetStep ==
  ASSUME TypeOK, LeaseDiscipline, Budget, [Next]_vars PROVE Budget'
<1> USE DEF TypeOK, Budget, AttemptsAccounting, DeadLetterEarned
<1>0. ASSUME NEW w \in Workers, token[w] # NoLease, NEW k \in RowsOf(w)
      PROVE  status[k] = "running" /\ attempts[k] = verdicts[k] + 1
  BY <1>0 DEF RowsOf, LeaseDiscipline
<1>1. ASSUME NEW k \in Keys, Enqueue(k) PROVE Budget'
  BY <1>1 DEF Enqueue
<1>2. ASSUME NEW k \in Keys, Requeue(k) PROVE Budget'
  BY <1>2 DEF Requeue
<1>3. ASSUME NEW w \in Workers, Lease(w) PROVE Budget'
  BY <1>3 DEF Lease, Leasable, Live
<1>4. ASSUME NEW w \in Workers, Ack(w) PROVE Budget'
  BY <1>0, <1>4 DEF Ack, PutDown, Update
<1>5. ASSUME NEW w \in Workers, NEW cap \in {UnknownMaxAttempts, MaxAttempts}, Nack(w, cap)
      PROVE  Budget'
  BY <1>0, <1>5 DEF Nack, PutDown, Update
<1>6. ASSUME NEW w \in Workers, FailTransient(w) PROVE Budget'
  BY <1>0, <1>6 DEF FailTransient, PutDown, Update, Undone
<1>7. ASSUME NEW w \in Workers, Crash(w) PROVE Budget'
  BY <1>7 DEF Crash, PutDown, queueVars
<1>8. CASE Tick
  BY <1>8 DEF Tick
<1>9. CASE UNCHANGED vars
  BY <1>9 DEF vars, queueVars
<1> QED
  BY <1>1, <1>2, <1>3, <1>4, <1>5, <1>6, <1>7, <1>8, <1>9
     DEF Next, FailUnknown, FailPermanent

\* The books balance in every reachable state.
LEMMA BudgetInvariant == Spec => []Budget
<1>1. Init => Budget
  BY DEF Init, Budget, AttemptsAccounting, DeadLetterEarned
<1>2. TypeOK /\ LeaseDiscipline /\ Budget /\ [Next]_vars => Budget'
  BY BudgetStep
<1> QED
  BY <1>1, <1>2, TypeCorrect, LeasesDisciplined, PTL DEF Spec

\* attempts counts exactly the leases that were spent on the job
\* (sqlite-queue.ts:216-223).
THEOREM AttemptsAccounted == Spec => []AttemptsAccounting
  BY BudgetInvariant, PTL DEF Budget

\* A job is dead-lettered only when genuine failures and lost leases used up a
\* budget (loop.ts:39-46).
THEOREM DeadLettersEarned == Spec => []DeadLetterEarned
  BY BudgetInvariant, PTL DEF Budget

-----------------------------------------------------------------------------
(* Late verdicts                                                           *)

\* A worker holds at most the row of the job it was handed.
LEMMA RowsOfWorker ==
  ASSUME TypeOK, LeaseDiscipline, NEW w \in Workers, token[w] # NoLease
  PROVE  /\ RowsOf(w) \subseteq {job[w]}
         /\ leaseId[job[w]] # token[w] => RowsOf(w) = {}
  BY DEF TypeOK, LeaseDiscipline, RowsOf

\* A settle without the lease changes no row (sqlite-queue.ts:179, 191, 214).
LEMMA LateVerdictStep ==
  ASSUME TypeOK, LeaseDiscipline, [Next]_vars PROVE LateVerdictsChangeNothing
<1> SUFFICES ASSUME NEW w \in Workers, Settling(w), leaseId[job[w]] # token[w]
             PROVE  UNCHANGED queueVars
  BY DEF LateVerdictsChangeNothing
<1>0. token[w] # NoLease /\ token'[w] = NoLease
  BY DEF Settling
<1>1. RowsOf(w) = {}
  BY <1>0, RowsOfWorker
<1> USE DEF TypeOK, queueVars
<1>2. ASSUME NEW k \in Keys, Enqueue(k) \/ Requeue(k) PROVE FALSE
  BY <1>0, <1>2 DEF Enqueue, Requeue
<1>3. ASSUME NEW v \in Workers, Lease(v) PROVE FALSE
  BY <1>0, <1>3 DEF Lease
<1>4. ASSUME NEW v \in Workers, PutDown(v) PROVE v = w
  BY <1>0, <1>4 DEF PutDown
<1>5. ASSUME NEW v \in Workers, Ack(v) PROVE UNCHANGED queueVars
  BY <1>1, <1>4, <1>5 DEF Ack, Update
<1>6. ASSUME NEW v \in Workers, NEW cap, Nack(v, cap) PROVE UNCHANGED queueVars
  BY <1>1, <1>4, <1>6 DEF Nack, Update
<1>7. ASSUME NEW v \in Workers, FailTransient(v) PROVE UNCHANGED queueVars
  BY <1>1, <1>4, <1>7 DEF FailTransient, Update
<1>8. ASSUME NEW v \in Workers, Crash(v) PROVE UNCHANGED queueVars
  BY <1>8 DEF Crash
<1>9. ~(Tick \/ UNCHANGED vars)
  BY <1>0 DEF Tick, vars
<1> QED
  BY <1>2, <1>3, <1>5, <1>6, <1>7, <1>8, <1>9
     DEF Next, FailUnknown, FailPermanent

\* A worker whose lease was taken away changes no row when it settles, acks and
\* nacks alike (sqlite-queue.ts:179, 191, 214).
THEOREM StaleVerdictsIgnored == Spec => StaleVerdictIgnored
<1>1. TypeOK /\ LeaseDiscipline /\ [Next]_vars => LateVerdictsChangeNothing
  BY LateVerdictStep
<1> QED
  BY <1>1, TypeCorrect, LeasesDisciplined, PTL DEF Spec, StaleVerdictIgnored

-----------------------------------------------------------------------------
(* Refinement                                                              *)

\* The worker that carries the row's lease id is the job's owner, and the only one.
Owned ==
  \A k \in Keys :
    /\ \A w \in Workers : OwnerOf(k) = w <=> w \in Holders(k)
    /\ OwnerOf(k) = NoLease <=> Holders(k) = {}

\* Where leases are unambiguous, the refinement mapping picks the only holder.
LEMMA OwnerIsHolder == TypeOK /\ LeaseDiscipline => Owned
<1> SUFFICES ASSUME TypeOK, LeaseDiscipline, NEW k \in Keys
             PROVE  /\ \A w \in Workers : OwnerOf(k) = w <=> w \in Holders(k)
                    /\ OwnerOf(k) = NoLease <=> Holders(k) = {}
  BY DEF Owned
<1>1. \A v, w \in Holders(k) : v = w
  BY DEF Holders, LeaseDiscipline
<1>2. CASE Holders(k) = {}
  BY <1>2 DEF OwnerOf
<1>3. CASE Holders(k) # {}
  <2>1. OwnerOf(k) \in Holders(k)
    BY <1>3 DEF OwnerOf
  <2> QED
    BY <1>1, <1>3, <2>1 DEF Holders
<1> QED
  BY <1>2, <1>3

phaseBar == [k \in Keys |-> PhaseOf(status[k])]
ownerBar == [k \in Keys |-> OwnerOf(k)]
Stutter == UNCHANGED <<phaseBar, ownerBar>>

\* A row whose holders do not change keeps its owner.
LEMMA SameOwner ==
  ASSUME NEW k \in Keys, Holders(k)' = Holders(k) PROVE OwnerOf(k)' = OwnerOf(k)
  BY DEF OwnerOf

\* ack, nack and nackTransient are the owner's verdict, or nothing at all when
\* the lease is gone.
LEMMA VerdictRefines ==
  ASSUME TypeOK, LeaseDiscipline, Owned, Owned', NEW w \in Workers, PutDown(w),
         leaseId' = Update(leaseId, RowsOf(w), NoLease),
         NEW s \in {"done", "dead_letter", "queued"},
         status' = Update(status, RowsOf(w), s)
  PROVE  Stutter \/ \E k \in Keys : Delivery!Conclude(k, w)
<1> USE DEF TypeOK
<1>1. \A j \in Keys : Holders(j)' = IF j \in RowsOf(w) THEN {} ELSE Holders(j)
  BY DEF Holders, PutDown, Update, RowsOf, LeaseDiscipline
<1>2. CASE RowsOf(w) = {}
  <2>1. \A j \in Keys : OwnerOf(j)' = OwnerOf(j) /\ status'[j] = status[j]
    BY <1>1, <1>2, SameOwner DEF Update
  <2> QED
    BY <2>1 DEF Stutter, phaseBar, ownerBar
<1>3. CASE RowsOf(w) # {}
  <2>1. PICK k \in Keys : RowsOf(w) = {k}
    BY <1>3, RowsOfWorker DEF PutDown, RowsOf
  <2>2. OwnerOf(k) = w /\ OwnerOf(k)' = NoLease
    <3>1. w \in Holders(k)
      BY <2>1 DEF Holders, RowsOf, PutDown
    <3>2. Holders(k)' = {}
      BY <1>1, <2>1
    <3> QED
      BY <3>1, <3>2 DEF Owned
  <2>3. \A j \in Keys \ {k} : OwnerOf(j)' = OwnerOf(j)
    BY <1>1, <2>1, SameOwner
  <2>4. ownerBar' = [ownerBar EXCEPT ![k] = NoLease]
    BY <2>2, <2>3 DEF ownerBar
  <2>5. phaseBar' = [phaseBar EXCEPT ![k] = PhaseOf(s)]
    BY <2>1 DEF phaseBar, Update
  <2>6. PhaseOf(s) \in {"finished", "abandoned", "waiting"}
    BY DEF PhaseOf
  <2> QED
    BY <2>2, <2>4, <2>5, <2>6 DEF Delivery!Conclude, phaseBar, ownerBar
<1> QED
  BY <1>2, <1>3

\* Every step of the queue and its drain loops is a step of JobDelivery, or
\* changes nothing JobDelivery sees.
LEMMA StepRefines ==
  ASSUME TypeOK, LeaseDiscipline, Owned, Owned', [Next]_vars
  PROVE  Stutter \/ Delivery!Next
<1> USE DEF TypeOK
<1>1. ASSUME NEW k \in Keys, Enqueue(k) PROVE Delivery!Submit(k)
  <2>1. \A j \in Keys : OwnerOf(j)' = OwnerOf(j)
    BY <1>1, SameOwner DEF Enqueue, Holders
  <2>2. ownerBar' = ownerBar
    BY <2>1 DEF ownerBar
  <2>3. phaseBar[k] = "none" /\ phaseBar' = [phaseBar EXCEPT ![k] = "waiting"]
    BY <1>1 DEF Enqueue, phaseBar, PhaseOf
  <2> QED
    BY <2>2, <2>3 DEF Delivery!Submit, phaseBar, ownerBar
<1>2. ASSUME NEW k \in Keys, Requeue(k) PROVE Delivery!Resubmit(k)
  <2>1. \A j \in Keys \ {k} : OwnerOf(j)' = OwnerOf(j)
    BY <1>2, SameOwner DEF Requeue, Holders
  <2>2. OwnerOf(k)' = NoLease
    BY <1>2 DEF Requeue, Holders, Owned
  <2>3. ownerBar' = [ownerBar EXCEPT ![k] = NoLease]
    BY <2>1, <2>2 DEF ownerBar
  <2>4. phaseBar[k] # "none" /\ phaseBar' = [phaseBar EXCEPT ![k] = "waiting"]
    BY <1>2 DEF Requeue, phaseBar, PhaseOf, Statuses, Live, Settled
  <2> QED
    BY <2>3, <2>4 DEF Delivery!Resubmit, phaseBar, ownerBar
<1>3. ASSUME NEW w \in Workers, Lease(w) PROVE \E k \in Keys : Delivery!Deliver(k, w)
  <2>1. PICK k \in Keys, l \in Leases \ InUse :
           /\ Leasable(k)
           /\ status' = [status EXCEPT ![k] = "running"]
           /\ leaseId' = [leaseId EXCEPT ![k] = l]
           /\ token' = [token EXCEPT ![w] = l]
    BY <1>3 DEF Lease
  <2>2. /\ token[w] = NoLease /\ l # NoLease
        /\ \A j \in Keys : leaseId[j] # l
        /\ \A v \in Workers : token[v] # l
    BY <1>3 DEF Lease, InUse
  <2>3. \A j \in Keys : OwnerOf(j) # w
    <3>1. \A j \in Keys : w \notin Holders(j)
      BY <2>2 DEF Holders
    <3> QED
      BY <3>1 DEF Owned
  <2>4. OwnerOf(k)' = w
    <3>1. w \in Holders(k)'
      BY <2>1, <2>2 DEF Holders
    <3> QED
      BY <3>1 DEF Owned
  <2>5. ASSUME NEW j \in Keys \ {k} PROVE OwnerOf(j)' = OwnerOf(j)
    <3>1. Holders(j)' = Holders(j)
      BY <2>1, <2>2 DEF Holders
    <3> QED
      BY <3>1, SameOwner
  <2>6. ownerBar' = [ownerBar EXCEPT ![k] = w]
    BY <2>4, <2>5 DEF ownerBar
  <2>7. /\ phaseBar[k] \in {"waiting", "assigned"}
        /\ phaseBar' = [phaseBar EXCEPT ![k] = "assigned"]
    BY <2>1 DEF Leasable, Live, phaseBar, PhaseOf
  <2> QED
    BY <2>3, <2>6, <2>7 DEF Delivery!Deliver, phaseBar, ownerBar
<1>4. ASSUME NEW w \in Workers, Ack(w) \/ FailTransient(w)
      PROVE  Stutter \/ \E k \in Keys : Delivery!Conclude(k, w)
  BY <1>4, VerdictRefines DEF Ack, FailTransient
<1>5. ASSUME NEW w \in Workers, NEW cap, Nack(w, cap)
      PROVE  Stutter \/ \E k \in Keys : Delivery!Conclude(k, w)
  <2> DEFINE s == IF attempts[job[w]] >= cap THEN "dead_letter" ELSE "queued"
  <2>1. PutDown(w) /\ leaseId' = Update(leaseId, RowsOf(w), NoLease)
    BY <1>5 DEF Nack
  <2>2. RowsOf(w) \subseteq {job[w]}
    BY <2>1, RowsOfWorker DEF PutDown
  <2>3. status' = Update(status, RowsOf(w), s)
    BY <1>5, <2>2 DEF Nack, Update
  <2> QED
    BY <2>1, <2>3, VerdictRefines
<1>6. ASSUME NEW w \in Workers, Crash(w)
      PROVE  Stutter \/ \E k \in Keys : Delivery!Lose(k)
  <2>1. \A j \in Keys : Holders(j)' = Holders(j) \ {w}
    BY <1>6 DEF Crash, PutDown, Holders, queueVars
  <2>2. phaseBar' = phaseBar
    BY <1>6 DEF Crash, phaseBar, queueVars
  <2>3. CASE RowsOf(w) = {}
    <3>1. \A j \in Keys : Holders(j)' = Holders(j)
      BY <2>1, <2>3 DEF Holders, RowsOf
    <3>2. ownerBar' = ownerBar
      BY <3>1, SameOwner DEF ownerBar
    <3> QED
      BY <2>2, <3>2 DEF Stutter
  <2>4. CASE RowsOf(w) # {}
    <3>1. PICK k \in Keys : RowsOf(w) = {k}
      BY <1>6, <2>4, RowsOfWorker DEF Crash, PutDown, RowsOf
    <3>2. w \in Holders(k)
      BY <1>6, <3>1 DEF Crash, PutDown, Holders, RowsOf
    <3>3. Holders(k)' = {}
      BY <2>1, <3>2 DEF Holders, LeaseDiscipline
    <3>7. OwnerOf(k) = w /\ OwnerOf(k)' = NoLease
      BY <3>2, <3>3 DEF Owned
    <3>4. \A j \in Keys \ {k} : Holders(j)' = Holders(j)
      BY <2>1, <3>1 DEF Holders, RowsOf
    <3>5. ownerBar' = [ownerBar EXCEPT ![k] = NoLease]
      BY <3>4, <3>7, SameOwner DEF ownerBar
    <3>6. OwnerOf(k) # NoLease
      BY <3>7
    <3> QED
      BY <2>2, <3>5, <3>6 DEF Delivery!Lose, phaseBar, ownerBar
  <2> QED
    BY <2>3, <2>4
<1>7. ASSUME Tick \/ UNCHANGED vars PROVE Stutter
  <2>1. \A j \in Keys : OwnerOf(j)' = OwnerOf(j)
    BY <1>7, SameOwner DEF Tick, vars, queueVars, Holders
  <2>2. status' = status
    BY <1>7 DEF Tick, vars, queueVars
  <2> QED
    BY <2>1, <2>2 DEF Stutter, phaseBar, ownerBar
<1> QED
  BY <1>1, <1>2, <1>3, <1>4, <1>5, <1>6, <1>7
     DEF Next, FailUnknown, FailPermanent, Delivery!Next

\* The queue with its leases, visibility times and budgets keeps the promise of
\* JobDelivery: one owner at a time, only the owner's verdict counts, and a
\* settled job comes back only when it is resubmitted.
THEOREM QueueImplementsDelivery == Spec => ImplementsDelivery
<1>1. Init => Delivery!Init
  <2> SUFFICES ASSUME Init PROVE Delivery!Init
    OBVIOUS
  <2>1. \A k \in Keys : OwnerOf(k) = NoLease
    BY DEF Init, OwnerOf, Holders
  <2>2. \A k \in Keys : PhaseOf(status[k]) = "none"
    BY DEF Init, PhaseOf
  <2> QED
    BY <2>1, <2>2 DEF Delivery!Init
<1>2. TypeOK /\ LeaseDiscipline => Owned
  BY OwnerIsHolder
<1>3. TypeOK /\ LeaseDiscipline /\ Owned /\ Owned' /\ [Next]_vars
        => [Delivery!Next]_(Delivery!vars)
  BY StepRefines DEF Stutter, Delivery!vars, phaseBar, ownerBar
<1> QED
  BY <1>1, <1>2, <1>3, TypeCorrect, LeasesDisciplined, PTL
     DEF Spec, ImplementsDelivery, Delivery!Spec

-----------------------------------------------------------------------------
(* For the modules that compose the queue with something else              *)

\* All that holds of the rows and the leases.
QueueInv == TypeOK /\ LeaseDiscipline /\ AttemptsAccounting /\ DeadLetterEarned

\* An empty queue is in order (sqlite-queue.ts:100-140).
LEMMA QueueInvInit == Init => QueueInv
  BY DEF Init, QueueInv, TypeOK, Statuses, Live, Settled,
         LeaseDiscipline, AttemptsAccounting, DeadLetterEarned

\* Every step of the queue and its drain loops keeps it in order
\* (sqlite-queue.ts:100-234, loop.ts:105-126).
LEMMA QueueInvStep == QueueInv /\ [Next]_vars => QueueInv'
  BY TypeStep, LeaseDisciplineStep, BudgetStep DEF QueueInv, Budget
=============================================================================
