---------------------------- MODULE JobDelivery ----------------------------
(***************************************************************************)
(* What the job queue promises to the rest of the platform, without rows,  *)
(* visibility times or attempt counters: every job has at most one owner,  *)
(* only the owner's verdict counts, a job whose owner is slow or gone may  *)
(* be delivered again (at-least-once), and a job that was finished or      *)
(* abandoned comes back only when it is resubmitted.  JobQueue implements  *)
(* this specification.                                                     *)
(***************************************************************************)

CONSTANTS
  Keys,      \* the review keys (repo, PR, head SHA), one job each
  Workers,   \* the drain loops
  Nobody     \* not a worker: the owner of a job nobody works on

VARIABLES
  phase,     \* where each job is in its life
  owner      \* whose verdict on the job counts

vars == <<phase, owner>>

Phases == {"none", "waiting", "assigned", "finished", "abandoned"}

TypeOK ==
  /\ phase \in [Keys -> Phases]
  /\ owner \in [Keys -> Workers \cup {Nobody}]

Init ==
  /\ phase = [k \in Keys |-> "none"]
  /\ owner = [k \in Keys |-> Nobody]

\* A job is accepted the first time its key is seen.
Submit(k) ==
  /\ phase[k] = "none"
  /\ phase' = [phase EXCEPT ![k] = "waiting"]
  /\ UNCHANGED owner

\* A human asks again: whatever the job was doing no longer counts.
Resubmit(k) ==
  /\ phase[k] # "none"
  /\ phase' = [phase EXCEPT ![k] = "waiting"]
  /\ owner' = [owner EXCEPT ![k] = Nobody]

\* The job goes to a worker that owns nothing, possibly away from one that
\* took too long.
Deliver(k, w) ==
  /\ phase[k] \in {"waiting", "assigned"}
  /\ \A j \in Keys : owner[j] # w
  /\ phase' = [phase EXCEPT ![k] = "assigned"]
  /\ owner' = [owner EXCEPT ![k] = w]

\* The owner's verdict: done, given up, or to be tried again.
Conclude(k, w) ==
  /\ owner[k] = w
  /\ \E p \in {"finished", "abandoned", "waiting"} :
        phase' = [phase EXCEPT ![k] = p]
  /\ owner' = [owner EXCEPT ![k] = Nobody]

\* The owner disappears; the job stays assigned until it is delivered again.
Lose(k) ==
  /\ owner[k] # Nobody
  /\ owner' = [owner EXCEPT ![k] = Nobody]
  /\ UNCHANGED phase

Next ==
  \E k \in Keys :
     \/ Submit(k) \/ Resubmit(k) \/ Lose(k)
     \/ \E w \in Workers : Deliver(k, w) \/ Conclude(k, w)

Spec == Init /\ [][Next]_vars
=============================================================================
