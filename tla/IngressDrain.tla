---------------------------- MODULE IngressDrain ----------------------------
(***************************************************************************)
(* The single-process processor of apps/ingress/main.ts: webhooks kick a   *)
(* drain of the queue, kicks that arrive while one runs are coalesced in   *)
(* `pending`, a wake-up timer is set for the earliest backed-off job when  *)
(* a drain ends, and the startup sweep drains the same queue on its own.   *)
(* Every drain checks its job's head out into the one cache directory the  *)
(* repository has (apps/worker/workspace.ts).                              *)
(*                                                                         *)
(* An action is what runs between two awaits.  Queue rows are reduced to   *)
(* what the processor can see of them; JobQueue has the whole queue.       *)
(***************************************************************************)
EXTENDS Integers, FiniteSets

CONSTANTS
  Jobs,        \* jobs of one repository, each with its own head
  Drains,      \* executions of kick's async body
  Sweeper,     \* the execution of the startup reconcile
  Nobody,      \* no drain, no job
  Visibility,  \* how long a lease hides a job
  Backoff,     \* how long a failed job stays invisible
  MaxWake,     \* MAX_WAKE_MS
  Startup,     \* TRUE: from process start; FALSE: once the sweep is over
  PromptWake,  \* the clock stands still between a drain's last look at the
               \* queue and nextVisibleAt's (microtasks only, but not one tick)
  \* bounds of the model
  MaxOutages,  \* failed attempts, and leases outlived by their drain
  MaxUpsets    \* store calls that throw, and process restarts

ASSUME IngressAssumption ==
  /\ Drains # {}
  /\ Sweeper \notin Drains
  /\ Nobody \notin Jobs \cup Drains \cup {Sweeper}
  /\ Visibility \in Nat /\ Backoff \in Nat /\ MaxWake \in Nat
  /\ Startup \in BOOLEAN /\ PromptWake \in BOOLEAN

VARIABLES
  status,      \* jobs.status: "done" stands for dead_letter too
  wait,        \* jobs.visible_at, relative to now
  holder,      \* the drain whose lease id is on the row
  draining, pending, timer,   \* the variables of main; timer: time left
  at,          \* where each drain is
  doing,       \* the job each drain works on
  tree,        \* whose head is checked out in the cache directory
  owed,        \* webhooks that enqueued and have not kicked yet
  outages, throws, restarts

rows == <<status, wait, holder>>
loop == <<draining, pending, timer>>
vars == <<rows, loop, at, doing, tree, owed, outages, throws, restarts>>

All == Drains \cup {Sweeper}
Off == -1
Live == {"queued", "running"}

TypeOK ==
  /\ status \in [Jobs -> {"absent", "done"} \cup Live]
  /\ wait \in [Jobs -> Nat]
  /\ holder \in [Jobs -> All \cup {Nobody}]
  /\ draining \in BOOLEAN
  /\ pending \in BOOLEAN
  /\ timer \in {Off} \cup 0..MaxWake
  /\ at \in [All -> {"off", "sweep", "loop", "lease", "prepare", "review"}]
  /\ doing \in [All -> Jobs \cup {Nobody}]
  /\ tree \in Jobs \cup {Nobody}
  /\ owed \subseteq Jobs
  /\ outages \in Nat
  /\ throws \in Nat
  /\ restarts \in Nat

AtStart == [d \in All |-> IF d = Sweeper /\ Startup THEN "sweep" ELSE "off"]

Init ==
  /\ status = [j \in Jobs |-> "absent"]
  /\ wait = [j \in Jobs |-> 0]
  /\ holder = [j \in Jobs |-> Nobody]
  /\ draining = FALSE
  /\ pending = FALSE
  /\ timer = Off
  /\ at = AtStart
  /\ doing = [d \in All |-> Nobody]
  /\ tree = Nobody
  /\ owed = {}
  /\ outages = 0
  /\ throws = 0
  /\ restarts = 0

-----------------------------------------------------------------------------
(* kick and scheduleWake                                                   *)

\* An execution of the body gets a name that is free.
Idle(from) == {d \in Drains : from[d] = "off"}
Started(from) == [from EXCEPT ![CHOOSE d \in Idle(from) : TRUE] = "loop"]

\* kick: remember it; start a drain unless one is running.
KickUnguarded(from) ==
  /\ pending' = TRUE
  /\ draining' = TRUE
  /\ at' = IF Idle(from) = {} THEN from ELSE Started(from)
Kick(from) ==
  /\ pending' = TRUE
  /\ draining' = TRUE
  /\ at' = IF draining THEN from ELSE Started(from)

\* SqliteQueue.nextVisibleAt
Due == {wait[j] : j \in {i \in Jobs : status[i] \in Live /\ wait[i] > 0}}
Soonest == CHOOSE n \in Due : \A m \in Due : n <= m

\* scheduleWake: replace the timer; keep it when the query throws.
RearmUnclamped == timer' = IF Due = {} THEN Off ELSE Soonest
Rearm == timer' = IF Due = {} THEN Off
                  ELSE IF Soonest < MaxWake THEN Soonest ELSE MaxWake
ScheduleWake ==
  \/ Rearm /\ UNCHANGED throws
  \/ throws + restarts < MaxUpsets /\ throws' = throws + 1 /\ UNCHANGED timer

Fire ==
  /\ timer = 0
  /\ timer' = Off
  /\ Kick(at)
  /\ UNCHANGED <<rows, doing, tree, owed, outages, throws, restarts>>

-----------------------------------------------------------------------------
(* Webhooks                                                                *)

\* The handler enqueues the head, or finds it queued already ...
Webhook(j) ==
  /\ status' = [status EXCEPT ![j] = IF @ = "absent" THEN "queued" ELSE @]
  /\ owed' = owed \cup {j}
  /\ UNCHANGED <<wait, holder, loop, at, doing, tree, outages, throws, restarts>>

\* ... and kicks when it is through, unless marking the delivery throws.
WebhookKick(j) ==
  /\ j \in owed
  /\ owed' = owed \ {j}
  /\ Kick(at)
  /\ UNCHANGED <<rows, timer, doing, tree, outages, throws, restarts>>

WebhookFails(j) ==
  /\ j \in owed
  /\ throws + restarts < MaxUpsets
  /\ owed' = owed \ {j}
  /\ throws' = throws + 1
  /\ UNCHANGED <<rows, loop, at, doing, tree, outages, restarts>>

-----------------------------------------------------------------------------
(* The drains                                                              *)

Goto(d, step) == at' = [at EXCEPT ![d] = step]

\* The startup reconcile enqueues the uncovered heads it found, then drains.
Sweep ==
  /\ at[Sweeper] = "sweep"
  /\ \E new \in SUBSET {j \in Jobs : status[j] = "absent"} :
        status' = [j \in Jobs |-> IF j \in new THEN "queued" ELSE status[j]]
  /\ Goto(Sweeper, "lease")
  /\ UNCHANGED <<wait, holder, loop, doing, tree, owed, outages, throws, restarts>>

\* while (pending) { pending = false; drainQueue }
DrainAgain(d) ==
  /\ d # Sweeper /\ at[d] = "loop" /\ pending
  /\ pending' = FALSE
  /\ Goto(d, "lease")
  /\ UNCHANGED <<rows, draining, timer, doing, tree, owed, outages, throws, restarts>>

\* The loop is over: finally.
DrainEnds(d) ==
  /\ d # Sweeper /\ at[d] = "loop" /\ ~pending
  /\ draining' = FALSE
  /\ Goto(d, "off")
  /\ ScheduleWake
  /\ UNCHANGED <<rows, pending, doing, tree, owed, outages, restarts>>

\* The sweep's own drain is over.
SweepEndsUnarmed ==
  /\ at[Sweeper] = "loop"
  /\ Goto(Sweeper, "off")
  /\ UNCHANGED <<rows, loop, doing, tree, owed, outages, throws, restarts>>
SweepEnds ==
  /\ at[Sweeper] = "loop"
  /\ Goto(Sweeper, "off")
  /\ ScheduleWake
  /\ UNCHANGED <<rows, draining, pending, doing, tree, owed, outages, restarts>>

Visible(j) == status[j] \in Live /\ wait[j] = 0

Lease(d, j) ==
  /\ at[d] = "lease"
  /\ Visible(j)
  /\ status' = [status EXCEPT ![j] = "running"]
  /\ wait' = [wait EXCEPT ![j] = Visibility]
  /\ holder' = [holder EXCEPT ![j] = d]
  /\ doing' = [doing EXCEPT ![d] = j]
  /\ IF holder[j] # Nobody
       THEN outages < MaxOutages /\ outages' = outages + 1   \* its drain is slow
       ELSE UNCHANGED outages
  /\ Goto(d, "prepare")
  /\ UNCHANGED <<loop, tree, owed, throws, restarts>>

LeaseNothing(d) ==
  /\ at[d] = "lease"
  /\ ~\E j \in Jobs : Visible(j)
  /\ Goto(d, "loop")
  /\ UNCHANGED <<rows, loop, doing, tree, owed, outages, throws, restarts>>

\* CacheWorkspaceProvider.prepare: git checkout --force in the shared directory
Checkout(d) ==
  /\ at[d] = "prepare"
  /\ tree' = doing[d]
  /\ Goto(d, "review")
  /\ UNCHANGED <<rows, loop, doing, owed, outages, throws, restarts>>

Working(d) == at[d] \in {"prepare", "review"}

\* The job is settled, if the drain still has its lease: for good, or to be
\* retried after a back-off.
Settle(d, again) ==
  /\ Working(d)
  /\ LET j == doing[d]
         own == holder[j] = d
     IN  /\ status' = [status EXCEPT ![j] = IF own THEN (IF again THEN "queued" ELSE "done") ELSE @]
         /\ holder' = [holder EXCEPT ![j] = IF own THEN Nobody ELSE @]
         /\ wait' = [wait EXCEPT ![j] = IF own /\ again THEN Backoff ELSE @]
  /\ IF again THEN outages < MaxOutages /\ outages' = outages + 1 ELSE UNCHANGED outages
  /\ doing' = [doing EXCEPT ![d] = Nobody]
  /\ Goto(d, "lease")
  /\ UNCHANGED <<loop, tree, owed, throws, restarts>>

\* A lease or a settle throws out of drainQueue: kick's catch and finally, or
\* the end of the startup reconcile, which sets no timer then.
DrainThrowsDeaf(d) ==
  /\ at[d] \in {"sweep", "lease"} \/ Working(d)
  /\ throws + restarts < MaxUpsets
  /\ throws' = throws + 1
  /\ doing' = [doing EXCEPT ![d] = Nobody]
  /\ holder' = [j \in Jobs |-> IF holder[j] = d THEN Nobody ELSE holder[j]]
  /\ Goto(d, "off")
  /\ IF d = Sweeper THEN UNCHANGED <<draining, timer>>
                    ELSE UNCHANGED draining /\ Rearm
  /\ UNCHANGED <<status, wait, pending, tree, owed, outages, restarts>>
DrainThrows(d) ==
  /\ at[d] \in {"sweep", "lease"} \/ Working(d)
  /\ throws + restarts < MaxUpsets
  /\ throws' = throws + 1
  /\ doing' = [doing EXCEPT ![d] = Nobody]
  /\ holder' = [j \in Jobs |-> IF holder[j] = d THEN Nobody ELSE holder[j]]
  /\ Goto(d, "off")
  /\ IF d = Sweeper THEN UNCHANGED <<draining, timer>>
                    ELSE draining' = FALSE /\ Rearm
  /\ UNCHANGED <<status, wait, pending, tree, owed, outages, restarts>>

\* The process dies and comes back: leases stay on their rows until they
\* expire, everything in memory is gone, the sweep runs again.
Restart ==
  /\ throws + restarts < MaxUpsets
  /\ restarts' = restarts + 1
  /\ holder' = [j \in Jobs |-> Nobody]
  /\ draining' = FALSE /\ pending' = FALSE /\ timer' = Off
  /\ at' = AtStart
  /\ doing' = [d \in All |-> Nobody]
  /\ owed' = {}
  /\ UNCHANGED <<status, wait, tree, outages, throws>>

Elapse(n) == IF n > 0 THEN n - 1 ELSE n

Tick ==
  /\ timer > 0 \/ \E j \in Jobs : wait[j] > 0
  /\ PromptWake => \A d \in All : at[d] # "loop"
  /\ wait' = [j \in Jobs |-> Elapse(wait[j])]
  /\ timer' = Elapse(timer)
  /\ UNCHANGED <<status, holder, draining, pending, at, doing, tree, owed,
                 outages, throws, restarts>>

DrainStep(d) ==
  \/ d = Sweeper /\ (Sweep \/ SweepEnds)
  \/ DrainAgain(d) \/ DrainEnds(d) \/ LeaseNothing(d) \/ Checkout(d)
  \/ \E j \in Jobs : Lease(d, j)
  \/ \E again \in BOOLEAN : Settle(d, again)
  \/ DrainThrows(d)

Next ==
  \/ \E j \in Jobs : Webhook(j) \/ WebhookKick(j) \/ WebhookFails(j)
  \/ \E d \in All : DrainStep(d)
  \/ Fire
  \/ Restart
  \/ Tick

Spec == Init /\ [][Next]_vars

\* The event loop runs what is ready, reviews end, and time passes.
Fairness ==
  /\ \A d \in All : WF_vars(DrainStep(d))
  /\ \A j \in Jobs : WF_vars(WebhookKick(j) \/ WebhookFails(j))
  /\ WF_vars(Fire)
  /\ SF_vars(Tick)

FairSpec == Spec /\ Fairness

-----------------------------------------------------------------------------
(* Properties                                                              *)

\* When the processor is at rest, the wake-up is set, early enough for every
\* job that still waits (main.ts:29-34), as long as no store call threw.
Resting == owed = {} /\ \A d \in All : at[d] = "off"
NoSleepingJob ==
  throws = 0 /\ Resting =>
    \A j \in Jobs : status[j] \in Live => timer # Off /\ timer <= wait[j]

\* Whatever is kicked, fired or thrown, the drains that kick starts leave each
\* other's checkout alone: a tree is replaced under a review only when the startup
\* sweep is one of the two (main.ts:57-75, 122-130).
OnlySweepDisturbs ==
  \A d \in Drains : at[d] = "review" /\ at'[d] = "review" /\ tree' # tree
                      => at[Sweeper] = "prepare" /\ at'[Sweeper] = "review"

CheckoutKept == [][OnlySweepDisturbs]_vars

\* A review reads the head it is about: nobody replaces the checkout under it
\* (workspace.ts:10, "a checkout at the head SHA").
ReviewsOwnHead == \A d \in All : at[d] = "review" => tree = doing[d]

\* A job that is queued or being worked on is finished in the end, without
\* another webhook or the hourly sweep (main.ts:29-34), unless a store call threw;
\* and then whatever kick comes next finishes it: no throw leaves the processor
\* deaf (main.ts:57-75).
JobsFinish ==
  \A j \in Jobs, n \in 0..MaxUpsets :
    status[j] \in Live /\ throws = n /\ (n > 0 => draining /\ pending)
      ~> status[j] = "done" \/ throws > n
=============================================================================
