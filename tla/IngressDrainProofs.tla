------------------------- MODULE IngressDrainProofs -------------------------
(***************************************************************************)
(* Theorems about IngressDrain for any jobs, any supply of names for the   *)
(* drains and any visibility, back-off and wake-up times.                  *)
(***************************************************************************)
EXTENDS IngressDrain, WellFoundedInduction, TLAPS

USE IngressAssumption

-----------------------------------------------------------------------------
(* The earliest wake-up                                                    *)

Below == {p \in Nat \X Nat : p[1] < p[2]}

\* Every set of durations that is not empty has a smallest one.
LEMMA LeastDuration ==
  ASSUME NEW S \in SUBSET Nat, S # {}
  PROVE  \E n \in S : \A m \in S : n <= m
<1>1. OpToRel(<, Nat) = Below
  BY ZenonT(20) DEF OpToRel, Below
<1>2. IsWellFoundedOn(Below, Nat)
  BY <1>1, NatLessThanWellFounded, Zenon
<1>3. PICK n \in S : \A m \in S : ~(<<m, n>> \in Below)
  BY <1>2, WFMin, Zenon
<1>4. ASSUME NEW m \in S, m < n PROVE FALSE
  <2>1. <<m, n>> \in Nat \X Nat /\ <<m, n>>[1] = m /\ <<m, n>>[2] = n
    OBVIOUS
  <2>2. <<m, n>> \in Below
    BY <1>4, <2>1 DEF Below
  <2> QED
    BY <1>3, <2>2
<1> QED
  BY <1>4

\* scheduleWake sets the timer exactly when a job is invisible, and no later than
\* the first of them comes back (main.ts:36-55, sqlite-queue.ts:242-254).
LEMMA RearmInTime ==
  ASSUME TypeOK, Rearm
  PROVE  /\ timer' \in {Off} \cup 0..MaxWake
         /\ \A j \in Jobs : status[j] \in Live /\ wait[j] > 0 => timer' # Off /\ timer' <= wait[j]
<1>1. Due \in SUBSET Nat
  BY DEF Due, TypeOK
<1>2. CASE Due = {}
  BY <1>2 DEF Rearm, Due
<1>3. CASE Due # {}
  <2>1. Soonest \in Due /\ \A n \in Due : Soonest <= n
    BY <1>1, <1>3, LeastDuration DEF Soonest
  <2>2. timer' = IF Soonest < MaxWake THEN Soonest ELSE MaxWake
    BY <1>3 DEF Rearm
  <2>3. timer' \in 0..MaxWake /\ timer' <= Soonest
    BY <1>1, <2>1, <2>2
  <2>4. ASSUME NEW j \in Jobs, status[j] \in Live, wait[j] > 0 PROVE timer' # Off /\ timer' <= wait[j]
    <3>1. wait[j] \in Due
      BY <2>4 DEF Due
    <3> QED
      BY <1>1, <2>1, <2>3, <3>1 DEF Off, TypeOK
  <2> QED
    BY <2>3, <2>4
<1> QED
  BY <1>2, <1>3

-----------------------------------------------------------------------------
(* Type correctness                                                        *)

\* A kick keeps the places of the drains in their set.
LEMMA KickType ==
  ASSUME TypeOK, Kick(at)
  PROVE  /\ pending' = TRUE /\ draining' = TRUE
         /\ at' \in [All -> {"off", "sweep", "loop", "lease", "prepare", "review"}]
  BY DEF TypeOK, Kick, Started

\* A process starts in the sweep, or past it.
LEMMA StartType == AtStart \in [All -> {"off", "sweep", "loop", "lease", "prepare", "review"}]
<1>1. CASE Startup
  BY <1>1 DEF AtStart
<1>2. CASE ~Startup
  BY <1>2 DEF AtStart
<1> QED
  BY <1>1, <1>2

\* The rows, the drains and the timer keep their types in every step
\* (main.ts:26-130).
THEOREM TypeCorrect == Spec => []TypeOK
<1>1. Init => TypeOK
  <2> SUFFICES ASSUME Init PROVE TypeOK
    OBVIOUS
  <2>1. /\ status \in [Jobs -> {"absent", "done"} \cup Live]
        /\ wait \in [Jobs -> Nat]
        /\ holder \in [Jobs -> All \cup {Nobody}]
    BY DEF Init
  <2>2. at \in [All -> {"off", "sweep", "loop", "lease", "prepare", "review"}]
    BY StartType DEF Init
  <2>3. doing \in [All -> Jobs \cup {Nobody}]
    BY DEF Init
  <2>4. timer \in {Off} \cup 0..MaxWake /\ draining \in BOOLEAN /\ pending \in BOOLEAN
    BY DEF Init
  <2>5. /\ tree \in Jobs \cup {Nobody} /\ owed \subseteq Jobs
        /\ outages \in Nat /\ throws \in Nat /\ restarts \in Nat
    BY DEF Init
  <2> QED
    BY <2>1, <2>2, <2>3, <2>4, <2>5 DEF TypeOK
<1>2. TypeOK /\ [Next]_vars => TypeOK'
  <2> SUFFICES ASSUME TypeOK, [Next]_vars PROVE TypeOK'
    OBVIOUS
  <2> USE DEF TypeOK, rows, loop, Live, Goto
  <2>1. ASSUME NEW j \in Jobs, Webhook(j) PROVE TypeOK'
    BY <2>1 DEF Webhook
  <2>2. ASSUME NEW j \in Jobs, WebhookKick(j) PROVE TypeOK'
    BY <2>2, KickType DEF WebhookKick
  <2>3. ASSUME NEW j \in Jobs, WebhookFails(j) PROVE TypeOK'
    BY <2>3 DEF WebhookFails
  <2>4. CASE Sweep
    BY <2>4 DEF Sweep
  <2>5. ASSUME NEW d \in All, DrainAgain(d) \/ LeaseNothing(d) \/ Checkout(d) PROVE TypeOK'
    BY <2>5 DEF DrainAgain, LeaseNothing, Checkout
  <2>6. ASSUME ScheduleWake
        PROVE  timer' \in {Off} \cup 0..MaxWake /\ throws' \in Nat
    BY <2>6, RearmInTime DEF ScheduleWake
  <2>7. ASSUME NEW d \in All, DrainEnds(d) PROVE TypeOK'
    <3>1. timer' \in {Off} \cup 0..MaxWake /\ throws' \in Nat
      BY <2>6, <2>7 DEF DrainEnds
    <3> QED
      BY <2>7, <3>1 DEF DrainEnds
  <2>8. CASE SweepEnds
    <3>1. timer' \in {Off} \cup 0..MaxWake /\ throws' \in Nat
      BY <2>6, <2>8 DEF SweepEnds
    <3> QED
      BY <2>8, <3>1 DEF SweepEnds
  <2>9. ASSUME NEW d \in All, NEW j \in Jobs, Lease(d, j) PROVE TypeOK'
    BY <2>9 DEF Lease
  <2>10. ASSUME NEW d \in All, NEW again \in BOOLEAN, Settle(d, again) PROVE TypeOK'
    <3>1. /\ status' \in [Jobs -> {"absent", "done"} \cup Live]
          /\ wait' \in [Jobs -> Nat]
          /\ holder' \in [Jobs -> All \cup {Nobody}]
      BY <2>10 DEF Settle
    <3> QED
      BY <2>10, <3>1 DEF Settle
  <2>11. ASSUME NEW d \in All, DrainThrows(d) PROVE TypeOK'
    <3>1. timer' \in {Off} \cup 0..MaxWake
      BY <2>11, RearmInTime DEF DrainThrows
    <3>2. draining' \in BOOLEAN
      BY <2>11 DEF DrainThrows
    <3>3. /\ doing' \in [All -> Jobs \cup {Nobody}]
          /\ holder' \in [Jobs -> All \cup {Nobody}]
          /\ at' \in [All -> {"off", "sweep", "loop", "lease", "prepare", "review"}]
          /\ throws' \in Nat
      BY <2>11 DEF DrainThrows
    <3>4. UNCHANGED <<status, wait, pending, tree, owed, outages, restarts>>
      BY <2>11 DEF DrainThrows
    <3> QED
      BY <3>1, <3>2, <3>3, <3>4
  <2>12. CASE Fire
    BY <2>12, KickType DEF Fire, Off
  <2>13. CASE Restart
    <3>1. holder' \in [Jobs -> All \cup {Nobody}] /\ doing' \in [All -> Jobs \cup {Nobody}]
      BY <2>13 DEF Restart
    <3>2. /\ timer' \in {Off} \cup 0..MaxWake
          /\ at' \in [All -> {"off", "sweep", "loop", "lease", "prepare", "review"}]
      BY <2>13, StartType DEF Restart
    <3>3. UNCHANGED <<status, wait, tree, outages, throws>> /\ restarts' \in Nat
      BY <2>13 DEF Restart
    <3>4. draining' \in BOOLEAN /\ pending' \in BOOLEAN /\ owed' \subseteq Jobs
      BY <2>13 DEF Restart
    <3> QED
      BY <3>1, <3>2, <3>3, <3>4
  <2>14. CASE Tick
    BY <2>14 DEF Tick, Elapse, Off
  <2>15. CASE UNCHANGED vars
    BY <2>15 DEF vars
  <2> QED
    BY <2>1, <2>2, <2>3, <2>4, <2>5, <2>7, <2>8, <2>9, <2>10, <2>11, <2>12, <2>13, <2>14, <2>15
       DEF Next, DrainStep
<1> QED
  BY <1>1, <1>2, PTL DEF Spec

-----------------------------------------------------------------------------
(* One drain at a time                                                     *)

\* kick's `draining` says whether a drain runs, at most one does, and while no
\* store call threw a remembered kick has a drain to remember it.
OneDrain ==
  /\ draining <=> \E d \in Drains : at[d] # "off"
  /\ \A d, e \in Drains : at[d] # "off" /\ at[e] # "off" => d = e
  /\ pending /\ throws = 0 => draining

\* A kick starts a drain only where none runs (main.ts:57-61).
LEMMA KickStarts ==
  ASSUME TypeOK, OneDrain, Kick(at)
  PROVE  /\ \E d \in Drains : at'[d] # "off"
         /\ \A d, e \in Drains : at'[d] # "off" /\ at'[e] # "off" => d = e
         /\ \A d \in All : at[d] # "off" => at'[d] = at[d]
         /\ at'[Sweeper] = at[Sweeper]
<1>1. CASE draining
  <2>1. at' = at
    BY <1>1 DEF Kick
  <2> QED
    BY <1>1, <2>1 DEF OneDrain
<1>2. CASE ~draining
  <2>1. PICK d \in Drains : d \in Idle(at) /\ at' = [at EXCEPT ![d] = "loop"]
    <3>1. Idle(at) # {}
      BY <1>2 DEF OneDrain, Idle
    <3>2. (CHOOSE d \in Idle(at) : TRUE) \in Idle(at)
      BY <3>1
    <3> QED
      BY <1>2, <3>2 DEF Kick, Started, Idle
  <2>2. \A e \in Drains : at[e] = "off"
    BY <1>2 DEF OneDrain
  <2>3. at[d] = "off" /\ d # Sweeper
    BY <2>1 DEF Idle
  <2> QED
    BY <2>1, <2>2, <2>3 DEF TypeOK, All
<1> QED
  BY <1>1, <1>2

\* A drain that goes on stays the only one.
LEMMA OneDrainGoesOn ==
  ASSUME TypeOK, OneDrain, NEW d \in All, at[d] # "off",
         NEW step \in {"loop", "lease", "prepare", "review"}, Goto(d, step)
  PROVE  \A e \in Drains : at'[e] # "off" <=> at[e] # "off"
  BY DEF TypeOK, Goto

\* A drain that ends leaves no other behind.
LEMMA OneDrainEnds ==
  ASSUME TypeOK, OneDrain, NEW d \in Drains, at[d] # "off", Goto(d, "off")
  PROVE  \A e \in Drains : at'[e] = "off"
  BY DEF TypeOK, OneDrain, Goto, All

\* A process starts without a drain.
LEMMA NoDrainAtStart == \A d \in Drains : AtStart[d] = "off"
  BY DEF AtStart, All

\* Kicks, wake-ups, settles and throws keep kick's flag and its drain together
\* (main.ts:57-75).
LEMMA OneDrainStep ==
  ASSUME TypeOK, OneDrain, [Next]_vars PROVE OneDrain'
<1> USE DEF rows, loop
<1>1. ASSUME NEW j \in Jobs, Webhook(j) \/ WebhookFails(j) PROVE OneDrain'
  BY <1>1 DEF Webhook, WebhookFails, OneDrain, TypeOK
<1>2. ASSUME Kick(at), UNCHANGED throws PROVE OneDrain'
  <2>1. draining'
    BY <1>2 DEF Kick
  <2> QED
    BY <1>2, <2>1, KickStarts DEF OneDrain
<1>3. ASSUME NEW d \in All,
             \/ DrainAgain(d) \/ LeaseNothing(d) \/ Checkout(d)
             \/ \E j \in Jobs : Lease(d, j)
             \/ \E again \in BOOLEAN : Settle(d, again)
      PROVE  OneDrain'
  <2>1. PICK step \in {"lease", "loop", "prepare", "review"} : Goto(d, step)
    BY <1>3 DEF DrainAgain, LeaseNothing, Checkout, Lease, Settle
  <2>2. at[d] # "off"
    BY <1>3 DEF DrainAgain, LeaseNothing, Checkout, Lease, Settle, Working
  <2>3. draining' = draining /\ throws' = throws /\ (pending' => pending)
    BY <1>3 DEF DrainAgain, LeaseNothing, Checkout, Lease, Settle
  <2>4. \A e \in Drains : at'[e] # "off" <=> at[e] # "off"
    BY <2>1, <2>2, OneDrainGoesOn
  <2> QED
    BY <2>3, <2>4 DEF OneDrain
<1>4. CASE Sweep
  <2>1. \A e \in Drains : at'[e] # "off" <=> at[e] # "off"
    BY <1>4, OneDrainGoesOn DEF Sweep, All
  <2> QED
    BY <1>4, <2>1 DEF Sweep, OneDrain
<1>5. CASE SweepEnds
  <2>1. \A e \in Drains : at'[e] = at[e]
    BY <1>5 DEF SweepEnds, Goto, TypeOK, All
  <2>2. throws' = 0 => throws = 0
    BY <1>5 DEF SweepEnds, ScheduleWake, TypeOK
  <2> QED
    BY <1>5, <2>1, <2>2 DEF SweepEnds, OneDrain
<1>6. ASSUME NEW d \in Drains, DrainEnds(d) PROVE OneDrain'
  <2>1. \A e \in Drains : at'[e] = "off"
    BY <1>6, OneDrainEnds DEF DrainEnds, All
  <2> QED
    BY <1>6, <2>1 DEF DrainEnds, OneDrain
<1>7. ASSUME NEW d \in All, DrainThrows(d) PROVE OneDrain'
  <2>1. at[d] # "off" /\ throws' # 0
    BY <1>7 DEF DrainThrows, Working, TypeOK
  <2>2. CASE d = Sweeper
    <3>1. \A e \in Drains : at'[e] = at[e]
      BY <1>7, <2>2 DEF DrainThrows, Goto, TypeOK, All
    <3> QED
      BY <1>7, <2>1, <2>2, <3>1 DEF DrainThrows, OneDrain
  <2>3. CASE d \in Drains
    <3>1. \A e \in Drains : at'[e] = "off"
      BY <1>7, <2>1, <2>3, OneDrainEnds DEF DrainThrows
    <3>2. ~draining'
      BY <1>7, <2>3 DEF DrainThrows
    <3> QED
      BY <2>1, <3>1, <3>2 DEF OneDrain
  <2> QED
    BY <2>2, <2>3 DEF All
<1>8. CASE Restart
  <2>1. \A e \in Drains : at'[e] = "off"
    BY <1>8, NoDrainAtStart DEF Restart
  <2> QED
    BY <1>8, <2>1 DEF Restart, OneDrain
<1>9. CASE Tick \/ UNCHANGED vars
  BY <1>9 DEF Tick, vars, OneDrain
<1>10. ASSUME NEW d \in All, DrainEnds(d) PROVE OneDrain'
  BY <1>6, <1>10 DEF DrainEnds, All
<1> QED
  BY <1>1, <1>2, <1>3, <1>4, <1>5, <1>7, <1>8, <1>9, <1>10
     DEF Next, DrainStep, WebhookKick, Fire

\* One drain, from the start (main.ts:57-75).
LEMMA OneDrainInvariant == Spec => []OneDrain
<1>1. Init => OneDrain
  BY NoDrainAtStart DEF Init, OneDrain
<1>2. TypeOK /\ OneDrain /\ [Next]_vars => OneDrain'
  BY OneDrainStep
<1> QED
  BY <1>1, <1>2, TypeCorrect, PTL DEF Spec

\* Only the startup sweep can replace a tree that a review reads
\* (main.ts:57-75, 122-130).
THEOREM CheckoutsKept == Spec => CheckoutKept
<1>1. ASSUME TypeOK, OneDrain, [Next]_vars PROVE OnlySweepDisturbs
  <2> SUFFICES ASSUME NEW d \in Drains, at[d] = "review", at'[d] = "review", tree' # tree
               PROVE  at[Sweeper] = "prepare" /\ at'[Sweeper] = "review"
    BY DEF OnlySweepDisturbs
  <2>1. PICK e \in All : Checkout(e)
    BY <1>1 DEF Next, DrainStep, Webhook, WebhookKick, WebhookFails, Sweep, SweepEnds,
                DrainAgain, DrainEnds, LeaseNothing, Lease, Settle, DrainThrows, Fire,
                Restart, Tick, vars
  <2>2. e \notin Drains
    BY <1>1, <2>1 DEF Checkout, OneDrain
  <2> QED
    BY <1>1, <2>1, <2>2 DEF Checkout, Goto, All, TypeOK
<1> QED
  BY <1>1, TypeCorrect, OneDrainInvariant, PTL DEF Spec, CheckoutKept

-----------------------------------------------------------------------------
(* No job sleeps                                                           *)

\* Somebody is going to look at the queue: a webhook that has to kick yet, a
\* remembered kick, a drain or the sweep before its last look, or the timer.
Attended ==
  \/ owed # {}
  \/ pending
  \/ \E d \in All : at[d] \in {"sweep", "lease", "prepare", "review"}
  \/ timer = 0 /\ \A d \in All : at[d] = "off"

VisibleAttended == throws = 0 => \A j \in Jobs : Visible(j) => Attended

\* What a restart and the clock do to the processor in the program as it runs: a
\* process starts with the sweep (main.ts:122-130), and no tick falls between a
\* drain's last look at the queue and scheduleWake's (main.ts:65-72).
AsDeployed == Startup /\ PromptWake

Watched == VisibleAttended /\ NoSleepingJob

\* Where nobody is attending, every live job waits, and the timer that is set there
\* is in time for each of them.
LEMMA ArmedInTime ==
  ASSUME TypeOK, VisibleAttended, throws = 0, ~Attended, Rearm
  PROVE  \A j \in Jobs : status[j] \in Live => timer' # Off /\ timer' <= wait[j]
<1> SUFFICES ASSUME NEW j \in Jobs, status[j] \in Live
             PROVE  timer' # Off /\ timer' <= wait[j]
  OBVIOUS
<1>1. wait[j] > 0
  BY DEF VisibleAttended, Visible, TypeOK
<1> QED
  BY <1>1, RearmInTime

\* The last drain to end sets the timer for what waits, and while one is at work
\* it looks at the queue once more (main.ts:36-75, loop.ts:110-126).
LEMMA WatchedStep ==
  ASSUME AsDeployed, TypeOK, OneDrain, Watched, [Next]_vars PROVE Watched'
<1> USE DEF rows, loop, Watched
<1>1. ASSUME NEW j \in Jobs, Webhook(j) PROVE Watched'
  <2>1. owed' # {}
    BY <1>1 DEF Webhook
  <2> QED
    BY <2>1 DEF VisibleAttended, NoSleepingJob, Attended, Resting
<1>2. ASSUME NEW j \in Jobs, WebhookFails(j) PROVE Watched'
  <2>1. throws' # 0
    BY <1>2 DEF WebhookFails, TypeOK
  <2> QED
    BY <2>1 DEF VisibleAttended, NoSleepingJob
<1>3. ASSUME Kick(at) PROVE Watched'
  <2>1. pending' /\ \E d \in Drains : at'[d] # "off"
    BY <1>3, KickStarts DEF Kick
  <2> QED
    BY <2>1 DEF VisibleAttended, NoSleepingJob, Attended, Resting, All
<1>4. ASSUME NEW d \in All, at'[d] \in {"sweep", "lease", "prepare", "review"} PROVE Watched'
  BY <1>4 DEF VisibleAttended, NoSleepingJob, Attended, Resting
<1>5. ASSUME NEW d \in All,
             \/ DrainAgain(d) \/ Checkout(d)
             \/ \E j \in Jobs : Lease(d, j)
             \/ \E again \in BOOLEAN : Settle(d, again)
      PROVE  Watched'
  <2>1. at'[d] \in {"lease", "prepare", "review"}
    BY <1>5 DEF DrainAgain, Checkout, Lease, Settle, Goto, TypeOK
  <2> QED
    BY <1>4, <2>1
<1>6. CASE Sweep
  <2>1. at'[Sweeper] = "lease"
    BY <1>6 DEF Sweep, Goto, TypeOK, All
  <2> QED
    BY <1>4, <2>1 DEF All
<1>7. ASSUME NEW d \in All, LeaseNothing(d) PROVE Watched'
  <2>1. at'[d] = "loop" /\ \A j \in Jobs : ~(Visible(j))'
    BY <1>7 DEF LeaseNothing, Goto, TypeOK, Visible
  <2> QED
    BY <2>1 DEF VisibleAttended, NoSleepingJob, Resting
<1>8. ASSUME NEW d \in All, at[d] = "loop", Goto(d, "off"), ScheduleWake,
             pending' = pending, owed' = owed, rows' = rows,
             (\A e \in All : at'[e] = "off") => ~pending
      PROVE  Watched'
  <2>1. CASE throws' # 0
    BY <2>1 DEF VisibleAttended, NoSleepingJob
  <2>2. CASE throws' = 0
    <3>1. throws = 0 /\ Rearm
      BY <1>8, <2>2 DEF ScheduleWake, TypeOK
    <3>2. ASSUME Attended PROVE Attended'
      BY <1>8, <3>2 DEF Attended, Goto, TypeOK
    <3>3. VisibleAttended'
      BY <1>8, <3>1, <3>2 DEF VisibleAttended, Visible
    <3>4. ASSUME Resting' PROVE ~Attended
      BY <1>8, <3>4 DEF Attended, Resting, Goto, TypeOK
    <3>5. NoSleepingJob'
      BY <1>8, <3>1, <3>4, ArmedInTime DEF NoSleepingJob
    <3> QED
      BY <3>3, <3>5
  <2> QED
    BY <2>1, <2>2
<1>9. ASSUME NEW d \in All, DrainEnds(d) PROVE Watched'
  BY <1>8, <1>9 DEF DrainEnds
<1>10. CASE SweepEnds
  <2>1. ASSUME throws = 0, \A e \in All : at'[e] = "off" PROVE ~pending
    BY <1>10, <2>1 DEF SweepEnds, Goto, TypeOK, All, OneDrain
  <2>2. CASE throws # 0
    <3>1. throws' # 0
      BY <1>10, <2>2 DEF SweepEnds, ScheduleWake, TypeOK
    <3> QED
      BY <3>1 DEF VisibleAttended, NoSleepingJob
  <2>3. CASE throws = 0
    BY <1>8, <1>10, <2>1, <2>3 DEF SweepEnds, All
  <2> QED
    BY <2>2, <2>3
<1>11. ASSUME NEW d \in All, DrainThrows(d) PROVE Watched'
  <2>1. throws' # 0
    BY <1>11 DEF DrainThrows, TypeOK
  <2> QED
    BY <2>1 DEF VisibleAttended, NoSleepingJob
<1>12. CASE Restart
  <2>1. at'[Sweeper] = "sweep"
    BY <1>12 DEF Restart, AtStart, AsDeployed, All
  <2> QED
    BY <1>4, <2>1 DEF All
<1>13. CASE Tick
  <2>1. UNCHANGED <<status, pending, at, owed, throws>> /\ timer' = Elapse(timer)
    BY <1>13 DEF Tick
  <2>2. \A j \in Jobs : wait'[j] = Elapse(wait[j])
    BY <1>13 DEF Tick
  <2>3. \A d \in All : at[d] # "loop"
    BY <1>13 DEF Tick, AsDeployed
  <2>4. ASSUME throws = 0, ~Attended PROVE Resting /\ ~Attended
    BY <2>3, <2>4 DEF Attended, Resting, TypeOK
  <2>5. ASSUME throws = 0, Resting,
               NEW j \in Jobs, status[j] \in Live
        PROVE  timer' # Off /\ timer' <= wait'[j]
    BY <2>1, <2>2, <2>5 DEF NoSleepingJob, Elapse, TypeOK, Off
  <2>6. NoSleepingJob'
    BY <2>1, <2>5 DEF NoSleepingJob, Resting
  <2>7. ASSUME throws = 0, Attended PROVE Attended'
    BY <2>1, <2>7 DEF Attended, Elapse
  <2>8. ASSUME throws = 0, ~Attended, NEW j \in Jobs, (Visible(j))' PROVE Attended'
    <3>1. timer' # Off /\ timer' <= wait'[j] /\ wait'[j] = 0
      BY <2>1, <2>4, <2>5, <2>8 DEF Visible
    <3>2. timer' = 0
      BY <2>1, <3>1 DEF TypeOK, Elapse, Off
    <3> QED
      BY <2>1, <2>4, <2>8, <3>2 DEF Attended, Resting
  <2>9. VisibleAttended'
    BY <2>1, <2>7, <2>8 DEF VisibleAttended
  <2> QED
    BY <2>6, <2>9
<1>14. CASE UNCHANGED vars
  BY <1>14 DEF vars, VisibleAttended, NoSleepingJob, Attended, Resting, Visible
<1> QED
  BY <1>1, <1>2, <1>3, <1>5, <1>6, <1>7, <1>9, <1>10, <1>11, <1>12, <1>13, <1>14
     DEF Next, DrainStep, WebhookKick, Fire

\* No job sleeps through: when the processor is at rest the wake-up is set, in time
\* for everything that still waits, as long as no store call threw
\* (main.ts:29-55).
THEOREM NoJobSleeps == ASSUME AsDeployed PROVE Spec => []NoSleepingJob
<1>1. Init => Watched
  BY DEF AsDeployed, Init, AtStart, Watched, VisibleAttended, NoSleepingJob, Attended,
         Resting, All, Visible, Live
<1>2. TypeOK /\ OneDrain /\ Watched /\ [Next]_vars => Watched'
  BY WatchedStep
<1>3. Watched => NoSleepingJob
  BY DEF Watched
<1> QED
  BY <1>1, <1>2, <1>3, TypeCorrect, OneDrainInvariant, PTL DEF Spec
=============================================================================
