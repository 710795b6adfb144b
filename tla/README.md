# Verification of previewer

previewer reviews pull requests with a language model: GitHub webhooks and an hourly sweep put review
jobs into a SQLite queue, drain loops lease them, a pipeline claims the PR's head, runs a model in a
checkout of it, publishes one comment and records the run. Every step is paid for or visible to people,
and every step can fail, be repeated or overlap with another process. The TLA+ modules in this directory
model that machinery; TLC checks small instances, TLAPS proves the main facts for instances of any size.

All paths are relative to the repository (`src/` in it is the implementation). The file `PROJECT.json`
lists every definition with the lines it models, every run, mutant, hazard, finding and theorem.

## 1. Inventory

| Component | State | Operations | Modelled in |
|---|---|---|---|
| Job queue `src/store/sqlite-queue.ts` | table `jobs`: one row per (repo, PR, head), UNIQUE for ever | `enqueue` (plain, forced), `lease`, `ack`, `nack`, `nackTransient`, `nextVisibleAt` | `JobQueue` (abstractly `JobDelivery`), the last in `IngressDrain` |
| Drain loop `src/apps/worker/loop.ts` | the leased job | `drainQueue`, `processLeased`, `settleFailure` | `JobQueue`, `IngressDrain`, `Previewer` |
| Review-run store `src/store/sqlite-store.ts` | tables `review_runs` and `deliveries` | `claimReview`, `releaseClaim`, `recordRun`, `lastReviewedSha`, `isReviewed`, `isReviewedOrInFlight`, `seenDelivery`, `markDelivery` | `ReviewRuns`, `IncrementalCoverage`, `WebhookIngress`, `Previewer` |
| Pipeline `src/apps/worker/pipeline.ts` | claim id, PR head, diff, result | `reviewPipeline` and its exits | `ReviewRuns`, `IncrementalCoverage`, `Previewer` |
| Publisher `src/github/publish.ts`, `app.ts` | the PR's comment thread on GitHub | `upsertReviewComment` | `ReviewRuns` |
| Workspace and git `src/apps/worker/workspace.ts`, `src/github/git.ts`, `worktree.ts` | one cache checkout per repository; worktrees in an operator's clone | `isGitRepo`, `freshClone`, `ensureCheckout`, `ensureSha`, `effectiveFrom`, `mergeBaseSafe`, `gitDiff`, `addWorktree` | `Checkout`, `IncrementalCoverage`, `IngressDrain` |
| Ingress processor `src/apps/ingress/main.ts` | `draining`, `pending`, `wakeTimer` | `kick`, `scheduleWake`, startup sweep | `IngressDrain` |
| Webhook handlers `src/apps/ingress/server.ts`, `src/github/webhook.ts` | requests in progress | `handlePullRequest`, `handleIssueComment` | `WebhookIngress`, `Previewer` |
| Reconciler `src/apps/reconciler/` | none | `reconcile` | `Previewer`, `IngressDrain` |
| Failure classification `src/core/retry-classification.ts` | none | `describeFailure`, `classifyFailure` | `RetryClassification` |
| CLI runners `src/runners/cli/`, `src/runners/shared/output.ts` | one external process | `review`, `run`, `buildReviewResult`, `describeCliFailure`, `buildWorkspaceContext` | `RunnerAttempt`, `WorkspaceContext` |
| Dependency installer `src/apps/worker/install.ts` | `node_modules` in the checkout | `install` | `RunnerAttempt` |
| Diff budget `src/apps/worker/diff-budget.ts` | none | `capPatch`, `patchBudgetChars` | `PatchBudget` |
| Runner policy and profiles `src/config/runner-profiles.ts`, `src/apps/worker/policy.ts` | `platform.yaml`, each `repo.yaml`, the process's copy | `runnerConfigProblem`, `resolveRunnerProfile`, `selectRunnerSelector`, `setRepoRunnerProfile` | `RunnerConfig` |
| Onboarding and context packs `src/context/` | the pack's files, the command's clone | `run`, `loadPrevious`, `buildInvariants`, `reconcileRoutingProfiles`, `writePack`, `loadPack` | `Onboarding` |
| Command line `src/apps/cli/main.ts` | none | `review` (with `--force`, `--local`, `--runner`), `runner use`, `onboard` | runs of `ReviewRuns`, operators of `Previewer`, `RunnerConfig`, `Checkout`, `Onboarding` |
| Configuration and wiring `src/compose.ts`, `src/config/` | none | what stops a process at its start | `RunnerConfig` |
| Dashboard, logging, redaction | none | read-only | not modelled |

How they interact. The processes (ingress, reconciler, worker, an operator's CLI) share nothing but the
SQLite file, the checkout directories and GitHub. Inside the ingress process webhooks, the timer and the
drain are asynchronous functions of one event loop. A job names a head, but the pipeline reviews the head
the PR has when it looks; the queue deduplicates on the head for ever, the claim deduplicates on the
review row, the comment on a marker, the delivery on its id. Four dedupes with four lifetimes is where
the hard behaviours are:

* **timeouts**: a lease (35 min) and a claim (15 min) expire under a live worker (a review may take 30 min);
* **retries**: transient failures are retried without being charged, others with two different budgets;
* **ordering**: heads are pushed, force-pushed, reset, and recorded in any order;
* **crashes**: between lease and settle, between publishing and recording, between enqueue and mark;
* **atomicity**: list-then-create a comment; see-then-mark a delivery; drain-then-arm the timer;
* **stale state**: the job's head against the PR's head; the baseline against the rows it came from;
* **foreign processes**: git and the model's CLI may fail at any command, be killed, or say what went wrong
  only in prose; a failure is charged or retried by what its text happens to contain;
* **files edited around a process**: configuration, context packs and rules change while they are read;
* **liveness**: no job sleeps, no head of an open PR stays unreviewed, a broken cache directory heals.

What makes each component correct: the queue delivers at least once, to one owner at a time, and charges
exactly the failures; a claim is exclusive and never stranded; a covered head has its comment, and one;
incremental ranges add up to the whole PR; the processor never rests while a job waits; a delivery that is
answered as a duplicate was handled; together, a head of an open PR is reviewed in the end. A review works
on its own repository and on a range that is the PR's; no outage costs a review and no refusal is retried
for ever; what is not shown to the model is named; a review that claims its head has a runner; and a rule
is in force exactly when a person approved it.

## 2. Modules

**`JobDelivery`** is what the queue promises: jobs with a phase and one owner, delivered at least once.
**`JobQueue`** is the table row by row. Times are relative (`wait` is `visible_at - now`) and `Tick` ages
all rows at once, so any constant offset of the real clock is one state. `Nack(w, cap)` is reached
through `FailUnknown` and `FailPermanent`, the two budgets of `settleFailure`. A worker's death leaves the
row leased. `MaxFaults` bounds deaths and leases outlived by their worker. `verdicts` is a history
variable. `Delivery == INSTANCE JobDelivery` is the refinement: the owner of a job is the worker whose
token is the row's `lease_id`.

**`ReviewRuns`** is one PR's `review_runs` rows and its comment thread, worked on by any number of
concurrent executions of `reviewPipeline`. `age` is `now - started_at`. Every await after the claim may
throw (`Throw`); the release that follows is a write to the same store and may throw itself
(`ReleaseFails`), which leaves the row as a death does (`Crash`), with the process alive. The thread is a sequence of whose marker each comment
carries; listing sees the first page only. `orphans`, `stuck` (claims a failed release left behind) and `overtaken`
are history variables that name the exceptions of the properties.

**`IncrementalCoverage`** is the question whether incremental ranges add up: commits with the set of
commits below them, baselines chosen by `lastReviewedSha` and dropped by `effectiveFrom` when they are no
ancestor. A commit stands for its content; the base of the PR is fixed; ties of `finished_at` are left out.

**`IngressDrain`** is the ingress process: an action is what runs between two awaits. Queue rows are
reduced to what the processor sees of them (`done` stands for `dead_letter` too).

**`WebhookIngress`** is the two webhook handlers with the deliveries table. Between network waits Node.js
runs without a break, so a `pull_request` event is one step; a comment command is two, with GitHub's answer
in between. Any store call may throw, which leaves what was done before it.

**`Previewer`** composes `JobQueue` and `ReviewRuns` (both by `INSTANCE`, over the same heads) with
GitHub's PR, the webhooks, `/rereview`, the sweep, the drain loops and operators. Its time unit is the
claim's 15 minutes; a lease is longer than that (`Visibility` > `Stale`: 1 and 0, or 2 and 1), and the clock
does not pass between a lease and the claim that follows it within seconds. A webhook that comes late stands for the gap
between the sweep's list and its enqueue. Every error of the runners is retriable, as in the code
(`runners/shared/output.ts`).

**`Checkout`** is how reviews of one repository, in several drains and processes, get their tree and diff.
Each git command is a step; any may fail by itself (`MaxFaults`), fails when the directory or the commit it
needs is not there (`Impossible`), and the process may die between two. `dir` is absent, partial or a
repository: a git command in a partial directory walks up to the working tree Previewer itself lives in,
which is what `strayed` records. `ChooseBaseline` is `effectiveFrom` and `mergeBaseSafe`, where every
question to git may go unanswered. A request says from where and in which mode; a review that goes on from the
PR's own base is not asked about (`Asks`), and stays incremental even if its head was rewritten. A `--local` review adds a worktree to the operator's clone instead.

**`RetryClassification`** is the classifier: a failure is its status, two flags and the set of phrases its
text contains. **`RunnerAttempt`** is where failures come from: one job is taken again and again; the
pipeline, the install and the CLI process fail for a true `cause` the code never sees, each in the forms it
can take (`Thrown`, `Says`): GitHub's API gives a status, git and the engines give texts, which a pattern may
know or not, with accidental words around them (`Noise`); `Settle` classifies and charges. `genuine` and
`obscured` (outages whose text hides them, `Hides`) are history variables.

**`PatchBudget`** is the loop of `capPatch` over the lengths of a patch's sections. **`WorkspaceContext`** lists
the candidates that codex's prompt may inline one `add` at a time (`listing` is the loop that is running, `todo`
what it has left to add for one file, `copied` the copy of the list the second loop goes through) and then
inlines them until the budget is used up.

**`RunnerConfig`** is the two configuration files under edits by hand, `runner use`, a process that reads
them at its start, and reviews by the process and by operators. `outcome` is the last review.

**`Onboarding`** is the `onboard` command: its clone, the pack before, a model's answer (any part of which may
be missing), the repository's own rules, the write of the pack file by file, a kill between any two steps,
people who judge rules in the file, and the packs a reviewer may load meanwhile (`Readable`).

`Checkout`, `RunnerAttempt`, `PatchBudget`, `WorkspaceContext`, `RunnerConfig`, `Onboarding` and
`WebhookIngress` share no variable. `MCReview` checks them in one run: `part` chooses one in the initial state, and only it moves.

Modules named `MC...` instantiate these for TLC, modules named `...Proofs` hold the theorems. In
every module the operators with a longer name next to a definition (`RequeueKeepingLease` beside `Requeue`)
are the mistakes the properties are tested against.

## 3. Runs

| Run | What it asks | Instance | Result |
|---|---|---|---|
| `queue` | leases unambiguous, failures charged exactly once, late verdicts void, refinement of `JobDelivery`, every job settled | 2 jobs, 2 loops, 1 outage, 1 fault, 1 forced requeue, budgets 2 and 3 | holds |
| `queue_crash_loop` | attempts stay within `max_attempts` | 1 job, 1 loop, 3 deaths, budget 2 | violated |
| `runs_safety` | claims, comments, coverage | 1 head, 3 runs, 1 crash or failed release, 1 forced run, any number of throws | holds |
| `runs_comment_race` | one comment per head | 1 head, 2 runs, no faults | violated |
| `coverage` | examined commits | 3 commits, 2 runs, 3 records | holds |
| `ingress` | no sleeping job, checkouts kept, every job finishes, after a throw with the next kick | 2 jobs, 2 drains and the startup sweep, 1 outage, 1 throw or restart | holds |
| `shared_checkout` | a review reads its own head | 2 jobs, 2 drains and the startup sweep, no faults | violated |
| `previewer_safety` | a job that is done has covered its head | 1 head, 2 loops, 1 operator, 1 crash or failed release, 1 forced requeue, 2 forced runs | holds |
| `previewer_liveness` | an open PR's head is reviewed | 2 heads, 1 loop, 1 push, 1 crash or failed release | holds |
| `completeness` | the same without exceptions | 1 head, 1 loop, 2 changes of the PR | violated |
| `review` | right repository, sound ranges, whole and healing checkouts; failures routed; patch and context honest; runners found; approvals kept and never invented; marked deliveries handled, commands spent once | 2 reviews, 4 commits, 1 fault; budgets 2 and 3, both engines; 4 sections of 3 lengths and every budget around their sums; 5 files of 3 lengths and 5 budgets; 2 repositories, 2 profiles, 2 edits; 2 onboardings, 1 kill, 2 rules with 2 texts; 2 deliveries of any of 11 kinds, 2 requests, 2 heads | holds |
| `git_refusals` | git's refusals are not retried for ever | both engines, budgets 2 and 3 | violated |

Why the bounds are enough. Each property is violated by two actors and one disturbance, or by one actor
and two disturbances, in every mutant tried; the instances have one more of something. Two loops with two
jobs are the smallest instance where a worker's token can meet another's row; in `previewer_safety` two loops
are what a redelivery needs while the first worker still reviews, two forced runs are what two quick
`/rereview`s make of one head, and pushes and closed PRs are left to `previewer_liveness` and to the theorem; three runs are needed for
`runs_safety`, for an overtaken run, its successor and the third that a wrong release would let in; three
commits give a push, a force-push next to it and a reset; two drains and the sweep are one more than the
process runs at once. Windows of one or two units separate "expired", "expiring" and "fresh", which is all
that the code compares; the model's clocks saturate where no comparison tells values apart. The payloads of
the webhooks are the honoured ones and those that differ in one field. In `review` the history has a base
that moved on, a branch that is pushed to and forced back, so the baseline is usable, foreign, missing or the
base itself;
one fault beside another review's removal reaches every broken state of the directory. Section and file
lengths include zero, and the budgets meet sums of them exactly and miss them by one. Two edits
are a profile and the file that names it. Two onboardings are a first, killed or
not, and one that finds what it left; the theorems have no such bound. In `previewer_liveness` the PR is opened
with a fixed one of the two heads, which nothing else tells apart.
Symmetry is used in safety runs only, over sets whose members the code cannot tell apart (heads and jobs
are not permuted in `JobQueue`, where `created` orders them). Deadlock is not checked: a bounded
instance stops when its bounds are used up and its jobs are settled, or its part has come to its end.

Each property of a passing run also has a mutant: a plausible mistake in a modelled definition under which
TLC finds the property violated in the same instance.

## 4. Fairness

* `JobQueue`: loops keep leasing and settling (`drainQueue` loops until the queue is empty, and the worker,
  ingress and reconciler call it again and again), and time passes. Settling includes dying, so a death
  needs no fairness of its own; outages and deaths are bounded, as "once they stop" says.
* `IngressDrain`: the event loop runs what is ready, reviews end (the pipeline has a 30-minute timeout), a
  timer that is due fires, and time passes. Time needs strong fairness: with `PromptWake` the tick is
  disabled between a drain's last look and the arming of the timer, again and again.
* `Previewer`: the sweep comes round (`setInterval`), loops lease, every worker goes on with its job, and
  time passes. No fairness for webhooks, people or GitHub. A worker's fairness covers all the outcomes of
  its next step together, so no run is entitled to succeed.

* `Checkout`: a review that does not die goes on, and the queue brings reviews for ever (strong fairness,
  since the reviews may all be busy again and again; those an operator starts do not count). `review` assumes
  it of its checkout part only, so `CacheHeals` is judged there: in the other parts no review is busy, and
  starting one is a step that stays possible and never happens, so fairness excludes them.

## 5. Disagreements between code and documents

* **A crashing review is leased for ever** (`queue_crash_loop`). `lease` increments `attempts` on an expired
  row and never looks at the cap; only `nack` does. `docs/ARCHITECTURE.md:105` says `max_attempts` leads to
  `dead_letter`.
* **Two comments on one head** (`runs_comment_race`). A run older than 15 minutes is overtaken; both list
  before either creates. `publish.ts:8` says exactly one comment.
* **A review reads another head's files** (`shared_checkout`). The startup sweep drains without setting
  `draining`; a webhook starts a second drain; both check out in one directory (`main.ts:26`,
  `workspace.ts:10`).
* **The sweep does not complete** (`completeness`). The job row of a head is `done` or `dead_letter` while its
  review is missing: the job ran while the PR was a draft or closed, or it reviewed a newer head, or its
  budget was used up. The sweep's enqueue is a duplicate, now and later. `reconciler/main.ts:1` and
  `README.md:77` promise the opposite; `retry-classification.ts` knows of the `dead_letter` case. What does
  hold is `UncoveredGetReviewed`, where these heads are excused, and those below that a second `/rereview` or a
  failed release leaves.
* **A refusal of git is retried for ever** (`git_refusals`). It has no status, so only its text is looked at,
  and `limit-error.ts:10` finds `429` or `quota` anywhere in it: in a commit, a URL, a repository's name. The
  comment at `retry-classification.ts:70` and the test at `tests/retry-classification.test.ts:108` say
  "not transient", "no infinite retry". With a status the classifier is careful (`RefusalsCharged`).

Two more, which no run of this project isolates, can be seen by changing an instance by hand:

* with a page of one comment and one comment by somebody else (`PageSize = 1`, `MaxChatter = 1` in
  `ReviewRunsCommentRace.cfg`, one crash, one run), a retry after a crash between publishing and
  recording does not find its marker and posts again (`app.ts:77`); `NoDuplicateComment` is conditional on
  the thread fitting a page;
* with `PromptWake = FALSE`, a back-off that ends between the drain's last `lease` (`visible_at <= now`) and
  `nextVisibleAt` (`visible_at > now`) is in neither query, no timer is armed and the job sleeps until the
  next webhook or sweep (`sqlite-queue.ts:248`).

What the models say of the code where its comments promise more, each visible as an exception in a property
or a comment on a definition:

* a store call that throws out of a drain leaves `pending` set and `draining` clear: the remembered kick has
  no drain until another kick comes (`main.ts:67`; `NoSleepingJob` excludes it, `JobsFinish` says what is left);
* a review that finds the cache directory removed by another one, between its check and its command, runs git
  in Previewer's own repository (`git.ts:94-99` wants that impossible; `disturbed` in `RightRepository`), and
  two reviews may remove each other's clone; a crash leaves a temporary clone behind under a random name;
* `ensureDefaultCheckout` asks `existsSync` only (`git.ts:152`): after an interrupted first clone the next
  onboarding runs fetch, checkout and `reset --hard` where no repository is (`interrupted` in `OwnClone`);
* a worktree stays in the operator's clone when its diff throws (`workspace.ts:79`; `leaked`);
* codex's interim message is taken for its answer, so an exit code and a limit error are dropped and the
  outage is charged (`codex.ts:122`; `obscured` in `OutageKeepsJob`);
* an install killed by its timer counts as installed, since `close` reports no code, and its partial
  `node_modules` is taken as given from then on (`executor.ts:71`, `install.ts:40`; `killed`);
* a release that fails (`pipeline.ts:210`) leaves the `running` row that the comment at `pipeline.ts:102-106`
  warns of, and the error of the store replaces the first one; a retry within 15 minutes is a duplicate, which
  `loop.ts:100` acks, and the review is lost (`stuck` in `NoStrandedClaim`, an exception of `DoneMeansCovered`);
* a head that was force-pushed off a last reviewed head which is the PR's base is still called `incremental`
  (`workspace.ts:34`, against the promise at `22-25`), although its range starts at a merge base like a full
  one: its content is right, its label is not (the first conjunct of `RangeSound`);
* an outage whose text no pattern knows, such as a bare "could not read from remote repository", is charged
  until the job is dead; the code says so (`retry-classification.ts:66-69`; `obscured` in `OutageKeepsJob`);
* a timeout is transient, so a review that always times out is retried without bound;
* two `/rereview`s in quick succession: the second takes the lease away from a worker that has not claimed the
  head yet, and another worker reviews the head and settles the job as `done`; the first then claims the head
  by force, under a lease it lost, and if its review fails the head is uncovered and no one retries it
  (`Unleased`, an exception of `DoneMeansCovered`);
* `runner` problems "clear the moment the config is fixed" (`retry-classification.ts:160`), but a process reads
  the files at its start only; and one profile with an unregistered runner stops every command,
  `--runner` included (`compose.ts:102`, against `pipeline.ts:73`);
* a pack that a kill left torn counts as none, so its approved rules are lost (`onboarding.ts:187`; `torn` in
  `ApprovedKept`); a rule proposed again under a confirmed id is confirmed with its new text
  (`onboarding.ts:361`), which is why `NeverSelfApproved` speaks of ids; a rejected rule that is proposed
  again comes back as unconfirmed;
* the preloaded context may exceed its budget by two characters a section, for the separators are not
  counted (`workspace-context.ts:97`), and a file the budget cuts is not marked as truncated.

## 6. What is proved

Eight modules hold theorems; their parameters are arbitrary sets and numbers under the named assumptions of
the modules they are about, which TLC evaluates on the runs of those modules. `QueueAssumption`,
`RunsAssumption`, `CoverageAssumption`, `WebhookAssumption` and `ConfigAssumption` ask for distinct names for
"none", windows that are natural numbers, the unknown budget not above the other and finitely many keys;
`RunnerAssumption` for positive caps in that order; `PatchAssumption` for lengths that are natural numbers
and a preamble that can only be the first section; `ContextAssumption` for files with sequences of guides and
references; `OnboardingAssumption` for an `Absent` that is no set of profiles or rules; `CheckoutAssumption`
for a history that is reflexive and transitive and in which related commits have a best common ancestor, as in
any history without cycles; `IngressAssumption` for at least one drain and names that differ;
`PreviewerAssumption` for those of the queue and the runs, for workers that are no operators, and for
`Visibility > Stale`: a lease outlives a claim, 35 minutes (`loop.ts:112`) against 15 (`sqlite-store.ts:61`).

* **`JobQueueProofs`**. `TypeCorrect`; `LeasesDisciplined`, which is inductive as it stands because its four
  conjuncts tie rows and tokens both ways; `AttemptsAccounted` and `DeadLettersEarned` from `Budget`, their
  conjunction, relative to lease discipline; `StaleVerdictsIgnored`: a token that is no row's lease selects
  no row; `QueueImplementsDelivery`: initial states and steps map to `JobDelivery` (`StepRefines`, one step
  per action), where lease discipline makes the mapped owner unique (`OwnerIsHolder`).
* **`ReviewRunsProofs`**. `TypeCorrect`; `ClaimsNotStranded`; `ReleasesOwnOnly`. `Exclusive` and `CoverageStays`
  rest on `Solo`: on a head nothing overtook, the run at work is alone, owns the row, and the row is
  `running`. Exclusion alone is not inductive, because a second claim is refused only while the row says
  `running`. `ReviewedHeadsHaveComments` needs `CommentKnown`: what a run past listing knows of the thread
  stays true, since comments are only added. `CommentsUnduplicated` needs `Solo` and `NothingThere`: a run
  that saw no comment is right until it creates one.
* **`IncrementalCoverageProofs`**. `TypeCorrect`; `CoverageIsComplete` and `BaselinesAreExamined`, which are
  inductive only together.
* **`WebhookIngressProofs`**. `TypeCorrect`; `MarkedAreHandled`, with the fact that only commands wait for
  GitHub; `CommandsForcedOnce` from `SpentIsOver`: an untroubled delivery that is spent is marked, and one
  that is marked has no handler.
* **`IngressDrainProofs`**. `TypeCorrect`. `CheckoutsKept` from `OneDrain`: `draining` says whether one of kick's
  drains runs, at most one does, and a remembered kick has a drain to remember it. `NoJobSleeps` assumes the
  processor as it is deployed (`AsDeployed`: it starts with a sweep, and no tick falls between a drain's last
  look and the arming of the timer) and needs `VisibleAttended`: while a job is visible somebody is going to
  look at the queue. `NoSleepingJob` alone is not inductive, since it says nothing of a drain about to stop;
  with `VisibleAttended` the last drain to stop leaves only jobs that wait, and the timer is armed in time
  for each (`ArmedInTime`), because a set of waiting times has a smallest one (`LeastDuration`).
* **`RepositoryProofs`**, on `Checkout` and `Onboarding`. `CheckoutInv` is kept by every step: typing with "the
  directory is a repository exactly when it has commits"; `Ranged`, soundness from the choice of the range on,
  which rests on `MergeBaseOfAncestor` (the best common ancestor of a head and a commit below it is that
  commit); `Complete`, a clone about to be renamed is whole; `Robbed`, whoever works in a partial directory had
  it removed by another, without which `RightRepository` is not inductive; `WorktreesRemoved`. From these
  `RepositoryRight`, `RangesSound`, `WorktreesAreRemoved` and `DirectoryAppearsWhole`. `BaselineIsAlways`: disk
  and draft always have the baseline in each file they have (`Based`), so any mixture of the two does.
  `NothingSelfApproved` and `ApprovalsKept` relate the rules on disk, in the draft and in the pack before to
  the history of approvals at every step of the command; `OwnClones` from `Cloned`.
* **`RunnerProofs`**, on what happens around the model. `RunnersFound` and `SwitchesTakeEffect`: the last outcome
  follows from the files it was computed from (`Explained`), and a chosen profile is still the active one
  (`Chosen`). `PatchIsHonest` with `CountsWhatItJoins`: what the loop counts is the length of what it will join.
  `PrimaryIsFirst` with `PrimaryListed` (every instruction file and changed file is in the list, or still to be
  added, before anything merely related is) and `ShownSoFar` (up to the cursor everything readable is shown
  whole, after it nothing is). `ThrownRouted` and `SaysRouted` prove, form by form, how every failure a cause
  can take is classified; `RefusalsAreCharged` follows. `OutagesKeepJobs` needs `Accounted`: the attempts
  charged, and the one about to be, are at most the genuine failures and the obscured ones (an obscured one that
  happens to say 429 is not charged), and `Budgeted`: a dead job used up a budget. `InstallsHonest` is inductive as it stands.
* **`PreviewerProofs`**, the whole platform, for any heads, loops and operators. Nothing proved of the queue or of
  the runs is proved again: `WhoMoves` says that every step of the platform is a step of the queue that leaves
  the runs alone, a step of the runs that leaves the queue alone, or a step (or stutter) of both, so the
  inductive invariants of the two modules are kept (`PartsKept`, through `QueueInvStep` and `RunsInvStep`).
  Hence `TypeCorrect`, `PartsPromise` (leases, accounting, claims and comments hold in the composition),
  `StepsPromise` (so do the action properties) and `PlatformDelivers` (the queue inside the platform still
  implements `JobDelivery`). `DoneJobsAreCovered` needs what relates the two, `CoverageInv`. A worker in the
  pipeline works on its own job's head (`OnItsJob`); before its claim it has its lease, and all of it
  (`LeaseIsFresh`); on a head with a live claim, the job's remaining wait and the claim's age add up to a
  lease at least (`LeaseOutlivesClaim`), so that whoever leases the job next finds a claim to take over
  (`NoClaimAhead`), a "duplicate" is of a covered head, and so is every ack that counts (`AckMeansCovered`). A
  claim that a failed release left behind is the one that does not go with its lease; heads in `stuck` are
  outside the two, and a duplicate of one is excused.
  `LeaseIsFresh` leans on the model's clock, which does not pass between a lease and its claim (section 2).

Every invariant used above was checked by TLC before it was proved.

## 7. What is only model-checked

Every safety invariant and every action property a run checks is stated by a theorem, and so is the
refinement. What is left to TLC:

* liveness (`JobsSettle`, `JobsFinish`, `UncoveredGetReviewed`, `CacheHeals`), fairness and `ENABLED` included,
  is beyond the prover;
* the five violations of section 5, whose counterexamples are what they show;
* induction over data. No definition a theorem rests on is recursive: the lists of `PatchBudget` and
  `WorkspaceContext` are built by steps, so that the induction is the one over behaviours, and the one fact
  that needs a least element (`LeastDuration`) cites the well-foundedness of `<`. `TransientBackoff` is written
  so that the prover needs nothing about `2^n`: the delay is one of `0..TransientCap`, chosen by its defining
  equation; the runs keep base and cap equal, so the growth of `2^n` itself is in none of them.

`InstallHonest`, `WorktreesRemoved`, `WebhookTypeOK`, `Previewer`'s `TypeOK` and the promises of the parts inside `Previewer` are
the other way round: they are proved and no run repeats them.

## 8. Plan

1. In `Previewer`: the cool-down after limit errors in `isReviewedOrInFlight`, and several repositories.
2. The routing of profiles by glob (`context/routing.ts`) against a reference definition, and the cache of
   `FsContextProvider`, which is never refreshed.
3. The comment's and the prompt's account of omitted files (`runners/shared/prompt.ts`).
4. Onboarding by two operators at once, and the discovery of source documents (`context/discover.ts`,
   `context/assess.ts`), now a nondeterministic choice.

## 9. Not modelled

The dashboard (read-only queries and HTML), configuration schemas, object construction, logging and redaction
keep no state the properties could be about. Dry runs of a review have no effects. Signatures, payload limits
and other events end a request before any state is touched. The text of prompts, reviews and comments is
data; a comment is its marker, a review its outcome. What the scan, discovery and inventory of a repository
find (`context/fs-scan.ts`, `discover.ts`, `inventory.ts`) only chooses among the cases `Onboarding` has. The
API runner is a stub that throws. The hourly reconciler process is outside `IngressDrain` and inside
`Previewer`; its loop over repositories, where one failure does not stop the others, is left out.
