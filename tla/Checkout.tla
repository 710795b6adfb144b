------------------------------ MODULE Checkout ------------------------------
(***************************************************************************)
(* How a review gets the tree and the diff it reads (github/git.ts,        *)
(* github/worktree.ts, apps/worker/workspace.ts).                          *)
(*                                                                         *)
(* All reviews of a repository share one cache directory, which lies       *)
(* inside Previewer's own working tree: a git command in a directory that  *)
(* is not a repository of its own works on Previewer's.  Reviews run in    *)
(* several drains and processes, so every git command is a step; any of    *)
(* them may fail, and a process may die between two.  A `--local` review   *)
(* adds a worktree to the operator's clone instead.                        *)
(***************************************************************************)
EXTENDS Integers, FiniteSets

CONSTANTS
  Reviews,     \* reviews of one repository
  Commits,     \* the repository's commits
  History,     \* History[c]: the commits reachable from c, c included
  Base,        \* the PR's base sha: a branch tip, not always in a head's history
  Requests,    \* what the pipeline may ask for
  NoCommit,
  MaxFaults    \* bound: git commands that fail by themselves, and deaths

ASSUME CheckoutAssumption ==
  /\ Base \in Commits /\ NoCommit \notin Commits
  /\ History \in [Commits -> SUBSET Commits]
  /\ Requests \subseteq [head : Commits, from : Commits, incremental : BOOLEAN]
  /\ \A q \in Requests : ~q.incremental => q.from = Base
  /\ \A c \in Commits : c \in History[c]
  /\ \A c \in Commits : \A d \in History[c] : History[d] \subseteq History[c]
  /\ \A a, b \in Commits : History[a] \cap History[b] # {} =>       \* no cycles
       \E c \in History[a] \cap History[b] :
         \A d \in History[a] \cap History[b] : c \in History[d] => c = d

VARIABLES
  dir,         \* the cache directory: absent, partial (no repository), repo
  present,     \* commits in the cache repository's object store
  tree,        \* the commit checked out there
  pc,          \* where each review is
  head, from,  \* what it asked for: the head, and the baseline to diff from
  start,       \* what it diffs from
  incremental, \* the mode it asked for; then the one it reports
  clone,       \* its temporary clone: none, partial, repo
  worktree,    \* its --local worktree exists
  strayed,     \* history: reviews that ran git where no repository was
  disturbed,   \* history: reviews whose directory another one removed
  leaked,      \* history: reviews that failed or died over their worktree
  faults

requestVars == <<head, from, start, incremental>>
vars == <<dir, present, tree, pc, requestVars, clone, worktree, strayed,
          disturbed, leaked, faults>>

\* steps that run git in the cache directory
GitSteps == {"fetch", "checkout", "baseline", "diff"}
LocalSteps == {"localBaseline", "addWorktree", "localDiff"}
Steps == {"idle", "look", "remove", "removing", "clone", "cloning", "rename",
          "ready", "localReady"} \cup GitSteps \cup LocalSteps

TypeOK ==
  /\ dir \in {"absent", "partial", "repo"}
  /\ present \in SUBSET Commits
  /\ tree \in Commits \cup {NoCommit}
  /\ pc \in [Reviews -> Steps]
  /\ head \in [Reviews -> Commits \cup {NoCommit}]
  /\ from \in [Reviews -> Commits \cup {NoCommit}]
  /\ start \in [Reviews -> Commits \cup {NoCommit}]
  /\ incremental \in [Reviews -> BOOLEAN]
  /\ clone \in [Reviews -> {"none", "partial", "repo"}]
  /\ worktree \in [Reviews -> BOOLEAN]
  /\ strayed \subseteq Reviews /\ disturbed \subseteq Reviews /\ leaked \subseteq Reviews
  /\ faults \in Nat
  /\ dir = "repo" <=> present # {}
  /\ \A r \in Reviews : /\ pc[r] = "idle" <=> head[r] = NoCommit
                        /\ pc[r] = "idle" <=> from[r] = NoCommit

Init ==
  /\ dir = "absent" /\ present = {} /\ tree = NoCommit
  /\ pc = [r \in Reviews |-> "idle"]
  /\ head = [r \in Reviews |-> NoCommit]
  /\ from = [r \in Reviews |-> NoCommit]
  /\ start = [r \in Reviews |-> NoCommit]
  /\ incremental = [r \in Reviews |-> FALSE]
  /\ clone = [r \in Reviews |-> "none"]
  /\ worktree = [r \in Reviews |-> FALSE]
  /\ strayed = {} /\ disturbed = {} /\ leaked = {}
  /\ faults = 0

-----------------------------------------------------------------------------

Goto(r, from_, to) == pc[r] = from_ /\ pc' = [pc EXCEPT ![r] = to]

Fault == faults < MaxFaults /\ faults' = faults + 1

\* The directory r finds gone or broken is someone else's doing.
Others(r) == {s \in Reviews : s # r /\ pc[s] \notin {"idle", "localReady"} \cup LocalSteps}

\* prepare(head, from, mode): incremental from the head last reviewed, if there is
\* one (it may be the commit the PR is based on now), and full from the base.
Prepare(r, q, local) ==
  /\ pc[r] = "idle"
  /\ pc' = [pc EXCEPT ![r] = IF local THEN "localBaseline" ELSE "look"]
  /\ head' = [head EXCEPT ![r] = q.head]
  /\ from' = [from EXCEPT ![r] = q.from]
  /\ incremental' = [incremental EXCEPT ![r] = q.incremental]
  /\ disturbed' = disturbed \ {r}
  /\ strayed' = strayed \ {r}
  /\ leaked' = leaked \ {r}
  /\ worktree' = [worktree EXCEPT ![r] = FALSE]      \* a new one, in a directory of its own
  /\ UNCHANGED <<dir, present, tree, start, clone, faults>>

\* ensureCheckout trusts isGitRepo: the directory is the root of a repository.
\* A rev-parse that fails answers no.
LookExists(r) ==
  /\ pc[r] = "look"
  /\ pc' = [pc EXCEPT ![r] = IF dir = "absent" THEN "remove" ELSE "fetch"]
  /\ UNCHANGED <<dir, present, tree, requestVars, clone, worktree, strayed,
                 disturbed, leaked, faults>>
Look(r) ==
  /\ pc[r] = "look"
  /\ \/ /\ dir = "repo"
        /\ pc' = [pc EXCEPT ![r] = "fetch"]
        /\ UNCHANGED faults
     \/ /\ IF dir = "repo" THEN Fault ELSE UNCHANGED faults
        /\ pc' = [pc EXCEPT ![r] = "remove"]
  /\ UNCHANGED <<dir, present, tree, requestVars, clone, worktree, strayed,
                 disturbed, leaked>>

\* freshClone removes what is there, entry by entry.
RemoveBegins(r) ==
  /\ Goto(r, "remove", "removing")
  /\ dir' = IF dir = "absent" THEN "absent" ELSE "partial"
  /\ present' = {} /\ tree' = NoCommit
  /\ disturbed' = IF dir = "absent" THEN disturbed ELSE disturbed \cup Others(r)
  /\ UNCHANGED <<requestVars, clone, worktree, strayed, leaked, faults>>

RemoveEnds(r) ==
  /\ Goto(r, "removing", "clone")
  /\ dir' = "absent" /\ present' = {} /\ tree' = NoCommit
  /\ disturbed' = IF dir = "absent" THEN disturbed ELSE disturbed \cup Others(r)
  /\ UNCHANGED <<requestVars, clone, worktree, strayed, leaked, faults>>

CloneInPlace(r) ==
  /\ Goto(r, "clone", "cloning")
  /\ clone' = [clone EXCEPT ![r] = "partial"]
  /\ dir' = "partial" /\ present' = {}
  /\ UNCHANGED <<tree, requestVars, worktree, strayed, disturbed, leaked, faults>>
CloneBegins(r) ==
  /\ Goto(r, "clone", "cloning")
  /\ clone' = [clone EXCEPT ![r] = "partial"]
  /\ UNCHANGED <<dir, present, tree, requestVars, worktree, strayed, disturbed,
                 leaked, faults>>

CloneEnds(r) ==
  /\ Goto(r, "cloning", "rename")
  /\ clone' = [clone EXCEPT ![r] = "repo"]
  /\ UNCHANGED <<dir, present, tree, requestVars, worktree, strayed, disturbed,
                 leaked, faults>>

\* The rename goes onto nothing: on a directory with files it fails (Throw).
\* A clone brings the base branch and the PR's branch as it is now.
Rename(r) ==
  /\ Goto(r, "rename", "fetch")
  /\ dir = "absent"
  /\ dir' = clone[r]
  /\ \E tip \in Commits : present' = History[Base] \cup History[tip]
  /\ tree' = NoCommit                                       \* --no-checkout
  /\ clone' = [clone EXCEPT ![r] = "none"]
  /\ UNCHANGED <<requestVars, worktree, strayed, disturbed, leaked, faults>>

\* In a directory without a repository git works on Previewer's own; in one that
\* vanished it fails.
Stray(r) == strayed' = IF dir = "partial" THEN strayed \cup {r} ELSE strayed

\* fetch origin <sha>, or else fetch origin: some branch tip arrives.
Fetch(r) ==
  /\ Goto(r, "fetch", "checkout")
  /\ dir # "absent"
  /\ \E tip \in Commits :
       present' = IF dir = "repo" THEN present \cup History[tip] ELSE present
  /\ Stray(r)
  /\ UNCHANGED <<dir, tree, requestVars, clone, worktree, disturbed, leaked, faults>>

CheckoutHead(r) ==
  /\ Goto(r, "checkout", "baseline")
  /\ dir = "repo" /\ head[r] \in present
  /\ tree' = head[r]
  /\ UNCHANGED <<dir, present, requestVars, clone, worktree, strayed, disturbed,
                 leaked, faults>>

-----------------------------------------------------------------------------
(* The baseline                                                            *)

\* effectiveFrom goes on from a commit that is here and in head's history.
UsableIfPresent(f, h, known) == f \in known
Usable(f, h, known) == f \in known /\ f \in History[h]

\* It asks nothing of git when the review is full or `from` is the base.
Asks(r) == incremental[r] /\ from[r] # Base

\* The best common ancestor.
MergeBase(a, b) ==
  CHOOSE c \in History[a] \cap History[b] :
    \A d \in History[a] \cap History[b] : c \in History[d] => c = d

\* effectiveFrom, then mergeBaseSafe, which answers its first argument when
\* git fails.  known is what the repository has once `from` was fetched, if it
\* still can be; every question git cannot answer makes the review full.
ChooseBaseline(r, known) ==
  \E usable \in {Usable(from[r], head[r], known), FALSE}, failed \in BOOLEAN :
    LET inc == IF Asks(r) THEN usable ELSE incremental[r]
        eff == IF inc THEN from[r] ELSE Base
    IN /\ incremental' = [incremental EXCEPT ![r] = inc]
       /\ start' = [start EXCEPT ![r] =
            IF failed \/ History[eff] \cap History[head[r]] = {}
              THEN eff ELSE MergeBase(eff, head[r])]

Baseline(r) ==
  /\ Goto(r, "baseline", "diff")
  /\ \E known \in {present, IF Asks(r) THEN present \cup History[from[r]] ELSE present} :
       /\ present' = IF dir = "repo" THEN known ELSE present
       /\ ChooseBaseline(r, IF dir = "repo" THEN known ELSE {})
  /\ Stray(r)
  /\ UNCHANGED <<dir, tree, head, from, clone, worktree, disturbed, leaked, faults>>

Diff(r) ==
  /\ Goto(r, "diff", "ready")
  /\ dir = "repo" /\ {start[r], head[r]} \subseteq present
  /\ UNCHANGED <<dir, present, tree, requestVars, clone, worktree, strayed,
                 disturbed, leaked, faults>>

-----------------------------------------------------------------------------
(* LocalWorktreeProvider: the operator's clone has every commit.           *)

LocalBaseline(r) ==
  /\ Goto(r, "localBaseline", "addWorktree")
  /\ ChooseBaseline(r, Commits)
  /\ UNCHANGED <<dir, present, tree, head, from, clone, worktree, strayed,
                 disturbed, leaked, faults>>

AddWorktree(r) ==
  /\ Goto(r, "addWorktree", "localDiff")
  /\ worktree' = [worktree EXCEPT ![r] = TRUE]
  /\ UNCHANGED <<dir, present, tree, requestVars, clone, strayed, disturbed,
                 leaked, faults>>

LocalDiff(r) ==
  /\ Goto(r, "localDiff", "localReady")
  /\ UNCHANGED <<dir, present, tree, requestVars, clone, worktree, strayed,
                 disturbed, leaked, faults>>

-----------------------------------------------------------------------------
(* The end of a review                                                     *)

Stop(r) ==
  /\ pc' = [pc EXCEPT ![r] = "idle"]
  /\ head' = [head EXCEPT ![r] = NoCommit]
  /\ from' = [from EXCEPT ![r] = NoCommit]
  /\ start' = [start EXCEPT ![r] = NoCommit]
  /\ incremental' = [incremental EXCEPT ![r] = FALSE]
  /\ clone' = [clone EXCEPT ![r] = "none"]

\* The review read its tree; it returns or throws, and cleans up either way.
Finish(r) ==
  /\ pc[r] \in {"ready", "localReady"}
  /\ worktree' = [worktree EXCEPT ![r] = FALSE]
  /\ Stop(r)
  /\ UNCHANGED <<dir, present, tree, strayed, disturbed, leaked, faults>>

\* git cannot do what the step asks.
Impossible(r) ==
  \/ pc[r] \in {"fetch", "checkout", "diff"} /\ dir # "repo"
  \/ pc[r] = "checkout" /\ head[r] \notin present
  \/ pc[r] = "diff" /\ ~({start[r], head[r]} \subseteq present)
  \/ pc[r] = "rename" /\ dir # "absent"

\* A command fails and prepare throws: before there is a cleanup to call.
Throw(r) ==
  /\ pc[r] \notin {"idle", "look", "ready", "localReady", "baseline"}
  /\ IF Impossible(r) THEN UNCHANGED faults ELSE Fault
  /\ strayed' = IF pc[r] \in GitSteps /\ dir = "partial" THEN strayed \cup {r} ELSE strayed
  /\ leaked' = IF worktree[r] THEN leaked \cup {r} ELSE leaked
  /\ Stop(r)
  /\ UNCHANGED <<dir, present, tree, worktree, disturbed>>

\* The process dies; its temporary clone stays behind under its random name.
Crash(r) ==
  /\ pc[r] # "idle"
  /\ Fault
  /\ leaked' = IF worktree[r] THEN leaked \cup {r} ELSE leaked
  /\ Stop(r)
  /\ UNCHANGED <<dir, present, tree, worktree, strayed, disturbed>>

Step(r) ==
  \/ Look(r) \/ RemoveBegins(r) \/ RemoveEnds(r) \/ CloneBegins(r) \/ CloneEnds(r)
  \/ Rename(r) \/ Fetch(r) \/ CheckoutHead(r) \/ Baseline(r) \/ Diff(r)
  \/ LocalBaseline(r) \/ AddWorktree(r) \/ LocalDiff(r) \/ Finish(r) \/ Throw(r)

Next ==
  \E r \in Reviews :
    \/ \E q \in Requests, local \in BOOLEAN : Prepare(r, q, local)
    \/ Step(r)
    \/ Crash(r)

Spec == Init /\ [][Next]_vars

\* A process that does not die goes on, and whatever an operator runs locally,
\* the queue brings reviews for ever.
Fairness ==
  /\ \A r \in Reviews : WF_vars(Step(r))
  /\ SF_vars(\E r \in Reviews, q \in Requests : Prepare(r, q, FALSE))

FairSpec == Spec /\ Fairness

-----------------------------------------------------------------------------
(* Properties                                                              *)

\* A review works on its own repository: git never runs in a directory that is
\* no repository, and so on Previewer's own, unless another review removed the
\* directory after this one looked (git.ts:94-108).
RightRepository == strayed \subseteq disturbed

\* The cache directory only ever appears as a complete repository
\* (git.ts:110-127).
AppearsWhole == [][dir = "absent" => dir' \in {"absent", "repo"}]_vars

\* Whatever is left of a directory, the reviews to come make it a repository
\* again (git.ts:132-137).
CacheHeals == []<>(dir = "repo")

\* The range a review reads is sound whatever git refuses to answer: it leaves out
\* only what the base has, or what the head had that an incremental one goes on
\* from; that one starts right there, in head's own history, unless it is the
\* base; any other starts in head's history or at the base (workspace.ts:22-42,
\* git.ts:198-209).
RangeSound ==
  \A r \in Reviews : pc[r] \in {"ready", "localReady"} =>
    /\ incremental[r] /\ from[r] # Base
         => start[r] = from[r] /\ from[r] \in History[head[r]]
    /\ start[r] \in History[head[r]] \cup {Base}
    /\ History[start[r]] \cap History[head[r]]
         \subseteq History[Base] \cup (IF incremental[r] THEN History[from[r]] ELSE {})

\* No worktree of a finished review is left in the operator's clone, except when
\* its own diff failed or the process died over it (workspace.ts:70-82).
WorktreesRemoved ==
  \A r \in Reviews : worktree[r] => pc[r] \in {"localDiff", "localReady"} \/ r \in leaked
=============================================================================
