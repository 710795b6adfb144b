----------------------------- MODULE RunnerConfig -----------------------------
(***************************************************************************)
(* Which runner a review gets (config/runner-profiles.ts,                  *)
(* apps/worker/policy.ts, compose.ts) while operators edit the files.  A   *)
(* long-running process reads platform.yaml and every repo.yaml once, when *)
(* it starts; the command line reads them every time.                      *)
(***************************************************************************)
EXTENDS Integers

CONSTANTS
  Repos,
  Profiles,       \* profile names
  Runners,        \* ids in the registry
  Unregistered,   \* an id that is not
  DefaultRunner,  \* what the schema fills in for runner.default
  None,           \* no such profile, no override, no repository
  Signals,        \* what changeSignals may derive from a diff
  MaxEdits        \* bound: edits by operators

ASSUME ConfigAssumption ==
  /\ DefaultRunner \in Runners
  /\ Unregistered \notin Runners \cup {None}
  /\ None \notin Runners \cup Profiles \cup Repos
  /\ MaxEdits \in Nat

Ids == Runners \cup {Unregistered}

VARIABLES
  table,     \* platform.yaml runnerProfiles: the runner of each profile
  active,    \* repo.yaml runner.profile
  inline,    \* repo.yaml runner.default
  override,  \* repo.yaml runner.overrides: the runner for matching signals
  up,        \* the process runs
  loaded,    \* the configuration it read
  chosen,    \* history: the profile `runner use` set, and no edit since
  inForce,   \* history: chosen when the process started
  outcome,   \* the last review since the process started
  edits

files == [table |-> table, active |-> active, inline |-> inline, override |-> override]
configVars == <<table, active, inline, override, up, loaded, chosen, inForce, outcome, edits>>

Nothing == [kind |-> "none", by |-> "process", repo |-> None, signal |-> None, runner |-> None]

ConfigInit ==
  /\ table = [p \in Profiles |-> DefaultRunner]
  /\ active = [r \in Repos |-> None]
  /\ inline = [r \in Repos |-> DefaultRunner]
  /\ override = [r \in Repos |-> [s \in Signals |-> None]]
  /\ up = FALSE /\ loaded = files
  /\ chosen = [r \in Repos |-> None] /\ inForce = chosen
  /\ outcome = Nothing
  /\ edits = 0

-----------------------------------------------------------------------------
(* Resolution                                                              *)

\* resolveRunnerProfile: the profile, or the inline block without one; None when
\* the profile is not defined.
ResolveInlineFirst(c, r) == c.inline[r]
Resolve(c, r) == IF c.active[r] = None THEN c.inline[r] ELSE c.table[c.active[r]]

\* runnerConfigProblem: nothing the repo could select is unregistered.
RunnableByDefault(c, r) == Resolve(c, r) \in Runners
Runnable(c, r) ==
  /\ Resolve(c, r) \in Runners
  /\ \A s \in Signals : c.override[r][s] \in Runners \cup {None}

\* assertProfilesValid
TableValid(c) == \A p \in Profiles : c.table[p] # Unregistered

\* composePlatform: one broken repo is reported, all of them stop the process.
Startable(c) == TableValid(c) /\ \E r \in Repos : Runnable(c, r)

\* selectRunnerSelector
Select(c, r, s) == IF c.override[r][s] # None THEN c.override[r][s] ELSE Resolve(c, r)

\* reviewPipeline: the check comes before the claim, the registry after it.
Outcome(c, r, s, by) ==
  LET runner == Select(c, r, s) IN
  [kind |-> CASE ~Runnable(c, r) -> "configError"
              [] runner \in Runners -> "ran"
              [] OTHER -> "notFoundAfterClaim",
   by |-> by, repo |-> r, signal |-> s, runner |-> runner]

-----------------------------------------------------------------------------
(* Operators                                                               *)

Edit == edits < MaxEdits /\ edits' = edits + 1
processState == <<up, loaded, inForce, outcome>>

EditPlatform(p, id) ==
  /\ Edit
  /\ table' = [table EXCEPT ![p] = id]
  /\ UNCHANGED <<active, inline, override, chosen, processState>>

\* A hand edit of repo.yaml.
EditRepo(r) ==
  /\ Edit
  /\ \/ \E p \in Profiles \cup {None} : active' = [active EXCEPT ![r] = p]
           /\ UNCHANGED <<inline, override>>
     \/ \E id \in Ids : inline' = [inline EXCEPT ![r] = id]
           /\ UNCHANGED <<active, override>>
     \/ \E id \in Ids \cup {None}, s \in Signals : override' = [override EXCEPT ![r][s] = id]
           /\ UNCHANGED <<active, inline>>
  /\ chosen' = [chosen EXCEPT ![r] = None]
  /\ UNCHANGED <<table, processState>>

\* `runner use`: refuses a profile that is not defined or not registered, and
\* removes the inline block it supersedes.
RunnerUse(p, r) ==
  /\ Edit
  /\ table[p] \in Runners
  /\ active' = [active EXCEPT ![r] = p]
  /\ inline' = [inline EXCEPT ![r] = DefaultRunner]
  /\ chosen' = [chosen EXCEPT ![r] = p]
  /\ UNCHANGED <<table, override, processState>>

\* A review from the command line; --runner bypasses the repo's block, but not
\* the profile table.
CliReview(r, s, forced) ==
  /\ TableValid(files)
  /\ outcome' = IF forced = None THEN Outcome(files, r, s, "operator")
                ELSE [kind |-> IF forced \in Runners THEN "ran" ELSE "notFoundAfterClaim",
                      by |-> "forced", repo |-> r, signal |-> s, runner |-> forced]
  /\ UNCHANGED <<table, active, inline, override, up, loaded, chosen, inForce, edits>>

-----------------------------------------------------------------------------
(* The process                                                             *)

Start ==
  /\ ~up
  /\ Startable(files)
  /\ up' = TRUE
  /\ loaded' = files
  /\ inForce' = chosen
  /\ outcome' = Nothing
  /\ UNCHANGED <<table, active, inline, override, chosen, edits>>

Stopped ==
  /\ up
  /\ up' = FALSE
  /\ UNCHANGED <<table, active, inline, override, loaded, chosen, inForce, outcome, edits>>

Review(r, s) ==
  /\ up
  /\ outcome' = Outcome(loaded, r, s, "process")
  /\ UNCHANGED <<table, active, inline, override, up, loaded, chosen, inForce, edits>>

ConfigNext ==
  \/ \E p \in Profiles, id \in Ids \cup {None} : EditPlatform(p, id)
  \/ \E r \in Repos : EditRepo(r)
  \/ \E p \in Profiles, r \in Repos : RunnerUse(p, r)
  \/ \E r \in Repos, s \in Signals : Review(r, s) \/ \E f \in Ids \cup {None} : CliReview(r, s, f)
  \/ Start
  \/ Stopped

ConfigSpec == ConfigInit /\ [][ConfigNext]_configVars

-----------------------------------------------------------------------------
(* Properties                                                              *)

\* No configuration, at any time of editing, makes a review claim its head and
\* then find no runner; only an operator who names one can (pipeline.ts:70-86).
FoundBeforeClaim == outcome.kind = "notFoundAfterClaim" => outcome.by = "forced"

\* Once the process was restarted, `runner use` decides what reviews the repo:
\* the runner its profile had then, unless an override matches the diff
\* (config/index.ts:43-56, runner-profiles.ts:37-58).
SwitchTakesEffect ==
  outcome.by = "process" /\ outcome.kind = "ran" =>
    LET r == outcome.repo IN
    up /\ inForce[r] # None /\ loaded.override[r][outcome.signal] = None
      => outcome.runner = loaded.table[inForce[r]]
=============================================================================
