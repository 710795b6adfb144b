---------------------------- MODULE RunnerAttempt ----------------------------
(***************************************************************************)
(* What becomes of one job: the dependency install, the CLI process, what  *)
(* the runner makes of its output, and how the failure is classified and   *)
(* charged (apps/worker/install.ts, runners/cli, runners/shared/output.ts, *)
(* apps/worker/loop.ts).  Every failure has a true cause the code never    *)
(* sees; it sees an exit code, streams and exceptions.                     *)
(*                                                                         *)
(* JobQueue has the job's row under several workers; here one worker       *)
(* takes it again and again, so that `burned` is the attempts column.      *)
(* The runner's own SIGKILL timer never fires: it is set after the abort   *)
(* signal of the same 30 minutes.                                          *)
(***************************************************************************)
EXTENDS RetryClassification

CONSTANTS
  ParseAttempts,   \* processes the claude runner may start in one review
  AttemptCap,      \* max_attempts
  UnknownCap       \* the smaller cap for unclassified failures

ASSUME RunnerAssumption ==
  /\ ParseAttempts \in Nat \ {0}
  /\ UnknownCap \in Nat \ {0} /\ AttemptCap \in Nat
  /\ UnknownCap <= AttemptCap

VARIABLES
  engine,      \* claude or codex
  stage,       \* where the job is
  tries,       \* processes started in this review
  modules,     \* node_modules in the cached checkout
  install,     \* what the installer reports of this review
  killed,      \* history: an install outlived its timer
  cause,       \* why the review failed
  failure,     \* what the drain loop is told
  burned,      \* jobs.attempts
  genuine,     \* history: charged failures that were no outage
  obscured     \* history: outages whose text hides them from the classifier

runnerVars == <<engine, stage, tries, modules, install, killed, cause,
                failure, burned, genuine, obscured>>

\* Causes that clear by themselves, and causes that never do.
Outages == {"limit", "network", "githubDown", "timeout"}
Refusals == {"auth", "notFound"}
\* A review the model could not do, or an error nobody foresaw.
Faults == {"maxTurns", "badOutput", "bug"}
Causes == Outages \cup Refusals \cup Faults

Stages == {"waiting", "preparing", "starting", "running", "failed", "done", "dead"}

RunnerTypeOK ==
  /\ engine \in {"claude", "codex"}
  /\ stage \in Stages
  /\ tries \in 0..ParseAttempts
  /\ modules \in {"none", "partial", "whole"}
  /\ install \in {"none", "installed", "skipped", "failed"}
  /\ killed \in BOOLEAN
  /\ cause \in Causes \cup {"none"}
  /\ failure \in Failures
  /\ burned \in 0..AttemptCap
  /\ genuine \in Nat /\ obscured \in Nat
  /\ cause = "none" <=> stage # "failed"

RunnerInit ==
  /\ engine \in {"claude", "codex"}
  /\ stage = "waiting" /\ tries = 0
  /\ modules = "none" /\ install = "none" /\ killed = FALSE
  /\ cause = "none" /\ failure = Message({})
  /\ burned = 0 /\ genuine = 0 /\ obscured = 0

-----------------------------------------------------------------------------
(* What the failures look like                                             *)

\* Words that numbers, paths and logs put into a text by accident: a 429 in a
\* SHA, a repository named quota, a pull request 401.
Noise == {{}, {"limit"}, {"timeout"}, {"auth"}}

\* The words of a failure, and what stands around them.
Text(words) == {Message(w \cup n) : w \in words, n \in Noise}

\* Exceptions from GitHub and git, with what they carry.  Only GitHub's API
\* gives a status.  Git's are texts, and some of them no pattern knows: "could
\* not read from remote repository" of an outage, "repository not found" and
\* "the requested URL returned error: 403" of a refusal.
Thrown(c) ==
  CASE c = "network"    -> {[f EXCEPT !.network = TRUE] : f \in Text({{}})} \cup Text({{"transport"}, {}})
    [] c = "githubDown" -> {Http(502, n) : n \in Noise} \cup Text({{"html"}, {}})
    [] c = "limit"      -> {Http(429, n) : n \in Noise} \cup {Http(403, {"rate403", "limit"})}
    [] c = "timeout"    -> {[f EXCEPT !.aborted = TRUE] : f \in Text({{"timeout"}})}
    [] c = "auth"       -> {Http(401, n) : n \in Noise} \cup Text({{"auth"}, {}})
    [] c = "notFound"   -> {Http(404, n) : n \in Noise} \cup Text({{}})
    [] OTHER            -> Text({{}})

\* What an engine writes about a failure of its own.
Says(c) ==
  CASE c = "limit"   -> Text({{"limit"}, {"overload"}, {}})
    [] c = "network" -> Text({{"transport"}, {}})
    [] c = "auth"    -> Text({{"auth"}, {}})
    [] OTHER         -> Text({{}})

\* A text that says nothing any pattern knows, or happens to say "401".
Hides(f) ==
  /\ f.status = NoStatus /\ ~f.network /\ ~f.aborted
  /\ f.phrases = {} \/ "auth" \in f.phrases

EngineCauses == {"limit", "network", "auth", "bug"}

-----------------------------------------------------------------------------
(* The review                                                              *)

\* The job is leased; a checkout that was cloned anew has no node_modules.
Begin ==
  /\ stage = "waiting"
  /\ stage' = "preparing"
  /\ tries' = 0
  /\ install' = "none"
  /\ modules' \in {modules, "none"}
  /\ UNCHANGED <<engine, killed, cause, failure, burned, genuine, obscured>>

\* The review fails for cause c with failure f.
Fail(c, f) ==
  /\ stage' = "failed"
  /\ cause' = c
  /\ failure' = f

\* The history counts the outages that failure f hides.
Note(c, f) == obscured' = obscured + (IF c \in Outages /\ Hides(f) THEN 1 ELSE 0)

\* GitHub, git or the context throws.
PipelineThrows ==
  /\ stage = "preparing"
  /\ \E c \in Causes : \E f \in Thrown(c) : Fail(c, f) /\ Note(c, f)
  /\ UNCHANGED <<engine, tries, modules, install, killed, burned, genuine>>

\* What the executor resolves with: close reports no code for a process that
\* was killed, and that becomes 0.
ExitCode(end) == IF end = "error" THEN 1 ELSE 0

\* An install ends by itself, by the SIGKILL of its timer, or by the abort of
\* its signal, which rejects.
Report(end) == IF end # "aborted" /\ ExitCode(end) = 0 THEN "installed" ELSE "failed"

Left(end) == IF end = "ok" THEN {"whole"} ELSE {"none", "partial"}

InstallEnds ==
  \E end \in {"ok", "error", "killed", "aborted"} :
    /\ modules' \in Left(end)
    /\ install' = Report(end)
    /\ killed' = (killed \/ end = "killed")

\* NodeDependencyInstaller.install: only where there is no node_modules yet.
Install ==
  /\ stage = "preparing"
  /\ stage' = "starting"
  /\ IF modules = "none"
       THEN InstallEnds
       ELSE install' = "skipped" /\ UNCHANGED <<modules, killed>>
  /\ UNCHANGED <<engine, tries, cause, failure, burned, genuine, obscured>>

\* The repository runs no tests.
NoInstall ==
  /\ stage = "preparing"
  /\ stage' = "starting"
  /\ UNCHANGED <<engine, tries, modules, install, killed, cause, failure,
                 burned, genuine, obscured>>

Spawn ==
  /\ stage = "starting"
  /\ stage' = "running"
  /\ tries' = tries + 1
  /\ UNCHANGED <<engine, modules, install, killed, cause, failure, burned,
                 genuine, obscured>>

processVars == <<engine, tries, modules, install, killed, burned, genuine>>

\* buildReviewResult finds the object it asked for.
Answer ==
  /\ stage = "running"
  /\ stage' = "done"
  /\ UNCHANGED <<processVars, cause, failure, obscured>>

\* The final text holds no such object.
BadAnswer ==
  /\ stage = "running"
  /\ Fail("badOutput", Message({}))
  /\ UNCHANGED <<processVars, obscured>>

\* The 30 minutes are over: the executor rejects at once with the abort's
\* message, which is all the runner passes on.
Aborted ==
  /\ stage = "running"
  /\ Fail("timeout", Message({"timeout"}))
  /\ UNCHANGED <<processVars, obscured>>

\* The CLI cannot be started.
SpawnFails ==
  /\ stage = "running"
  /\ Fail("bug", Message({}))
  /\ UNCHANGED <<processVars, obscured>>

\* The engine's complaint is the message of the failure.
Complains == \E c \in EngineCauses : \E f \in Says(c) : Fail(c, f) /\ Note(c, f)

\* claude's envelope says is_error: the text is passed on and nothing retried.
EnvelopeErrorDropped ==
  /\ stage = "running" /\ engine = "claude"
  /\ \E c \in EngineCauses \cup {"maxTurns"} : Fail(c, Message({}))
  /\ UNCHANGED <<processVars, obscured>>
EnvelopeError ==
  /\ stage = "running" /\ engine = "claude"
  /\ \/ Complains
     \/ Fail("maxTurns", Message({})) /\ UNCHANGED obscured
  /\ UNCHANGED processVars

\* claude wrote no envelope: it is started again, and the last time what it
\* wrote to both streams is the message (describeCliFailure).
Drift ==
  /\ stage = "running" /\ engine = "claude"
  /\ IF tries < ParseAttempts
       THEN stage' = "starting" /\ UNCHANGED <<cause, failure, obscured>>
       ELSE Complains
  /\ UNCHANGED processVars

\* codex fails before any agent_message: its streams are the message.
CodexExit ==
  /\ stage = "running" /\ engine = "codex"
  /\ Complains
  /\ UNCHANGED processVars

\* codex fails after an interim agent_message, which parseCodexEvents takes for
\* the answer: the exit code and the error event are dropped.
CodexInterim ==
  /\ stage = "running" /\ engine = "codex"
  /\ \E c \in EngineCauses : Fail(c, Message({})) /\ Note(c, Message({}))
  /\ UNCHANGED processVars

-----------------------------------------------------------------------------
(* settleFailure                                                           *)

Cap(class) == IF class = "unknown" THEN UnknownCap ELSE AttemptCap

\* A transient failure gives the attempt back; any other is charged, and at
\* the cap of its class the job is dead.
Settle ==
  /\ stage = "failed"
  /\ LET class == Classify(failure) IN
       IF class = "transient"
         THEN stage' = "waiting" /\ UNCHANGED <<burned, genuine>>
         ELSE /\ burned' = burned + 1
              /\ stage' = IF burned + 1 >= Cap(class) THEN "dead" ELSE "waiting"
              /\ genuine' = genuine + (IF cause \in Outages THEN 0 ELSE 1)
  /\ cause' = "none"
  /\ failure' = Message({})
  /\ UNCHANGED <<engine, tries, modules, install, killed, obscured>>

RunnerNext ==
  \/ Begin \/ PipelineThrows \/ Install \/ NoInstall \/ Spawn
  \/ Answer \/ BadAnswer \/ Aborted \/ SpawnFails \/ EnvelopeError \/ Drift
  \/ CodexExit \/ CodexInterim \/ Settle

RunnerSpec == RunnerInit /\ [][RunnerNext]_runnerVars

-----------------------------------------------------------------------------
(* Properties                                                              *)

\* An outage that its text shows loses no review: a job is given up only after
\* as many failures as the smaller budget that were no outages, or whose text
\* hid them (retry-classification.ts:7-13, 66-69; codex.ts:122-127).
OutageKeepsJob == stage = "dead" => genuine + obscured >= UnknownCap

\* What GitHub refuses with a status, or a text with a known phrase, is never
\* retried for ever, whatever else it happens to contain
\* (retry-classification.ts:176-183).
RefusalsCharged ==
  stage = "failed" /\ cause \in Refusals /\ (failure.status # NoStatus \/ "auth" \in failure.phrases)
    => Classify(failure) # "transient"

\* What git refuses carries no status, and is not retried for ever either: "a
\* 403/404 git failure falls through to auth (permanent) or unknown (bounded
\* retry + journal), not transient" (retry-classification.ts:70-71;
\* tests/retry-classification.test.ts:108).
GitRefusalsBounded ==
  stage = "failed" /\ cause = "notFound" /\ failure.status = NoStatus
    => Classify(failure) # "transient"

\* What the installer reports as installed is there, unless the timer killed an
\* install (install.ts:49-55, executor.ts:69-72).
InstallHonest == install = "installed" /\ modules # "whole" => killed
=============================================================================
