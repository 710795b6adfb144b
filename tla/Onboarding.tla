------------------------------ MODULE Onboarding ------------------------------
(***************************************************************************)
(* Onboarding a repository (context/onboarding.ts, context/pack.ts): an    *)
(* operator's command takes a checkout of its own, assembles a context     *)
(* pack from what the repository has, what a model answers and the pack    *)
(* before, and writes it file by file, while operators edit the rules by   *)
(* hand and reviewers load whatever files are there.  The command may fail *)
(* or be killed between two steps.                                         *)
(*                                                                         *)
(* Of the pack, the profiles that routing makes mandatory, the profiles    *)
(* that are defined, the rules (invariants) and the manifest are           *)
(* modelled; route.activateProfiles is filtered and checked exactly as     *)
(* mandatoryProfiles is, and the other artifacts are free text.  One       *)
(* operator onboards a repository at a time.                               *)
(***************************************************************************)
EXTENDS Integers, FiniteSets

CONSTANTS
  ProfileNames,   \* names of review profiles
  SecurityBaseline,       \* "security-baseline"
  RuleIds, Texts, \* a rule has an id and a text
  Proposals,      \* sets of <<id, text>> that a model may propose
  Committed,      \* rule sets a repository may carry in docs/context-pack
  Absent,         \* no such file, no such part of an answer, no pack
  MaxOnboardings, \* bound: commands
  MaxKills        \* bound: commands that are killed or fail

Statuses == {"confirmed", "needs_confirmation", "rejected"}
Rules == [id : RuleIds, text : Texts, status : Statuses]

ASSUME OnboardingAssumption ==
  /\ SecurityBaseline \in ProfileNames
  /\ Proposals \subseteq SUBSET (RuleIds \X Texts) /\ Committed \subseteq SUBSET Rules
  /\ \A ps \in SUBSET ProfileNames : ps # Absent
  /\ \A rules \in SUBSET Rules : rules # Absent
  /\ MaxOnboardings \in Nat /\ MaxKills \in Nat

VARIABLES
  clones,     \* the command's own clone: absent, partial, repo
  disk,       \* the files of the context pack
  at,         \* where the command is
  options,    \* --confirm-invariants, and not --dry-run
  previous,   \* the pack it found, if that loads
  draft,      \* the pack it writes
  approved,   \* history: ids a person approved, in a command that ended
  asked,      \* history: ids some person's approval named, or may have
  unread,     \* history: a pack was there and the command took it for none
  torn,       \* history: a command was killed while it wrote
  replaced,   \* history: a pack of the repository's own replaced the rules
  interrupted,\* history: a clone was cut short
  elsewhere,  \* history: git ran outside the command's clone
  onboardings, kills

packHistory == <<approved, asked, unread, torn, replaced, interrupted, elsewhere>>
onboardingVars == <<clones, disk, at, options, previous, draft, packHistory,
                    onboardings, kills>>

PackFiles == {"mandatory", "profiles", "rules", "manifest"}

Profiled == SUBSET ProfileNames
IdsOf(rules) == {r.id : r \in rules}
Else(value, other) == IF value # Absent THEN value ELSE other
Confirmed(rules) == {r \in Else(rules, {}) : r.status = "confirmed"}

NoPack == [f \in PackFiles |-> Absent]

OnboardingInit ==
  /\ clones = "absent"
  /\ disk = NoPack
  /\ at = "idle"
  /\ options = [confirm |-> FALSE, persist |-> FALSE]
  /\ previous = NoPack /\ draft = NoPack
  /\ approved = {} /\ asked = {}
  /\ unread = FALSE /\ torn = FALSE /\ replaced = FALSE /\ interrupted = FALSE /\ elsewhere = FALSE
  /\ onboardings = 0 /\ kills = 0

-----------------------------------------------------------------------------
(* The pack                                                                *)

\* loadPack: every file is there and parses, and every profile referred to is defined.
Loads(p) ==
  /\ \A f \in PackFiles : p[f] # Absent
  /\ p.mandatory \subseteq p.profiles

\* reconcileRoutingProfiles
ReconciledProfiles(ps) == ps \cup {SecurityBaseline}
ReconcileListed(m, ps) == m \cap ReconciledProfiles(ps)
Reconcile(m, ps) == (m \cap ReconciledProfiles(ps)) \cup {SecurityBaseline}

\* buildInvariants without a file of the repository's own: a proposed rule is
\* confirmed only by the operator or by an earlier approval of its id, and what
\* was confirmed stays.
MergeRulesTrusting(proposed, before, confirm) ==
  {[id |-> r[1], text |-> r[2], status |-> "confirmed"] : r \in proposed}
  \cup {r \in Confirmed(before) : \A s \in proposed : s[1] # r.id}
MergeRulesProposedOnly(proposed, before, confirm) ==
  {[id |-> r[1], text |-> r[2],
    status |-> IF r[1] \in IdsOf(Confirmed(before)) \/ confirm THEN "confirmed"
               ELSE "needs_confirmation"] : r \in proposed}
MergeRules(proposed, before, confirm) ==
  LET kept == Confirmed(before) IN
  {[id |-> r[1], text |-> r[2],
    status |-> IF r[1] \in IdsOf(kept) \/ confirm THEN "confirmed"
               ELSE "needs_confirmation"] : r \in proposed}
  \cup {r \in kept : \A s \in proposed : s[1] # r.id}

\* buildInvariants with one: its own statuses, which the operator may confirm.
IngestRules(rules, confirm) ==
  {[r EXCEPT !.status = IF confirm /\ @ = "needs_confirmation" THEN "confirmed" ELSE @] :
     r \in rules}

-----------------------------------------------------------------------------
(* The command                                                             *)

\* `onboard`, on a local path or on a clone.
OnboardMakingDirectory(local, confirm, persist) ==
  /\ at = "idle"
  /\ onboardings < MaxOnboardings
  /\ onboardings' = onboardings + 1
  /\ at' = IF local THEN "loading" ELSE "clone"
  /\ options' = [confirm |-> confirm, persist |-> persist]
  /\ clones' = IF clones = "absent" THEN "partial" ELSE clones
  /\ UNCHANGED <<disk, previous, draft, packHistory, kills>>
Onboard(local, confirm, persist) ==
  /\ at = "idle"
  /\ onboardings < MaxOnboardings
  /\ onboardings' = onboardings + 1
  /\ at' = IF local THEN "loading" ELSE "clone"
  /\ options' = [confirm |-> confirm, persist |-> persist]
  /\ UNCHANGED <<clones, disk, previous, draft, packHistory, kills>>

\* ensureDefaultCheckout trusts a directory that exists.
MakeDirectory ==
  /\ at = "clone"
  /\ clones = "absent"
  /\ clones' = "partial"
  /\ at' = "cloning"
  /\ UNCHANGED <<disk, options, previous, draft, packHistory, onboardings, kills>>

CloneDone ==
  /\ at = "cloning"
  /\ clones' = "repo"
  /\ at' = "loading"
  /\ UNCHANGED <<disk, options, previous, draft, packHistory, onboardings, kills>>

\* fetch, checkout --force and reset --hard, in whatever repository that is.
Refresh ==
  /\ at = "clone"
  /\ clones # "absent"
  /\ elsewhere' = (elsewhere \/ clones = "partial")
  /\ at' = "loading"
  /\ UNCHANGED <<torn, clones, disk, options, previous, draft, approved, asked, unread,
                 replaced, interrupted, onboardings, kills>>

\* loadPrevious: without a manifest, or when the pack does not load, there is
\* none.
LoadPrevious ==
  /\ at = "loading"
  /\ previous' = IF Loads(disk) THEN disk ELSE NoPack
  /\ unread' = (unread \/ (~Loads(disk) /\ disk # NoPack))
  /\ at' = "generating"
  /\ UNCHANGED <<torn, clones, disk, options, draft, approved, asked, replaced,
                 interrupted, elsewhere, onboardings, kills>>

\* The command is over and forgets what it knew.
End ==
  /\ at' = "idle"
  /\ options' = [confirm |-> FALSE, persist |-> FALSE]
  /\ previous' = NoPack /\ draft' = NoPack

\* --dry-run: nothing is written.
DryRun ==
  /\ at = "generating"
  /\ ~options.persist
  /\ End
  /\ UNCHANGED <<clones, disk, packHistory, onboardings, kills>>

\* The pack is put together from rules and what there is of routing and
\* profiles: the repository's own, the answer's, the pack before's, or none.
Draft(m, ps, rules) ==
  LET profiles == Else(ps, Else(previous.profiles, {})) IN
  /\ at = "generating" /\ options.persist
  /\ draft' = [mandatory |-> Reconcile(Else(m, Else(previous.mandatory, {})), profiles),
               profiles |-> ReconciledProfiles(profiles), rules |-> rules, manifest |-> {}]
  /\ at' = "mandatory"
  /\ UNCHANGED <<torn, clones, disk, options, previous, approved, unread, interrupted,
                 elsewhere, onboardings, kills>>

\* The model answers; any part of an answer may be missing, and a generator that
\* fails answers nothing.  The statuses it claims are ignored.
Generate(m, ps, proposed) ==
  LET rules == MergeRules(proposed, previous.rules, options.confirm) IN
  /\ Draft(m, ps, rules)
  /\ asked' = IF options.confirm THEN asked \cup IdsOf(rules) ELSE asked
  /\ UNCHANGED replaced

\* The repository carries rules of its own: what it says is confirmed is.
Ingest(m, ps, own) ==
  LET rules == IngestRules(own, options.confirm) IN
  /\ Draft(m, ps, rules)
  /\ asked' = asked \cup IdsOf(Confirmed(rules))
  /\ replaced' = TRUE

\* writePack: one file after the other, the manifest last.
Put(file, following) ==
  /\ at = file
  /\ disk' = [disk EXCEPT ![file] = draft[file]]
  /\ at' = following
  /\ UNCHANGED <<clones, options, previous, draft, packHistory, onboardings, kills>>

PutManifest ==
  /\ at = "manifest"
  /\ disk' = [disk EXCEPT !.manifest = draft.manifest]
  /\ approved' = IF options.confirm THEN approved \cup IdsOf(Confirmed(draft.rules))
                 ELSE approved
  /\ End
  /\ UNCHANGED <<torn, clones, asked, unread, replaced, interrupted, elsewhere,
                 onboardings, kills>>

PutPack ==
  \/ Put("mandatory", "profiles")
  \/ Put("profiles", "rules")
  \/ Put("rules", "manifest")
  \/ PutManifest

\* Something fails, or the operator stops the command: the file it was writing
\* may be left empty.
Killed ==
  /\ at # "idle"
  /\ kills < MaxKills
  /\ kills' = kills + 1
  /\ interrupted' = (interrupted \/ at = "cloning")
  /\ torn' = (torn \/ at \in PackFiles)
  /\ disk' \in {disk} \cup {[disk EXCEPT ![f] = Absent] : f \in PackFiles \cap {at}}
  /\ End
  /\ UNCHANGED <<clones, approved, asked, unread,
                 replaced, elsewhere, onboardings>>

-----------------------------------------------------------------------------
(* People and reviewers                                                    *)

\* A rule gets another status.
Judged(rules, r, verdict) == (rules \ {r}) \cup {[r EXCEPT !.status = verdict]}

\* A person judges a rule in invariants.yaml.
Judge(r, verdict) ==
  /\ at = "idle"
  /\ r \in Else(disk.rules, {}) /\ r.status # verdict
  /\ disk' = [disk EXCEPT !.rules = Judged(@, r, verdict)]
  /\ approved' = IF verdict = "confirmed" THEN approved \cup {r.id} ELSE approved \ {r.id}
  /\ asked' = IF verdict = "confirmed" THEN asked \cup {r.id} ELSE asked
  /\ UNCHANGED <<clones, at, options, previous, draft, unread, torn,
                 replaced, interrupted, elsewhere, onboardings, kills>>

\* What a reviewer reads: while the files are being written, each one as it was
\* or as it will be.
Readable ==
  {[f \in PackFiles |-> IF f \in new THEN draft[f] ELSE disk[f]] :
     new \in IF at \in PackFiles THEN SUBSET PackFiles ELSE {{}}}
UsedPacks == {p \in Readable : Loads(p)}

Parts == Profiled \cup {Absent}

OnboardingNext ==
  \/ \E local, confirm, persist \in BOOLEAN : Onboard(local, confirm, persist)
  \/ MakeDirectory \/ CloneDone \/ Refresh \/ LoadPrevious
  \/ \E m, ps \in Parts :
       \/ \E proposed \in Proposals : Generate(m, ps, proposed)
       \/ \E own \in Committed : Ingest(m, ps, own)
  \/ DryRun \/ PutPack
  \/ Killed
  \/ \E r \in Else(disk.rules, {}), verdict \in {"confirmed", "rejected"} : Judge(r, verdict)

OnboardingSpec == OnboardingInit /\ [][OnboardingNext]_onboardingVars

-----------------------------------------------------------------------------
(* Properties                                                              *)

\* A rule a person approved stays in force through every later onboarding, and
\* every later onboarding reads the pack before, unless the repository brought
\* rules of its own or a command was killed while it wrote
\* (onboarding.ts:182-190, 326, 348-364).
ApprovedKept ==
  /\ ~torn /\ ~replaced => approved \subseteq IdsOf(Confirmed(disk.rules))
  /\ unread => torn

\* No pack a reviewer can load confirms a rule whose id no person ever approved,
\* whatever the model claims and wherever a write was cut short
\* (core/runner.ts:86, onboarding.ts:359-363).
NeverSelfApproved ==
  \A p \in UsedPacks : IdsOf(Confirmed(p.rules)) \subseteq asked

\* Every pack a reviewer can load makes the security baseline mandatory and
\* defines it, even one of which only some files were written
\* (onboarding.ts:446-476, pack.ts:74-86).
BaselineAlways ==
  \A p \in UsedPacks : SecurityBaseline \in p.mandatory \cap p.profiles

\* The command's git works in the command's clone, unless an earlier command was
\* stopped while it cloned (git.ts:147-163).
OwnClone == elsewhere => interrupted
=============================================================================
