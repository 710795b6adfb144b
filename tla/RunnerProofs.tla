---------------------------- MODULE RunnerProofs ----------------------------
(***************************************************************************)
(* Theorems about what happens between a claimed head and the model that   *)
(* reviews it, for any caps, limits, files and configurations: which       *)
(* runner is chosen (RunnerConfig), what it is shown of the patch and of   *)
(* the checkout (PatchBudget, WorkspaceContext), and what an attempt that  *)
(* fails costs the job (RunnerAttempt).                                    *)
(***************************************************************************)
EXTENDS RunnerConfig, PatchBudget, WorkspaceContext, RunnerAttempt, TLAPS

-----------------------------------------------------------------------------
(* RunnerConfig: which runner reviews                                      *)

\* A repo that `runner use` set, and no edit since, has that profile; and so has
\* the configuration that was loaded then.
Chosen ==
  /\ chosen \in [Repos -> Profiles \cup {None}]
  /\ active \in [Repos -> Profiles \cup {None}]
  /\ \A r \in Repos : chosen[r] # None => active[r] = chosen[r]
  /\ up => \A r \in Repos : inForce[r] # None => loaded.active[r] = inForce[r]

\* The last outcome of the process is one of the configuration it has loaded.
Explained ==
  outcome.by = "process" /\ outcome.kind = "ran" /\ up =>
    outcome.repo \in Repos /\ outcome.runner = Select(loaded, outcome.repo, outcome.signal)

ConfigInv == Chosen /\ Explained /\ FoundBeforeClaim

\* What a runnable configuration selects is registered.
LEMMA SelectRunnable ==
  ASSUME NEW c, NEW r \in Repos, NEW s \in Signals, Runnable(c, r)
  PROVE  Select(c, r, s) \in Runners
  BY DEF Runnable, Select

LEMMA ConfigInitInv == ConfigInit => ConfigInv
<1> SUFFICES ASSUME ConfigInit PROVE ConfigInv
  OBVIOUS
<1> USE ConfigAssumption DEF ConfigInit
<1>1. Chosen
  BY DEF Chosen
<1>2. Explained /\ FoundBeforeClaim
  BY DEF Explained, FoundBeforeClaim, Nothing
<1> QED
  BY <1>1, <1>2 DEF ConfigInv

LEMMA ConfigStepInv == ConfigInv /\ [ConfigNext]_configVars => ConfigInv'
<1> SUFFICES ASSUME ConfigInv, [ConfigNext]_configVars PROVE ConfigInv'
  OBVIOUS
<1> USE ConfigAssumption DEF ConfigInv, FoundBeforeClaim
<1>1. CASE \E p \in Profiles, id \in Ids \cup {None} : EditPlatform(p, id)
  BY <1>1 DEF EditPlatform, processState, Chosen, Explained, Select, Resolve
<1>2. CASE \E r \in Repos : EditRepo(r)
  <2>1. PICK r \in Repos : EditRepo(r)
    BY <1>2
  <2>2. active' \in [Repos -> Profiles \cup {None}]
        /\ \A q \in Repos \ {r} : active'[q] = active[q]
    BY <2>1 DEF EditRepo, Chosen
  <2>3. Chosen'
    BY <2>1, <2>2 DEF EditRepo, processState, Chosen
  <2>4. Explained'
    BY <2>1 DEF EditRepo, processState, Explained, Select, Resolve
  <2> QED
    BY <2>1, <2>3, <2>4 DEF EditRepo, processState
<1>3. CASE \E p \in Profiles, r \in Repos : RunnerUse(p, r)
  BY <1>3 DEF RunnerUse, processState, Chosen, Explained, Select, Resolve
<1>4. CASE \E r \in Repos, s \in Signals : Review(r, s)
  <2>1. PICK r \in Repos, s \in Signals : Review(r, s)
    BY <1>4
  <2>2. /\ outcome'.by = "process" /\ outcome'.repo = r /\ outcome'.signal = s
        /\ outcome'.runner = Select(loaded, r, s)
        /\ outcome'.kind # "notFoundAfterClaim"
    BY <2>1, SelectRunnable DEF Review, Outcome
  <2>3. UNCHANGED <<active, up, loaded, chosen, inForce>>
    BY <2>1 DEF Review
  <2> QED
    BY <2>2, <2>3 DEF Chosen, Explained, Select, Resolve
<1>5. CASE \E r \in Repos, s \in Signals, f \in Ids \cup {None} : CliReview(r, s, f)
  <2>1. PICK r \in Repos, s \in Signals, f \in Ids \cup {None} : CliReview(r, s, f)
    BY <1>5
  <2>2. outcome'.by \in {"operator", "forced"}
        /\ (outcome'.kind = "notFoundAfterClaim" => outcome'.by = "forced")
    BY <2>1, SelectRunnable DEF CliReview, Outcome
  <2> QED
    BY <2>1, <2>2 DEF CliReview, Chosen, Explained
<1>6. CASE Start
  <2>1. loaded'.active = active
    BY <1>6 DEF Start, files
  <2>2. outcome'.by = "process" /\ outcome'.kind = "none"
    BY <1>6 DEF Start, Nothing
  <2> QED
    BY <1>6, <2>1, <2>2 DEF Start, Chosen, Explained
<1>7. CASE Stopped
  BY <1>7 DEF Stopped, Chosen, Explained
<1>8. CASE UNCHANGED configVars
  BY <1>8 DEF configVars, Chosen, Explained, Select, Resolve
<1> QED
  BY <1>1, <1>2, <1>3, <1>4, <1>5, <1>6, <1>7, <1>8 DEF ConfigNext

\* No review claims its head and then finds no runner, unless an operator named
\* one, however the files are edited (pipeline.ts:70-86).
THEOREM RunnersFound == ConfigSpec => []FoundBeforeClaim
<1>1. ConfigInv => FoundBeforeClaim
  BY DEF ConfigInv
<1> QED
  BY <1>1, ConfigInitInv, ConfigStepInv, PTL DEF ConfigSpec

\* `runner use` decides what reviews the repo once the process was restarted, for
\* any number of edits, repos and profiles (config/index.ts:43-56).
THEOREM SwitchesTakeEffect == ConfigSpec => []SwitchTakesEffect
<1>1. ConfigInv => SwitchTakesEffect
  BY DEF ConfigInv, Chosen, Explained, SwitchTakesEffect, Select, Resolve
<1> QED
  BY <1>1, ConfigInitInv, ConfigStepInv, PTL DEF ConfigSpec

-----------------------------------------------------------------------------
(* PatchBudget: what the prompt shows of the patch.  What Length adds up   *)
(* to is not needed: the loop never compares it again.                     *)

\* What the loop counts is what the joined sections are long.
CountsWhatItJoins ==
  /\ used = inlined
  /\ kept = {} => inlined = 0

PatchInv == PatchTypeOK /\ CountsWhatItJoins /\ PatchHonest

LEMMA PatchInitInv == PatchInit => PatchInv
<1> SUFFICES ASSUME PatchInit PROVE PatchInv
  OBVIOUS
<1> USE PatchAssumption DEF PatchInit
<1>1. limit \in Int
  BY DEF Clamp
<1>s. size \in [Index -> Nat]
  OBVIOUS
<1>n. next \in 1..(Sections + 1)
  OBVIOUS
<1>2. PatchTypeOK
  BY <1>1, <1>s, <1>n DEF PatchTypeOK
<1>3. CountsWhatItJoins /\ PatchHonest
  BY <1>1 DEF CountsWhatItJoins, PatchHonest, PatchFits, NothingHidden, Index
<1> QED
  BY <1>2, <1>3 DEF PatchInv

LEMMA PatchStepInv == PatchInv /\ [PatchNext]_patchVars => PatchInv'
<1> SUFFICES ASSUME PatchInv, [PatchNext]_patchVars PROVE PatchInv'
  OBVIOUS
<1> USE PatchAssumption
<1>t. PatchTypeOK /\ CountsWhatItJoins /\ PatchFits /\ NothingHidden
  BY DEF PatchInv, PatchHonest
<1>1. CASE Whole
  <2>1. PatchTypeOK'
    BY <1>1, <1>t DEF Whole, PatchTypeOK, Index
  <2>2. CountsWhatItJoins'
    BY <1>1 DEF Whole, CountsWhatItJoins, Index
  <2>3. PatchFits'
    BY <1>1, <1>t DEF Whole, PatchFits, PatchTypeOK
  <2>4. NothingHidden'
    BY <1>1 DEF Whole, NothingHidden, Index
  <2> QED
    BY <2>1, <2>2, <2>3, <2>4 DEF PatchInv, PatchHonest
<1>i. ASSUME Capping
      PROVE  /\ next \in Index /\ next \notin kept /\ next \notin omitted
             /\ kept # Index /\ used \in Nat /\ inlined \in Nat
             /\ size[next] \in Nat /\ Newline \in {0, 1} /\ limit \in Int
  BY <1>i, <1>t DEF Capping, PatchDone, PatchTypeOK, Index, Newline
<1>2. CASE Keep
  <2>1. used' = used + size[next] + Newline /\ inlined' = used' /\ used' <= limit
    BY <1>2, <1>i, <1>t DEF Keep, Cost, CountsWhatItJoins
  <2>2. kept' = kept \cup {next} /\ next' = next + 1 /\ UNCHANGED <<size, limit, omitted>>
    BY <1>2 DEF Keep
  <2>3. PatchTypeOK'
    BY <1>2, <1>i, <1>t, <2>1, <2>2 DEF Keep, PatchTypeOK, Index
  <2>4. CountsWhatItJoins'
    BY <2>1, <2>2 DEF CountsWhatItJoins
  <2>5. PatchFits'
    BY <2>1, <2>2 DEF PatchFits
  <2>6. NothingHidden'
    <3> SUFFICES ASSUME NEW s \in Index, s \notin kept', s < next'
                 PROVE  inlined' + size[s] + 1 > limit /\ s \in omitted \cup Preambles
      BY <2>2 DEF NothingHidden, Newline, Index
    <3>1. s # next /\ s \notin kept /\ s < next
      BY <1>2, <1>i, <1>t, <2>2 DEF Keep, Index, PatchTypeOK
    <3>2. inlined + size[s] + Newline > limit /\ s \in omitted \cup Preambles
      BY <1>t, <3>1 DEF NothingHidden
    <3>3. inlined' >= inlined /\ size[s] \in Nat
      BY <1>2, <1>i, <1>t, <2>1 DEF Keep, CountsWhatItJoins, PatchTypeOK
    <3>4. inlined' \in Nat
      BY <1>2, <1>i, <2>1 DEF Keep
    <3> QED
      BY <1>2, <1>i, <3>2, <3>3, <3>4 DEF Keep
  <2> QED
    BY <2>3, <2>4, <2>5, <2>6 DEF PatchInv, PatchHonest
<1>3. CASE Omit
  <2>1. /\ omitted' = omitted \cup ({next} \ Preambles) /\ next' = next + 1
        /\ UNCHANGED <<size, limit, kept, used, inlined>>
    BY <1>3 DEF Omit
  <2>2. used + size[next] + Newline > limit
    BY <1>3, <1>i DEF Omit, Cost
  <2>3. PatchTypeOK'
    BY <1>3, <1>i, <1>t, <2>1 DEF Omit, PatchTypeOK, Index
  <2>4. CountsWhatItJoins'
    BY <1>3, <1>i, <1>t, <2>1 DEF Omit, CountsWhatItJoins, Index, PatchTypeOK
  <2>5. PatchFits'
    BY <1>t, <2>1 DEF PatchFits
  <2>6. NothingHidden'
    <3> SUFFICES ASSUME NEW s \in Index, s \notin kept, s < next + 1
                 PROVE  inlined + size[s] + Newline > limit /\ s \in omitted' \cup Preambles
      BY <2>1 DEF NothingHidden, Newline, Index
    <3>1. CASE s = next
      BY <1>t, <2>1, <2>2, <3>1 DEF CountsWhatItJoins
    <3>2. CASE s # next
      BY <1>3, <1>i, <1>t, <2>1, <3>2 DEF Omit, NothingHidden, Index
    <3> QED
      BY <3>1, <3>2
  <2> QED
    BY <2>3, <2>4, <2>5, <2>6 DEF PatchInv, PatchHonest
<1>4. CASE UNCHANGED patchVars
  BY <1>4 DEF patchVars, PatchInv, PatchTypeOK, CountsWhatItJoins, PatchHonest, PatchFits,
     NothingHidden, Newline, Index
<1> QED
  BY <1>1, <1>2, <1>3, <1>4 DEF PatchNext

\* The prompt's patch keeps within its budget, and nothing that would fit beside
\* it is left out or goes unnamed, for any patch and limits (diff-budget.ts:64-94).
THEOREM PatchIsHonest == PatchSpec => []PatchHonest
<1>1. PatchInv => PatchHonest
  BY DEF PatchInv
<1> QED
  BY <1>1, PatchInitInv, PatchStepInv, PTL DEF PatchSpec

\* The capping loop is well typed: no section is both inlined and named as
\* omitted, and none the loop has not looked at is either.
THEOREM PatchTyped == PatchSpec => []PatchTypeOK
<1>1. PatchInv => PatchTypeOK
  BY DEF PatchInv
<1> QED
  BY <1>1, PatchInitInv, PatchStepInv, PTL DEF PatchSpec

-----------------------------------------------------------------------------
(* WorkspaceContext: what the prompt shows of the checkout                 *)

\* What adding one entry, taking one off and joining two lists do to the paths.
LEMMA PathsAppend ==
  ASSUME NEW list \in Seq(Candidate), NEW c \in Candidate
  PROVE  Paths(Append(list, c)) = Paths(list) \cup {c.path}
<1>1. /\ Len(Append(list, c)) = Len(list) + 1
      /\ \A n \in 1..Len(list) : Append(list, c)[n] = list[n]
      /\ Append(list, c)[Len(list) + 1] = c
      /\ DOMAIN Append(list, c) = 1..(Len(list) + 1) /\ DOMAIN list = 1..Len(list)
      /\ Len(list) \in Nat
  OBVIOUS
<1> QED
  BY <1>1 DEF Paths

LEMMA PathsTail ==
  ASSUME NEW list \in Seq(Candidate), list # <<>>
  PROVE  /\ Head(list) \in Candidate /\ Tail(list) \in Seq(Candidate)
         /\ Paths(list) = Paths(Tail(list)) \cup {Head(list).path}
<1>1. /\ Len(list) \in Nat \ {0} /\ Head(list) = list[1] /\ Len(Tail(list)) = Len(list) - 1
      /\ \A n \in 1..(Len(list) - 1) : Tail(list)[n] = list[n + 1]
      /\ DOMAIN list = 1..Len(list) /\ DOMAIN Tail(list) = 1..(Len(list) - 1)
      /\ Head(list) \in Candidate /\ Tail(list) \in Seq(Candidate)
  OBVIOUS
<1>2. \A n \in 1..Len(list) : n = 1 \/ (n - 1 \in 1..(Len(list) - 1) /\ list[n] = Tail(list)[n - 1])
  BY <1>1
<1>3. ASSUME NEW n \in 1..Len(list)
      PROVE  list[n].path \in Paths(Tail(list)) \cup {Head(list).path}
  <2>1. CASE n = 1
    BY <1>1, <2>1
  <2>2. CASE n # 1
    BY <1>1, <1>2, <2>2 DEF Paths
  <2> QED
    BY <2>1, <2>2
<1>4. ASSUME NEW n \in 1..(Len(list) - 1) PROVE Tail(list)[n].path \in Paths(list)
  BY <1>1 DEF Paths
<1>5. Paths(Tail(list)) \cup {Head(list).path} \subseteq Paths(list)
  BY <1>1, <1>4 DEF Paths
<1>6. Paths(list) \subseteq Paths(Tail(list)) \cup {Head(list).path}
  BY <1>1, <1>3 DEF Paths
<1> QED
  BY <1>1, <1>5, <1>6

LEMMA PathsJoin ==
  ASSUME NEW a \in Seq(Candidate), NEW b \in Seq(Candidate)
  PROVE  a \o b \in Seq(Candidate) /\ Paths(a \o b) = Paths(a) \cup Paths(b)
<1> DEFINE ab == a \o b
<1>1. /\ ab \in Seq(Candidate) /\ Len(ab) = Len(a) + Len(b)
      /\ Len(a) \in Nat /\ Len(b) \in Nat
      /\ DOMAIN ab = 1..(Len(a) + Len(b)) /\ DOMAIN a = 1..Len(a) /\ DOMAIN b = 1..Len(b)
      /\ \A n \in 1..Len(a) : ab[n] = a[n]
  OBVIOUS
<1>2. \A n \in 1..Len(b) : Len(a) + n \in 1..(Len(a) + Len(b)) /\ ab[Len(a) + n] = b[n]
  BY <1>1
<1>3. \A n \in 1..(Len(a) + Len(b)) : n \in 1..Len(a) \/ (n - Len(a) \in 1..Len(b) /\ ab[n] = b[n - Len(a)])
  BY <1>1
<1> HIDE DEF ab
<1>4. Paths(ab) \subseteq Paths(a) \cup Paths(b)
  BY <1>1, <1>3 DEF Paths
<1>5. Paths(a) \subseteq Paths(ab)
  BY <1>1 DEF Paths
<1>6. ASSUME NEW n \in 1..Len(b) PROVE b[n].path \in Paths(ab)
  BY <1>1, <1>2 DEF Paths
<1>7. Paths(b) \subseteq Paths(ab)
  BY <1>1, <1>6 DEF Paths
<1> QED
  BY <1>1, <1>4, <1>5, <1>7 DEF ab

LEMMA PathsOf ==
  ASSUME NEW list \in Seq(Candidate)
  PROVE  \A i \in 1..Len(list) : list[i] \in Candidate /\ list[i].path \in Files
<1>1. \A i \in 1..Len(list) : list[i] \in Candidate
  OBVIOUS
<1> QED
  BY <1>1 DEF Candidate

LEMMA PathsAs ==
  ASSUME NEW paths \in Seq(Files), NEW kind \in {"instructions", "changed", "related"}
  PROVE  As(kind, paths) \in Seq(Candidate) /\ Paths(As(kind, paths)) = RangeOf(paths)
<1>1. /\ Len(paths) \in Nat /\ DOMAIN paths = 1..Len(paths)
      /\ \A n \in 1..Len(paths) : paths[n] \in Files
  OBVIOUS
<1>2. As(kind, paths) \in [1..Len(paths) -> Candidate]
  BY <1>1 DEF As, Candidate
<1>3. As(kind, paths) \in Seq(Candidate)
  BY <1>1, <1>2
<1>4. DOMAIN As(kind, paths) = DOMAIN paths /\ \A n \in DOMAIN paths : As(kind, paths)[n].path = paths[n]
  BY DEF As
<1> QED
  BY <1>3, <1>4 DEF Paths, RangeOf

\* The list, the loops' positions and what was inlined have their types, and no
\* path is listed twice.
ContextTypeOK ==
  /\ length \in [Files -> Lengths]
  /\ budget \in Nat /\ counted \in Nat
  /\ listing \in {"primary", "related", "over"}
  /\ listed \in Seq(Candidate) /\ todo \in Seq(Candidate)
  /\ nth \in Nat /\ copied \in Nat /\ cursor \in Nat \ {0}
  /\ shown \in [Files -> Nat \cup {Missing}]
  /\ \A i, j \in 1..Len(listed) : listed[i].path = listed[j].path => i = j

\* What the n-th changed file adds in the first loop.
AddedFor(n) == {Changed[n]} \cup RangeOf(Guides[Changed[n]])

\* While it is being listed, what is under review is listed or about to be, and
\* nothing else is; from the copy on it is exactly the part that was copied.
PrimaryListed ==
  /\ listing = "primary" =>
       /\ nth <= Len(Changed)
       /\ Paths(listed) \cup Paths(todo) \subseteq PrimaryFiles
       /\ Root \in Paths(listed)
       /\ \A n \in 1..nth : AddedFor(n) \subseteq Paths(listed) \cup Paths(todo)
  /\ listing # "primary" =>
       /\ copied <= Len(listed)
       /\ PrimaryFiles = {listed[i].path : i \in 1..copied}
  /\ listing = "over" => todo = <<>>

\* Before the last loop nothing is shown; in it, what was passed is shown whole or
\* cannot be read, and what is to come is not shown.
ShownSoFar ==
  /\ listing # "over" => cursor = 1 /\ \A f \in Files : shown[f] = Missing
  /\ \A i \in 1..Len(listed) : i >= cursor => shown[listed[i].path] = Missing
  /\ cursor <= Len(listed) => \A i \in 1..(cursor - 1) : shown[listed[i].path] = length[listed[i].path]
  /\ Shown \subseteq Paths(listed)

ContextInv == ContextTypeOK /\ PrimaryListed /\ ShownSoFar /\ PrimaryFirst

LEMMA ContextInitInv == ContextInit => ContextInv
<1> SUFFICES ASSUME ContextInit PROVE ContextInv
  OBVIOUS
<1> USE ContextAssumption DEF ContextInit
<1> DEFINE first == [path |-> Root, kind |-> "instructions"]
<1>1. /\ first \in Candidate /\ listed = <<first>> /\ todo = <<>>
      /\ listed \in Seq(Candidate) /\ Len(listed) = 1 /\ listed[1].path = Root
      /\ todo \in Seq(Candidate)
  BY DEF Candidate
<1>2. Paths(listed) = {Root} /\ Paths(todo) = {}
  BY <1>1 DEF Paths
<1>3. budget \in Nat
  <2>1. PICK left \in InputLeft :
          budget = (IF left < 0 THEN 0 ELSE IF left < ContextMax THEN left ELSE ContextMax)
    OBVIOUS
  <2>2. left \in Int
    OBVIOUS
  <2> QED
    BY <2>1, <2>2
<1>4. ContextTypeOK
  BY <1>1, <1>3 DEF ContextTypeOK
<1>5. PrimaryListed
  <2>1. listing = "primary" /\ nth = 0 /\ Len(Changed) \in Nat
    OBVIOUS
  <2>2. Root \in PrimaryFiles
    BY DEF PrimaryFiles
  <2>3. nth <= Len(Changed) /\ 1..nth = {}
    BY <2>1
  <2> HIDE ContextAssumption DEF ContextInit
  <2> QED
    BY <1>2, <2>1, <2>2, <2>3 DEF PrimaryListed
<1>6. ShownSoFar /\ Shown = {}
  BY <1>1 DEF ShownSoFar, Shown
<1> QED
  BY <1>4, <1>5, <1>6 DEF ContextInv, PrimaryFirst

\* What the files of one changed file come to.
LEMMA AddedType ==
  ASSUME NEW n \in 1..Len(Changed)
  PROVE  /\ Changed[n] \in Files
         /\ As("instructions", Guides[Changed[n]]) \o As("changed", <<Changed[n]>>) \in Seq(Candidate)
         /\ Paths(As("instructions", Guides[Changed[n]]) \o As("changed", <<Changed[n]>>)) = AddedFor(n)
         /\ AddedFor(n) \subseteq PrimaryFiles
<1> USE ContextAssumption
<1> DEFINE f == Changed[n]
           guides == As("instructions", Guides[f])
           self == As("changed", <<f>>)
<1>1. f \in Files /\ f \in RangeOf(Changed)
  BY DEF RangeOf
<1>2. Guides[f] \in Seq(Files) /\ <<f>> \in Seq(Files) /\ RangeOf(<<f>>) = {f}
  BY <1>1 DEF RangeOf
<1>3. /\ guides \in Seq(Candidate) /\ Paths(guides) = RangeOf(Guides[f])
      /\ self \in Seq(Candidate) /\ Paths(self) = {f}
  BY <1>2, PathsAs
<1>4. guides \o self \in Seq(Candidate) /\ Paths(guides \o self) = Paths(guides) \cup Paths(self)
  BY <1>3, PathsJoin
<1>5. AddedFor(n) \subseteq PrimaryFiles
  BY <1>1 DEF AddedFor, PrimaryFiles
<1> QED
  BY <1>1, <1>3, <1>4, <1>5 DEF AddedFor

\* Adding keeps the types and lists what was to do, and only that.
LEMMA AddLists ==
  ASSUME ContextTypeOK, Add
  PROVE  /\ ContextTypeOK'
         /\ Paths(listed)' \cup Paths(todo)' = Paths(listed) \cup Paths(todo)
         /\ Paths(listed) \subseteq Paths(listed)'
         /\ Len(listed) <= Len(listed')
         /\ \A i \in 1..Len(listed) : listed'[i] = listed[i]
<1> USE DEF Add, ContextTypeOK
<1>1. /\ Head(todo) \in Candidate /\ todo' \in Seq(Candidate)
      /\ Paths(todo) = Paths(todo') \cup {Head(todo).path}
  BY PathsTail
<1>2. CASE Head(todo).path \in Paths(listed)
  BY <1>1, <1>2 DEF inlineVars
<1>3. CASE Head(todo).path \notin Paths(listed)
  <2>1. listed' = Append(listed, Head(todo))
    BY <1>3
  <2>2. /\ listed' \in Seq(Candidate) /\ Len(listed') = Len(listed) + 1 /\ Len(listed) \in Nat
        /\ \A i \in 1..Len(listed) : listed'[i] = listed[i]
        /\ listed'[Len(listed')] = Head(todo)
    BY <1>1, <2>1
  <2>3. Paths(listed') = Paths(listed) \cup {Head(todo).path}
    BY <1>1, <2>1, PathsAppend
  <2>4. \A i \in 1..Len(listed) : listed[i].path # Head(todo).path
    BY <1>3 DEF Paths
  <2>5. \A i, j \in 1..Len(listed') : listed'[i].path = listed'[j].path => i = j
    BY <2>2, <2>4
  <2> QED
    BY <1>1, <2>2, <2>3, <2>5 DEF inlineVars
<1> QED
  BY <1>2, <1>3

\* The steps that list: what is under review first, then the rest.
LEMMA ListingKeeps ==
  ASSUME ContextInv, Add \/ ListChanged \/ CopyCandidates \/ ListRelated \/ Listed
  PROVE  ContextTypeOK' /\ PrimaryListed'
<1> USE DEF ContextInv
<1>0. todo = <<>> => Paths(todo) = {}
  BY DEF Paths
<1>1. CASE Add
  <2>1. ContextTypeOK'
    BY <1>1, AddLists
  <2>2. CASE listing = "primary"
    BY <1>1, <2>2, AddLists DEF Add, PrimaryListed
  <2>3. CASE listing # "primary"
    <3>1. /\ copied' = copied /\ copied <= Len(listed') /\ listing' # "primary"
      BY <1>1, <2>1, <2>3, AddLists DEF Add, PrimaryListed, ContextTypeOK
    <3>2. \A i \in 1..copied : listed'[i] = listed[i]
      BY <1>1, <2>3, AddLists DEF PrimaryListed, ContextTypeOK
    <3>3. {listed'[i].path : i \in 1..copied'} = {listed[i].path : i \in 1..copied}
      BY <3>1, <3>2
    <3>4. PrimaryFiles = {listed[i].path : i \in 1..copied}
      BY <2>3 DEF PrimaryListed
    <3> QED
      BY <1>1, <2>1, <3>1, <3>3, <3>4 DEF Add, PrimaryListed
  <2> QED
    BY <2>1, <2>2, <2>3
<1>2. CASE ListChanged
  <2>1. nth' \in 1..Len(Changed) /\ nth' = nth + 1
    BY <1>2, ContextAssumption DEF ListChanged, ContextTypeOK
  <2>2. todo' \in Seq(Candidate) /\ Paths(todo') = AddedFor(nth') /\ Paths(todo') \subseteq PrimaryFiles
    BY <1>2, <2>1, AddedType DEF ListChanged
  <2>3. ContextTypeOK'
    BY <1>2, <2>1, <2>2 DEF ListChanged, ContextTypeOK, inlineVars
  <2>4. \A n \in 1..nth' : n = nth' \/ n \in 1..nth
    BY <2>1 DEF ContextTypeOK
  <2>5. PrimaryListed'
    BY <1>0, <1>2, <2>1, <2>2, <2>4 DEF ListChanged, PrimaryListed
  <2> QED
    BY <2>3, <2>5
<1>3. CASE CopyCandidates
  <2>1. ContextTypeOK'
    BY <1>3 DEF CopyCandidates, ContextTypeOK, inlineVars
  <2>2. Paths(listed) \subseteq PrimaryFiles /\ Root \in Paths(listed)
    BY <1>3 DEF CopyCandidates, PrimaryListed
  <2>3. \A n \in 1..Len(Changed) : AddedFor(n) \subseteq Paths(listed)
    BY <1>0, <1>3 DEF CopyCandidates, PrimaryListed
  <2>4. DOMAIN Changed = 1..Len(Changed)
    BY ContextAssumption
  <2>5. PrimaryFiles \subseteq Paths(listed)
    BY <2>2, <2>3, <2>4 DEF PrimaryFiles, RangeOf, AddedFor
  <2>6. Paths(listed) = {listed[i].path : i \in 1..Len(listed)}
    BY DEF Paths, ContextTypeOK
  <2> QED
    BY <1>3, <2>1, <2>2, <2>5, <2>6 DEF CopyCandidates, PrimaryListed, ContextTypeOK
<1>4. CASE ListRelated
  <2>1. nth' \in 1..Len(listed) /\ nth' \in Nat
    BY <1>4 DEF ListRelated, ContextTypeOK, PrimaryListed
  <2>2. listed[nth'] \in Candidate
    BY <2>1 DEF ContextTypeOK
  <2>3. Related[listed[nth'].path] \in Seq(Files)
    BY <2>2, ContextAssumption DEF Candidate
  <2>4. todo' \in Seq(Candidate)
    BY <1>4, <2>3, PathsAs DEF ListRelated
  <2>5. ContextTypeOK'
    BY <1>4, <2>1, <2>4 DEF ListRelated, ContextTypeOK, inlineVars
  <2> QED
    BY <1>4, <2>5 DEF ListRelated, PrimaryListed
<1>5. CASE Listed
  <2>1. ContextTypeOK'
    BY <1>5 DEF Listed, ContextTypeOK, inlineVars
  <2> QED
    BY <1>5, <2>1 DEF Listed, PrimaryListed
<1> QED
  BY <1>1, <1>2, <1>3, <1>4, <1>5

\* The steps that list show nothing.
LEMMA ListingShowsNothing ==
  ASSUME ContextInv, Add \/ ListChanged \/ CopyCandidates \/ ListRelated \/ Listed
  PROVE  ShownSoFar' /\ PrimaryFirst'
<1>1. /\ cursor' = cursor /\ shown' = shown /\ length' = length
      /\ listing # "over"
  BY DEF Add, ListChanged, CopyCandidates, ListRelated, Listed, inlineVars, ContextInv,
         PrimaryListed
<1>2. cursor = 1 /\ \A f \in Files : shown[f] = Missing
  BY <1>1 DEF ContextInv, ShownSoFar
<1>3. \A i \in 1..Len(listed') : listed'[i].path \in Files
  BY ListingKeeps, PathsOf DEF ContextTypeOK
<1>4. Shown' = {}
  BY <1>1, <1>2 DEF Shown
<1>5. ShownSoFar'
  BY <1>1, <1>2, <1>3, <1>4 DEF ShownSoFar
<1> QED
  BY <1>4, <1>5 DEF PrimaryFirst

\* The last loop: what comes after the copied part is not under review, and is
\* reached only when all of that was shown whole.
LEMMA InliningKeeps ==
  ASSUME ContextInv, Unreadable \/ Full \/ Inline
  PROVE  ContextInv'
<1> USE DEF ContextInv
<1>1. /\ UNCHANGED <<length, budget, listing, listed, copied, nth, todo>>
      /\ listing = "over" /\ cursor \in 1..Len(listed) /\ Len(listed) \in Nat
  BY DEF Unreadable, Full, Inline, Looking, listVars, ContextTypeOK
<1>2. \A i \in 1..Len(listed) : listed[i].path \in Files
  BY PathsOf DEF ContextTypeOK
<1>3. /\ File = listed[cursor].path /\ File \in Files
      /\ shown[File] = Missing
  BY <1>1, <1>2 DEF File, ContextTypeOK, ShownSoFar
<1>4. PrimaryListed'
  BY <1>1, <1>3 DEF PrimaryListed, Paths
<1>5. CASE Unreadable
  <2>1. cursor' = cursor + 1 /\ shown' = shown /\ counted' = counted /\ length[File] = Missing
    BY <1>5 DEF Unreadable, Loadable
  <2>2. ContextTypeOK'
    BY <1>1, <1>3, <2>1 DEF ContextTypeOK
  <2>3. \A i \in 1..cursor : shown[listed[i].path] = length[listed[i].path]
    BY <1>1, <1>3, <2>1 DEF ShownSoFar, ContextTypeOK
  <2>4. ShownSoFar' /\ PrimaryFirst'
    BY <1>1, <1>3, <2>1, <2>3 DEF ShownSoFar, PrimaryFirst, Shown, Paths, ContextTypeOK
  <2> QED
    BY <1>4, <2>2, <2>4
<1>6. CASE Full
  <2>1. cursor' = Len(listed) + 1 /\ shown' = shown /\ counted' = counted
    BY <1>6 DEF Full, Break
  <2>2. ContextTypeOK'
    BY <1>1, <1>3, <2>1 DEF ContextTypeOK
  <2>3. ShownSoFar' /\ PrimaryFirst'
    BY <1>1, <1>3, <2>1 DEF ShownSoFar, PrimaryFirst, Shown, Paths
  <2> QED
    BY <1>4, <2>2, <2>3
<1>7. CASE Inline
  <2> DEFINE room == budget - counted - Frame
             text == IF length[File] < room THEN length[File] ELSE room
  <2>1. /\ shown' = [shown EXCEPT ![File] = text]
        /\ counted' = counted + Frame + text
        /\ IF text < length[File] THEN cursor' = Len(listed) + 1 ELSE cursor' = cursor + 1
        /\ length[File] # Missing /\ room > 1
    BY <1>7, ContextAssumption DEF Inline, Fits, Break, Loadable, ContextTypeOK
  <2>2. length[File] \in Nat /\ room \in Nat
    <3>1. length[File] \in Lengths /\ budget - counted - Frame \in Int
      BY <1>1, <1>3, ContextAssumption DEF ContextTypeOK
    <3>2. length[File] # Missing /\ room > 1
      BY <2>1
    <3>3. room \in Nat
      BY <3>1, <3>2
    <3> HIDE DEF room
    <3> QED
      BY <3>1, <3>2, <3>3, ContextAssumption
  <2>3. text \in Nat /\ text # Missing /\ (~(text < length[File]) => text = length[File])
    BY <2>2, ContextAssumption
  <2> HIDE DEF text, room
  <2>4. ContextTypeOK'
    <3>1. shown' \in [Files -> Nat \cup {Missing}]
      BY <1>1, <1>3, <2>1, <2>3 DEF ContextTypeOK
    <3>2. counted' \in Nat /\ cursor' \in Nat \ {0}
      BY <1>1, <1>3, <2>1, <2>3, ContextAssumption DEF ContextTypeOK
    <3> QED
      BY <1>1, <1>3, <3>1, <3>2 DEF ContextTypeOK
  <2>5. /\ shown'[File] = text
        /\ \A f \in Files : f # File => shown'[f] = shown[f]
    BY <1>1, <1>3, <2>1 DEF ContextTypeOK
  <2>6. \A i \in 1..Len(listed) : i # cursor => listed[i].path # File
    BY <1>1, <1>3 DEF ContextTypeOK
  <2>7. /\ \A i \in 1..Len(listed) : i # cursor => shown'[listed[i].path] = shown[listed[i].path]
        /\ shown'[listed[cursor].path] = text
    BY <1>1, <1>3, <1>2, <2>5, <2>6
  <2>8. \A i \in 1..(cursor - 1) : shown[listed[i].path] = length[listed[i].path]
    BY <1>1, <1>3 DEF ShownSoFar
  <2>9. \A i \in 1..Len(listed) : i >= cursor => shown[listed[i].path] = Missing
    BY DEF ShownSoFar
  <2>10. Shown' \subseteq Paths(listed)'
    <3>1. Shown' \subseteq Shown \cup {File}
      BY <2>5 DEF Shown
    <3>2. File \in Paths(listed)
      BY <1>1, <1>3 DEF Paths
    <3> QED
      BY <1>1, <1>3, <3>1, <3>2 DEF ShownSoFar, Paths
  <2>11. \A i \in 1..Len(listed) : i >= cursor' => shown'[listed[i].path] = Missing
    BY <1>1, <1>3, <2>1, <2>7, <2>9
  <2>12. ASSUME cursor' <= Len(listed), NEW i \in 1..(cursor' - 1)
         PROVE  shown'[listed[i].path] = length[listed[i].path]
    <3>1. cursor' = cursor + 1 /\ text = length[File]
      BY <1>1, <1>3, <2>1, <2>3, <2>12
    <3> QED
      BY <1>1, <1>3, <2>7, <2>8, <2>12, <3>1
  <2>13. ShownSoFar'
    BY <1>1, <1>3, <2>10, <2>11, <2>12 DEF ShownSoFar
  <2>14. PrimaryFirst'
    <3>1. /\ copied <= Len(listed) /\ copied \in Nat
          /\ PrimaryFiles = {listed[i].path : i \in 1..copied}
      BY <1>1, <1>3 DEF PrimaryListed, ContextTypeOK
    <3>2. CASE cursor <= copied
      <4>1. ASSUME NEW f \in Shown' PROVE f \in PrimaryFiles
        <5>1. PICK i \in 1..Len(listed) : f = listed[i].path
          BY <1>1, <1>3, <2>10 DEF Paths, ContextTypeOK
        <5>2. i <= cursor
          BY <1>1, <1>3, <1>2, <2>7, <2>9, <4>1, <5>1 DEF Shown
        <5> QED
          BY <1>1, <1>3, <3>1, <3>2, <5>1, <5>2
      <4> QED
        BY <4>1 DEF PrimaryFirst
    <3>3. CASE cursor > copied
      <4>1. ASSUME NEW f \in PrimaryFiles PROVE shown'[f] = length'[f]
        <5>1. PICK i \in 1..copied : f = listed[i].path
          BY <3>1
        <5> QED
          BY <1>1, <1>3, <2>7, <2>8, <3>1, <3>3, <5>1
      <4> QED
        BY <4>1 DEF PrimaryFirst
    <3> QED
      BY <1>1, <1>3, <3>1, <3>2, <3>3
  <2> QED
    BY <1>4, <2>4, <2>13, <2>14
<1> QED
  BY <1>5, <1>6, <1>7

\* Whatever the files hold and whatever the budget is, nothing merely related is
\* shown before everything that is under review (workspace-context.ts:66-95).
THEOREM PrimaryIsFirst == ContextSpec => []PrimaryFirst
<1>1. ContextInv /\ [ContextNext]_contextVars => ContextInv'
  <2> SUFFICES ASSUME ContextInv, [ContextNext]_contextVars PROVE ContextInv'
    OBVIOUS
  <2>1. CASE Add \/ ListChanged \/ CopyCandidates \/ ListRelated \/ Listed
    BY <2>1, ListingKeeps, ListingShowsNothing DEF ContextInv
  <2>2. CASE Unreadable \/ Full \/ Inline
    BY <2>2, InliningKeeps
  <2>3. CASE UNCHANGED contextVars
    BY <2>3 DEF contextVars, listVars, inlineVars, ContextInv, ContextTypeOK, PrimaryListed,
                ShownSoFar, PrimaryFirst, Shown, Paths
  <2> QED
    BY <2>1, <2>2, <2>3 DEF ContextNext
<1>2. ContextInv => PrimaryFirst
  BY DEF ContextInv
<1> QED
  BY <1>1, <1>2, ContextInitInv, PTL DEF ContextSpec

-----------------------------------------------------------------------------
(* RunnerAttempt: what an attempt costs                                    *)

\* What an outage and a refusal must be classified as: an outage as one, if its
\* text does not hide it, and a refusal that says so never as an outage.
Routed(c, f) ==
  /\ c \in Outages => Classify(f) = "transient" \/ Hides(f)
  /\ c \in Refusals /\ (f.status # NoStatus \/ "auth" \in f.phrases) => Classify(f) # "transient"

\* A classifier result is one of the three classes.
LEMMA ClassifyType == \A f : Classify(f) \in {"transient", "permanent", "unknown"}
  BY DEF Classify

\* Each way of describing a failure is a description.
LEMMA Described ==
  ASSUME NEW p \in SUBSET Phrases
  PROVE  Message(p) \in Failures
  BY DEF Message, Http, Failures, HttpStatuses, NoStatus

LEMMA HttpDescribed ==
  ASSUME NEW p \in SUBSET Phrases, NEW s \in {401, 403, 404, 429, 502}
  PROVE  Http(s, p) \in Failures
  BY DEF Http, Failures, HttpStatuses

\* A message with a hint and no word of authentication is transient.
LEMMA HintsTransient ==
  ASSUME NEW p \in SUBSET Phrases, "auth" \notin p,
         p \cap {"limit", "overload", "transport", "html", "timeout"} # {}
  PROVE  Classify(Message(p)) = "transient"
<1>1. ~Refused(Message(p))
  BY DEF Refused, Message, Http, NoStatus
<1>2. Hints(Message(p))
  BY DEF Hints, Message, Http
<1> QED
  BY <1>1, <1>2 DEF Classify

\* A message with a word of authentication is not, unless it is certain to clear.
LEMMA AuthPermanent ==
  ASSUME NEW p \in SUBSET Phrases, "auth" \in p, "config" \notin p
  PROVE  Classify(Message(p)) = "permanent"
<1>1. ~Clears(Message(p))
  BY DEF Clears, Message, Http, NoStatus, RetryStatuses
<1>2. Refused(Message(p))
  BY DEF Refused, Message, Http
<1> QED
  BY <1>1, <1>2 DEF Classify

\* 401 and 404 are permanent, whatever the text says.
LEMMA StatusPermanent ==
  ASSUME NEW s \in {401, 404}, NEW p \in SUBSET Phrases, "config" \notin p
  PROVE  Classify(Http(s, p)) = "permanent"
<1>1. ~Clears(Http(s, p))
  BY DEF Clears, Http, Message, RetryStatuses
<1>2. Refused(Http(s, p))
  BY DEF Refused, Http, Message
<1> QED
  BY <1>1, <1>2 DEF Classify

\* 502, 429 and a 403 of the rate limit are transient.
LEMMA StatusTransient ==
  /\ \A p : Classify(Http(502, p)) = "transient" /\ Classify(Http(429, p)) = "transient"
  /\ Classify(Http(403, {"rate403", "limit"})) = "transient"
<1>1. \A p : Clears(Http(502, p)) /\ Clears(Http(429, p))
  BY DEF Clears, Http, Message, RetryStatuses
<1>2. Clears(Http(403, {"rate403", "limit"}))
  BY DEF Clears, Http, Message
<1> QED
  BY <1>1, <1>2 DEF Classify

LEMMA NoiseType == \A n \in Noise : n \subseteq Phrases /\ "config" \notin n
  BY DEF Noise, Phrases, TextPhrases

\* The words a failure is described with
Words == {{}, {"limit"}, {"overload"}, {"transport"}, {"html"}, {"timeout"}, {"auth"}}

\* A text is an outage to the classifier unless it is hidden, and permanent if it
\* has a word of authentication, whatever it has by accident.
LEMMA TextRouted ==
  ASSUME NEW words \in SUBSET Words, NEW f \in Text(words)
  PROVE  /\ f \in Failures
         /\ f.status = NoStatus /\ f.network = FALSE /\ f.aborted = FALSE
         /\ Classify(f) = "transient" \/ Hides(f)
         /\ "auth" \in f.phrases => Classify(f) # "transient"
<1>1. PICK w \in Words, n \in Noise : f = Message(w \cup n)
  BY DEF Text
<1> DEFINE p == w \cup n
<1>2. p \in SUBSET Phrases /\ "config" \notin p
  BY NoiseType DEF Words, Phrases, TextPhrases
<1>3. f.status = NoStatus /\ f.network = FALSE /\ f.aborted = FALSE /\ f.phrases = p
  BY <1>1 DEF Message, Http
<1>4. CASE p = {} \/ "auth" \in p
  <2>1. Hides(f)
    BY <1>3, <1>4 DEF Hides
  <2>2. "auth" \in p => Classify(f) = "permanent"
    BY <1>1, <1>2, AuthPermanent
  <2> QED
    BY <1>1, <1>2, <1>3, <2>1, <2>2, Described
<1>5. CASE p # {} /\ "auth" \notin p
  <2>1. p \cap {"limit", "overload", "transport", "html", "timeout"} # {}
    BY <1>5 DEF Words, Noise
  <2>2. Classify(f) = "transient"
    BY <1>1, <1>2, <1>5, <2>1, HintsTransient
  <2> QED
    BY <1>1, <1>2, <1>3, <1>5, <2>2, Described
<1> QED
  BY <1>4, <1>5

\* So is one that is thrown with a socket's code or an abort's name.
LEMMA FlaggedRouted ==
  ASSUME NEW words \in SUBSET Words, NEW t \in Text(words), NEW f,
         \/ f = [t EXCEPT !.network = TRUE]
         \/ f = [t EXCEPT !.aborted = TRUE]
  PROVE  f \in Failures /\ Classify(f) = "transient"
<1>1. t \in Failures
  BY TextRouted
<1>2. f \in Failures /\ (f.network \/ f.aborted)
  BY <1>1 DEF Failures
<1> QED
  BY <1>2 DEF Classify, Clears

\* Every exception is routed by its cause.
LEMMA ThrownRouted ==
  ASSUME NEW c \in Causes, NEW f \in Thrown(c)
  PROVE  f \in Failures /\ Routed(c, f)
<1>0. {{}} \subseteq Words /\ {{"transport"}, {}} \subseteq Words /\ {{"html"}, {}} \subseteq Words
      /\ {{"timeout"}} \subseteq Words /\ {{"auth"}, {}} \subseteq Words
  BY DEF Words
<1>1. CASE c = "network"
  <2>1. CASE \E t \in Text({{}}) : f = [t EXCEPT !.network = TRUE]
    BY <1>0, <1>1, <2>1, FlaggedRouted DEF Routed, Refusals
  <2>2. CASE f \in Text({{"transport"}, {}})
    BY <1>0, <1>1, <2>2, TextRouted DEF Routed, Refusals
  <2> QED
    BY <1>1, <2>1, <2>2 DEF Thrown
<1>2. CASE c = "githubDown"
  <2>1. CASE \E n \in Noise : f = Http(502, n)
    BY <1>2, <2>1, NoiseType, HttpDescribed, StatusTransient DEF Routed, Refusals
  <2>2. CASE f \in Text({{"html"}, {}})
    BY <1>0, <1>2, <2>2, TextRouted DEF Routed, Refusals
  <2> QED
    BY <1>2, <2>1, <2>2 DEF Thrown
<1>3. CASE c = "limit"
  <2>1. CASE \E n \in Noise : f = Http(429, n)
    BY <1>3, <2>1, NoiseType, HttpDescribed, StatusTransient DEF Routed, Refusals
  <2>2. CASE f = Http(403, {"rate403", "limit"})
    <3>1. f \in Failures
      BY <2>2, HttpDescribed DEF Phrases, TextPhrases
    <3> QED
      BY <1>3, <2>2, <3>1, StatusTransient DEF Routed, Refusals
  <2> QED
    BY <1>3, <2>1, <2>2 DEF Thrown
<1>4. CASE c = "timeout"
  <2>1. PICK t \in Text({{"timeout"}}) : f = [t EXCEPT !.aborted = TRUE]
    BY <1>4 DEF Thrown
  <2> QED
    BY <1>0, <1>4, <2>1, FlaggedRouted DEF Routed, Refusals
<1>5. CASE c = "auth"
  <2>1. CASE \E n \in Noise : f = Http(401, n)
    BY <1>5, <2>1, NoiseType, StatusPermanent, HttpDescribed DEF Routed, Outages
  <2>2. CASE f \in Text({{"auth"}, {}})
    BY <1>0, <1>5, <2>2, TextRouted DEF Routed, Outages
  <2> QED
    BY <1>5, <2>1, <2>2 DEF Thrown
<1>6. CASE c = "notFound"
  <2>1. CASE \E n \in Noise : f = Http(404, n)
    BY <1>6, <2>1, NoiseType, StatusPermanent, HttpDescribed DEF Routed, Outages
  <2>2. CASE f \in Text({{}})
    BY <1>0, <1>6, <2>2, TextRouted DEF Routed, Outages
  <2> QED
    BY <1>6, <2>1, <2>2 DEF Thrown
<1>7. CASE c \in Faults
  <2>1. f \in Text({{}})
    BY <1>7 DEF Thrown, Faults
  <2> QED
    BY <1>0, <1>7, <2>1, TextRouted DEF Routed, Faults, Outages, Refusals
<1> QED
  BY <1>1, <1>2, <1>3, <1>4, <1>5, <1>6, <1>7 DEF Causes, Outages, Refusals

\* So is everything an engine says.
LEMMA SaysRouted ==
  ASSUME NEW c \in EngineCauses, NEW f \in Says(c)
  PROVE  c \in Causes /\ f \in Failures /\ Routed(c, f)
<1>1. c \in Causes
  BY DEF EngineCauses, Causes, Outages, Refusals, Faults
<1>2. \E words \in SUBSET Words : f \in Text(words)
  <2>1. /\ {{"limit"}, {"overload"}, {}} \subseteq Words /\ {{"transport"}, {}} \subseteq Words
        /\ {{"auth"}, {}} \subseteq Words /\ {{}} \subseteq Words
    BY DEF Words
  <2> QED
    BY <2>1 DEF Says, EngineCauses
<1>3. PICK words \in SUBSET Words : f \in Text(words)
  BY <1>2
<1>4. /\ f \in Failures /\ f.status = NoStatus
      /\ Classify(f) = "transient" \/ Hides(f)
      /\ "auth" \in f.phrases => Classify(f) # "transient"
  BY <1>3, TextRouted
<1> QED
  BY <1>1, <1>4 DEF Routed

-----------------------------------------------------------------------------
(* The inductive invariant                                                 *)

\* A failure of an outage that is about to be charged
ChargedOutage == stage = "failed" /\ cause \in Outages /\ Classify(failure) # "transient"

\* What is charged is a failure of another kind, or an outage its text hid; the
\* failure that waits to be settled is in `obscured` already.
Accounted == burned + (IF ChargedOutage THEN 1 ELSE 0) <= genuine + obscured

Budgeted ==
  /\ stage # "dead" => burned < AttemptCap
  /\ stage = "dead" => burned >= UnknownCap
  /\ stage = "preparing" => tries = 0
  /\ stage = "starting" => tries < ParseAttempts

RunnerInv == RunnerTypeOK /\ Budgeted /\ Accounted /\ RefusalsCharged

\* The invariant holds at first.
LEMMA RunnerInitInv == RunnerInit => RunnerInv
<1> SUFFICES ASSUME RunnerInit PROVE RunnerInv
  OBVIOUS
<1> USE RunnerAssumption DEF RunnerInit
<1>0. Message({}) \in Failures
  BY Described
<1>a. 0 \in 0..ParseAttempts /\ 0 \in 0..AttemptCap /\ 0 \in Nat
  OBVIOUS
<1>b. killed \in BOOLEAN /\ (cause = "none" <=> stage # "failed")
  OBVIOUS
<1>1. RunnerTypeOK
  BY <1>0, <1>a, <1>b, Zenon DEF RunnerTypeOK, Stages
<1>2. Budgeted /\ Accounted /\ RefusalsCharged
  BY DEF Budgeted, Accounted, ChargedOutage, RefusalsCharged
<1> QED
  BY <1>1, <1>2 DEF RunnerInv

\* A step that fails for a cause that is routed keeps the invariant.
LEMMA FailKeeps ==
  ASSUME RunnerInv, stage \in {"preparing", "running"},
         NEW c \in Causes, NEW f \in Failures, Routed(c, f), Fail(c, f),
         obscured' = obscured \/ obscured' = obscured + 1,
         c \in Outages /\ Classify(f) # "transient" => obscured' = obscured + 1,
         UNCHANGED processVars
  PROVE  RunnerInv'
<1> USE RunnerAssumption DEF RunnerInv, processVars
<1>1. stage' = "failed" /\ cause' = c /\ failure' = f
  BY DEF Fail
<1>2. RunnerTypeOK'
  BY <1>1 DEF RunnerTypeOK, Stages, Causes, Outages, Refusals, Faults
<1>3. ~ChargedOutage /\ RefusalsCharged'
  BY <1>1 DEF ChargedOutage, RefusalsCharged, Routed
<1>4. /\ obscured' = obscured \/ obscured' = obscured + 1
      /\ ChargedOutage' => obscured' = obscured + 1
  BY <1>1 DEF ChargedOutage
<1>5. Budgeted'
  BY <1>1 DEF Budgeted
<1>6. Accounted'
  <2>1. /\ burned <= genuine + obscured /\ burned' = burned /\ genuine' = genuine
        /\ burned \in Nat /\ genuine \in Nat /\ obscured \in Nat
    BY <1>3 DEF Accounted, RunnerTypeOK
  <2>2. CASE ChargedOutage'
    BY <1>4, <2>1, <2>2 DEF Accounted
  <2>3. CASE ~ChargedOutage'
    BY <1>4, <2>1, <2>3 DEF Accounted
  <2> QED
    BY <2>2, <2>3
<1> QED
  BY <1>2, <1>3, <1>5, <1>6

\* So does one whose failure is counted if its text hides it.
LEMMA NotedKeeps ==
  ASSUME RunnerInv, stage \in {"preparing", "running"},
         NEW c \in Causes, NEW f \in Failures, Routed(c, f), Fail(c, f), Note(c, f),
         UNCHANGED processVars
  PROVE  RunnerInv'
<1>1. obscured \in Nat
  BY DEF RunnerInv, RunnerTypeOK
<1>2. obscured' = obscured \/ obscured' = obscured + 1
  BY <1>1 DEF Note
<1>3. c \in Outages /\ Classify(f) # "transient" => obscured' = obscured + 1
  BY DEF Note, Routed
<1> QED
  BY <1>2, <1>3, FailKeeps

\* So does one that neither fails nor settles, if it stays within the bounds.
LEMMA QuietKeeps ==
  ASSUME RunnerInv, RunnerTypeOK', stage # "failed", stage' # "failed", stage # "dead",
         stage' # "dead", stage' = "preparing" => tries' = 0,
         stage' = "starting" => tries' < ParseAttempts,
         UNCHANGED <<cause, failure, burned, genuine, obscured>>
  PROVE  RunnerInv'
  BY DEF RunnerInv, Budgeted, Accounted, ChargedOutage, RefusalsCharged

\* So does one in which an engine complains.
LEMMA ComplainsKeeps ==
  ASSUME RunnerInv, stage = "running", Complains, UNCHANGED processVars
  PROVE  RunnerInv'
<1>1. PICK c \in EngineCauses : \E f \in Says(c) : Fail(c, f) /\ Note(c, f)
  BY DEF Complains
<1>2. PICK f \in Says(c) : Fail(c, f) /\ Note(c, f)
  BY <1>1
<1>3. c \in Causes /\ f \in Failures /\ Routed(c, f)
  BY SaysRouted
<1> QED
  BY <1>2, <1>3, NotedKeeps

LEMMA RunnerStepInv == RunnerInv /\ [RunnerNext]_runnerVars => RunnerInv'
<1> SUFFICES ASSUME RunnerInv, [RunnerNext]_runnerVars PROVE RunnerInv'
  OBVIOUS
<1> USE RunnerAssumption
<1>t. RunnerTypeOK /\ Budgeted /\ Accounted
  BY DEF RunnerInv
<1>f. /\ Message({}) \in Failures /\ Message({"timeout"}) \in Failures
      /\ Classify(Message({"timeout"})) = "transient"
  BY Described, HintsTransient DEF Phrases, TextPhrases
<1>1. CASE Begin
  <2>1. RunnerTypeOK'
    BY <1>1, <1>t DEF Begin, RunnerTypeOK, Stages
  <2> QED
    BY <1>1, <2>1, QuietKeeps DEF Begin
<1>2. CASE PipelineThrows
  <2>1. PICK c \in Causes : \E f \in Thrown(c) : Fail(c, f) /\ Note(c, f)
    BY <1>2 DEF PipelineThrows
  <2>2. PICK f \in Thrown(c) : Fail(c, f) /\ Note(c, f)
    BY <2>1
  <2>3. f \in Failures /\ Routed(c, f)
    BY ThrownRouted
  <2>4. stage = "preparing" /\ UNCHANGED processVars
    BY <1>2 DEF PipelineThrows, processVars
  <2> QED
    BY <2>2, <2>3, <2>4, NotedKeeps
<1>3. CASE Install
  <2>1. RunnerTypeOK'
    BY <1>3, <1>t DEF Install, InstallEnds, Left, Report, RunnerTypeOK, Stages
  <2> QED
    BY <1>3, <1>t, <2>1, QuietKeeps DEF Install, Budgeted, RunnerTypeOK
<1>4. CASE NoInstall
  <2>1. RunnerTypeOK'
    BY <1>4, <1>t DEF NoInstall, RunnerTypeOK, Stages
  <2> QED
    BY <1>4, <1>t, <2>1, QuietKeeps DEF NoInstall, Budgeted, RunnerTypeOK
<1>5. CASE Spawn
  <2>1. RunnerTypeOK'
    BY <1>5, <1>t DEF Spawn, RunnerTypeOK, Budgeted, Stages
  <2> QED
    BY <1>5, <2>1, QuietKeeps DEF Spawn
<1>6. CASE Answer
  <2>1. RunnerTypeOK'
    BY <1>6, <1>t DEF Answer, processVars, RunnerTypeOK, Stages
  <2> QED
    BY <1>6, <2>1, QuietKeeps DEF Answer, processVars
<1>7. CASE BadAnswer
  <2>1. Routed("badOutput", Message({})) /\ "badOutput" \in Causes \ Outages
    BY DEF Routed, Outages, Refusals, Causes, Faults
  <2> QED
    BY <1>7, <1>f, <1>t, <2>1, FailKeeps DEF BadAnswer, RunnerTypeOK
<1>8. CASE Aborted
  <2>1. Routed("timeout", Message({"timeout"})) /\ "timeout" \in Causes
    BY <1>f DEF Routed, Outages, Refusals, Causes
  <2> QED
    BY <1>8, <1>f, <1>t, <2>1, FailKeeps DEF Aborted, RunnerTypeOK
<1>9. CASE SpawnFails
  <2>1. Routed("bug", Message({})) /\ "bug" \in Causes \ Outages
    BY DEF Routed, Outages, Refusals, Causes, Faults
  <2> QED
    BY <1>9, <1>f, <1>t, <2>1, FailKeeps DEF SpawnFails, RunnerTypeOK
<1>10. CASE EnvelopeError
  <2>1. CASE Complains
    BY <1>10, <2>1, ComplainsKeeps DEF EnvelopeError
  <2>2. CASE Fail("maxTurns", Message({})) /\ UNCHANGED obscured
    <3>1. Routed("maxTurns", Message({})) /\ "maxTurns" \in Causes \ Outages
      BY DEF Routed, Outages, Refusals, Causes, Faults
    <3> QED
      BY <1>10, <1>f, <1>t, <2>2, <3>1, FailKeeps DEF EnvelopeError, RunnerTypeOK
  <2> QED
    BY <1>10, <2>1, <2>2 DEF EnvelopeError
<1>11. CASE Drift
  <2>1. CASE tries < ParseAttempts
    <3>1. RunnerTypeOK'
      BY <1>11, <1>t, <2>1 DEF Drift, processVars, RunnerTypeOK, Stages
    <3> QED
      BY <1>11, <2>1, <3>1, QuietKeeps DEF Drift, processVars
  <2>2. CASE ~(tries < ParseAttempts)
    BY <1>11, <2>2, ComplainsKeeps DEF Drift
  <2> QED
    BY <2>1, <2>2
<1>12. CASE CodexExit
  BY <1>12, ComplainsKeeps DEF CodexExit
<1>13. CASE CodexInterim
  <2>1. PICK c \in EngineCauses : Fail(c, Message({})) /\ Note(c, Message({}))
    BY <1>13 DEF CodexInterim
  <2>2. Hides(Message({})) /\ Message({}).status = NoStatus /\ Message({}).phrases = {}
    BY DEF Hides, Message, Http
  <2>3. c \in Causes /\ Routed(c, Message({}))
    BY <2>2 DEF Routed, EngineCauses, Causes, Outages, Refusals, Faults
  <2>4. stage = "running" /\ UNCHANGED processVars
    BY <1>13 DEF CodexInterim
  <2> QED
    BY <1>f, <2>1, <2>3, <2>4, NotedKeeps
<1>14. CASE Settle
  <2>1. stage = "failed" /\ cause' = "none" /\ failure' = Message({})
        /\ UNCHANGED <<engine, tries, modules, install, killed, obscured>>
    BY <1>14 DEF Settle
  <2>2. CASE Classify(failure) = "transient"
    <3>1. stage' = "waiting" /\ burned' = burned /\ genuine' = genuine
      BY <1>14, <2>2 DEF Settle
    <3>2. RunnerTypeOK'
      BY <1>t, <1>f, <2>1, <3>1 DEF RunnerTypeOK, Stages
    <3>3. Accounted' /\ Budgeted' /\ RefusalsCharged'
      BY <1>t, <2>1, <2>2, <3>1 DEF Accounted, ChargedOutage, Budgeted, RefusalsCharged, RunnerTypeOK
    <3> QED
      BY <3>2, <3>3 DEF RunnerInv
  <2>3. CASE Classify(failure) # "transient"
    <3>1. /\ burned' = burned + 1
          /\ stage' = IF burned + 1 >= Cap(Classify(failure)) THEN "dead" ELSE "waiting"
          /\ genuine' = genuine + (IF cause \in Outages THEN 0 ELSE 1)
      BY <1>14, <2>3 DEF Settle
    <3>2. /\ Cap(Classify(failure)) \in Nat
          /\ Cap(Classify(failure)) >= UnknownCap /\ Cap(Classify(failure)) <= AttemptCap
      BY DEF Cap
    <3>3. burned < AttemptCap /\ burned \in Nat
      BY <1>t, <2>1 DEF Budgeted, RunnerTypeOK
    <3>4. RunnerTypeOK'
      BY <1>t, <1>f, <2>1, <3>1, <3>3 DEF RunnerTypeOK, Stages
    <3>5. Budgeted'
      BY <2>1, <3>1, <3>2, <3>3 DEF Budgeted
    <3>6. ~ChargedOutage' /\ (ChargedOutage <=> cause \in Outages) /\ RefusalsCharged'
      BY <2>1, <2>3, <3>1 DEF ChargedOutage, RefusalsCharged
    <3>7. Accounted'
      BY <1>t, <2>1, <3>1, <3>3, <3>6 DEF Accounted, RunnerTypeOK
    <3> QED
      BY <3>4, <3>5, <3>6, <3>7 DEF RunnerInv
  <2> QED
    BY <2>2, <2>3
<1>15. CASE UNCHANGED runnerVars
  BY <1>15 DEF runnerVars, RunnerInv, RunnerTypeOK, Budgeted, Accounted, ChargedOutage,
     RefusalsCharged, Classify, Clears, Refused, Hints
<1> QED
  BY <1>1, <1>2, <1>3, <1>4, <1>5, <1>6, <1>7, <1>8, <1>9, <1>10, <1>11, <1>12, <1>13,
     <1>14, <1>15 DEF RunnerNext

LEMMA RunnerInvariant == RunnerSpec => []RunnerInv
  BY RunnerInitInv, RunnerStepInv, PTL DEF RunnerSpec

-----------------------------------------------------------------------------
(* The theorems                                                            *)

\* Every reachable state of the attempt loop is well typed; in particular the
\* attempts column never passes its cap (loop.ts:50-67).
THEOREM AttemptsTyped == RunnerSpec => []RunnerTypeOK
<1>1. RunnerInv => RunnerTypeOK
  BY DEF RunnerInv
<1> QED
  BY <1>1, RunnerInvariant, PTL

\* An outage that its text shows loses no review, for any caps and any number of
\* processes a review may start (retry-classification.ts:7-13, 66-69).
THEOREM OutagesKeepJobs == RunnerSpec => []OutageKeepsJob
<1>1. RunnerInv => OutageKeepsJob
  BY RunnerAssumption
     DEF RunnerInv, RunnerTypeOK, Budgeted, Accounted, ChargedOutage, OutageKeepsJob
<1> QED
  BY <1>1, RunnerInvariant, PTL

\* A refusal with a status or a known phrase is never retried for ever
\* (retry-classification.ts:176-183).
THEOREM RefusalsAreCharged == RunnerSpec => []RefusalsCharged
<1>1. RunnerInv => RefusalsCharged
  BY DEF RunnerInv
<1> QED
  BY <1>1, RunnerInvariant, PTL

\* An install that is reported is whole unless its timer killed one
\* (install.ts:49-55).
THEOREM InstallsHonest == RunnerSpec => []InstallHonest
<1>1. RunnerInit => InstallHonest
  BY DEF RunnerInit, InstallHonest
<1>2. InstallHonest /\ [RunnerNext]_runnerVars => InstallHonest'
  <2> SUFFICES ASSUME InstallHonest, [RunnerNext]_runnerVars PROVE InstallHonest'
    OBVIOUS
  <2>1. CASE Begin
    BY <2>1 DEF Begin, InstallHonest
  <2>2. CASE Install
    <3>1. CASE modules # "none"
      BY <2>2, <3>1 DEF Install, InstallHonest
    <3>2. CASE modules = "none"
      <4>1. PICK end \in {"ok", "error", "killed", "aborted"} :
              modules' \in Left(end) /\ install' = Report(end) /\ killed' = (killed \/ end = "killed")
        BY <2>2, <3>2 DEF Install, InstallEnds
      <4>2. CASE end = "ok"
        BY <4>1, <4>2 DEF Left, InstallHonest
      <4>3. CASE end \in {"error", "aborted"}
        BY <4>1, <4>3 DEF Report, ExitCode, InstallHonest
      <4>4. CASE end = "killed"
        BY <4>1, <4>4 DEF InstallHonest
      <4> QED
        BY <4>2, <4>3, <4>4
    <3> QED
      BY <3>1, <3>2
  <2>3. CASE UNCHANGED <<modules, install, killed>>
    BY <2>3 DEF InstallHonest
  <2> QED
    BY <2>1, <2>2, <2>3
       DEF RunnerNext, runnerVars, processVars, PipelineThrows, NoInstall, Spawn, Answer, BadAnswer,
           Aborted, SpawnFails, EnvelopeError, Drift, CodexExit, CodexInterim, Settle
<1> QED
  BY <1>1, <1>2, PTL DEF RunnerSpec
=============================================================================
