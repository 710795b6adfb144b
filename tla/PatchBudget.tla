----------------------------- MODULE PatchBudget -----------------------------
(***************************************************************************)
(* What of a diff is put into the prompt (apps/worker/diff-budget.ts).  A  *)
(* patch is a sequence of file sections, of which only the lengths matter, *)
(* joined by newlines.  One step looks at one section, as the loop of      *)
(* capPatch does.                                                          *)
(***************************************************************************)
EXTENDS Integers

CONSTANTS
  Sections,    \* number of sections of the patch
  Preambles,   \* the sections without a path: none, or what precedes the first
  Sizes,       \* lengths of sections
  MaxPatch,    \* values of review.maxPatchChars
  TokenLimits  \* values of review.maxTokensPerRun

ASSUME PatchAssumption ==
  /\ Sections \in Nat \ {0}
  /\ Preambles \subseteq {1}
  /\ Sizes \subseteq Nat /\ MaxPatch \subseteq Int /\ TokenLimits \subseteq Nat

VARIABLES
  size,      \* the length of each section
  limit,     \* maxChars
  next,      \* the section the loop looks at
  kept,      \* sections inlined
  used,      \* what the loop counts
  inlined,   \* the length of the kept sections once they are joined
  omitted    \* sections the prompt names as not inlined

patchVars == <<size, limit, next, kept, used, inlined, omitted>>

Index == 1..Sections
PatchDone == next > Sections

\* patchBudgetChars: three characters a token
Clamp(patch, tokens) == IF patch < 3 * tokens THEN patch ELSE 3 * tokens

PatchTypeOK ==
  /\ size \in [Index -> Nat]
  /\ limit \in Int
  /\ next \in 1..(Sections + 1)
  /\ kept \in SUBSET Index /\ omitted \in SUBSET (Index \ kept)
  /\ kept # Index => used \in Nat /\ inlined \in Nat
  /\ \A s \in kept \cup omitted : s < next

PatchInit ==
  /\ size \in [Index -> Sizes]
  /\ \E p \in MaxPatch, t \in TokenLimits : limit = Clamp(p, t)
  /\ next = 1
  /\ kept = {} /\ used = 0 /\ inlined = 0 /\ omitted = {}

\* patch.length
Length[s \in Index] == IF s = 1 THEN size[1] ELSE Length[s - 1] + 1 + size[s]

\* The newline a section costs when others precede it
Newline == IF kept = {} THEN 0 ELSE 1

\* The whole patch fits, or no limit is set.
Whole ==
  /\ next = 1
  /\ limit <= 0 \/ Length[Sections] <= limit
  /\ next' = Sections + 1
  /\ kept' = Index
  /\ used' = Length[Sections] /\ inlined' = Length[Sections]
  /\ UNCHANGED <<size, limit, omitted>>

Capping == ~PatchDone /\ limit > 0 /\ Length[Sections] > limit

Cost(s) == size[s] + Newline

Keep ==
  /\ Capping
  /\ used + Cost(next) <= limit
  /\ kept' = kept \cup {next}
  /\ used' = used + Cost(next)
  /\ inlined' = inlined + size[next] + Newline
  /\ next' = next + 1
  /\ UNCHANGED <<size, limit, omitted>>

\* A section too long is passed over; later ones are still tried.
OmitRest ==
  /\ Capping
  /\ used + Cost(next) > limit
  /\ omitted' = omitted \cup ((next..Sections) \ Preambles)
  /\ next' = Sections + 1
  /\ UNCHANGED <<size, limit, kept, used, inlined>>
Omit ==
  /\ Capping
  /\ used + Cost(next) > limit
  /\ omitted' = omitted \cup ({next} \ Preambles)
  /\ next' = next + 1
  /\ UNCHANGED <<size, limit, kept, used, inlined>>

PatchNext == Whole \/ Keep \/ Omit

PatchSpec == PatchInit /\ [][PatchNext]_patchVars

-----------------------------------------------------------------------------
(* Properties                                                              *)

\* The prompt's patch never exceeds its budget, the newlines that join the
\* sections included: an engine refuses an input that does.
PatchFits == limit > 0 => inlined <= limit

\* No change is hidden that could be shown, and none silently: a section is left
\* out only when it would not fit beside what is inlined, and it is named unless
\* it has no path.
NothingHidden ==
  \A s \in Index \ kept : s < next =>
    /\ inlined + size[s] + Newline > limit
    /\ s \in omitted \cup Preambles

\* What a review is shown of a diff: as much as fits, and the rest by name
\* (diff-budget.ts:64-94).
PatchHonest == PatchFits /\ NothingHidden
=============================================================================
