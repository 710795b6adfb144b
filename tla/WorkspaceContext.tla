--------------------------- MODULE WorkspaceContext ---------------------------
(***************************************************************************)
(* The files preloaded into codex's prompt (runners/cli/workspace-         *)
(* context.ts, runners/cli/codex.ts).  Candidates are listed one by one:   *)
(* the instruction files above each changed file and the file itself, then *)
(* what the changed files refer to; they are inlined in that order until   *)
(* the budget is used up.  A file is a value with a length; which files    *)
(* its text refers to is given.                                            *)
(***************************************************************************)
EXTENDS Integers, Sequences, FiniteSets

CONSTANTS
  Files,       \* paths of the checkout
  Root,        \* the AGENTS.md at its root
  Changed,     \* the changed files, in the diff's order
  Guides,      \* Guides[f]: the AGENTS.md files of f's directories
  Related,     \* Related[f]: what f imports, and the tests beside it
  Missing,     \* length of a file that cannot be read, or is outside the root
  Lengths,     \* lengths of files, at most MAX_FILE_CHARS
  Frame,       \* length of a section's header and footer
  ContextMax,  \* maxWorkspaceContextChars
  InputLeft    \* what the prompt leaves of the input budget

ASSUME ContextAssumption ==
  /\ Root \in Files /\ Changed \in Seq(Files)
  /\ Guides \in [Files -> Seq(Files)] /\ Related \in [Files -> Seq(Files)]
  /\ Missing \notin Nat /\ Lengths \subseteq Nat \cup {Missing}
  /\ Frame \in Nat /\ ContextMax \in Nat /\ InputLeft \subseteq Int

VARIABLES
  length,    \* the length of each file
  budget,    \* maxChars
  listing,   \* what is being listed: "primary", "related"; "over" after that
  listed,    \* candidates
  copied,    \* how many of them the second loop goes through
  nth,       \* the changed file, or the candidate, whose files are added
  todo,      \* what is left to add for it
  cursor,    \* the candidate the last loop looks at
  shown,     \* shown[f]: characters of f inlined; Missing when none
  counted    \* what that loop counts

listVars == <<listing, listed, copied, nth, todo>>
inlineVars == <<cursor, shown, counted>>
contextVars == <<length, budget, listVars, inlineVars>>

Candidate == [path : Files, kind : {"instructions", "changed", "related"}]

ContextInit ==
  /\ length \in [Files -> Lengths]
  /\ \E left \in InputLeft :
       budget = (IF left < 0 THEN 0 ELSE IF left < ContextMax THEN left ELSE ContextMax)
  /\ listing = "primary" /\ copied = 0 /\ nth = 0
  /\ listed = <<[path |-> Root, kind |-> "instructions"]>>
  /\ todo = <<>>
  /\ cursor = 1
  /\ shown = [f \in Files |-> Missing]
  /\ counted = 0

-----------------------------------------------------------------------------
(* The candidates.  Without a budget nothing is listed.                    *)

Paths(list) == {list[n].path : n \in DOMAIN list}
As(kind, paths) == [n \in DOMAIN paths |-> [path |-> paths[n], kind |-> kind]]

\* add: a path already in the list keeps its place and kind.
Add ==
  /\ budget > 0 /\ todo # <<>>
  /\ listed' = IF Head(todo).path \in Paths(listed) THEN listed
                                                    ELSE Append(listed, Head(todo))
  /\ todo' = Tail(todo)
  /\ UNCHANGED <<length, budget, listing, copied, nth, inlineVars>>

Loadable(f) == length[f] # Missing

\* The next changed file: the instructions above it, then the file.
ListChangedInterleaved ==
  /\ budget > 0 /\ todo = <<>>
  /\ listing = "primary" /\ nth < Len(Changed)
  /\ nth' = nth + 1
  /\ LET f == Changed[nth'] IN
       todo' = As("instructions", Guides[f]) \o As("changed", <<f>>)
               \o As("related", IF Loadable(f) THEN Related[f] ELSE <<>>)
  /\ UNCHANGED <<length, budget, listing, listed, copied, inlineVars>>
ListChanged ==
  /\ budget > 0 /\ todo = <<>>
  /\ listing = "primary" /\ nth < Len(Changed)
  /\ nth' = nth + 1
  /\ LET f == Changed[nth'] IN
       todo' = As("instructions", Guides[f]) \o As("changed", <<f>>)
  /\ UNCHANGED <<length, budget, listing, listed, copied, inlineVars>>

\* The second loop goes through a copy of the list as it is now ...
CopyCandidates ==
  /\ budget > 0 /\ todo = <<>>
  /\ listing = "primary" /\ nth = Len(Changed)
  /\ listing' = "related"
  /\ copied' = Len(listed)
  /\ nth' = 0
  /\ UNCHANGED <<length, budget, listed, todo, inlineVars>>

\* ... for what the changed files among them refer to, if they can be read.
ListRelated ==
  /\ budget > 0 /\ todo = <<>>
  /\ listing = "related" /\ nth < copied
  /\ nth' = nth + 1
  /\ LET c == listed[nth'] IN
       todo' = IF c.kind = "changed" /\ Loadable(c.path)
                 THEN As("related", Related[c.path]) ELSE <<>>
  /\ UNCHANGED <<length, budget, listing, listed, copied, inlineVars>>

Listed ==
  /\ budget > 0 /\ todo = <<>>
  /\ listing = "related" /\ nth = copied
  /\ listing' = "over"
  /\ UNCHANGED <<length, budget, listed, copied, nth, todo, inlineVars>>

-----------------------------------------------------------------------------
(* The loop                                                                *)

Shown == {f \in Files : shown[f] # Missing}
Looking == listing = "over" /\ cursor \in DOMAIN listed
File == listed[cursor].path

Break == cursor' = Len(listed) + 1

\* The file cannot be read.
Unreadable ==
  /\ Looking
  /\ ~Loadable(File)
  /\ cursor' = cursor + 1
  /\ UNCHANGED <<length, budget, listVars, shown, counted>>

Fits == budget - counted > Frame + 1

\* Not even the frame fits: nothing more is inlined.
Full ==
  /\ Looking /\ Loadable(File) /\ ~Fits
  /\ Break
  /\ UNCHANGED <<length, budget, listVars, shown, counted>>

\* As much of the file as the budget leaves; a file that is cut is the last.
Inline ==
  /\ Looking /\ Loadable(File) /\ Fits
  /\ LET room == budget - counted - Frame
         text == IF length[File] < room THEN length[File] ELSE room IN
       /\ shown' = [shown EXCEPT ![File] = text]
       /\ counted' = counted + Frame + text
       /\ IF text < length[File] THEN Break ELSE cursor' = cursor + 1
  /\ UNCHANGED <<length, budget, listVars>>

ContextNext ==
  \/ Add \/ ListChanged \/ CopyCandidates \/ ListRelated \/ Listed
  \/ Unreadable \/ Full \/ Inline

ContextSpec == ContextInit /\ [][ContextNext]_contextVars

-----------------------------------------------------------------------------
(* Properties                                                              *)

RangeOf(paths) == {paths[n] : n \in DOMAIN paths}
PrimaryFiles == {Root} \cup RangeOf(Changed) \cup UNION {RangeOf(Guides[f]) : f \in RangeOf(Changed)}

\* A tight budget favours what is under review: nothing merely related is shown
\* before every readable instruction file and changed file is shown whole
\* (workspace-context.ts:66-68, 89-94).
PrimaryFirst ==
  (\E f \in Shown : f \notin PrimaryFiles) => \A f \in PrimaryFiles : shown[f] = length[f]
=============================================================================
