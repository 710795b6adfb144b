-------------------------- MODULE ReviewRunsProofs --------------------------
(***************************************************************************)
(* Theorems about ReviewRuns for any number of heads, runs and comments.   *)
(***************************************************************************)
EXTENDS ReviewRuns, TLAPS

USE RunsAssumption

\* Rows, runs and the thread keep their types in every step, and a run has a
\* head and a claim exactly while it is at work (pipeline.ts:92-213).
LEMMA TypeStep ==
  ASSUME TypeOK, [Next]_vars PROVE TypeOK'
<1> USE DEF TypeOK, Results, Steps, Goto, End, rowVars, runVars, history, leftBehind
<1>1. ASSUME NEW r \in Runs, NEW h \in Heads, NEW force \in BOOLEAN, Claim(r, h, force)
      PROVE  TypeOK'
  BY <1>1 DEF Claim, On
<1>2. ASSUME NEW r \in Runs, Skip(r) PROVE TypeOK'
  BY <1>2 DEF Skip, RecordRun
<1>3. ASSUME NEW r \in Runs, StartReview(r) PROVE TypeOK'
  BY <1>3 DEF StartReview
<1>4. ASSUME NEW r \in Runs, NEW res \in Results, Reviewed(r, res) PROVE TypeOK'
  BY <1>4 DEF Reviewed
<1>5. ASSUME NEW r \in Runs, ListComments(r) PROVE TypeOK'
  BY <1>5 DEF ListComments
<1>6. ASSUME NEW r \in Runs, Upsert(r) PROVE TypeOK'
  BY <1>6 DEF Upsert
<1>7. ASSUME NEW r \in Runs, Record(r) PROVE TypeOK'
  BY <1>7 DEF Record, RecordRun
<1>8. ASSUME NEW r \in Runs, Throw(r) PROVE TypeOK'
  BY <1>8 DEF Throw
<1>9. ASSUME NEW r \in Runs, Crash(r) PROVE TypeOK'
  BY <1>9 DEF Crash, Abandoned, Owns, Active
<1>10. ASSUME NEW r \in Runs, ReleaseFails(r) PROVE TypeOK'
  BY <1>10 DEF ReleaseFails, Abandoned, Owns, Active
<1>11. CASE Comment
  BY <1>11 DEF Comment
<1>12. CASE Tick
  BY <1>12 DEF Tick, Aging
<1>13. CASE UNCHANGED vars
  BY <1>13 DEF vars
<1> QED
  BY <1>1, <1>2, <1>3, <1>4, <1>5, <1>6, <1>7, <1>8, <1>9, <1>10, <1>11, <1>12, <1>13 DEF Next

\* Rows, runs and the thread are always of the right kind (pipeline.ts:92-213).
THEOREM TypeCorrect == Spec => []TypeOK
<1>1. Init => TypeOK
  BY DEF Init, TypeOK, Results, Steps
<1>2. TypeOK /\ [Next]_vars => TypeOK'
  BY TypeStep
<1> QED
  BY <1>1, <1>2, PTL DEF Spec

-----------------------------------------------------------------------------
(* Claims                                                                  *)

\* recordRun touches the run's own head and nothing else, and the run is over.
LEMMA Recorded ==
  ASSUME TypeOK, NEW r \in Runs, Skip(r) \/ Record(r)
  PROVE  /\ pc[r] # "idle" /\ head[r] \in Heads
         /\ status'[head[r]] \in Results
         /\ \A h \in Heads \ {head[r]} :
              status'[h] = status[h] /\ owner'[h] = owner[h]
              /\ (h \in orphans' \cup stuck' <=> h \in orphans \cup stuck)
         /\ End(r)
         /\ UNCHANGED <<overtaken, forces, thread>>
<1> USE DEF TypeOK, Results
<1>1. ASSUME NEW res \in Results, RecordRun(r, res), head[r] \in Heads
      PROVE  /\ status'[head[r]] \in Results
             /\ \A h \in Heads \ {head[r]} :
                  status'[h] = status[h] /\ owner'[h] = owner[h]
                  /\ (h \in orphans' \cup stuck' <=> h \in orphans \cup stuck)
  BY <1>1 DEF RecordRun
<1>2. head[r] \in Heads
  BY DEF Skip, Record
<1>3. CASE Skip(r)
  BY <1>1, <1>2, <1>3 DEF Skip
<1>4. CASE Record(r)
  BY <1>1, <1>2, <1>4 DEF Record
<1> QED
  BY <1>3, <1>4

\* A running row has its run, unless the run's process died or its release
\* threw: every other throw after the claim releases it (pipeline.ts:103-112,
\* 209-212).
LEMMA NoStrandedClaimStep ==
  ASSUME TypeOK, NoStrandedClaim, [Next]_vars PROVE NoStrandedClaim'
<1> SUFFICES ASSUME NEW h \in Heads, status'[h] = "running", h \notin orphans' \cup stuck'
             PROVE  \E s \in Runs : pc'[s] # "idle" /\ head'[s] = h /\ owner'[h] = claim'[s]
  BY DEF NoStrandedClaim, On, Active, Owns
<1> USE DEF TypeOK, Results, Steps, Goto, rowVars, runVars, history, leftBehind
<1>0. ASSUME status[h] = "running", h \notin orphans \cup stuck
      PROVE  \E s \in Runs : pc[s] # "idle" /\ head[s] = h /\ owner[h] = claim[s]
  BY <1>0 DEF NoStrandedClaim, On, Active, Owns
<1>1. ASSUME NEW r \in Runs, NEW g \in Heads, NEW force \in BOOLEAN, Claim(r, g, force)
      PROVE  \E s \in Runs : pc'[s] # "idle" /\ head'[s] = h /\ owner'[h] = claim'[s]
  <2>1. CASE h = g
    BY <1>1, <2>1 DEF Claim
  <2>2. CASE h # g
    <3>1. status[h] = "running" /\ h \notin orphans \cup stuck
      BY <1>1, <2>2 DEF Claim
    <3>2. PICK s \in Runs : pc[s] # "idle" /\ head[s] = h /\ owner[h] = claim[s]
      BY <1>0, <3>1
    <3>3. s # r
      BY <1>1, <3>2 DEF Claim
    <3> QED
      BY <1>1, <2>2, <3>2, <3>3 DEF Claim
  <2> QED
    BY <2>1, <2>2
<1>2. ASSUME NEW r \in Runs, Skip(r) \/ Record(r) \/ Throw(r) \/ Crash(r) \/ ReleaseFails(r)
      PROVE  \E s \in Runs : pc'[s] # "idle" /\ head'[s] = h /\ owner'[h] = claim'[s]
  <2>1. status[h] = "running" /\ h \notin orphans \cup stuck /\ owner'[h] = owner[h]
    <3>1. CASE Skip(r) \/ Record(r)
      BY <3>1, Recorded
    <3>2. CASE Throw(r)
      BY <3>2 DEF Throw, Released
    <3>3. CASE Crash(r) \/ ReleaseFails(r)
      BY <3>3 DEF Crash, ReleaseFails
    <3> QED
      BY <1>2, <3>1, <3>2, <3>3
  <2>2. PICK s \in Runs : pc[s] # "idle" /\ head[s] = h /\ owner[h] = claim[s]
    BY <1>0, <2>1
  <2>3. s # r
    <3>1. CASE Skip(r) \/ Record(r)
      BY <2>2, <3>1, Recorded
    <3>2. CASE Throw(r)
      BY <2>1, <2>2, <3>2 DEF Throw, Released
    <3>3. CASE Crash(r) \/ ReleaseFails(r)
      BY <2>1, <2>2, <3>3 DEF Crash, ReleaseFails, Abandoned, Owns
    <3> QED
      BY <1>2, <3>1, <3>2, <3>3
  <2> QED
    BY <1>2, <2>1, <2>2, <2>3 DEF Skip, Record, Throw, Crash, ReleaseFails, End
<1>3. ASSUME NEW r \in Runs,
             \/ StartReview(r) \/ ListComments(r) \/ Upsert(r)
             \/ \E res \in Results : Reviewed(r, res)
      PROVE  \E s \in Runs : pc'[s] # "idle" /\ head'[s] = h /\ owner'[h] = claim'[s]
  <2>1. UNCHANGED <<rowVars, head, claim, orphans, stuck>> /\ \A s \in Runs : pc[s] # "idle" => pc'[s] # "idle"
    BY <1>3 DEF StartReview, ListComments, Upsert, Reviewed
  <2> QED
    BY <1>0, <2>1
<1>4. CASE Comment \/ Tick \/ UNCHANGED vars
  BY <1>0, <1>4 DEF Comment, Tick, vars
<1> QED
  BY <1>1, <1>2, <1>3, <1>4 DEF Next

\* No claim is stranded, for any number of heads, runs and faults, but by a death
\* or by a release that throws (pipeline.ts:102-112, 209-212).
THEOREM ClaimsNotStranded == Spec => []NoStrandedClaim
<1>1. Init => NoStrandedClaim
  BY DEF Init, NoStrandedClaim
<1>2. TypeOK /\ NoStrandedClaim /\ [Next]_vars => NoStrandedClaim'
  BY NoStrandedClaimStep
<1> QED
  BY <1>1, <1>2, TypeCorrect, PTL DEF Spec

\* Only a claim's own run removes it (sqlite-store.ts:89-100).
LEMMA ReleaseStep ==
  ASSUME TypeOK, [Next]_vars PROVE ReleaseByOwner
<1> USE DEF TypeOK, Results, Steps, ReleaseByOwner, On, Active, Owns, Goto, rowVars, runVars, history, leftBehind
<1>1. ASSUME NEW r \in Runs, NEW h \in Heads, NEW force \in BOOLEAN, Claim(r, h, force)
      PROVE  ReleaseByOwner
  BY <1>1 DEF Claim
<1>2. ASSUME NEW r \in Runs, Skip(r) \/ Record(r) PROVE ReleaseByOwner
  BY <1>2 DEF Skip, Record, RecordRun, End
<1>3. ASSUME NEW r \in Runs,
             \/ StartReview(r) \/ ListComments(r) \/ Upsert(r) \/ Crash(r) \/ ReleaseFails(r)
             \/ \E res \in Results : Reviewed(r, res)
      PROVE  ReleaseByOwner
  BY <1>3 DEF StartReview, ListComments, Upsert, Crash, ReleaseFails, Reviewed
<1>4. ASSUME NEW r \in Runs, Throw(r) PROVE ReleaseByOwner
  BY <1>4 DEF Throw, Released, End
<1>5. CASE Comment \/ Tick \/ UNCHANGED vars
  BY <1>5 DEF Comment, Tick, vars
<1> QED
  BY <1>1, <1>2, <1>3, <1>4, <1>5 DEF Next

\* releaseClaim deletes by claim id: a run only ever removes its own claim
\* (sqlite-store.ts:89-100).
THEOREM ReleasesOwnOnly == Spec => ReleaseOwnOnly
<1>1. TypeOK /\ [Next]_vars => ReleaseByOwner
  BY ReleaseStep
<1> QED
  BY <1>1, TypeCorrect, PTL DEF Spec, ReleaseOwnOnly

-----------------------------------------------------------------------------
(* Exclusion                                                               *)

\* As long as no live run was overtaken on a head, the run at work there is the
\* only one, owns the row, and keeps it 'running'.
Solo ==
  \A h \in Heads \ overtaken : \A r \in On(h) :
    /\ status[h] = "running" /\ owner[h] = claim[r]
    /\ \A s \in On(h) : r = s

\* No step of any run breaks Solo: a claim on a head at work is either refused or
\* marks the head overtaken, and a run that ends leaves its row to nobody.
LEMMA SoloStep ==
  ASSUME TypeOK, Solo, [Next]_vars PROVE Solo'
<1> USE DEF TypeOK, Results, Steps, Solo, On, Active, Goto, rowVars, runVars, history, leftBehind
<1>1. ASSUME NEW r \in Runs, NEW h \in Heads, NEW force \in BOOLEAN, Claim(r, h, force)
      PROVE  Solo'
  <2> SUFFICES ASSUME NEW g \in Heads, g \notin overtaken',
                      NEW s \in Runs, pc'[s] # "idle", head'[s] = g,
                      NEW t \in Runs, pc'[t] # "idle", head'[t] = g
               PROVE  status'[g] = "running" /\ owner'[g] = claim'[s] /\ s = t
    OBVIOUS
  <2>1. CASE g # h
    BY <1>1, <2>1 DEF Claim
  <2>2. CASE g = h
    <3>1. (~force /\ ~(age[h] > Stale)) \/ On(h) = {}
      BY <1>1, <2>2 DEF Claim
    <3>2. On(h) = {}
      BY <1>1, <2>2, <3>1 DEF Claim, Claimable
    <3> QED
      BY <1>1, <2>2, <3>2 DEF Claim
  <2> QED
    BY <2>1, <2>2
<1>2. ASSUME NEW r \in Runs, Skip(r) \/ Record(r) PROVE Solo'
  <2> SUFFICES ASSUME NEW g \in Heads, g \notin overtaken',
                      NEW s \in Runs, pc'[s] # "idle", head'[s] = g,
                      NEW t \in Runs, pc'[t] # "idle", head'[t] = g
               PROVE  status'[g] = "running" /\ owner'[g] = claim'[s] /\ s = t
    OBVIOUS
  <2>1. s # r /\ t # r
    BY <1>2, Recorded DEF End
  <2>2. pc[s] # "idle" /\ head[s] = g /\ pc[t] # "idle" /\ head[t] = g /\ claim'[s] = claim[s]
    BY <1>2, <2>1, Recorded DEF End
  <2>3. status[g] = "running" /\ owner[g] = claim[s] /\ s = t
    BY <1>2, <2>2, Recorded
  <2>4. g # head[r]
    BY <1>2, <2>1, <2>2, Recorded
  <2> QED
    BY <1>2, <2>2, <2>3, <2>4, Recorded
<1>3. ASSUME NEW r \in Runs,
             \/ StartReview(r) \/ ListComments(r) \/ Upsert(r)
             \/ \E res \in Results : Reviewed(r, res)
      PROVE  Solo'
  BY <1>3 DEF StartReview, ListComments, Upsert, Reviewed
<1>4. ASSUME NEW r \in Runs, Throw(r) PROVE Solo'
  BY <1>4 DEF Throw, Released, End
<1>5. ASSUME NEW r \in Runs, Crash(r) \/ ReleaseFails(r) PROVE Solo'
  <2>1. End(r) /\ UNCHANGED <<status, owner, overtaken>>
    BY <1>5 DEF Crash, ReleaseFails
  <2>2. pc'[r] = "idle"
    BY <2>1 DEF End
  <2>3. \A s \in Runs \ {r} : pc'[s] = pc[s] /\ head'[s] = head[s] /\ claim'[s] = claim[s]
    BY <2>1 DEF End
  <2> QED
    BY <2>1, <2>2, <2>3
<1>6. CASE Comment \/ Tick \/ UNCHANGED vars
  BY <1>6 DEF Comment, Tick, vars
<1> QED
  BY <1>1, <1>2, <1>3, <1>4, <1>5, <1>6 DEF Next

\* The run at work on a head that nothing overtook owns its row, always
\* (sqlite-store.ts:57-100).
LEMMA SoloInvariant == Spec => []Solo
<1>1. Init => Solo
  BY DEF Init, Solo, On, Active
<1>2. TypeOK /\ Solo /\ [Next]_vars => Solo'
  BY SoloStep
<1> QED
  BY <1>1, <1>2, TypeCorrect, PTL DEF Spec

\* The model is not paid twice for a head while nothing overtakes a live run:
\* the claim admits one run at a time (sqlite-store.ts:57-87).
THEOREM Exclusive == Spec => []ExclusiveUnlessOvertaken
<1>1. Solo => ExclusiveUnlessOvertaken
  BY DEF Solo, ExclusiveUnlessOvertaken
<1> QED
  BY <1>1, SoloInvariant, PTL

\* No unforced step uncovers a head (sqlite-store.ts:69-72).
LEMMA CoverageKeptStep ==
  ASSUME TypeOK, Solo, [Next]_vars PROVE CoverageKept
<1> USE DEF TypeOK, Results, Steps, CoverageKept, Solo, On, Active, Goto, rowVars, runVars, history, leftBehind
<1>1. ASSUME NEW r \in Runs, NEW h \in Heads, NEW force \in BOOLEAN, Claim(r, h, force)
      PROVE  CoverageKept
  BY <1>1 DEF Claim, Claimable
<1>2. ASSUME NEW r \in Runs, Skip(r) \/ Record(r) PROVE CoverageKept
  BY <1>2 DEF Skip, Record, RecordRun, End
<1>3. ASSUME NEW r \in Runs,
             \/ StartReview(r) \/ ListComments(r) \/ Upsert(r) \/ Crash(r) \/ ReleaseFails(r)
             \/ \E res \in Results : Reviewed(r, res)
      PROVE  CoverageKept
  BY <1>3 DEF StartReview, ListComments, Upsert, Crash, ReleaseFails, Reviewed
<1>4. ASSUME NEW r \in Runs, Throw(r) PROVE CoverageKept
  BY <1>4 DEF Throw, Released, End
<1>5. CASE Comment \/ Tick \/ UNCHANGED vars
  BY <1>5 DEF Comment, Tick, vars
<1> QED
  BY <1>1, <1>2, <1>3, <1>4, <1>5 DEF Next

\* A covered head stays covered until somebody forces a re-review
\* (sqlite-store.ts:69-72).
THEOREM CoverageStays == Spec => CoveredStays
<1>1. TypeOK /\ Solo /\ [Next]_vars => CoverageKept
  BY CoverageKeptStep
<1> QED
  BY <1>1, TypeCorrect, SoloInvariant, PTL DEF Spec, CoveredStays

-----------------------------------------------------------------------------
(* Comments                                                                *)

\* What appending a comment does to the thread.
LEMMA Appended ==
  ASSUME thread \in Seq(Heads \cup {Chatter}), NEW m \in Heads \cup {Chatter},
         thread' = Append(thread, m)
  PROVE  /\ Len(thread') = Len(thread) + 1
         /\ \A i \in DOMAIN thread' : (i \in DOMAIN thread /\ thread'[i] = thread[i]) \/ (i = Len(thread') /\ thread'[i] = m)
         /\ Posted' = Posted \cup {m}
<1>1. thread' \in Seq(Heads \cup {Chatter}) /\ Len(thread') = Len(thread) + 1
  OBVIOUS
<1>2. /\ DOMAIN thread' = 1..(Len(thread) + 1)
      /\ DOMAIN thread = 1..Len(thread)
      /\ Len(thread) \in Nat
  BY <1>1
<1>3. \A i \in DOMAIN thread : i \in DOMAIN thread' /\ thread'[i] = thread[i]
  BY <1>1, <1>2
<1>4. Len(thread') \in DOMAIN thread' /\ thread'[Len(thread')] = m
  BY <1>1, <1>2
<1>5. \A i \in DOMAIN thread' : (i \in DOMAIN thread /\ thread'[i] = thread[i]) \/ (i = Len(thread') /\ thread'[i] = m)
  BY <1>1, <1>2, <1>3, <1>4
<1>6. Posted' = Posted \cup {m}
  <2>1. Posted \cup {m} \subseteq Posted'
    BY <1>3, <1>4 DEF Posted
  <2>2. Posted' \subseteq Posted \cup {m}
    BY <1>5 DEF Posted
  <2> QED
    BY <2>1, <2>2
<1> QED
  BY <1>1, <1>5, <1>6

\* Comments are only ever added at the end of the thread.
LEMMA ThreadGrows ==
  ASSUME TypeOK, [Next]_vars
  PROVE  Posted \subseteq Posted'
<1> USE DEF TypeOK, Goto, rowVars, runVars, history, leftBehind, Posted
<1>1. CASE UNCHANGED thread
  BY <1>1
<1>2. ASSUME NEW m \in Heads \cup {Chatter}, thread' = Append(thread, m)
      PROVE  Posted \subseteq Posted'
  BY <1>2, Appended
<1>3. ASSUME NEW r \in Runs, Upsert(r)
      PROVE  UNCHANGED thread \/ \E m \in Heads \cup {Chatter} : thread' = Append(thread, m)
  BY <1>3 DEF Upsert, Steps
<1>4. CASE Comment
  BY <1>2, <1>4 DEF Comment
<1>5. ASSUME NEW r \in Runs,
             \/ \E h \in Heads, force \in BOOLEAN : Claim(r, h, force)
             \/ Skip(r) \/ StartReview(r) \/ ListComments(r) \/ Record(r)
             \/ Throw(r) \/ Crash(r) \/ ReleaseFails(r)
             \/ \E res \in Results : Reviewed(r, res)
      PROVE  UNCHANGED thread
  BY <1>5 DEF Claim, Skip, StartReview, ListComments, Record, Throw, Crash, ReleaseFails, Reviewed
<1>6. CASE Tick \/ UNCHANGED vars
  BY <1>1, <1>6 DEF Tick, vars
<1> QED
  BY <1>1, <1>2, <1>3, <1>4, <1>5, <1>6 DEF Next

\* What the run knows of the thread: past publishing, its comment is there.
CommentKnown ==
  \A r \in Runs :
    /\ pc[r] = "upsert" /\ mine[r] => head[r] \in Posted
    /\ pc[r] = "record" /\ result[r] = "ok" => head[r] \in Posted

Published == ReviewedHasComment /\ CommentKnown

\* No step loses a comment or records a review whose comment is not there: the
\* record of an "ok" follows the upsert of the same run (pipeline.ts:189-197).
LEMMA PublishedStep ==
  ASSUME TypeOK, Published, [Next]_vars PROVE Published'
<1>0. Posted \subseteq Posted'
  BY ThreadGrows
<1> USE DEF TypeOK, Results, Steps, Goto, rowVars, runVars, history, leftBehind,
        Published, ReviewedHasComment, CommentKnown
<1>1. ASSUME NEW r \in Runs, NEW h \in Heads, NEW force \in BOOLEAN, Claim(r, h, force)
      PROVE  Published'
  BY <1>0, <1>1 DEF Claim
<1>2. ASSUME NEW r \in Runs, Skip(r) PROVE Published'
  BY <1>0, <1>2 DEF Skip, RecordRun, End
<1>3. ASSUME NEW r \in Runs, Record(r) PROVE Published'
  BY <1>0, <1>3 DEF Record, RecordRun, End
<1>4. ASSUME NEW r \in Runs, StartReview(r) \/ \E res \in Results : Reviewed(r, res)
      PROVE  Published'
  BY <1>0, <1>4 DEF StartReview, Reviewed
<1>5. ASSUME NEW r \in Runs, ListComments(r) PROVE Published'
  <2>1. FirstPage \subseteq Posted
    BY DEF FirstPage, Posted
  <2>2. mine'[r] => head[r] \in Posted
    BY <1>5, <2>1 DEF ListComments
  <2> QED
    BY <1>0, <1>5, <2>2 DEF ListComments
<1>6. ASSUME NEW r \in Runs, Upsert(r) PROVE Published'
  <2>1. head[r] \in Posted'
    BY <1>0, <1>6 DEF Upsert, Posted
  <2> QED
    BY <1>0, <1>6, <2>1 DEF Upsert
<1>7. ASSUME NEW r \in Runs, Throw(r) \/ Crash(r) \/ ReleaseFails(r) PROVE Published'
  <2>1. \A h \in Heads : status'[h] = "ok" => status[h] = "ok"
    BY <1>7 DEF Throw, Crash, ReleaseFails
  <2>2. /\ head' = [head EXCEPT ![r] = NoHead] /\ pc' = [pc EXCEPT ![r] = "idle"]
        /\ result' = [result EXCEPT ![r] = "ok"] /\ mine' = [mine EXCEPT ![r] = FALSE]
    BY <1>7 DEF Throw, Crash, ReleaseFails, End
  <2>3. ReviewedHasComment'
    BY <1>0, <2>1
  <2>4. CommentKnown'
    BY <1>0, <2>2
  <2> QED
    BY <2>3, <2>4
<1>8. CASE Comment \/ Tick \/ UNCHANGED vars
  BY <1>0, <1>8 DEF Comment, Tick, vars
<1> QED
  BY <1>1, <1>2, <1>3, <1>4, <1>5, <1>6, <1>7, <1>8 DEF Next

\* A head is recorded as reviewed only after its comment is in the thread
\* (pipeline.ts:189-197).
THEOREM ReviewedHeadsHaveComments == Spec => []ReviewedHasComment
<1>1. Init => Published
  BY DEF Init, Published, ReviewedHasComment, CommentKnown
<1>2. TypeOK /\ Published /\ [Next]_vars => Published'
  BY PublishedStep
<1>3. Published => ReviewedHasComment
  BY DEF Published
<1> QED
  BY <1>1, <1>2, <1>3, TypeCorrect, PTL DEF Spec

\* A run that saw no comment of its head, on a page that holds the whole thread,
\* is right: nobody else works on the head, so nobody adds one meanwhile.
NothingThere ==
  Len(thread) <= PageSize =>
    \A r \in Runs : pc[r] = "upsert" /\ ~mine[r] /\ head[r] \notin overtaken
                       => head[r] \notin Posted

Unduplicated == NoDuplicateComment /\ NothingThere

\* No step adds a second comment of a head: between the listing and the upsert of
\* a run that is alone on its head nobody else posts for it (publish.ts:18-31).
LEMMA UnduplicatedStep ==
  ASSUME TypeOK, Solo, Unduplicated, [Next]_vars PROVE Unduplicated'
<1> USE DEF TypeOK, Results, Steps, Goto, rowVars, runVars, history, leftBehind,
        Unduplicated, NoDuplicateComment, NothingThere
<1>0. ASSUME UNCHANGED thread PROVE Posted' = Posted
  BY <1>0 DEF Posted
<1>1. ASSUME NEW r \in Runs, NEW h \in Heads, NEW force \in BOOLEAN, Claim(r, h, force)
      PROVE  Unduplicated'
  BY <1>0, <1>1 DEF Claim
<1>2. ASSUME NEW r \in Runs, Skip(r) \/ Record(r) \/ Throw(r) \/ Crash(r) \/ ReleaseFails(r)
      PROVE  Unduplicated'
  <2>1. End(r) /\ UNCHANGED <<thread, overtaken>>
    BY <1>2 DEF Skip, Record, Throw, Crash, ReleaseFails
  <2>2. NoDuplicateComment'
    BY <2>1
  <2>3. \A s \in Runs : pc'[s] = "upsert" => s # r /\ UNCHANGED <<pc[s], mine[s], head[s]>>
    BY <2>1 DEF End
  <2>4. NothingThere'
    BY <1>0, <2>1, <2>3
  <2> QED
    BY <2>2, <2>4
<1>3. ASSUME NEW r \in Runs, StartReview(r) \/ \E res \in Results : Reviewed(r, res)
      PROVE  Unduplicated'
  BY <1>0, <1>3 DEF StartReview, Reviewed
<1>4. ASSUME NEW r \in Runs, ListComments(r) PROVE Unduplicated'
  <2>1. Len(thread) <= PageSize => FirstPage = Posted
    BY DEF FirstPage, Posted
  <2>2. Len(thread) <= PageSize /\ ~mine'[r] => head[r] \notin Posted
    BY <1>4, <2>1 DEF ListComments
  <2> QED
    BY <1>0, <1>4, <2>2 DEF ListComments
<1>5. ASSUME NEW r \in Runs, Upsert(r) PROVE Unduplicated'
  <2>1. CASE mine[r]
    BY <1>0, <1>5, <2>1 DEF Upsert
  <2>2. CASE ~mine[r]
    <3>1. /\ thread' = Append(thread, head[r]) /\ Len(thread') = Len(thread) + 1
          /\ \A i \in DOMAIN thread' :
               (i \in DOMAIN thread /\ thread'[i] = thread[i]) \/ (i = Len(thread') /\ thread'[i] = head[r])
      <4>1. thread' = Append(thread, head[r]) /\ head[r] \in Heads \cup {Chatter}
        BY <1>5, <2>2 DEF Upsert
      <4> QED
        BY <4>1, Appended
    <3>2. Posted' = Posted \cup {head[r]}
      <4>1. thread' = Append(thread, head[r]) /\ head[r] \in Heads \cup {Chatter}
        BY <1>5, <2>2 DEF Upsert
      <4> QED
        BY <4>1, Appended
    <3>3. Len(thread') <= PageSize /\ head[r] \notin overtaken => head[r] \notin Posted
      BY <1>5, <2>2, <3>1 DEF Upsert
    <3>4. NoDuplicateComment'
      BY <1>5, <3>1, <3>3 DEF Upsert, Posted
    <3>5. \A s \in Runs \ {r} : pc[s] = "upsert" /\ head[s] = head[r] => head[r] \in overtaken
      BY <1>5 DEF Upsert, Solo, On, Active
    <3>6. NothingThere'
      BY <1>5, <3>1, <3>2, <3>5 DEF Upsert
    <3> QED
      BY <3>4, <3>6
  <2> QED
    BY <2>1, <2>2
<1>6. CASE Comment
  <2>1. /\ thread' = Append(thread, Chatter) /\ Len(thread') = Len(thread) + 1
        /\ \A i \in DOMAIN thread' :
             (i \in DOMAIN thread /\ thread'[i] = thread[i]) \/ (i = Len(thread') /\ thread'[i] = Chatter)
    BY <1>6, Appended DEF Comment
  <2>2. Posted' = Posted \cup {Chatter}
    BY <1>6, Appended DEF Comment
  <2>3. NoDuplicateComment'
    BY <1>6, <2>1 DEF Comment
  <2>4. NothingThere'
    BY <1>6, <2>1, <2>2 DEF Comment
  <2> QED
    BY <2>3, <2>4
<1>7. CASE Tick \/ UNCHANGED vars
  BY <1>0, <1>7 DEF Tick, vars
<1> QED
  BY <1>1, <1>2, <1>3, <1>4, <1>5, <1>6, <1>7 DEF Next

\* Retries, crashes and reclaims add no second comment to a head, unless a live
\* run was overtaken there or the thread outgrew a page (publish.ts:7-31).
THEOREM CommentsUnduplicated == Spec => []NoDuplicateComment
<1>1. Init => Unduplicated
  BY DEF Init, Unduplicated, NoDuplicateComment, NothingThere
<1>2. TypeOK /\ Solo /\ Unduplicated /\ [Next]_vars => Unduplicated'
  BY UnduplicatedStep
<1>3. Unduplicated => NoDuplicateComment
  BY DEF Unduplicated
<1> QED
  BY <1>1, <1>2, <1>3, TypeCorrect, SoloInvariant, PTL DEF Spec

-----------------------------------------------------------------------------
(* For the modules that compose the runs with something else               *)

\* All that holds of the rows, the claims and the comments.
RunsInv == TypeOK /\ NoStrandedClaim /\ Solo /\ Published /\ Unduplicated

\* No rows, no runs and no comments are in order (sqlite-store.ts:57-87).
LEMMA RunsInvInit == Init => RunsInv
<1> SUFFICES ASSUME Init PROVE RunsInv
  OBVIOUS
<1>1. TypeOK
  BY DEF Init, TypeOK, Results, Steps
<1>2. NoStrandedClaim /\ Solo
  BY DEF Init, NoStrandedClaim, Solo, On, Active
<1>3. Published /\ Unduplicated
  BY DEF Init, Published, ReviewedHasComment, CommentKnown,
         Unduplicated, NoDuplicateComment, NothingThere
<1> QED
  BY <1>1, <1>2, <1>3 DEF RunsInv

\* Every step of every run keeps them in order (pipeline.ts:92-213).
LEMMA RunsInvStep == RunsInv /\ [Next]_vars => RunsInv'
  BY TypeStep, NoStrandedClaimStep, SoloStep, PublishedStep, UnduplicatedStep DEF RunsInv
=============================================================================
