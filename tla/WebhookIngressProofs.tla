------------------------ MODULE WebhookIngressProofs ------------------------
(***************************************************************************)
(* Theorems about WebhookIngress for any deliveries, handlers and heads.   *)
(***************************************************************************)
EXTENDS WebhookIngress, TLAPS

USE WebhookAssumption

\* What a payload is, as far as the proofs ask.
LEMMA PayloadKinds ==
  ASSUME NEW p \in Payloads
  PROVE  \/ p.kind = "pull_request" /\ p.head \in Heads
         \/ p.kind = "issue_comment"
  BY DEF PullRequestEvents, IssueCommentEvents

\* The tables and the handlers keep their types (server.ts:51-170).
THEOREM TypeCorrect == WebhookSpec => []WebhookTypeOK
<1>1. WebhookInit => WebhookTypeOK
  BY DEF WebhookInit, WebhookTypeOK
<1>2. WebhookTypeOK /\ [WebhookNext]_webhookVars => WebhookTypeOK'
  <2> SUFFICES ASSUME WebhookTypeOK, [WebhookNext]_webhookVars PROVE WebhookTypeOK'
    OBVIOUS
  <2> USE DEF WebhookTypeOK, prVars, webhookHistory, Mark
  <2>1. ASSUME NEW d \in Deliveries, PullRequest(d) PROVE WebhookTypeOK'
    <3>1. job' \in [Heads -> {"absent", "queued", "settled"}]
      BY <2>1 DEF PullRequest
    <3> QED
      BY <2>1, <3>1 DEF PullRequest
  <2>2. ASSUME NEW d \in Deliveries, NoCommand(d) PROVE WebhookTypeOK'
    BY <2>2 DEF NoCommand
  <2>3. ASSUME NEW r \in Handlers, NEW d \in Deliveries, Command(r, d) PROVE WebhookTypeOK'
    BY <2>3 DEF Command, Overlapping
  <2>4. ASSUME NEW r \in Handlers, Resolved(r) PROVE WebhookTypeOK'
    BY <2>4 DEF Resolved
  <2>5. ASSUME NEW r \in Handlers, NotReviewable(r) PROVE WebhookTypeOK'
    BY <2>5 DEF NotReviewable
  <2>6. ASSUME NEW r \in Handlers, ResolveFails(r) PROVE WebhookTypeOK'
    BY <2>6 DEF ResolveFails
  <2>7. CASE Restart
    BY <2>7 DEF Restart
  <2>8. ASSUME NEW h \in Heads, JobSettles(h) PROVE WebhookTypeOK'
    BY <2>8 DEF JobSettles
  <2>9. CASE PrChanges
    BY <2>9 DEF PrChanges
  <2>10. CASE UNCHANGED webhookVars
    BY <2>10 DEF webhookVars
  <2> QED
    BY <2>1, <2>2, <2>3, <2>4, <2>5, <2>6, <2>7, <2>8, <2>9, <2>10 DEF WebhookNext
<1> QED
  BY <1>1, <1>2, PTL DEF WebhookSpec

-----------------------------------------------------------------------------
(* Handled before marked                                                   *)

\* A handler that waits for GitHub works on a command.
OnlyCommandsWait == \A r \in Handlers : resolving[r] # NoDelivery => Commands(resolving[r])

Handled == MarkedIsHandled /\ OnlyCommandsWait

\* Every handler marks its delivery last, so no step marks one that is not handled
\* (server.ts:94-97, 137-161).
LEMMA HandledStep ==
  ASSUME WebhookTypeOK, Handled, [WebhookNext]_webhookVars PROVE Handled'
<1> USE DEF WebhookTypeOK, prVars, webhookHistory, Mark, Handled, MarkedIsHandled, OnlyCommandsWait
<1>0. ASSUME UNCHANGED event
      PROVE  \A d \in Deliveries : (Announces(d)' <=> Announces(d)) /\ (Commands(d)' <=> Commands(d))
  BY <1>0 DEF Announces, Commands
<1>1. ASSUME NEW d \in Deliveries, PullRequest(d) PROVE Handled'
  <2>1. ~Commands(d)
    BY <1>1 DEF PullRequest, Commands
  <2>2. \A h \in Heads : job[h] # "absent" => job'[h] # "absent"
    BY <1>1 DEF PullRequest
  <2>3. \A e \in Deliveries : Announces(e) => event[e].head \in Heads
    BY PayloadKinds DEF Announces
  <2>4. Announces(d) => job'[event[d].head] # "absent"
    BY <1>1, <2>3 DEF PullRequest
  <2>5. UNCHANGED <<event, resolving, acted, refused>> /\ seen' \subseteq seen \cup {d}
    BY <1>1 DEF PullRequest
  <2> QED
    BY <1>0, <2>1, <2>2, <2>3, <2>4, <2>5
<1>2. ASSUME NEW d \in Deliveries, NoCommand(d) PROVE Handled'
  <2>1. ~Announces(d) /\ ~Commands(d)
    BY <1>2 DEF NoCommand, Announces
  <2> QED
    BY <1>0, <1>2, <2>1 DEF NoCommand
<1>3. ASSUME NEW r \in Handlers, NEW d \in Deliveries, Command(r, d) PROVE Handled'
  BY <1>0, <1>3 DEF Command
<1>4. ASSUME NEW r \in Handlers, Resolved(r) PROVE Handled'
  <2> DEFINE d == resolving[r]
  <2>1. d \in Deliveries /\ Commands(d) /\ ~Announces(d)
    BY <1>4 DEF Resolved, Announces, Commands
  <2>2. UNCHANGED <<event, refused>> /\ seen' \subseteq seen \cup {d}
    BY <1>4 DEF Resolved
  <2>3. acted'[d] > 0 /\ \A e \in Deliveries : acted[e] > 0 => acted'[e] > 0
    BY <1>4, <2>1 DEF Resolved
  <2>4. \A h \in Heads : job[h] # "absent" => job'[h] # "absent"
    BY <1>4 DEF Resolved
  <2>5. \A s \in Handlers : resolving'[s] # NoDelivery => resolving'[s] = resolving[s]
    BY <1>4 DEF Resolved
  <2>6. \A e \in Deliveries : Announces(e) => event[e].head \in Heads
    BY PayloadKinds DEF Announces
  <2> HIDE DEF d
  <2>7. MarkedIsHandled'
    BY <1>0, <2>1, <2>2, <2>3, <2>4, <2>6
  <2>8. OnlyCommandsWait'
    BY <1>0, <2>2, <2>5
  <2> QED
    BY <2>7, <2>8
<1>5. ASSUME NEW r \in Handlers, NotReviewable(r) PROVE Handled'
  <2>1. ~Announces(resolving[r])
    BY <1>5 DEF NotReviewable, Announces, Commands
  <2> QED
    BY <1>0, <1>5, <2>1 DEF NotReviewable
<1>6. ASSUME NEW r \in Handlers, ResolveFails(r) PROVE Handled'
  BY <1>0, <1>6 DEF ResolveFails
<1>7. CASE Restart
  BY <1>0, <1>7 DEF Restart
<1>8. ASSUME NEW h \in Heads, JobSettles(h) PROVE Handled'
  <2>1. \A g \in Heads : job[g] # "absent" => job'[g] # "absent"
    BY <1>8 DEF JobSettles
  <2>2. \A e \in Deliveries : Announces(e) => event[e].head \in Heads
    BY PayloadKinds DEF Announces
  <2> QED
    BY <1>0, <1>8, <2>1, <2>2 DEF JobSettles
<1>9. CASE PrChanges \/ UNCHANGED webhookVars
  BY <1>0, <1>9 DEF PrChanges, webhookVars
<1> QED
  BY <1>1, <1>2, <1>3, <1>4, <1>5, <1>6, <1>7, <1>8, <1>9 DEF WebhookNext

\* A delivery that is answered as a duplicate was handled before
\* (server.ts:59-61, 94-97, 161).
THEOREM MarkedAreHandled == WebhookSpec => []MarkedIsHandled
<1>1. WebhookInit => Handled
  BY DEF WebhookInit, Handled, MarkedIsHandled, OnlyCommandsWait
<1>2. WebhookTypeOK /\ Handled /\ [WebhookNext]_webhookVars => Handled'
  BY HandledStep
<1>3. Handled => MarkedIsHandled
  BY DEF Handled
<1> QED
  BY <1>1, <1>2, <1>3, TypeCorrect, PTL DEF WebhookSpec

-----------------------------------------------------------------------------
(* Forced once                                                             *)

\* An untroubled delivery has one handler at most, and none once it is marked or
\* spent; what is spent is marked.
SpentIsOver ==
  \A d \in Deliveries \ troubled :
    /\ \A r, s \in Handlers : resolving[r] = d /\ resolving[s] = d => r = s
    /\ d \in seen => \A r \in Handlers : resolving[r] # d
    /\ acted[d] > 0 => d \in seen
    /\ acted[d] <= 1

\* No step lets an untroubled delivery start or spend again (server.ts:59-61).
LEMMA SpentIsOverStep ==
  ASSUME WebhookTypeOK, Handled, SpentIsOver, [WebhookNext]_webhookVars PROVE SpentIsOver'
<1> USE DEF WebhookTypeOK, prVars, webhookHistory, Mark, SpentIsOver
<1>1. ASSUME NEW d \in Deliveries, PullRequest(d) \/ NoCommand(d) PROVE SpentIsOver'
  <2>1. \A r \in Handlers : resolving[r] # d
    BY <1>1 DEF PullRequest, NoCommand, Handled, OnlyCommandsWait, Commands
  <2>2. UNCHANGED <<resolving, acted, troubled>> /\ seen \subseteq seen' /\ seen' \subseteq seen \cup {d}
    BY <1>1 DEF PullRequest, NoCommand
  <2> QED
    BY <2>1, <2>2
<1>2. ASSUME NEW r \in Handlers, NEW d \in Deliveries, Command(r, d) PROVE SpentIsOver'
  <2>1. d \notin troubled' => \A s \in Handlers : resolving[s] # d
    BY <1>2 DEF Command, Overlapping
  <2>2. d \notin seen /\ troubled \subseteq troubled'
    BY <1>2 DEF Command, New
  <2> QED
    BY <1>2, <2>1, <2>2 DEF Command
<1>3. ASSUME NEW r \in Handlers, Resolved(r) PROVE SpentIsOver'
  <2> DEFINE d == resolving[r]
  <2>1. d \in Deliveries /\ d # NoDelivery
    BY <1>3 DEF Resolved
  <2>2. /\ acted' = [acted EXCEPT ![d] = acted[d] + 1]
        /\ resolving' = [resolving EXCEPT ![r] = NoDelivery]
        /\ troubled \subseteq troubled'
        /\ d \notin troubled' => d \in seen'
        /\ seen \subseteq seen' /\ seen' \subseteq seen \cup {d}
    BY <1>3 DEF Resolved
  <2>3. d \notin troubled => acted[d] = 0 /\ \A s \in Handlers \ {r} : resolving[s] # d
    BY <2>1
  <2>4. \A s \in Handlers : resolving'[s] # NoDelivery => resolving'[s] = resolving[s] /\ s # r
    BY <2>2
  <2> HIDE DEF d
  <2>5. ASSUME NEW e \in Deliveries, e \notin troubled'
        PROVE  /\ \A s, t \in Handlers : resolving'[s] = e /\ resolving'[t] = e => s = t
               /\ e \in seen' => \A s \in Handlers : resolving'[s] # e
               /\ acted'[e] > 0 => e \in seen'
               /\ acted'[e] <= 1
    <3>1. CASE e = d
      BY <2>1, <2>2, <2>3, <2>4, <2>5, <3>1
    <3>2. CASE e # d
      BY <2>1, <2>2, <2>4, <2>5, <3>2
    <3> QED
      BY <3>1, <3>2
  <2> QED
    BY <2>5
<1>4. ASSUME NEW r \in Handlers, NotReviewable(r) \/ ResolveFails(r) PROVE SpentIsOver'
  <2>1. /\ resolving[r] \in Deliveries
        /\ resolving' = [resolving EXCEPT ![r] = NoDelivery]
        /\ UNCHANGED <<acted, troubled>>
        /\ seen \subseteq seen' /\ seen' \subseteq seen \cup {resolving[r]}
    BY <1>4 DEF NotReviewable, ResolveFails
  <2> QED
    BY <2>1
<1>5. CASE Restart
  BY <1>5 DEF Restart
<1>6. CASE (\E h \in Heads : JobSettles(h)) \/ PrChanges \/ UNCHANGED webhookVars
  BY <1>6 DEF JobSettles, PrChanges, webhookVars
<1> QED
  BY <1>1, <1>2, <1>3, <1>4, <1>5, <1>6 DEF WebhookNext

\* A command costs one review however often it is delivered, unless copies overlap
\* or its mark fails (server.ts:59-61).
THEOREM CommandsForcedOnce == WebhookSpec => []ForcedOnce
<1>1. WebhookInit => SpentIsOver /\ Handled
  BY DEF WebhookInit, SpentIsOver, Handled, MarkedIsHandled, OnlyCommandsWait
<1>2. WebhookTypeOK /\ Handled /\ [WebhookNext]_webhookVars => Handled'
  BY HandledStep
<1>3. WebhookTypeOK /\ Handled /\ SpentIsOver /\ [WebhookNext]_webhookVars => SpentIsOver'
  BY SpentIsOverStep
<1>4. SpentIsOver => ForcedOnce
  BY DEF SpentIsOver, ForcedOnce
<1> QED
  BY <1>1, <1>2, <1>3, <1>4, TypeCorrect, PTL DEF WebhookSpec
=============================================================================
