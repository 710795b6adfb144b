--------------------------- MODULE WebhookIngress ---------------------------
(***************************************************************************)
(* The webhook handlers of apps/ingress/server.ts on one pull request:     *)
(* which deliveries feed the queue, and how the deliveries table keeps a   *)
(* redelivery from doing it twice.                                         *)
(*                                                                         *)
(* Everything between two network waits is one step, for Node.js runs it   *)
(* without a break; only a comment command waits, for the head of the PR.  *)
(* Within a step a store call may throw, which leaves what it did before.  *)
(* Requests with a bad signature, other events and broken payloads are     *)
(* answered without touching any state and have no action here.            *)
(***************************************************************************)
EXTENDS Naturals

CONSTANTS
  Deliveries,   \* X-GitHub-Delivery ids
  NoDelivery,
  Handlers,     \* requests that may be in progress at once
  Heads,        \* head SHAs of the pull request
  Payloads,     \* what the deliveries may carry
  IgnoreDraft,  \* events.ignoreDraft of the repository
  \* bounds of the model
  MaxActs       \* forced enqueues of one delivery

\* trigger: the action is one of events.triggers
PullRequestEvents ==
  [kind : {"pull_request"}, configured : BOOLEAN, trigger : BOOLEAN,
   draft : BOOLEAN, head : Heads]

\* command: some line of the comment is a review command
IssueCommentEvents ==
  [kind : {"issue_comment"}, configured : BOOLEAN, created : BOOLEAN,
   onPr : BOOLEAN, command : BOOLEAN, author : {"write", "other"}]

ASSUME WebhookAssumption ==
  /\ NoDelivery \notin Deliveries
  /\ Payloads \subseteq PullRequestEvents \cup IssueCommentEvents
  /\ IgnoreDraft \in BOOLEAN

VARIABLES
  event,      \* the payload of each delivery
  seen,       \* the deliveries table
  job,        \* the jobs table, by head
  resolving,  \* the delivery for which a handler waits on GitHub
  prHead, prState,
  acted,      \* history: forced enqueues per delivery
  refused,    \* history: commands that met a closed or draft PR
  troubled    \* history: commands that overlapped with a copy of themselves or
              \* were not marked after the enqueue

prVars == <<prHead, prState>>
webhookHistory == <<acted, refused, troubled>>
webhookVars == <<event, seen, job, resolving, prVars, webhookHistory>>

WebhookTypeOK ==
  /\ event \in [Deliveries -> Payloads]
  /\ seen \subseteq Deliveries
  /\ job \in [Heads -> {"absent", "queued", "settled"}]
  /\ resolving \in [Handlers -> Deliveries \cup {NoDelivery}]
  /\ prHead \in Heads
  /\ prState \in {"open", "draft", "closed"}
  /\ acted \in [Deliveries -> Nat]
  /\ refused \subseteq Deliveries
  /\ troubled \subseteq Deliveries

WebhookInit ==
  /\ event \in [Deliveries -> Payloads]
  /\ seen = {}
  /\ job = [h \in Heads |-> "absent"]
  /\ resolving = [r \in Handlers |-> NoDelivery]
  /\ prHead \in Heads
  /\ prState = "open"
  /\ acted = [d \in Deliveries |-> 0]
  /\ refused = {}
  /\ troubled = {}

-----------------------------------------------------------------------------
(* What an event asks for                                                  *)

\* handlePullRequest: a configured repository, a trigger, no ignored draft
Announces(d) ==
  /\ event[d].kind = "pull_request"
  /\ event[d].configured /\ event[d].trigger
  /\ ~(event[d].draft /\ IgnoreDraft)

\* handleIssueComment, up to the permission of the author
Commands(d) ==
  /\ event[d].kind = "issue_comment"
  /\ event[d].created /\ event[d].onPr /\ event[d].command
  /\ event[d].configured
  /\ event[d].author = "write"

Reviewable == prState = "open" \/ (prState = "draft" /\ ~IgnoreDraft)

\* The dedupe in handleWebhook
NewIgnored(d) == TRUE
New(d) == d \notin seen

\* markDelivery, the last call of every handler, succeeds or throws.
Mark(d) == seen' \in {seen, seen \cup {d}}

-----------------------------------------------------------------------------
(* handlePullRequest                                                       *)

\* The announced head gets a job unless it has one.
PullRequest(d) ==
  /\ New(d)
  /\ event[d].kind = "pull_request"
  /\ job' = IF Announces(d) /\ job[event[d].head] = "absent"
              THEN [job EXCEPT ![event[d].head] = "queued"] ELSE job
  /\ Mark(d)
  /\ UNCHANGED <<event, resolving, prVars, webhookHistory>>

-----------------------------------------------------------------------------
(* handleIssueComment                                                      *)

NoCommand(d) ==
  /\ New(d)
  /\ event[d].kind = "issue_comment"
  /\ ~Commands(d)
  /\ Mark(d)
  /\ UNCHANGED <<event, job, resolving, prVars, webhookHistory>>

Overlapping(d) == {e \in {d} : \E r \in Handlers : resolving[r] = e}

\* A command: the comment carries no SHA, so GitHub is asked for the head.
CommandMarkedFirst(r, d) ==
  /\ resolving[r] = NoDelivery
  /\ New(d)
  /\ Commands(d)
  /\ resolving' = [resolving EXCEPT ![r] = d]
  /\ Mark(d)
  /\ troubled' = troubled \cup Overlapping(d)
  /\ UNCHANGED <<event, job, prVars, acted, refused>>
Command(r, d) ==
  /\ resolving[r] = NoDelivery
  /\ New(d)
  /\ Commands(d)
  /\ resolving' = [resolving EXCEPT ![r] = d]
  /\ troubled' = troubled \cup Overlapping(d)
  /\ UNCHANGED <<event, seen, job, prVars, acted, refused>>

\* The answer is there.  The head is enqueued by force, whatever its job was.
Resolved(r) ==
  /\ resolving[r] # NoDelivery
  /\ Reviewable
  /\ acted[resolving[r]] < MaxActs
  /\ job' = [job EXCEPT ![prHead] = "queued"]
  /\ acted' = [acted EXCEPT ![resolving[r]] = @ + 1]
  /\ Mark(resolving[r])
  /\ troubled' = troubled \cup ({resolving[r]} \ seen')
  /\ resolving' = [resolving EXCEPT ![r] = NoDelivery]
  /\ UNCHANGED <<event, prVars, refused>>

NotReviewableCleared(r) ==
  /\ resolving[r] # NoDelivery
  /\ ~Reviewable
  /\ refused' = refused \cup {resolving[r]}
  /\ resolving' = [resolving EXCEPT ![r] = NoDelivery]
  /\ Mark(resolving'[r])
  /\ UNCHANGED <<event, job, prVars, acted, troubled>>
NotReviewable(r) ==
  /\ resolving[r] # NoDelivery
  /\ ~Reviewable
  /\ refused' = refused \cup {resolving[r]}
  /\ Mark(resolving[r])
  /\ resolving' = [resolving EXCEPT ![r] = NoDelivery]
  /\ UNCHANGED <<event, job, prVars, acted, troubled>>

\* GitHub fails, or the enqueue throws: the answer is 500 and the delivery stays
\* unmarked, so that it can be redelivered.
ResolveFails(r) ==
  /\ resolving[r] # NoDelivery
  /\ resolving' = [resolving EXCEPT ![r] = NoDelivery]
  /\ UNCHANGED <<event, seen, job, prVars, webhookHistory>>

-----------------------------------------------------------------------------
(* Around the handlers                                                     *)

\* The process restarts: the requests in progress are gone.
Restart ==
  /\ \E r \in Handlers : resolving[r] # NoDelivery
  /\ resolving' = [r \in Handlers |-> NoDelivery]
  /\ UNCHANGED <<event, seen, job, prVars, webhookHistory>>

\* The drain settles a job, one way or another.
JobSettles(h) ==
  /\ job[h] = "queued"
  /\ job' = [job EXCEPT ![h] = "settled"]
  /\ UNCHANGED <<event, seen, resolving, prVars, webhookHistory>>

\* GitHub: the PR gets another head or state.
PrChanges ==
  /\ prHead' \in Heads
  /\ prState' \in {"open", "draft", "closed"}
  /\ UNCHANGED <<event, seen, job, resolving, webhookHistory>>

WebhookNext ==
  \/ \E d \in Deliveries : PullRequest(d) \/ NoCommand(d)
  \/ \E r \in Handlers : \/ \E d \in Deliveries : Command(r, d)
                         \/ Resolved(r) \/ NotReviewable(r) \/ ResolveFails(r)
  \/ Restart
  \/ \E h \in Heads : JobSettles(h)
  \/ PrChanges

WebhookSpec == WebhookInit /\ [][WebhookNext]_webhookVars

-----------------------------------------------------------------------------
(* Properties                                                              *)

\* What is marked is done: a delivery that will be answered as a duplicate from
\* now on has left its job behind, or its command was refused for the state of the
\* PR.  No failure, restart or overlap swallows it (server.ts:94-97, 137-141, 161).
MarkedIsHandled ==
  \A d \in seen :
    /\ Announces(d) => job[event[d].head] # "absent"
    /\ Commands(d) => acted[d] > 0 \/ d \in refused

\* A command costs one review however often it is delivered, unless a copy arrives
\* while the first still waits for GitHub, or the mark fails after the enqueue
\* (server.ts:59-61, README.md:79).
ForcedOnce == \A d \in Deliveries \ troubled : acted[d] <= 1
=============================================================================
