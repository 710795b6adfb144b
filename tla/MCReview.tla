------------------------------- MODULE MCReview -------------------------------
(***************************************************************************)
(* For TLC: the parts of one review that share no variable, onboarding and *)
(* the webhooks.  `part` chooses one in the initial state, and only it     *)
(* moves.                                                                  *)
(***************************************************************************)
EXTENDS Checkout, RunnerAttempt, PatchBudget, WorkspaceContext, RunnerConfig, Onboarding,
        WebhookIngress

CONSTANTS main, tip, h1, h2, root, sub, big, small, helper,
          noLeak, noIdor, old, new

\* main moved on to tip; h1, then h2 is the PR's branch
MCHistory ==
  [c \in Commits |-> CASE c = main -> {main} [] c = tip -> {main, tip} [] c = h1 -> {main, h1}
                       [] c = h2 -> {main, h1, h2}]
\* the review after a push and the one after a force-push back; the first review;
\* and one whose baseline became the base while its head was forced off it
MCRequests ==
  {[head |-> h2, from |-> h1, incremental |-> TRUE], [head |-> h1, from |-> h2, incremental |-> TRUE]}
  \cup {[head |-> h1, from |-> tip, incremental |-> b] : b \in BOOLEAN}

MCChanged == <<big, small>>
MCGuides == [f \in Files |-> IF f = small THEN <<sub>> ELSE <<>>]
MCRelated == [f \in Files |-> CASE f = big -> <<small, helper>> [] f = small -> <<helper>>
                                [] OTHER -> <<>>]

MCProposals == {{}, {<<noLeak, old>>}, {<<noLeak, new>>, <<noIdor, old>>}}
MCCommitted == {{[id |-> noIdor, text |-> old, status |-> "confirmed"],
                 [id |-> noLeak, text |-> new, status |-> "needs_confirmation"]}}

\* events that differ from an honoured one in at most one field
Announcement(h) == [kind |-> "pull_request", configured |-> TRUE, trigger |-> TRUE,
                    draft |-> FALSE, head |-> h]
Rereview == [kind |-> "issue_comment", configured |-> TRUE, created |-> TRUE,
             onPr |-> TRUE, command |-> TRUE, author |-> "write"]
MCPayloads ==
  {Announcement(h) : h \in Heads}
  \cup LET e == Announcement(h1) IN
         {[e EXCEPT !.configured = FALSE], [e EXCEPT !.trigger = FALSE], [e EXCEPT !.draft = TRUE]}
  \cup {Rereview, [Rereview EXCEPT !.configured = FALSE], [Rereview EXCEPT !.created = FALSE],
        [Rereview EXCEPT !.onPr = FALSE], [Rereview EXCEPT !.command = FALSE],
        [Rereview EXCEPT !.author = "other"]}

VARIABLE part
reviewVars == <<part, vars, runnerVars, patchVars, contextVars, configVars,
                onboardingVars, webhookVars>>

\* The parts that do not move have one initial state.
ReviewInit ==
  /\ part \in {"checkout", "runner", "patch", "context", "config", "onboarding", "webhooks"}
  /\ Init /\ ConfigInit /\ OnboardingInit
  /\ RunnerInit /\ (part # "runner" => engine = "claude")
  /\ PatchInit /\ (part # "patch" => limit = 1 /\ \A s \in Index : size[s] = 1)
  /\ ContextInit /\ (part # "context" => budget = 0 /\ \A f \in Files : length[f] = 1)
  /\ WebhookInit /\ (part # "webhooks" => prHead = h1 /\ \A d \in Deliveries : event[d] = Rereview)

CheckoutMoves ==
  /\ part = "checkout" /\ Next
  /\ UNCHANGED <<part, runnerVars, patchVars, contextVars, configVars,
                 onboardingVars, webhookVars>>
RunnerMoves ==
  /\ part = "runner" /\ RunnerNext
  /\ UNCHANGED <<part, vars, patchVars, contextVars, configVars,
                 onboardingVars, webhookVars>>
PatchMoves ==
  /\ part = "patch" /\ PatchNext
  /\ UNCHANGED <<part, vars, runnerVars, contextVars, configVars,
                 onboardingVars, webhookVars>>
ContextMoves ==
  /\ part = "context" /\ ContextNext
  /\ UNCHANGED <<part, vars, runnerVars, patchVars, configVars,
                 onboardingVars, webhookVars>>
ConfigMoves ==
  /\ part = "config" /\ ConfigNext
  /\ UNCHANGED <<part, vars, runnerVars, patchVars, contextVars,
                 onboardingVars, webhookVars>>
OnboardingMoves ==
  /\ part = "onboarding" /\ OnboardingNext
  /\ UNCHANGED <<part, vars, runnerVars, patchVars, contextVars,
                 configVars, webhookVars>>
WebhooksMoves ==
  /\ part = "webhooks" /\ WebhookNext
  /\ UNCHANGED <<part, vars, runnerVars, patchVars, contextVars,
                 configVars, onboardingVars>>

ReviewNext == CheckoutMoves \/ RunnerMoves \/ PatchMoves \/ ContextMoves \/ ConfigMoves
              \/ OnboardingMoves \/ WebhooksMoves

\* Checkout's fairness speaks of its own part: CacheHeals is judged there.
ReviewSpec == ReviewInit /\ [][ReviewNext]_reviewVars /\ Fairness
===============================================================================
