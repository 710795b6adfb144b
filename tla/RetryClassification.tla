------------------------- MODULE RetryClassification -------------------------
(***************************************************************************)
(* How a failed review is routed (core/retry-classification.ts,            *)
(* core/limit-error.ts).  A failure is what the classifier looks at: the   *)
(* HTTP status, whether the code is a socket error, whether the name is    *)
(* that of an abort, and which of the phrases its patterns know occur in   *)
(* the message and the stderr.                                             *)
(***************************************************************************)
EXTENDS Integers

\* One phrase per pattern; "config" is the prefix the pipeline itself stamps.
\* "429" in any number or URL is a "limit" phrase.
TextPhrases == {"auth", "rate403", "limit", "overload", "transport", "html", "timeout"}
Phrases == TextPhrases \cup {"config"}

NoStatus == 0
HttpStatuses == {NoStatus} \cup 100..599

Failures == [status : HttpStatuses, network : BOOLEAN, aborted : BOOLEAN,
             phrases : SUBSET Phrases]

\* describeFailure of an HTTP error, and of a message alone: what is left of a
\* failure that a runner returned instead of throwing.
Http(status, phrases) ==
  [status |-> status, network |-> FALSE, aborted |-> FALSE, phrases |-> phrases]
Message(phrases) == Http(NoStatus, phrases)

\* Statuses that clear by themselves
RetryStatuses == {408, 429} \cup 500..599

Clears(f) ==
  \/ "config" \in f.phrases
  \/ f.network
  \/ f.aborted
  \/ f.status \in RetryStatuses
  \/ f.status = 403 /\ "rate403" \in f.phrases

Refused(f) == f.status \in 400..499 \/ "auth" \in f.phrases

\* isLimitError and the other text heuristics
Hints(f) == f.phrases \cap {"limit", "overload", "transport", "html", "timeout"} # {}

\* classifyFailure: signals that are certain come before what a text may
\* contain by accident.
ClassifyHintsFirst(f) ==
  IF Clears(f) \/ Hints(f) THEN "transient"
  ELSE IF Refused(f) THEN "permanent" ELSE "unknown"
Classify(f) ==
  IF Clears(f) THEN "transient"
  ELSE IF Refused(f) THEN "permanent"
  ELSE IF Hints(f) THEN "transient" ELSE "unknown"
=============================================================================
