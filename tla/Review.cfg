SPECIFICATION ReviewSpec
CONSTANTS
  \* Checkout
  main = main
  tip = tip
  h1 = h1
  h2 = h2
  Reviews = {r1, r2}
  Commits = {main, tip, h1, h2}
  History <- MCHistory
  Base = tip
  Requests <- MCRequests
  NoCommit = NoCommit
  MaxFaults = 1
  \* RunnerAttempt
  ParseAttempts = 3
  AttemptCap = 3
  UnknownCap = 2
  \* PatchBudget
  Sections = 4
  Preambles = {1}
  Sizes = {0, 1, 3}
  MaxPatch = {0, 1, 2, 3, 4, 5, 6, 8}
  TokenLimits = {1, 9}
  \* WorkspaceContext
  root = root
  sub = sub
  big = big
  small = small
  helper = helper
  Files = {root, sub, big, small, helper}
  Root = root
  Changed <- MCChanged
  Guides <- MCGuides
  Related <- MCRelated
  Missing = Missing
  Lengths = {Missing, 1, 4}
  Frame = 2
  ContextMax = 24
  InputLeft = {0, 3, 9, 15, 30}
  \* RunnerConfig
  Repos = {p, q}
  Profiles = {fast, deep}
  Runners = {claude, codex}
  Unregistered = ghost
  DefaultRunner = claude
  None = None
  Signals = {migration}
  MaxEdits = 2
  \* Onboarding
  noLeak = noLeak
  noIdor = noIdor
  old = old
  new = new
  ProfileNames = {securityBaseline, deepDive}
  SecurityBaseline = securityBaseline
  RuleIds = {noLeak, noIdor}
  Texts = {old, new}
  Proposals <- MCProposals
  Committed <- MCCommitted
  Absent = Absent
  MaxOnboardings = 2
  MaxKills = 1
  \* WebhookIngress
  Deliveries = {d1, d2}
  NoDelivery = NoDelivery
  Handlers = {r1, r2}
  Heads = {h1, h2}
  Payloads <- MCPayloads
  IgnoreDraft = TRUE
  MaxActs = 2
INVARIANTS RightRepository RangeSound OutageKeepsJob RefusalsCharged PatchHonest PrimaryFirst
INVARIANTS MarkedIsHandled ForcedOnce FoundBeforeClaim SwitchTakesEffect ApprovedKept NeverSelfApproved BaselineAlways OwnClone
PROPERTIES AppearsWhole CacheHeals
\* a part comes to its end
CHECK_DEADLOCK FALSE
