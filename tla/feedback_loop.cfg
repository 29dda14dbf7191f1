SPECIFICATION Spec
CONSTANTS
  EventIds = {1, 2}
  Contestable = {1}
  poor = poor
  good = good
  o1 = o1
  o2 = o2
  Payloads = {poor, good}
  NoPayload = NoPayload
  Snapshot <- MCSnapshot
  Operators = {o1, o2}
  Refusals <- MCRefusals
  MaxReviews = 2
  MaxDryRuns = 2
  MaxHandoffs = 1
  MaxWork = 5
  Limits = {1, 50}
SYMMETRY Sym
INVARIANTS TypeOK AppliedWasApproved CommandsAreAccepted TimelineIsCausal
CHECK_DEADLOCK FALSE
