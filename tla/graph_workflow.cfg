SPECIFICATION FairSpec
CONSTANTS
  Briefs <- MCBriefs
  ModelPlans <- MCModelPlans
  Critiques <- MCCritiques
  MinScore = 8
  MaxRevisions = 2
  MaxRepairs = 2
  MaxExecutions = 3
INVARIANTS TypeOK FinishedWasAccepted FailureIsExplained
PROPERTIES ExecutionEnds
CHECK_DEADLOCK FALSE
