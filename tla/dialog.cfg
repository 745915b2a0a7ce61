SPECIFICATION FairSpec
CONSTANTS
  MaxIterations = 1
  MaxConflicts = 1
  MaxSteps = 1
  AutoMerge = TRUE
  ResolveConflicts = TRUE
  RequireChecks = TRUE
  UnblockDraft = TRUE
  HasCi = TRUE
  CallsFail = {"threads", "checks"}
  MaxComments = 2
  MaxHumanPushes = 1
  MaxBaseMoves = 1
  MaxCrashes = 1
  MaxEvents = 2
INVARIANTS AttemptsBounded IdleFeedbackKept RebasedIsGreen
PROPERTIES RebaseKeepsHumans ClosedIsRecorded GreenMerges
CHECK_DEADLOCK FALSE
