SPECIFICATION FairSpec
CONSTANTS
  None = None
  Daemon = {d1}
  Clis = {c1}
  Cap = 1
  Costs = {1}
  MaxCost = 1
  MaxCritique = 1
  Attempts = 2
  DayLen = 1
  Kinds <- OneKindEach
  Defaults <- SomeDefaults
  RepoEngines <- SomeOverrides
  CliEngines = {"mimo", "anthropic"}
  WithoutKey = {}
  DeployConfigs <- SomeConfigs
  Pushes <- SomePushes
  MaxRuns = 3
  MaxDeploys = 1
  MaxClock = 1
  MaxCrashes = 1
INVARIANTS DayBounded
PROPERTIES SlotsComeFree
CHECK_DEADLOCK FALSE
