SPECIFICATION FairSpec
CONSTANTS
  None = None
  Cadence = 1
  Delays = {1, 2}
  Tasks = {1}
  Repos = {r1}
  RepoOf <- OneRepo
  Listed = {1}
  Requestable = {1}
  Cancellable = {1}
  Hanging = {}
  Endings = {"sigterm", "kill"}
  OurPrs = {1}
  DaemonWorkers = {w1, w2}
  CliWorkers = {}
  BatchSize = 2
  ErrorTexts = {"short", "ratelimit"}
  ConfigStates = {}
INVARIANTS RunningHeld ResumesBounded IdleExitIsClean
PROPERTIES CadenceRespected LeaseSpec RunningEnds
