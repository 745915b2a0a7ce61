SPECIFICATION Spec
CONSTANTS
  None = None
  Cadence = 1
  Delays = {1}
  Tasks = {1}
  Repos = {r1}
  RepoOf <- OneRepo
  Listed = {1}
  Requestable = {1}
  Cancellable = {}
  Hanging = {}
  Endings = {"kill"}
  OurPrs = {}
  DaemonWorkers = {w1}
  CliWorkers = {c1}
  BatchSize = 1
  ErrorTexts = {}
  ConfigStates = {"hidden"}
INVARIANTS IdleRequestKept
