SPECIFICATION FairSpec
CONSTANTS
  None = None
  Cadence = 1
  Delays = {1}
  Tasks = {1, 2}
  Repos = {r1, r2}
  RepoOf <- TwoRepos
  Listed = {}
  Requestable = {1, 2}
  Cancellable = {}
  Hanging = {1}
  Endings = {}
  OurPrs = {}
  DaemonWorkers = {w1, w2}
  CliWorkers = {}
  BatchSize = 1
  ErrorTexts = {}
  ConfigStates = {}
INVARIANTS OneHolder
PROPERTIES RequestServed
