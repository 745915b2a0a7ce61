SPECIFICATION FairSpec
CONSTANTS
  None = None
  Directors = {d1, d2}
  Limit = 2
  ThinkCap = 1
  CallCost = 1
  MaxMishaps = 1
  Overrides = {None, "anthropic"}
  KeySets = {{}, {"mimo"}}
  Words = {"hello", "tick", "pause", "resume"}
INVARIANTS OneTick TickSpendBounded FailuresStop
PROPERTIES TicksGoOn
