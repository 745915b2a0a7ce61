SPECIFICATION FairSpec
CONSTANTS
  PatchLaneNames = {"patch", "patch_multi"}
  Analyze = TRUE
  Triage = TRUE
  MaxTitles = 2
  MaxReplies = 1
  MaxPulls = 1
  MaxCrashes = 1
INVARIANTS PullsWatched
PROPERTIES ParkHolds AsksOnce OneAtATime AnswersAreHeard
CHECK_DEADLOCK FALSE
