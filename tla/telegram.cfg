SPECIFICATION Spec
CONSTANTS
  Chats = {c1, c2}
  Kinds = {"text", "pause", "resume", "approve", "reject", "help", "stranger"}
  PageSize = 2
  MaxUpdates = 2
  MaxMessages = 3
  MaxCrashes = 1
INVARIANTS NothingLost MirrorInOrder LastWordHolds
