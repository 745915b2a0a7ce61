SPECIFICATION FairSpec
CONSTANTS
  Main = Main
  Director = Director
  NoFile = NoFile
  NoRow = NoRow
  NotRead = NotRead
  OldSchemas <- SomeDatabases
  MaxEvents = 3
INVARIANTS SchemaSound
PROPERTIES Converges
CHECK_DEADLOCK FALSE
