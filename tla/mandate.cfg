SPECIFICATION FairSpec
CONSTANTS
  None = None
  a1 = a1
  a2 = a2
  MaxRows = 1
  Payloads = {"shut", "merge", "ask", "amend"}
  Admins = {a1}
  Bridges = {"bridge"}
  Sources = {"button", "list"}
  Retries = 1
  Faults = {"transient", "terminal", "lost"}
  Crashing = {"main", "director"}
  TypeOf <- TypesOf
  KeyOf <- KeysOf
  EditsOf <- NoEdits
  Configs <- Changing
INVARIANTS Mandate ExecutedLanded
PROPERTIES Settles
