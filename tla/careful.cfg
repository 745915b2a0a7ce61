SPECIFICATION Spec
CONSTANTS
  None = None
  a1 = a1
  a2 = a2
  MaxRows = 2
  Payloads = {"issue", "renamed", "merge"}
  Admins = {a1}
  Bridges = {}
  Sources = {"button"}
  Retries = 1
  Faults = {"transient", "terminal"}
  Crashing = {"director"}
  TypeOf <- TypesOf
  KeyOf <- KeysOf
  EditsOf <- Retitle
  Configs <- Every
INVARIANTS RunsOnce AuditTrail OneLive
PROPERTIES LifeSpec
