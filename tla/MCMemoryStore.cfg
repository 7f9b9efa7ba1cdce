CONSTANTS
  none = none  u1 = u1  notes = notes  short = short  long = long
  Levels = {"user_id"}
  Scopes <- MCScopes
  None = none
  Sources = {notes}
  Chunks <- MCChunks
  Embedders = {"ollama", "deterministic"}
  MaxRecords = 3
  MaxCrashes = 2
SPECIFICATION Spec
INVARIANTS
  AcknowledgedIsDurable
  DurableIsAudited
  OneSuccessor
  DocumentIsOneVersion
  PositionsResolve
  
CHECK_DEADLOCK FALSE
