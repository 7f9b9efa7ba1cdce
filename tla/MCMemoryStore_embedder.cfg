CONSTANTS
  none = none  u1 = u1  notes = notes  short = short  long = long
  Levels = {"user_id"}
  Scopes <- MCScopes
  None = none
  Sources = {notes}
  Chunks <- MCChunks
  Embedders = {"ollama", "deterministic"}
  MaxRecords = 2
  MaxCrashes = 1
SPECIFICATION Spec
INVARIANT OldMemoryIsSearchable
CHECK_DEADLOCK FALSE
