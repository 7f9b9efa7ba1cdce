CONSTANTS
  MaxLength = 6
  Texts <- MCTexts
  MaxWords = 3
  Floor = 2
SPECIFICATION Spec
INVARIANTS
  SegmentsAreTheText
  StructureIsKept
PROPERTY ChunkingEnds
CHECK_DEADLOCK FALSE
