CONSTANTS
  MAX_PIPES = 6
  NUM_SEMS = 12
  FixedSems = {10}
  MaxCreates = 4
  MaxOthers = 1
  Block = {b1, b2, b3, b4, b5}
  NULL = NULL
  Lines <- MCLines
  MaxProcs = 2
  MaxOtherBlocks = 1
SYMMETRY BlockSymmetry
SPECIFICATION Spec
INVARIANTS PipesKeepApart ParsedAsWritten HeapGivenBack NothingLeftOver
PROPERTIES OnlyOwnFreed ClosedAfterUse
