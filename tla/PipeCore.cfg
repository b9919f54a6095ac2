CONSTANTS
  MaxPid = 3
  QUANTUM = 1
  MAX_PRIORITY = 0
  NUM_SEMS = 4
  PIPE_BUFFER_SIZE = 2
  Byte = {0}
  MaxCall = 2
  MaxUnits = 4
  MaxWaiters = 5
  Env = {"key"}
SPECIFICATION FairSpec
INVARIANTS TokensMatch
PROPERTIES ReadersAreServed
