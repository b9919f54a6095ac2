CONSTANTS
  MaxPid = 8
  QUANTUM = 1
  MAX_PRIORITY = 1
  NUM_SEMS = 2
  PAIRS = 1
  N = 2
  SEM_ID = 1
  UseSem = {TRUE, FALSE}
  max_processes = 2
  TOTAL_PROCESSES = 2
  max_value = 2
  MaxWait = 3
SPECIFICATION FairSpec
INVARIANTS MutualExclusion EndsWithZero BookMatchesKernel RoundIsReady
PROPERTIES TestsEnd NobodyStarves
