CONSTANTS
  MaxPid = 3
  QUANTUM = 1
  MAX_PRIORITY = 0
  NUM_SEMS = 4
  PIPE_BUFFER_SIZE = 2
  Byte = {0}
  MaxCall = 1
  MaxUnits = 3
  MaxWaiters = 3
  Env = {}
  Output = 2
SPECIFICATION PipelineFair
PROPERTIES PipelineEnds
