CONSTANTS
  MaxPid = 3
  QUANTUM = 1
  MAX_PRIORITY = 1
  NUM_SEMS = 4
  Prios = {0}
  UserSems = {3}
  InitValues = {0}
  MaxValue = 1
  MaxWaiters = 3
  Env = {}
SPECIFICATION FairSpec
INVARIANTS TypeOK EverySleeperCanWake ChildrenCounted
PROPERTIES ReadyIsDispatched WaiterReturns
