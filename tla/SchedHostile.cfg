CONSTANTS
  MaxPid = 3
  QUANTUM = 1
  MAX_PRIORITY = 1
  NUM_SEMS = 2
  Prios = {0}
  UserSems = {0}
  InitValues = {0}
  MaxValue = 1
  MaxWaiters = 3
  Env = {"ctrlC", "selfKill", "closeBusy", "outOfMemory", "block"}
SPECIFICATION Spec
INVARIANTS NoDanglingPointer NoUnitWhileAsleep SleepersAreBlocked WaiterWillBeFound
PROPERTIES QueuesHold NeverOvertaken
