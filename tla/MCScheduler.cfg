SPECIFICATION FairSchedSpec
CONSTANTS
  MAX_PROCS = 3
  Stacks = {1, 2, 3}
  MaxPid = 3
INVARIANTS ListsApart
PROPERTIES RotaSpec RunQueueSpec RotaTurns
