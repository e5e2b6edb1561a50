SPECIFICATION FairSpec
CONSTANTS
  MAX_PROCS = 3
  Stacks = {1, 2, 3}
  MaxPid = 5
INVARIANTS QueueExact CurrentRuns StacksExclusive
PROPERTIES RunQueueSpec FirstComeFirstServed TurnComes
