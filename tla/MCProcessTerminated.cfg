SPECIFICATION Spec
CONSTANTS
  MAX_PROCS = 2
  Stacks = {1, 2}
  MaxPid = 3
PROPERTY TerminatedStaysDown
CHECK_DEADLOCK FALSE
