SPECIFICATION Spec
CONSTANTS
  MAX_PROCS = 3
  Stacks = {1, 2}
  MaxPid = 4
INVARIANTS TypeOK OnlyCurrentRuns PidsUnique StacksKnown
CHECK_DEADLOCK FALSE
