SPECIFICATION TrapSpec
CONSTANTS
  Irqs = {0, 12}
  Faults = {14}
  Others = {48}
  MaxHeld = 1
  Calls <- MCCalls
INVARIANT SystemCallHonoured
