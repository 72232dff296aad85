CONSTANTS
  p1 = p1  p2 = p2
  NULL = NULL
  Procs = {p1, p2}
  MaxIds = 2
  MaxCalls = 4
  Values = {0, 1}
  SEMVMX = 1
SPECIFICATION Spec
INVARIANT TypeOK
INVARIANT ExclusiveCreation
INVARIANT OpenStaysValid
INVARIANT LastCloseFrees
PROPERTY TimedWaitEnds
CHECK_DEADLOCK FALSE
