CONSTANTS
  v1 = v1  v2 = v2
  NULL = NULL  TORN = TORN
  Procs = {p1, p2}
  Names <- MCNames
  Values = {v1}
  NAME_LEN = 3
  MAX_ENTRIES = 2
  MaxIds = 2
  MaxCalls = 5
  MaxKills = 1
SPECIFICATION Spec
CHECK_DEADLOCK FALSE
INVARIANT TypeOK
INVARIANT Exclusive
INVARIANT EntriesWhole
PROPERTY CommandsEnd
