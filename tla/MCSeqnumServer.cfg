CONSTANTS
  c1 = c1  c2 = c2
  NULL = NULL
  Programs <- MCPrograms
  Clients = {c1, c2}
  Lens = {0, 2}
  QCAP = 2
  NOFILE = 2
  MAX_RETRIES = 1
  MaxReq = 3
  MaxDown = 1
  MaxDeaths = 1
SPECIFICATION Spec
CHECK_DEADLOCK FALSE
INVARIANT TypeOK
INVARIANT UniqueNumbers
PROPERTY ClientsEnd
