CONSTANTS
  c1 = c1  c2 = c2
  NULL = NULL
  Programs <- MCPrograms
  Clients = {c1, c2}
  Sizes <- MCSizes
  QCAP = 1
  MaxReq = 2
  MaxServers = 2
  MaxHarm = 2
SPECIFICATION Spec
CHECK_DEADLOCK FALSE
INVARIANT TypeOK
INVARIANT WholeFile
INVARIANT KeyNamesServer
PROPERTY RequestsEnd
PROPERTY ChildrenEnd
