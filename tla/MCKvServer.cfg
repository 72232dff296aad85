CONSTANTS
  k1 = k1  k2 = k2  k3 = k3 v1 = v1  v2 = v2  c1 = c1  c2 = c2
  p1 = p1  p2 = p2  p3 = p3
  NULL = NULL
  Keys = {k1, k2, k3}
  Values = {v1, v2}
  Addrs <- MCAddrs
  Ptrs = {p1, p2, p3}
  MAX_RECORDS = 2
  Clients = {c1, c2}
  AddrOf <- MCAddrOf
  Requests <- MCRequests
  HDR_LEN = 2
  MAX_KEY_LEN = 1
  MAX_VALUE_LEN = 1
  SIZE_MAX = 255
SYMMETRY Symmetry
SPECIFICATION ServerSpec
INVARIANT ServerTypeOK
INVARIANT StoreSound
PROPERTY ImplementsMap
PROPERTY CreatorOnly
