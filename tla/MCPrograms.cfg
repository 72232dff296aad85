CONSTANTS
  Transfers <- MCTransfers
  NBLOCKS = 2
  MaxXfrKills = 2
  MaxWriters = 2
  MaxReaders = 3
  LockFiles = {1, 2}
  Lockers = {1, 2}
  LockCalls <- MCLockCalls
  NpTests = {1, 2}
  N_PROCS = 2
  MaxNpKills = 1
  FlProcs = {1, 2, 3}
  FlScenarios <- MCFlScenarios
  Bytes = {0, 1, 2}
  Commands <- MCCommands
  MaxCommands = 5
  Requests = {5, 16, 40}
  HEAP_BASE = 8
  HEAP_END = 136
  PAGE = 40
  Jobs <- MCJobs
  RL_SIZE = 3
  SEND_SIZE = 2
  TS_SIZE = 4
  Waiters <- MCWaiters
  PIPE_CAPACITY = 2
  MaxSignals = 4
  MaxMessages = 4
  PipePrograms <- MCPipePrograms
  PIPE_ROOM = 2
  MaxData = 2
  MAX_MSG_SIZE = 2
  MaxMsgs = 3
  OtThreads = {1, 2}
  Objects = {"d", "e", "f", "g"}
  Dirs = {"d", "e"}
  Places <- MCPlaces
  MaxOps = 3
  MaxQueue = 4
SPECIFICATION ProgramsSpec
CHECK_DEADLOCK FALSE
INVARIANT ProgramsTypeOK
INVARIANT LocksSafe
INVARIANT HeapSound
INVARIANT TextRight
INVARIANT ProgramsSafe
PROPERTY ImplementsChannel
PROPERTY HandoverEnds
PROPERTY ProgramsEnd
