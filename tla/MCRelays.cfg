CONSTANTS
  ConnClients = {1, 2}
  ServerPrograms <- MCServers
  LIMIT = 1
  MAX_CLIENTS = 2
  COMMAND_MAX = 2
  MaxChunks <- MCChunks
  Senders = {1}
  Mortals = {2}
  RelayPrograms <- MCRelayPrograms
  PTY_MAX = 1
  MaxKeys = 2
  MaxOut = 2
  MaxResizes = 2
  PIPE_MAX = 1
SPECIFICATION RelaysSpec
CHECK_DEADLOCK FALSE
INVARIANT RelaysTypeOK
INVARIANT RelaysSafe
PROPERTY RelaysEnd
