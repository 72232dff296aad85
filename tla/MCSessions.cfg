CONSTANTS
  PftpClients = {1, 2}
  PftpFiles <- MCFiles
  ChatPrograms = {"svmsg", "mq", "off"}
  MAXMSG = 1
  MaxLines = 2
  MaxSessions = 3
  MaxChatSignals = 1
SPECIFICATION SessionsSpec
CHECK_DEADLOCK FALSE
INVARIANT SessionsTypeOK
INVARIANT SessionsSafe
PROPERTY SessionsEnd
