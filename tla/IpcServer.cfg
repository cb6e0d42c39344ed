SPECIFICATION Spec
CONSTANTS
  Conns = {c1, c2}
  NoConn = NoConn
  MaxFds = 2
  SockBuf = 1
  MaxWrites = 2
  Kinds <- Mixed
  Pipelining = {c1}
  HalfClosing = {c2}
  Deaf = {}
INVARIANTS DescriptorsAreCurrent AnsweredInOrder
PROPERTIES OnlyHungUpAreClosed DeadConnectionsReaped StopEndsLoop WaitingClientAnswered
CHECK_DEADLOCK FALSE
