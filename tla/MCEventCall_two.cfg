CONSTANTS
  Addresses = {s1, s2}
  Sessions = {s1, s2}
  Fds = {0, 1, 2}
  Events <- MCEvents
  What <- MCWhat
  ReadEv <- MCReadEv
  WriteEv <- MCWriteEv
  TimeEv <- MCTimeEv
  AcceptEv <- MCAccept
  Owner <- MCOwner
  NoEvent = NoEvent
  NoFd = NoFd
  NoSession = NoSession
  ListenFd = 0
  KeySpace = 4
  RowSize = 2
  SeqMod = 2
  MaxConnections = 1
  Msgs = {"get"}
  MaxBacklog = 1
SYMMETRY MCSymmetry
SPECIFICATION Spec
INVARIANTS
  EpollConsistent
  NoDanglingEvent
  ManagerAgrees

