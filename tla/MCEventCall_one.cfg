CONSTANTS
  Addresses = {s1}
  Sessions = {s1}
  Fds = {0, 1}
  Events <- MCEvents
  What <- MCWhat
  ReadEv <- MCReadEv
  WriteEv <- MCWriteEv
  TimeEv <- MCTimeEv
  AcceptEv <- MCAccept
  Owner <- MCOwner
  NoEvent = NoEvent
  NoFd = NoFd
  NoSession = NoSession
  ListenFd = 0
  KeySpace = 4
  RowSize = 2
  SeqMod = 2
  MaxConnections = 0
  Msgs = {"play", "get", "start", "seek", "bad"}
  MaxBacklog = 1
SPECIFICATION FairSpec
INVARIANTS
  TypeOK
  QueuesConsistent
  NeverDeaf
PROPERTIES
  ClosedClientIsReaped
  WaitingClientIsAccepted
  HeartbeatGoesOn
