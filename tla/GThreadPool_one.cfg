CONSTANTS
  Threads = {t1, t2, t3}
  Callers = {c1, c2}
  Tasks = {k1, k2, k3, k4}
  MaxThreads = 2
  NoThread = NoThread
  NoTask = NoTask
SPECIFICATION FairSpec
INVARIANTS
  TypeOK
  AtMostMaxThreads
  RunsOnce
  IdleThreadsAreIdle
  NoUseAfterFree
PROPERTIES
  DispatchedIsRun
  DestructorReturns
CHECK_DEADLOCK FALSE
