SPECIFICATION FairSpec
CONSTANTS
  Users = {u1, u2}
  NoUser = NoUser
  Free = Free
  Work = Work
  MaxIndex = 2
  MaxRequests = 1
  MaxSections = 3
INVARIANT WaitersAreSafe
INVARIANT CloseStopsReconnects
INVARIANT OneResumeOnly
CHECK_DEADLOCK FALSE
PROPERTY CallsReturn
