CONSTANTS
  FileFrames = 3
  Keyframes = {1, 3}
  SegFrames = 2
  Requests = {"start", "pause", "resume", "seek"}
  Capacity = 2
  MaxPings = 1
  MaxRequests = 2
  MaxSeeks = 2
SPECIFICATION FairSpec
INVARIANTS
  FramesInOrder
  StopsAreAnnounced
PROPERTIES
  FramingOutlivesAllButSeek
  SeeksAreAnswered
  StreamGoesOn
CHECK_DEADLOCK FALSE
