\* Every file of up to eight bytes; two buffers that grow, move, and are
\* searched, read and written.
CONSTANTS
  FileBytes = {0, 1, 2}
  MaxFile = 8
  Caches = {"a", "b"}
  Bytes = {10, 13}
  MinLen = 1
  MaxRead = 1
  MaxLen = 4
  MaxAdd = 2
SPECIFICATION MCSpec
INVARIANTS
  SendsTheUnits
  InsideBlock
PROPERTIES
  ReachesTheEnd
  IsQueue
CHECK_DEADLOCK FALSE
