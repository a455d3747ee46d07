CONSTANTS
  MaxLength = 7
  ChunkLen = 2
  LenMod = 6
  Room = 3
SPECIFICATION FairSpec
INVARIANTS
  EveryPieceIsSomewhere
PROPERTIES
  CopiesTheFile
  TransferEnds
CHECK_DEADLOCK FALSE
