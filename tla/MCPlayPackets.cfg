SPECIFICATION Spec
CONSTANTS
  SEGMENT = 8
  RANGE = 1024
  Width <- MCWidth
  Packets <- MCPackets
  Files <- MCFiles
  Strays <- MCStrays
  Prefix <- MCPrefix
INVARIANTS
  DecodedAsMeant
  CutNeverMisread
  WholeRows
  Bounded
  ChatEchoed
CHECK_DEADLOCK FALSE
