SPECIFICATION FairSpec
CONSTANTS
  SEGMENT = 4
  RANGE = 32
  Bodies <- MCBodies
  MAX_FRAME_LEN = 5
  MaxFrames = 3
INVARIANTS
  TypeOK
  NoFalseError
PROPERTIES
  ImplementsFrameChannel
  FramesArrive
CHECK_DEADLOCK FALSE
