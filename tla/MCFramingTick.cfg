SPECIFICATION Spec
CONSTANTS
  SEGMENT = 4
  RANGE = 32
  Bodies <- MCBodies
  MAX_FRAME_LEN = 5
  MaxFrames = 3
INVARIANT
  FramesIntact
CHECK_DEADLOCK FALSE
