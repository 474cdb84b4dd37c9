SPECIFICATION Spec
CONSTANTS
  XZ_VALUES = 16
  Y_VALUES = 16
  I32_MAX = 127
  SIDE = 3
  SECTION_COUNT = 2
  MIN_Y <- MCMinY
  STONE_TOP_Y <- MCStoneTopY
  LONG_BITS = 16
  MIN_BITS = 2
  MAX_BITS = 3
  DIRECT_BITS = 5
  Worlds <- MCWorlds
  Clicks <- MCClicks
  Held <- MCHeld
  Area <- MCArea
  MaxEdits = 2
INVARIANTS
  UpdatesFollowEdits
  ViewsAgree
  CountsMatch
CHECK_DEADLOCK FALSE
