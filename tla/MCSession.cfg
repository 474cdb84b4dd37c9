SPECIFICATION FairSpec
CONSTANTS
  Positions <- OnePosition
  Chunks <- LongStrip
  States <- MCStates
  NoEdit = NoEdit
  Clients = {c1}
  Items <- MCItems
  item_to_block <- MCItemToBlock
  Slots = {36}
  Hotbar = {0, 1}
  Empty = Empty
  VIEW_DISTANCE = 0
  KeepRadius = 9
  OutBound = 3
  Seqs = {1, 2}
INVARIANTS
  BatchesWellFormed
  NoVisibleEdge
  AckAfterUpdate
PROPERTIES
  EveryActionAcked
  ViewCatchesUp
