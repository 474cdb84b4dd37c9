SPECIFICATION ServerSpec
CONSTANTS
  Positions <- MCPositions
  Chunks <- MCChunks
  States <- MCStates
  NoEdit = NoEdit
  Clients = {c1, c2}
  Items <- MCItems
  item_to_block <- MCItemToBlock
  Slots = {36}
  Hotbar = {0}
  Empty = Empty
  VIEW_DISTANCE = 0
  KeepRadius = 9
  OutBound = 2
  Seqs = {1}
SYMMETRY Symmetry
INVARIANT
  ResentOnReconnect
PROPERTY
  ImplementsWorld
