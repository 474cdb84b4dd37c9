SPECIFICATION FairSpec
CONSTANTS
  Positions <- MCPositions
  Chunks <- MCChunks
  States <- MCStates
  NoEdit = NoEdit
INVARIANTS
  TypeOK
  ChunkKeyed
  DurableUnlessTorn
PROPERTIES
  ImplementsBlockStore
  EditsReachDisk
