SPECIFICATION Spec
CONSTANTS
  Positions <- MCPositions
  Chunks <- MCChunks
  States <- MCStates
  NoEdit = NoEdit
INVARIANT
  SavedEditsSurvive
