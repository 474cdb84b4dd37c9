SPECIFICATION Spec
CONSTANTS
  SEGMENT = 8
  RANGE = 1024
  ta = ta
  tb = tb
  tc = tc
  Width <- MCWidth
  TagNames <- MCTagNames
  NotCached = NotCached
  Jars <- MCJars
  Upgrades <- MCUpgrades
  Stops = {6}
  entry_nbt <- json_nbt
INVARIANTS
  TagsComplete
  TagsNameEntries
  EntriesReadable
  ItemsNameBlocks
