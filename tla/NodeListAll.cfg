CONSTANTS
  self = self
  a = a
  b = b
  Self = self
  Macs <- TwoMacs
  Infos = {1}
  Levels = {0, 1, 2}
  Interval = 1
  Buffer = 0
  Readers = {"http"}
  NoMem = TRUE
  PostMayDrop = FALSE
SPECIFICATION Spec
INVARIANTS CountMatchesList OneEntryPerMac EventsTellList
CHECK_DEADLOCK FALSE
