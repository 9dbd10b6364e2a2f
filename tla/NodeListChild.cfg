CONSTANTS
  self = self
  a = a
  b = b
  Self = self
  Macs <- ThreeMacs
  Infos = {1, 2}
  Levels = {2}
  Interval = 1
  Buffer = 1
  Readers = {}
  NoMem = FALSE
  PostMayDrop = TRUE
SYMMETRY OtherNodes
SPECIFICATION Spec
INVARIANTS MirrorsRoot
CHECK_DEADLOCK FALSE
