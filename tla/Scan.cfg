SPECIFICATION FairSpec
CONSTANTS
  Rssi <- TwoStrengths
  LastChannel = 2
  MaxResults = 2
  MaxFound = 3
  MaxEvents = 1
  Orderly = TRUE
  CoreScans = TRUE
INVARIANTS SortedList MergeKeeps ReadIsSafe
PROPERTIES ScanFinishes
CHECK_DEADLOCK FALSE
