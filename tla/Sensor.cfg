SPECIFICATION Spec
CONSTANTS
  Readings = 2
  QueueSize = 1
  MaxEntries = 2
  Spaced = TRUE
INVARIANTS
  SentTwice
  BuffersOwned
  SendApart
  HandlerIsFound
CHECK_DEADLOCK FALSE
