SPECIFICATION FairSpec
CONSTANTS
  m1 = m1
  m2 = m2
  n1 = n1
  n2 = n2
  net1 = net1
  net2 = net2
  Devices = {m1, n1}
  Members = {m1}
  Networks = {net1}
  Home <- HomeOfOne
  Users = {m1}
  Stoppers = {}
  QueueSize = 1
  MaxFails = 2
  Lossy = TRUE
  StaysFull = FALSE
  ListenEnds = {n1}
  NoMem = FALSE
  TimerBusy = FALSE
INVARIANTS
  BroadcastGoesOn
PROPERTIES
  Joins
CHECK_DEADLOCK FALSE
