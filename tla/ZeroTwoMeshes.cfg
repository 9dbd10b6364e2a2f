SPECIFICATION Spec
CONSTANTS
  m1 = m1
  m2 = m2
  n1 = n1
  n2 = n2
  net1 = net1
  net2 = net2
  Devices = {m1, m2, n1}
  Members = {m1, m2}
  Networks = {net1, net2}
  Home <- HomeOfTwo
  Users = {}
  Stoppers = {n1}
  QueueSize = 1
  MaxFails = 0
  Lossy = FALSE
  StaysFull = TRUE
  ListenEnds = {n1}
  NoMem = TRUE
  TimerBusy = TRUE
INVARIANTS
  WholeConfig
SYMMETRY Exchange
CHECK_DEADLOCK FALSE
