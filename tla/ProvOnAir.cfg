CONSTANTS
  t1 = t1
  t2 = t2
  Client = client
  EventLoop = eventloop
  TimerTask = timer
  Tasks <- TwoTasks
  AppOps <- OwnerAndAnything
  ClientOps = {"custdata", "reprov"}
  WifiEvents = {"STA_START", "GOT_IP"}
  QueueLen = 1
  PostMayFail = TRUE
  StopDrains = TRUE
  EarlyClient = FALSE
  LateEvent = TRUE
SPECIFICATION Spec
INVARIANTS OnAirIsManaged
CHECK_DEADLOCK FALSE
