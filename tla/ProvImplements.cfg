CONSTANTS
  t1 = t1
  t2 = t2
  Client = client
  EventLoop = eventloop
  TimerTask = timer
  Tasks <- TwoTasks
  AppOps <- OwnerAndStopper
  ClientOps = {"custdata", "status", "reset"}
  WifiEvents = {"GOT_IP", "DISC_AUTH", "DISC_OTHER"}
  QueueLen = 2
  PostMayFail = FALSE
  StopDrains = TRUE
  EarlyClient = FALSE
  LateEvent = FALSE
SPECIFICATION Spec
INVARIANTS OneCleaner RunningIsServed IdleIsClean StartUndisturbed StopScheduled
PROPERTIES ImplementsLifecycle
CHECK_DEADLOCK FALSE
