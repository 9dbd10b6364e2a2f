CONSTANTS
  t1 = t1
  t2 = t2
  Client = client
  EventLoop = eventloop
  TimerTask = timer
  Tasks <- TwoTasks
  AppOps <- OwnerConfigures
  ClientOps = {}
  WifiEvents = {"GOT_IP"}
  QueueLen = 2
  PostMayFail = FALSE
  StopDrains = FALSE
  EarlyClient = FALSE
  LateEvent = FALSE
SPECIFICATION FairSpec
PROPERTIES StopCompletes CallsReturn
