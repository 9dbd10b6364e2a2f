SPECIFICATION FairSpec
CONSTANTS
  app = app
  other = other
  EventLoop = eventloop
  TimerSvc = timersvc
  Tasks <- OneTask
  SlowClient = TRUE
  PatientApp = TRUE
  MaxSessions = 3
INVARIANTS
  QuietIsClean
  OneTimer
PROPERTIES
  SessionEnds
CHECK_DEADLOCK FALSE
