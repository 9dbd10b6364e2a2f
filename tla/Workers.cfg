CONSTANTS
  w1 = w1
  w2 = w2
  w3 = w3
  r1 = r1
  r2 = r2
  r3 = r3
  r4 = r4
  Workers <- ThreeWorkers
  Requests <- FourRequests
  QueueLength = 1
  SendMayTimeOut = TRUE
  Copies = {m1, m2}
  QueueSize = 1
SPECIFICATION EitherSpec
INVARIANTS PermitIsWorker OneHand AnswerIsCurrent CopiesAreHeld
PROPERTIES QueuedIsServed
