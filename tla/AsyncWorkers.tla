---------------------------- MODULE AsyncWorkers ----------------------------
(***************************************************************************)
(* The pool of tasks that serve long HTTP requests, main/http_server.c:    *)
(* the HTTP server's task runs queue_request, every worker runs            *)
(* worker_task. A counting semaphore tells how many workers wait for a     *)
(* request, and a queue hands the requests over.                           *)
(***************************************************************************)
EXTENDS Naturals, SequencesExt, FiniteSets

(* A definition whose comment begins with "Defect:" is a variant of the    *)
(* definition after it, the way a mistake in the code would have it. The   *)
(* specification does not use it: a property's run has to fail with it.    *)

CONSTANTS
  Workers,        \* the worker tasks, CONFIG_EXAMPLE_MAX_ASYNC_REQUESTS of them
  Requests,       \* the requests there can be at a time, one per open socket
  QueueLength,    \* the slots of request_queue: 1
  SendMayTimeOut  \* can a full queue stay full for the 100 ms of xQueueSend?

None == "none"

ASSUME WorkersAssumption == IsFiniteSet(Workers)
ASSUME RequestsAssumption == None \notin Requests
ASSUME QueueAssumption == QueueLength \in Nat \ {0}
ASSUME TimeOutAssumption == SendMayTimeOut \in BOOLEAN

VARIABLES
  permits,  \* the count of worker_ready_count
  queue,    \* request_queue
  copies,   \* the copies of requests that httpd_req_async_handler_begin made
            \* and httpd_req_async_handler_complete has not freed yet
  server,   \* where the HTTP server's task is in queue_request
  asked,    \* the copy it has made there
  worker,   \* where each worker is
  serves    \* the request each worker has taken

vars == <<permits, queue, copies, server, asked, worker, serves>>

MaxPermits == Cardinality(Workers)

\* start_workers: a worker whose xTaskCreate failed is not there.
Init ==
  /\ permits = 0
  /\ queue = <<>>
  /\ copies = {}
  /\ server = "idle"
  /\ asked = None
  /\ worker \in [Workers -> {"loop", "absent"}]
  /\ serves = [w \in Workers |-> None]
-----------------------------------------------------------------------------
(* queue_request.                                                          *)

Begin(r) ==
  /\ server = "idle"
  /\ r \notin copies
  /\ copies' = copies \cup {r}
  /\ asked' = r
  /\ server' = "take"
  /\ UNCHANGED <<permits, queue, worker, serves>>

\* The request is answered with an error, its copy freed.
Refuse ==
  /\ copies' = copies \ {asked}
  /\ asked' = None
  /\ server' = "idle"
  /\ UNCHANGED <<permits, queue, worker, serves>>

NoWorkers == server = "take" /\ permits = 0 /\ Refuse

\* Defect: the count is looked at, but not decremented.
PeekPermit ==
  /\ server = "take"
  /\ permits > 0
  /\ server' = "send"
  /\ UNCHANGED <<permits, queue, copies, asked, worker, serves>>

TakePermit ==
  /\ server = "take"
  /\ permits > 0
  /\ permits' = permits - 1
  /\ server' = "send"
  /\ UNCHANGED <<queue, copies, asked, worker, serves>>

Send ==
  /\ server = "send"
  /\ Len(queue) < QueueLength
  /\ queue' = Append(queue, asked)
  /\ asked' = None
  /\ server' = "idle"
  /\ UNCHANGED <<permits, copies, worker, serves>>

\* The permit that was taken is not given back.
SendTimesOut ==
  /\ SendMayTimeOut
  /\ server = "send"
  /\ Len(queue) = QueueLength
  /\ Refuse

-----------------------------------------------------------------------------
(* worker_task.                                                            *)

\* xSemaphoreGive does nothing when the count is at its maximum.
GivePermit(w) ==
  /\ worker[w] = "loop"
  /\ permits' = IF permits < MaxPermits THEN permits + 1 ELSE permits
  /\ worker' = [worker EXCEPT ![w] = "receive"]
  /\ UNCHANGED <<queue, copies, server, asked, serves>>

\* Defect: the request stays in the queue.
Peek(w) ==
  /\ worker[w] = "receive"
  /\ queue # <<>>
  /\ serves' = [serves EXCEPT ![w] = Head(queue)]
  /\ worker' = [worker EXCEPT ![w] = "handle"]
  /\ UNCHANGED <<permits, queue, copies, server, asked>>

Receive(w) ==
  /\ worker[w] = "receive"
  /\ queue # <<>>
  /\ serves' = [serves EXCEPT ![w] = Head(queue)]
  /\ queue' = Tail(queue)
  /\ worker' = [worker EXCEPT ![w] = "handle"]
  /\ UNCHANGED <<permits, copies, server, asked>>

\* Defect: httpd_req_async_handler_complete is not called.
CompleteNot(w) ==
  /\ worker[w] = "handle"
  /\ serves' = [serves EXCEPT ![w] = None]
  /\ worker' = [worker EXCEPT ![w] = "loop"]
  /\ UNCHANGED <<permits, queue, copies, server, asked>>

\* The handler returns, then the copy is freed.
Complete(w) ==
  /\ worker[w] = "handle"
  /\ copies' = copies \ {serves[w]}
  /\ serves' = [serves EXCEPT ![w] = None]
  /\ worker' = [worker EXCEPT ![w] = "loop"]
  /\ UNCHANGED <<permits, queue, server, asked>>

-----------------------------------------------------------------------------
QueueRequest == NoWorkers \/ TakePermit \/ Send \/ SendTimesOut
WorkerTask(w) == GivePermit(w) \/ Receive(w) \/ Complete(w)

Next ==
  \/ \E r \in Requests : Begin(r)
  \/ QueueRequest
  \/ \E w \in Workers : WorkerTask(w)

Spec == Init /\ [][Next]_vars

\* The tasks run when they can, and a handler returns.
Fairness ==
  /\ WF_vars(QueueRequest)
  /\ \A w \in Workers : WF_vars(WorkerTask(w))

FairSpec == Spec /\ Fairness

-----------------------------------------------------------------------------
TypeOK ==
  /\ permits \in 0..MaxPermits
  /\ queue \in Seq(Requests) /\ Len(queue) <= QueueLength
  /\ copies \subseteq Requests
  /\ server \in {"idle", "take", "send"}
  /\ asked \in Requests \cup {None}
  /\ worker \in [Workers -> {"absent", "loop", "receive", "handle"}]
  /\ serves \in [Workers -> Requests \cup {None}]

Waiting == {w \in Workers : worker[w] = "receive"}
Promised == permits + Len(queue) + (IF server = "send" THEN 1 ELSE 0)

\* "if success, we know 1 or more asyncReqTaskWorkers are available": a permit,
\* in the semaphore, in the server's hand or in the queue with its request,
\* stands for a worker of its own that waits.
PermitIsWorker == Promised <= Cardinality(Waiting)

\* A copy that has been made is in exactly one hand, the server's, the queue's
\* or a worker's, and one that has been freed is in none: no request is served
\* twice, forgotten, or completed while a worker still serves it.
Queued == Range(queue)
OneHand ==
  /\ copies \subseteq {asked} \cup Queued \cup Range(serves)
  /\ Queued \subseteq copies
  /\ IsInjective(queue)
  /\ asked # None => asked \in copies \ Queued
  /\ \A w \in Workers :
       serves[w] # None =>
         /\ serves[w] \in copies \ (Queued \cup {asked})
         /\ \A v \in Workers \ {w} : serves[v] # serves[w]

\* A request that was queued is served.
QueuedIsServed == \A r \in Requests : r \in Queued ~> r \notin copies
=============================================================================
