--------------------------- MODULE Workers_proofs ---------------------------
(***************************************************************************)
(* Proofs about the two components that hand work to a task through a      *)
(* queue, as MCAsyncWorkers has them side by side: the worker pool, for    *)
(* any number of workers, requests and queue slots, whether or not the     *)
(* send to the queue can time out, and wireless debugging, for any number  *)
(* of messages and any length of the queue.                                *)
(***************************************************************************)
EXTENDS AsyncWorkers, WirelessDebug, SequenceTheorems, FiniteSetTheorems, TLAPS

-----------------------------------------------------------------------------
(* AsyncWorkers                                                            *)

\* The server has a copy in its hand between the two ends of queue_request,
\* a worker while it handles one.
HandsInv ==
  /\ (server = "idle") <=> (asked = None)
  /\ \A w \in Workers : (serves[w] # None) <=> (worker[w] = "handle")

PoolInv == TypeOK /\ PermitIsWorker /\ OneHand /\ HandsInv

-----------------------------------------------------------------------------
(* Counting the workers that wait.                                         *)

LEMMA WaitingFinite ==
  /\ IsFiniteSet(Waiting) /\ Cardinality(Waiting) \in Nat
  /\ Cardinality(Waiting) <= MaxPermits /\ MaxPermits \in Nat
<1>1. Waiting \subseteq Workers
  BY DEF Waiting
<1> QED
  BY <1>1, WorkersAssumption, FS_Subset, FS_CardinalityType DEF MaxPermits

LEMMA OneMoreWaits ==
  ASSUME TypeOK, NEW w \in Workers, worker[w] # "receive",
         worker' = [worker EXCEPT ![w] = "receive"]
  PROVE  Cardinality(Waiting') = Cardinality(Waiting) + 1
<1>1. Waiting' = Waiting \cup {w} /\ w \notin Waiting
  BY DEF Waiting, TypeOK
<1> QED
  BY <1>1, WaitingFinite, FS_AddElement

LEMMA OneLessWaits ==
  ASSUME TypeOK, NEW w \in Workers, worker[w] = "receive",
         NEW l, l # "receive", worker' = [worker EXCEPT ![w] = l]
  PROVE  Cardinality(Waiting') = Cardinality(Waiting) - 1
<1>1. Waiting' = Waiting \ {w} /\ w \in Waiting
  BY DEF Waiting, TypeOK
<1> QED
  BY <1>1, WaitingFinite, FS_RemoveElement

LEMMA SameWait ==
  ASSUME TypeOK, NEW w \in Workers, worker[w] # "receive",
         NEW l, l # "receive", worker' = [worker EXCEPT ![w] = l]
  PROVE  Waiting' = Waiting
BY DEF Waiting, TypeOK

-----------------------------------------------------------------------------
(* The queue.                                                              *)

LEMMA QueueFacts ==
  ASSUME TypeOK
  PROVE  /\ Len(queue) \in Nat /\ DOMAIN queue = 1..Len(queue)
         /\ \A i \in 1..Len(queue) : queue[i] \in Requests
BY LenProperties, ElementOfSeq DEF TypeOK

LEMMA ReceiveQueue ==
  ASSUME TypeOK, queue # <<>>, queue' = Tail(queue)
  PROVE  /\ queue' \in Seq(Requests) /\ Len(queue') = Len(queue) - 1
         /\ DOMAIN queue' = 1..Len(queue')
         /\ \A i \in 1..Len(queue') : queue'[i] = queue[i + 1]
         /\ Head(queue) = queue[1] /\ Head(queue) \in Requests /\ Len(queue) > 0
BY HeadTailProperties, LenProperties, EmptySeq DEF TypeOK

LEMMA SendQueue ==
  ASSUME TypeOK, NEW r \in Requests, queue' = Append(queue, r)
  PROVE  /\ queue' \in Seq(Requests) /\ Len(queue') = Len(queue) + 1
         /\ DOMAIN queue' = 1..Len(queue')
         /\ \A i \in 1..Len(queue) : queue'[i] = queue[i]
         /\ queue'[Len(queue) + 1] = r
BY AppendProperties, LenProperties DEF TypeOK

-----------------------------------------------------------------------------
(* One lemma per conjunct of the invariant.                                *)

LEMMA StepType ==
  ASSUME PoolInv, [Next]_vars
  PROVE  TypeOK'
<1> USE DEF PoolInv
<1>0. MaxPermits \in Nat /\ Len(queue) \in Nat
  BY WaitingFinite, QueueFacts
<1>1. CASE UNCHANGED vars
  BY <1>1 DEF vars, TypeOK, MaxPermits
<1>2. CASE \E r \in Requests : Begin(r)
  BY <1>2 DEF Begin, TypeOK, MaxPermits
<1>3. CASE NoWorkers \/ SendTimesOut
  BY <1>3 DEF NoWorkers, SendTimesOut, Refuse, TypeOK, MaxPermits
<1>4. CASE TakePermit
  BY <1>4, <1>0 DEF TakePermit, TypeOK, MaxPermits
<1>5. CASE Send
  <2>1. asked \in Requests
    BY <1>5 DEF Send, HandsInv, TypeOK
  <2>2. queue' \in Seq(Requests) /\ Len(queue') <= QueueLength
    BY <1>5, <2>1, <1>0, SendQueue, QueueAssumption DEF Send
  <2> QED
    BY <1>5, <2>2 DEF Send, TypeOK, MaxPermits
<1>6. ASSUME NEW w \in Workers, WorkerTask(w)
      PROVE  TypeOK'
  <2>1. CASE GivePermit(w)
    <3>1. permits' \in 0..MaxPermits
      BY <2>1, <1>0 DEF GivePermit, TypeOK
    <3> QED
      BY <2>1, <3>1 DEF GivePermit, TypeOK, MaxPermits
  <2>2. CASE Receive(w)
    <3>1. /\ queue' \in Seq(Requests) /\ Head(queue) \in Requests
          /\ Len(queue') <= QueueLength
      BY <2>2, <1>0, ReceiveQueue, QueueAssumption DEF Receive, TypeOK
    <3> QED
      BY <2>2, <3>1 DEF Receive, TypeOK, MaxPermits
  <2>3. CASE Complete(w)
    BY <2>3 DEF Complete, TypeOK, MaxPermits
  <2> QED
    BY <1>6, <2>1, <2>2, <2>3 DEF WorkerTask
<1> QED
  BY <1>1, <1>2, <1>3, <1>4, <1>5, <1>6 DEF Next, QueueRequest

\* A permit is given by a worker that begins to wait, and a worker stops
\* waiting only with a request that a permit was paid for.
LEMMA StepPermit ==
  ASSUME PoolInv, [Next]_vars
  PROVE  PermitIsWorker'
<1> USE DEF PoolInv
<1>0. /\ MaxPermits \in Nat /\ Len(queue) \in Nat /\ permits \in Nat
      /\ Cardinality(Waiting) \in Nat
  BY WaitingFinite, QueueFacts DEF TypeOK
<1>1. CASE UNCHANGED vars
  BY <1>1 DEF vars, PermitIsWorker, Promised, Waiting
<1>2. CASE \E r \in Requests : Begin(r)
  BY <1>2, <1>0 DEF Begin, PermitIsWorker, Promised, Waiting
<1>3. CASE NoWorkers \/ SendTimesOut
  <2>1. server # "idle" /\ server' = "idle" /\ UNCHANGED <<permits, queue, worker>>
    BY <1>3 DEF NoWorkers, SendTimesOut, Refuse
  <2>2. Waiting' = Waiting /\ Promised' <= Promised
    BY <2>1, <1>0 DEF Waiting, Promised
  <2> QED
    BY <2>1, <2>2, <1>0 DEF PermitIsWorker, Promised
<1>4. CASE TakePermit
  BY <1>4, <1>0 DEF TakePermit, PermitIsWorker, Promised, Waiting
<1>5. CASE Send
  <2>1. Len(queue') = Len(queue) + 1
    BY <1>5, SendQueue DEF Send, HandsInv, TypeOK
  <2> QED
    BY <1>5, <2>1, <1>0 DEF Send, PermitIsWorker, Promised, Waiting
<1>6. ASSUME NEW w \in Workers, WorkerTask(w)
      PROVE  PermitIsWorker'
  <2>1. CASE GivePermit(w)
    <3>1. Cardinality(Waiting') = Cardinality(Waiting) + 1
      BY <2>1, OneMoreWaits DEF GivePermit
    <3>2. permits' <= permits + 1 /\ permits' \in Nat
      BY <2>1, <1>0 DEF GivePermit
    <3>3. UNCHANGED <<queue, server>>
      BY <2>1 DEF GivePermit
    <3> DEFINE held == IF server = "send" THEN 1 ELSE 0
    <3>4. held \in Nat /\ Promised = permits + Len(queue) + held
          /\ Promised' = permits' + Len(queue) + held
      BY <3>3 DEF Promised
    <3> HIDE DEF held
    <3> QED
      BY <3>1, <3>2, <3>4, <1>0 DEF PermitIsWorker
  <2>2. CASE Receive(w)
    <3>1. Cardinality(Waiting') = Cardinality(Waiting) - 1
      BY <2>2, OneLessWaits DEF Receive
    <3>2. Len(queue') = Len(queue) - 1
      BY <2>2, ReceiveQueue DEF Receive
    <3> QED
      BY <2>2, <3>1, <3>2, <1>0 DEF Receive, PermitIsWorker, Promised
  <2>3. CASE Complete(w)
    <3>1. Waiting' = Waiting
      BY <2>3, SameWait DEF Complete
    <3> QED
      BY <2>3, <3>1 DEF Complete, PermitIsWorker, Promised
  <2> QED
    BY <1>6, <2>1, <2>2, <2>3 DEF WorkerTask
<1> QED
  BY <1>1, <1>2, <1>3, <1>4, <1>5, <1>6 DEF Next, QueueRequest

LEMMA StepHands ==
  ASSUME PoolInv, [Next]_vars
  PROVE  HandsInv'
<1> USE DEF PoolInv, HandsInv
<1>1. CASE UNCHANGED vars
  BY <1>1 DEF vars
<1>2. CASE \E r \in Requests : Begin(r)
  BY <1>2, RequestsAssumption DEF Begin
<1>3. CASE NoWorkers \/ SendTimesOut
  BY <1>3 DEF NoWorkers, SendTimesOut, Refuse
<1>4. CASE TakePermit \/ Send
  BY <1>4 DEF TakePermit, Send
<1>5. ASSUME NEW w \in Workers, WorkerTask(w)
      PROVE  HandsInv'
  <2>1. CASE GivePermit(w)
    BY <2>1 DEF GivePermit, TypeOK
  <2>2. CASE Receive(w)
    <3>1. Head(queue) # None
      BY <2>2, ReceiveQueue, RequestsAssumption DEF Receive
    <3> QED
      BY <2>2, <3>1 DEF Receive, TypeOK
  <2>3. CASE Complete(w)
    BY <2>3 DEF Complete, TypeOK
  <2> QED
    BY <1>5, <2>1, <2>2, <2>3 DEF WorkerTask
<1> QED
  BY <1>1, <1>2, <1>3, <1>4, <1>5 DEF Next, QueueRequest

\* What the two ends of the queue do to the requests in it.
LEMMA QueuedFacts ==
  ASSUME TypeOK
  PROVE  /\ DOMAIN queue = 1..Len(queue) /\ Len(queue) \in Nat
         /\ Queued = {queue[i] : i \in 1..Len(queue)}
         /\ IsInjective(queue) <=>
              \A i, j \in 1..Len(queue) : queue[i] = queue[j] => i = j
BY QueueFacts DEF Queued, Range, IsInjective

LEMMA SendQueued ==
  ASSUME TypeOK, NEW r \in Requests, r \notin Queued, IsInjective(queue),
         queue' = Append(queue, r)
  PROVE  Queued' = Queued \cup {r} /\ IsInjective(queue')
<1>0. DOMAIN queue = 1..Len(queue) /\ Len(queue) \in Nat
  BY QueuedFacts
<1>1. /\ DOMAIN queue' = 1..(Len(queue) + 1)
      /\ \A i \in 1..Len(queue) : queue'[i] = queue[i]
      /\ queue'[Len(queue) + 1] = r
  BY SendQueue
<1>2. \A i \in DOMAIN queue' : i \in DOMAIN queue \/ i = Len(queue) + 1
  BY <1>0, <1>1
<1>3. \A i \in DOMAIN queue : queue[i] \in Queued /\ i \in DOMAIN queue'
  BY <1>0, <1>1 DEF Queued, Range
<1>4. Queued' = Queued \cup {r}
  <2>1. \A i \in DOMAIN queue' : queue'[i] \in Queued \cup {r}
    BY <1>0, <1>1, <1>2, <1>3
  <2>2. \A i \in DOMAIN queue : queue[i] \in Queued'
    BY <1>0, <1>1, <1>3 DEF Queued, Range
  <2>3. Len(queue) + 1 \in DOMAIN queue'
    BY <1>0, <1>1
  <2>4. r \in Queued'
    BY <1>1, <2>3 DEF Queued, Range
  <2> QED
    BY <2>1, <2>2, <2>4 DEF Queued, Range
<1>5. IsInjective(queue')
  <2>1. \A i, j \in DOMAIN queue : queue[i] = queue[j] => i = j
    BY DEF IsInjective
  <2>2. \A i, j \in DOMAIN queue' : queue'[i] = queue'[j] => i = j
    BY <1>0, <1>1, <1>2, <1>3, <2>1
  <2> QED
    BY <2>2 DEF IsInjective
<1> QED
  BY <1>4, <1>5

LEMMA ReceiveQueued ==
  ASSUME TypeOK, queue # <<>>, IsInjective(queue), queue' = Tail(queue)
  PROVE  /\ Queued' = Queued \ {Head(queue)} /\ IsInjective(queue')
         /\ Head(queue) \in Queued /\ Head(queue) \in Requests
<1> DEFINE r == Head(queue)
<1>0. DOMAIN queue = 1..Len(queue) /\ Len(queue) \in Nat
  BY QueuedFacts
<1>1. /\ DOMAIN queue' = 1..(Len(queue) - 1)
      /\ \A i \in 1..(Len(queue) - 1) : queue'[i] = queue[i + 1]
      /\ r = queue[1] /\ r \in Requests /\ Len(queue) > 0
  BY ReceiveQueue
<1> HIDE DEF r
<1>2. \A i \in DOMAIN queue' : i + 1 \in DOMAIN queue /\ i + 1 # 1 /\ queue'[i] = queue[i + 1]
  BY <1>0, <1>1
<1>3. 1 \in DOMAIN queue
  BY <1>0, <1>1
<1>4. \A i, j \in DOMAIN queue : queue[i] = queue[j] => i = j
  BY DEF IsInjective
<1>5. \A i \in DOMAIN queue' : queue'[i] \in Queued /\ queue'[i] # r
  BY <1>1, <1>2, <1>3, <1>4 DEF Queued, Range
<1>6. \A i \in DOMAIN queue : queue[i] # r => queue[i] \in Queued'
  <2> SUFFICES ASSUME NEW i \in DOMAIN queue, queue[i] # r PROVE queue[i] \in Queued'
    OBVIOUS
  <2>1. i - 1 \in 1..(Len(queue) - 1) /\ (i - 1) + 1 = i
    BY <1>0, <1>1
  <2>2. i - 1 \in DOMAIN queue' /\ queue'[i - 1] = queue[i]
    BY <1>1, <2>1
  <2> QED
    BY <2>2 DEF Queued, Range
<1>7. Queued' = Queued \ {r}
  BY <1>5, <1>6 DEF Queued, Range
<1>8. IsInjective(queue')
  <2> SUFFICES ASSUME NEW i \in DOMAIN queue', NEW j \in DOMAIN queue',
                      queue'[i] = queue'[j]
               PROVE  i = j
    BY DEF IsInjective
  <2>1. i + 1 = j + 1
    BY <1>2, <1>4
  <2>2. i \in Nat /\ j \in Nat
    BY <1>0, <1>1
  <2> QED
    BY <2>1, <2>2
<1>9. r \in Queued
  BY <1>1, <1>3 DEF Queued, Range
<1> QED
  BY <1>1, <1>7, <1>8, <1>9 DEF r

\* A copy goes from the server's hand to the queue's, and from there to one
\* worker's; whoever frees it has it in hand.
LEMMA StepOneHand ==
  ASSUME PoolInv, [Next]_vars
  PROVE  OneHand'
<1> USE DEF PoolInv
<1>1. CASE UNCHANGED vars
  BY <1>1 DEF vars, OneHand, Queued
<1>2. CASE \E r \in Requests : Begin(r)
  <2>1. PICK r \in Requests : Begin(r)
    BY <1>2
  <2>2. asked = None /\ r # None /\ None \notin Requests
    BY <2>1, RequestsAssumption DEF Begin, HandsInv
  <2>3. UNCHANGED <<queue, serves, Queued>> /\ copies' = copies \cup {r} /\ asked' = r
    BY <2>1 DEF Begin, Queued
  <2>4. r \notin copies
    BY <2>1 DEF Begin
  <2>5. copies \subseteq Requests
    BY DEF TypeOK
  <2> QED
    BY <2>2, <2>3, <2>4, <2>5 DEF OneHand
<1>3. CASE NoWorkers \/ SendTimesOut
  <2>1. asked # None
    BY <1>3 DEF NoWorkers, SendTimesOut, HandsInv
  <2>2. /\ UNCHANGED <<queue, serves, Queued>>
        /\ copies' = copies \ {asked} /\ asked' = None
    BY <1>3 DEF NoWorkers, SendTimesOut, Refuse, Queued
  <2> QED
    BY <2>1, <2>2 DEF OneHand
<1>4. CASE TakePermit
  BY <1>4 DEF TakePermit, OneHand, Queued
<1>5. CASE Send
  <2>1. asked # None /\ asked \in Requests /\ asked \in copies \ Queued
    BY <1>5 DEF Send, HandsInv, TypeOK, OneHand
  <2>2. Queued' = Queued \cup {asked} /\ IsInjective(queue')
    BY <1>5, <2>1, SendQueued DEF Send, OneHand
  <2>3. UNCHANGED <<copies, serves>> /\ asked' = None
    BY <1>5 DEF Send
  <2> QED
    BY <2>1, <2>2, <2>3 DEF OneHand
<1>6. ASSUME NEW w \in Workers, WorkerTask(w)
      PROVE  OneHand'
  <2>1. CASE GivePermit(w)
    BY <2>1 DEF GivePermit, OneHand, Queued
  <2>2. CASE Receive(w)
    <3> DEFINE r == Head(queue)
    <3>1. /\ Queued' = Queued \ {r} /\ IsInjective(queue')
          /\ r \in Queued /\ r \in Requests /\ r \in copies /\ r # asked
      BY <2>2, ReceiveQueued, RequestsAssumption DEF Receive, OneHand
    <3>2. serves[w] = None
      BY <2>2 DEF Receive, HandsInv
    <3>3. /\ UNCHANGED <<copies, asked>>
          /\ DOMAIN serves = Workers /\ DOMAIN serves' = Workers
          /\ \A v \in Workers : serves'[v] = IF v = w THEN r ELSE serves[v]
      BY <2>2 DEF Receive, TypeOK
    <3> HIDE DEF r
    <3>4. \A v \in Workers : serves[v] # r
      BY <3>1, RequestsAssumption DEF OneHand
    <3>5. copies' \subseteq {asked'} \cup Queued' \cup Range(serves')
      <4>1. r \in Range(serves')
        BY <3>3 DEF Range
      <4>2. Range(serves) \ {None} \subseteq Range(serves')
        BY <3>2, <3>3 DEF Range
      <4>3. None \notin copies
        BY RequestsAssumption DEF TypeOK
      <4> QED
        BY <3>1, <3>3, <4>1, <4>2, <4>3 DEF OneHand
    <3>6. ASSUME NEW v \in Workers, serves'[v] # None
          PROVE  /\ serves'[v] \in copies' \ (Queued' \cup {asked'})
                 /\ \A u \in Workers \ {v} : serves'[u] # serves'[v]
      BY <3>1, <3>2, <3>3, <3>4, <3>6 DEF OneHand
    <3>7. asked' # None => asked' \in copies' \ Queued'
      BY <3>1, <3>3 DEF OneHand
    <3> QED
      BY <3>1, <3>3, <3>5, <3>6, <3>7 DEF OneHand
  <2>3. CASE Complete(w)
    <3>1. serves[w] # None
      BY <2>3 DEF Complete, HandsInv
    <3>2. /\ copies' = copies \ {serves[w]} /\ UNCHANGED <<queue, asked, Queued>>
          /\ DOMAIN serves = Workers /\ DOMAIN serves' = Workers
          /\ \A v \in Workers : serves'[v] = IF v = w THEN None ELSE serves[v]
      BY <2>3 DEF Complete, TypeOK, Queued
    <3>3. Range(serves) \ {serves[w]} \subseteq Range(serves')
      BY <3>2 DEF Range
    <3> QED
      BY <3>1, <3>2, <3>3 DEF OneHand
  <2> QED
    BY <1>6, <2>1, <2>2, <2>3 DEF WorkerTask
<1> QED
  BY <1>1, <1>2, <1>3, <1>4, <1>5, <1>6 DEF Next, QueueRequest

-----------------------------------------------------------------------------
(* The theorems.                                                           *)

LEMMA PoolInvHolds == Spec => []PoolInv
<1>1. Init => PoolInv
  <2> SUFFICES ASSUME Init PROVE PoolInv
    OBVIOUS
  <2>1. queue = <<>> /\ queue \in Seq(Requests) /\ Len(queue) = 0 /\ DOMAIN queue = {}
    BY EmptySeq DEF Init
  <2>2. TypeOK
    BY <2>1, WaitingFinite, QueueAssumption DEF Init, TypeOK
  <2>3. PermitIsWorker
    BY <2>1, WaitingFinite DEF Init, PermitIsWorker, Promised
  <2>4. OneHand /\ HandsInv
    BY <2>1 DEF Init, OneHand, HandsInv, Queued, Range, IsInjective
  <2> QED
    BY <2>2, <2>3, <2>4 DEF PoolInv
<1>2. PoolInv /\ [Next]_vars => PoolInv'
  BY StepType, StepPermit, StepHands, StepOneHand DEF PoolInv
<1> QED
  BY <1>1, <1>2, PTL DEF Spec

\* The variables of the worker pool have their types: the semaphore never
\* counts more than there are workers, nor the queue more than its slots.
THEOREM PoolTypeCorrect == Spec => []TypeOK
<1>1. PoolInv => TypeOK
  BY DEF PoolInv
<1> QED
  BY <1>1, PoolInvHolds, PTL

\* Every permit, wherever it is, stands for a worker of its own that waits.
THEOREM PermitsAreWorkers == Spec => []PermitIsWorker
<1>1. PoolInv => PermitIsWorker
  BY DEF PoolInv
<1> QED
  BY <1>1, PoolInvHolds, PTL

\* Every copy of a request is in one hand until it is completed.
THEOREM CopiesInOneHand == Spec => []OneHand
<1>1. PoolInv => OneHand
  BY DEF PoolInv
<1> QED
  BY <1>1, PoolInvHolds, PTL

-----------------------------------------------------------------------------
(* WirelessDebug. What a command finds in output_buffer depends on where   *)
(* the task is (TaskInv); that no copy is in two places, on the queue      *)
(* having each of its copies once.                                         *)

(* Sequences without repetition.                                           *)

LEMMA AppendKeeps ==
  ASSUME NEW S, NEW s \in Seq(S), NEW x \in S, IsInjective(s), x \notin Range(s)
  PROVE  /\ Append(s, x) \in Seq(S) /\ IsInjective(Append(s, x))
         /\ Range(Append(s, x)) = Range(s) \cup {x}
<1> DEFINE t == Append(s, x)
<1>1. /\ t \in Seq(S) /\ DOMAIN t = 1..(Len(s) + 1) /\ Len(s) \in Nat /\ DOMAIN s = 1..Len(s)
      /\ t[Len(s) + 1] = x /\ \A i \in 1..Len(s) : t[i] = s[i]
  OBVIOUS
<1> HIDE DEF t
<1>2. \A i \in 1..Len(s) : s[i] \in Range(s) /\ s[i] # x
  BY <1>1 DEF Range
<1>3. \A i, j \in 1..(Len(s) + 1) : t[i] = t[j] => i = j
  BY <1>1, <1>2 DEF IsInjective
<1>4. \A i \in 1..(Len(s) + 1) : i \in 1..Len(s) \/ i = Len(s) + 1
  BY <1>1
<1>5. Range(t) \subseteq Range(s) \cup {x}
  BY <1>1, <1>2, <1>4 DEF Range
<1>6. Range(s) \cup {x} \subseteq Range(t)
  BY <1>1 DEF Range
<1>7. IsInjective(t)
  BY <1>1, <1>3 DEF IsInjective
<1> QED BY <1>1, <1>5, <1>6, <1>7 DEF t

LEMMA HeadLeaves ==
  ASSUME NEW S, NEW s \in Seq(S), s # <<>>, IsInjective(s)
  PROVE  /\ Head(s) \in S /\ Tail(s) \in Seq(S) /\ IsInjective(Tail(s))
         /\ Head(s) \notin Range(Tail(s))
         /\ Range(s) = Range(Tail(s)) \cup {Head(s)}
<1>1. Head(s) = s[1] /\ Len(s) \in Nat /\ Len(s) >= 1 /\ DOMAIN s = 1..Len(s)
  OBVIOUS
<1>2. /\ Tail(s) \in Seq(S) /\ DOMAIN Tail(s) = 1..(Len(s) - 1)
      /\ \A i \in 1..(Len(s) - 1) : Tail(s)[i] = s[i + 1]
  OBVIOUS
<1>3. \A i, j \in 1..Len(s) : s[i] = s[j] => i = j
  BY <1>1 DEF IsInjective
<1>4. IsInjective(Tail(s))
  BY <1>1, <1>2, <1>3 DEF IsInjective
<1>5. Head(s) \notin Range(Tail(s))
  BY <1>1, <1>2, <1>3 DEF Range
<1>6. Range(s) \subseteq Range(Tail(s)) \cup {Head(s)}
  <2> SUFFICES ASSUME NEW i \in 1..Len(s), i # 1 PROVE s[i] \in Range(Tail(s))
    BY <1>1 DEF Range
  <2>1. i - 1 \in 1..(Len(s) - 1) /\ Tail(s)[i - 1] = s[i]
    BY <1>1, <1>2
  <2> QED BY <1>2, <2>1 DEF Range
<1>7. Range(Tail(s)) \cup {Head(s)} \subseteq Range(s)
  BY <1>1, <1>2 DEF Range
<1> QED BY <1>1, <1>2, <1>4, <1>5, <1>6, <1>7

LEMMA EmptyIs == Range(<<>>) = {} /\ IsInjective(<<>>)
BY DEF Range, IsInjective

-----------------------------------------------------------------------------
(* What the task knows where it is.                                        *)

Working == {"run", "delay", "answer"}
Answered == {"discover", "error", "core_log"}

TaskInv ==
  /\ task \in {"none", "created", "wait"} \cup Working
  /\ task = "none" <=> ~handle
  /\ task # "none" => buffers /\ ending = 0
  /\ inbox \in Seq(Messages)
  /\ entering \in Messages \cup {NoCopy}
  /\ IF task \in Working THEN current \in Messages ELSE current = NoCopy
  /\ task \in {"delay", "answer"} => current.what.kind \in Answered
  /\ task = "delay" => current.what.kind = "error" /\ named = "own"
  /\ task = "run" /\ current.what.kind # "response" => output = Nobody
  /\ task = "delay" => output = Nobody
  /\ AnswerIsCurrent

LEMMA NoCopyIs == NoCopy \notin Messages
<1> SUFFICES ASSUME NEW c, NEW w, NoCopy = [copy |-> c, what |-> w] PROVE FALSE
  BY DEF Messages
<1>1. "what" \in DOMAIN [copy |-> c, what |-> w]
  OBVIOUS
<1>2. DOMAIN NoCopy = {"copy"}
  BY DEF NoCopy
<1> QED BY <1>1, <1>2

LEMMA TaskInvStep == TaskInv /\ [DebugNext]_debugVars => TaskInv'
<1> SUFFICES ASSUME TaskInv, [DebugNext]_debugVars PROVE TaskInv'
  OBVIOUS
<1> USE DEF TaskInv, Working, Answered, AnswerIsCurrent, taskVars, copyVars, commandVars
<1>1. CASE InitDebug
  BY <1>1 DEF InitDebug
<1>2. CASE DeleteTask
  BY <1>2 DEF DeleteTask
<1>3. CASE FreeBuffers
  BY <1>3 DEF FreeBuffers
<1>4. CASE UnregisterDebug
  BY <1>4 DEF UnregisterDebug
<1>5. CASE SetCallbacks
  BY <1>5 DEF SetCallbacks
<1>6. CASE \E m \in Messages : Enter(m)
  BY <1>6 DEF Enter
<1>7. CASE Enqueue
  BY <1>7, NoCopyIs DEF Enqueue
<1>8. CASE EnqueueFails
  BY <1>8 DEF EnqueueFails
<1>9. CASE TaskStarts
  <2>1. CASE console
    BY <1>9, <2>1 DEF TaskStarts, Restart
  <2>2. CASE ~console
    <3>1. /\ task = "created" /\ task' = "wait" /\ inbox' = <<>>
          /\ UNCHANGED <<handle, buffers, entering, current, commandVars, ending>>
      BY <1>9, <2>2 DEF TaskStarts
    <3> QED BY <3>1
  <2> QED BY <2>1, <2>2
<1>10. CASE Take
  BY <1>10, NoCopyIs DEF Take
<1>11. CASE RunNothing
  BY <1>11 DEF RunNothing, Runs, Done
<1>12. CASE Reboot
  BY <1>12 DEF Reboot, Runs, Restart
<1>13. CASE RefuseArguments
  BY <1>13 DEF RefuseArguments, Runs
<1>14. CASE RunDiscover
  BY <1>14 DEF RunDiscover, Runs, Parsed
<1>15. CASE RunError
  BY <1>15 DEF RunError, Runs, Parsed
<1>16. CASE TellError
  BY <1>16 DEF TellError
<1>17. CASE RunCoreLog
  BY <1>17 DEF RunCoreLog, Runs, Parsed
<1>18. CASE SendAnswer
  BY <1>18 DEF SendAnswer, Done
<1>19. CASE UNCHANGED debugVars
  BY <1>19 DEF debugVars
<1> QED BY <1>1, <1>2, <1>3, <1>4, <1>5, <1>6, <1>7, <1>8, <1>9, <1>10, <1>11, <1>12,
     <1>13, <1>14, <1>15, <1>16, <1>17, <1>18, <1>19      DEF DebugNext, Application,
     WifiTask, DebugTask

\* Where each copy is.
CopyInv ==
  /\ allocated = ({entering, current} \ {NoCopy}) \cup Range(inbox) \cup lostCopies
  /\ IsInjective(inbox)
  /\ ({entering, current} \ {NoCopy}) \cap Range(inbox) = {}
  /\ lostCopies \cap (({entering, current} \ {NoCopy}) \cup Range(inbox)) = {}
  /\ entering # NoCopy => entering # current

\* The copy of the message that has been dealt with is freed.
LEMMA DoneKeeps ==
  ASSUME CopyInv, Done, current \in Messages
  PROVE  CopyInv'
<1>1. current # NoCopy
  BY NoCopyIs
<1>2. /\ allocated' = allocated \ {current} /\ current' = NoCopy
      /\ UNCHANGED <<inbox, entering, lostCopies>>
  BY DEF Done
<1> QED BY <1>1, <1>2 DEF CopyInv

LEMMA CopyInvStep == TaskInv /\ CopyInv /\ [DebugNext]_debugVars => CopyInv'
<1> SUFFICES ASSUME TaskInv, CopyInv, [DebugNext]_debugVars PROVE CopyInv'
  OBVIOUS
<1> USE DEF CopyInv, TaskInv, Working, taskVars, copyVars, commandVars
<1>1. CASE InitDebug
  BY <1>1 DEF InitDebug
<1>2. CASE DeleteTask
  BY <1>2 DEF DeleteTask
<1>3. CASE FreeBuffers
  BY <1>3 DEF FreeBuffers
<1>4. CASE UnregisterDebug
  BY <1>4 DEF UnregisterDebug
<1>5. CASE SetCallbacks
  BY <1>5 DEF SetCallbacks
<1>6. CASE \E m \in Messages : Enter(m)
  <2> PICK m \in Messages : Enter(m)
    BY <1>6
  <2>1. /\ entering = NoCopy /\ entering' = m /\ allocated' = allocated \cup {m}
        /\ UNCHANGED <<inbox, current, lostCopies>> /\ m \notin allocated
    BY DEF Enter
  <2>2. m # NoCopy
    BY NoCopyIs
  <2> QED BY <2>1, <2>2
<1>7. CASE Enqueue
  <2>1. /\ entering \in Messages /\ entering # NoCopy /\ entering \notin Range(inbox)
        /\ inbox' = Append(inbox, entering) /\ entering' = NoCopy
        /\ UNCHANGED <<current, allocated, lostCopies>>
    BY <1>7 DEF Enqueue
  <2>2. IsInjective(inbox') /\ Range(inbox') = Range(inbox) \cup {entering}
    BY <2>1, AppendKeeps
  <2> QED BY <2>1, <2>2
<1>8. CASE EnqueueFails
  BY <1>8 DEF EnqueueFails
<1>9. CASE TaskStarts
  BY <1>9, EmptyIs DEF TaskStarts, Restart
<1>10. CASE Take
  <2>1. /\ inbox # <<>> /\ current = NoCopy
        /\ current' = Head(inbox) /\ inbox' = Tail(inbox)
        /\ UNCHANGED <<entering, allocated, lostCopies>>
    BY <1>10 DEF Take
  <2>2. /\ Head(inbox) \in Messages /\ IsInjective(Tail(inbox))
        /\ Head(inbox) \notin Range(Tail(inbox))
        /\ Range(inbox) = Range(Tail(inbox)) \cup {Head(inbox)}
    BY <2>1, HeadLeaves
  <2>3. Head(inbox) # NoCopy
    BY <2>2, NoCopyIs
  <2> QED BY <2>1, <2>2, <2>3
<1>11. CASE RunNothing
  <2>1. Done /\ current \in Messages
    BY <1>11 DEF RunNothing, Runs
  <2> QED BY <2>1, DoneKeeps
<1>12. CASE Reboot
  BY <1>12, EmptyIs DEF Reboot, Runs, Restart
<1>13. CASE RefuseArguments
  BY <1>13 DEF RefuseArguments, Runs
<1>14. CASE RunDiscover
  BY <1>14 DEF RunDiscover, Runs, Parsed
<1>15. CASE RunError
  BY <1>15 DEF RunError, Runs, Parsed
<1>16. CASE TellError
  BY <1>16 DEF TellError
<1>17. CASE RunCoreLog
  BY <1>17 DEF RunCoreLog, Runs, Parsed
<1>18. CASE SendAnswer
  <2>1. Done /\ current \in Messages
    BY <1>18 DEF SendAnswer
  <2> QED BY <2>1, DoneKeeps
<1>19. CASE UNCHANGED debugVars
  BY <1>19 DEF debugVars
<1> QED BY <1>1, <1>2, <1>3, <1>4, <1>5, <1>6, <1>7, <1>8, <1>9, <1>10, <1>11, <1>12,
     <1>13, <1>14, <1>15, <1>16, <1>17, <1>18, <1>19      DEF DebugNext, Application,
     WifiTask, DebugTask

LEMMA InitInv == DebugInit => TaskInv /\ CopyInv
BY EmptyIs DEF DebugInit, TaskInv, CopyInv, Working, AnswerIsCurrent

\* The task of esp_mesh_lite_wireless_debug.c sends nothing as an answer that the
\* command did not write, and answers only for the device named, however commands,
\* responses and restarts of the component follow each other.
THEOREM AnswersAreCurrent == DebugSpec => []AnswerIsCurrent
<1>1. TaskInv => AnswerIsCurrent
  BY DEF TaskInv
<1> QED BY <1>1, InitInv, TaskInvStep, PTL DEF DebugSpec

\* Each copy that wireless_debug_process_cb makes is in one place until it is freed,
\* once, or left behind by a deinit; and the task never works without its buffers.
THEOREM CopiesAreInOnePlace == DebugSpec => []CopiesAreHeld
<1>1. TaskInv /\ CopyInv => CopiesAreHeld
  BY DEF TaskInv, CopyInv, CopiesAreHeld
<1> QED BY <1>1, InitInv, TaskInvStep, CopyInvStep, PTL DEF DebugSpec
=============================================================================
