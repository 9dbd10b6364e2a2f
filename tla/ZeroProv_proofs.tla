--------------------------- MODULE ZeroProv_proofs ---------------------------
(***************************************************************************)
(* Proofs about ZeroProv, for any number of devices, members and networks. *)
(***************************************************************************)
EXTENDS ZeroProv, TLAPS

Events == Messages \cup {Sent}

\* A message's type says what kind of message it is.
LEMMA MessageKinds ==
  ASSUME NEW m \in Events
  PROVE  /\ m.type = "SENT" <=> m = Sent
         /\ m.type = "BROADCAST" <=> m \in Broadcasts
         /\ m.type = "INFO" <=> m \in Infos
         /\ m.type \in {"CONFIRM", "ACK"} <=> m \in Replies
  BY DEF Events, Messages, Broadcasts, Infos, Replies, Sent

\* What HandleX takes from the queue, and what stays.
LEMMA Dequeued ==
  ASSUME NEW q \in Seq(Events), q # <<>>
  PROVE  /\ Head(q) \in Events
         /\ Tail(q) \in Seq(Events)
         /\ Len(Tail(q)) <= Len(q)
  OBVIOUS

\* What zero_prov_recv_cb leaves in a queue that has room.
LEMMA Enqueued ==
  ASSUME NEW q \in Seq(Events), NEW m \in Events, Len(q) < QueueSize
  PROVE  /\ Append(q, m) \in Seq(Events)
         /\ Len(Append(q, m)) <= QueueSize
  BY BoundsAssumption

\* TypeOK in three parts, by what an action may change.
AirType == air \subseteq Messages
QueueType ==
  /\ queue \in [Devices -> Seq(Events)]
  /\ \A d \in Devices : Len(queue[d]) <= QueueSize
JoinType ==
  /\ br \in [Devices -> {"null", "idle", "armed"}]
  /\ beat \in [Devices -> {"no", "firing", "dangling", "sent"}]
  /\ resend \in [Devices -> {"null", "stopped", "active"}]
  /\ fails \in [Devices -> 0..MaxFails]
  /\ giveup \in [Devices -> {"no", "stop", "restart"}]
  /\ target \in [Devices -> Devices \cup {None}]
ConfigType ==
  /\ configured \in [Devices -> BOOLEAN]
  /\ cfg \in [Devices -> Networks \cup {None}]
  /\ mesh \in [Devices -> Networks \cup {None}]
  /\ router \in [Devices -> Networks \cup {None}]
  /\ done \in [Devices -> BOOLEAN]
ListenType ==
  /\ up \in [Devices -> BOOLEAN]
  /\ provisioner \in [Devices -> BOOLEAN]
  /\ listen \in [Devices -> BOOLEAN]
  /\ stray \in [Devices -> BOOLEAN]
  /\ fault \in [Devices -> {"none", "freed_buffer", "null_timer"}]

\* TypeOK is its five parts.
LEMMA TypeParts ==
  TypeOK <=> AirType /\ QueueType /\ JoinType /\ ConfigType /\ ListenType
  BY DEF TypeOK, AirType, QueueType, JoinType, ConfigType, ListenType, Events

\* The resend timer runs only when it has been given an address.
HasTarget == \A d \in Devices : resend[d] = "active" => target[d] \in Devices
TInv == AirType /\ QueueType /\ JoinType /\ ConfigType /\ ListenType /\ HasTarget

\* At power-on everything has its type.
LEMMA TypeInit == Init => TInv
  <1> SUFFICES ASSUME Init
               PROVE  TInv
    OBVIOUS
  <1>1. AirType /\ QueueType
    BY BoundsAssumption DEF Init, AirType, QueueType
  <1>2. JoinType /\ HasTarget
    BY BoundsAssumption DEF Init, JoinType, HasTarget
  <1>3. ConfigType
    BY NetworksAssumption, DevicesAssumption DEF Init, ConfigType
  <1>4. ListenType
    BY DEF Init, ListenType
  <1> QED
    BY <1>1, <1>2, <1>3, <1>4 DEF TInv

\* The air and the Wi-Fi task.
LEMMA TypeAir ==
  ASSUME TInv, NEW m \in air,
         Lose(m) \/ \E d \in Devices : Receive(d, m) \/ ReceiveOverflows(d, m)
  PROVE  TInv'
  <1>1. m \in Events /\ air \ {m} \subseteq Messages
    BY DEF TInv, AirType, Events
  <1>2. CASE Lose(m)
    BY <1>1, <1>2 DEF Lose, TInv, AirType, QueueType, JoinType, ConfigType, ListenType,
       HasTarget, joining, config, listening
  <1>3. ASSUME NEW d \in Devices, Receive(d, m)
        PROVE  TInv'
    <2>1. QueueType'
      BY <1>1, <1>3, Enqueued DEF Receive, TInv, QueueType
    <2> QED
      BY <1>1, <1>3, <2>1 DEF Receive, TInv, AirType, JoinType, ConfigType, ListenType,
         HasTarget, joining, config, listening
  <1>4. ASSUME NEW d \in Devices, ReceiveOverflows(d, m)
        PROVE  TInv'
    <2>1. QueueType'
      BY <1>4, BoundsAssumption DEF ReceiveOverflows, TInv, QueueType
    <2> QED
      BY <1>1, <1>4, <2>1 DEF ReceiveOverflows, TInv, AirType, JoinType, ConfigType,
         ListenType, HasTarget, joining, config, listening
  <1> QED
    BY <1>2, <1>3, <1>4

\* A step that ends in a fault.
LEMMA TypePanic ==
  ASSUME TInv, NEW d \in Devices, NEW what \in {"freed_buffer", "null_timer"},
         Panic(d, what)
  PROVE  TInv'
  <1>1. ListenType'
    BY DEF Panic, TInv, ListenType, listening
  <1> QED
    BY <1>1 DEF Panic, TInv, AirType, QueueType, JoinType, ConfigType, HasTarget,
       joining, config, listening

\* The broadcast and its timer.
LEMMA TypeBroadcast ==
  ASSUME TInv, NEW d \in Devices, BrStep(d)
  PROVE  TInv'
  <1>1. CASE BrTimer(d)
    BY <1>1 DEF BrTimer, TInv, AirType, QueueType, JoinType, ConfigType, ListenType,
       HasTarget, config, listening
  <1>2. CASE BrSend(d)
    <2>1. AirType'
      BY <1>2 DEF BrSend, TInv, AirType, Messages, Broadcasts
    <2> QED
      BY <1>2, <2>1 DEF BrSend, TInv, QueueType, JoinType, ConfigType, ListenType,
         HasTarget, config, listening
  <1>3. CASE BrSendFreed(d)
    <2>1. CASE Panic(d, "freed_buffer")
      BY <2>1, TypePanic
    <2>2. CASE /\ beat' = [beat EXCEPT ![d] = "sent"]
               /\ UNCHANGED <<air, up, queue, br, resend, fails, giveup, target,
                              config, listening, fault>>
      BY <2>2 DEF TInv, AirType, QueueType, JoinType, ConfigType, ListenType,
         HasTarget, config, listening
    <2> QED
      BY <1>3, <2>1, <2>2 DEF BrSendFreed
  <1>4. CASE BrSent(d)
    <2>1. QueueType'
      <3>1. Sent \in Events
        BY DEF Events
      <3> QED
        BY <1>4, <3>1, Enqueued DEF BrSent, TInv, QueueType
    <2> QED
      BY <1>4, <2>1 DEF BrSent, TInv, AirType, JoinType, ConfigType, ListenType,
         HasTarget, config, listening
  <1> QED
    BY <1>1, <1>2, <1>3, <1>4 DEF BrStep

\* The resend timer.
LEMMA TypeResend ==
  ASSUME TInv, NEW d \in Devices,
         Resend(d) \/ ResendFails(d) \/ GiveUp(d) \/ Restart(d)
  PROVE  TInv'
  <1>1. CASE Resend(d)
    <2>1. target[d] \in Devices
      BY <1>1 DEF Resend, TInv, HasTarget
    <2>2. AirType'
      BY <1>1, <2>1 DEF Resend, TInv, AirType, Messages, Replies
    <2> QED
      BY <1>1, <2>2 DEF Resend, TInv, QueueType, JoinType, ConfigType, ListenType,
         HasTarget, joining, config, listening
  <1>2. CASE ResendFails(d)
    <2>1. fails' \in [Devices -> 0..MaxFails]
      <3>1. CASE fails[d] < MaxFails
        BY <1>2, <3>1, BoundsAssumption DEF ResendFails, TInv, JoinType
      <3>2. CASE ~(fails[d] < MaxFails)
        BY <1>2, <3>2, BoundsAssumption DEF ResendFails, TInv, JoinType
      <3> QED
        BY <3>1, <3>2
    <2>2. giveup' \in [Devices -> {"no", "stop", "restart"}]
      BY <1>2 DEF ResendFails, TInv, JoinType
    <2> QED
      BY <1>2, <2>1, <2>2 DEF ResendFails, TInv, AirType, QueueType, JoinType,
         ConfigType, ListenType, HasTarget, config, listening
  <1>3. CASE GiveUp(d)
    <2>1. CASE resend[d] = "null"
      BY <1>3, <2>1, TypePanic DEF GiveUp
    <2>2. CASE resend[d] # "null"
      <3>1. /\ Command(d, "stopped")
            /\ giveup' = [giveup EXCEPT ![d] = "restart"]
            /\ UNCHANGED <<air, up, queue, br, beat, fails, target, config,
                           listening, fault>>
        BY <1>3, <2>2, Zenon DEF GiveUp
      <3>2. CASE resend' = [resend EXCEPT ![d] = "stopped"]
        BY <3>1, <3>2 DEF TInv, AirType, QueueType, JoinType, ConfigType, ListenType,
           HasTarget, config, listening
      <3>3. CASE UNCHANGED resend
        BY <3>1, <3>3 DEF TInv, AirType, QueueType, JoinType, ConfigType, ListenType,
           HasTarget, config, listening
      <3> QED
        BY <3>1, <3>2, <3>3 DEF Command
    <2> QED
      BY <2>1, <2>2
  <1>4. CASE Restart(d)
    BY <1>4 DEF Restart, BrStart, TInv, AirType, QueueType, JoinType, ConfigType,
       ListenType, HasTarget, config, listening
  <1> QED
    BY <1>1, <1>2, <1>3, <1>4

\* The manager's events and listening.
LEMMA TypeEvents ==
  ASSUME TInv, NEW d \in Devices,
         ProvStart(d) \/ ProvCredRecv(d) \/ ProvEnd(d) \/ ListenStep(d)
  PROVE  TInv'
  <1>1. CASE ProvStart(d)
    BY <1>1 DEF ProvStart, BrStart, TInv, AirType, QueueType, JoinType, ConfigType,
       ListenType, HasTarget, config, listening
  <1>2. CASE ProvCredRecv(d)
    BY <1>2 DEF ProvCredRecv, BrStop, TInv, AirType, QueueType, JoinType, ConfigType,
       ListenType, HasTarget, listening
  <1>3. CASE ProvEnd(d)
    BY <1>3 DEF ProvEnd, BrStop, TInv, AirType, QueueType, JoinType, ConfigType,
       ListenType, HasTarget, config, listening
  <1>4. CASE Listen(d)
    BY <1>4 DEF Listen, TInv, AirType, QueueType, JoinType, ConfigType, ListenType,
       HasTarget, joining
  <1>5. ASSUME ListeningStop(d), stray' \in [Devices -> BOOLEAN]
        PROVE  TInv'
    <2>1. QueueType'
      BY <1>5, BoundsAssumption DEF ListeningStop, TInv, QueueType
    <2> QED
      BY <1>5, <2>1 DEF ListeningStop, TInv, AirType, JoinType, ConfigType, ListenType,
         HasTarget, joining
  <1>6. CASE ListenExpires(d)
    BY <1>5, <1>6 DEF ListenExpires, TInv, ListenType
  <1>7. CASE ListenStopped(d)
    BY <1>5, <1>7 DEF ListenStopped, TInv, ListenType
  <1>8. CASE StrayExpires(d)
    BY <1>5, <1>8 DEF StrayExpires, TInv, ListenType
  <1> QED
    BY <1>1, <1>2, <1>3, <1>4, <1>6, <1>7, <1>8 DEF ListenStep

\* zero_prov_task.
LEMMA TypeTask ==
  ASSUME TInv, NEW d \in Devices, TaskStep(d)
  PROVE  TInv'
  <1> DEFINE m == Head(queue[d])
  <1>1. /\ queue[d] \in Seq(Events) /\ queue[d] # <<>>
        /\ Len(queue[d]) <= QueueSize
    BY DEF TaskStep, HandleSent, HandleBroadcast, HandleInfoLate, HandleInfo,
       HandleInfoNoMem, HandleConfirm, HandleAck, Handles, TInv, QueueType
  <1>2. m \in Events
    BY <1>1, Dequeued
  <1>3. Dequeue(d) => QueueType'
    BY <1>1, Dequeued, BoundsAssumption DEF Dequeue, TInv, QueueType
  <1> HIDE DEF m
  <1>4. CASE HandleSent(d)
    BY <1>3, <1>4 DEF HandleSent, TInv, AirType, JoinType, ConfigType, ListenType,
       HasTarget, config, listening
  <1>5. CASE HandleBroadcast(d)
    <2>1. m \in Broadcasts
      BY <1>2, <1>5, MessageKinds DEF HandleBroadcast, Handles, m
    <2>2. /\ mesh[d] \in Networks \cup {None}
          /\ router[d] \in Networks \cup {None}
      BY DEF TInv, ConfigType
    <2>3. [type |-> "INFO", from |-> d, to |-> m.from, mesh |-> mesh[d],
           router |-> router[d]] \in Messages
      BY <2>1, <2>2 DEF Messages, Broadcasts, Infos
    <2>4. AirType'
      BY <1>5, <2>3 DEF HandleBroadcast, TInv, AirType, m
    <2> QED
      BY <1>3, <1>5, <2>4 DEF HandleBroadcast, TInv, JoinType, ConfigType, ListenType,
         HasTarget, joining, config, listening
  <1>6. CASE HandleInfoLate(d)
    BY <1>3, <1>6 DEF HandleInfoLate, Drop, TInv, AirType, JoinType, ConfigType, ListenType,
       HasTarget, joining, config, listening
  <1>7. CASE HandleInfo(d)
    <2>1. m \in Infos
      BY <1>2, <1>7, MessageKinds DEF HandleInfo, Handles, m
    <2>2. /\ m.from \in Devices
          /\ m.mesh \in Networks \cup {None}
          /\ m.router \in Networks \cup {None}
      BY <2>1 DEF Infos
    <2>3. AirType'
      <3>1. [type |-> "CONFIRM", from |-> d, to |-> m.from] \in Messages
        BY <2>2 DEF Messages, Replies
      <3> QED
        BY <1>7, <3>1 DEF HandleInfo, TInv, AirType, m
    <2>4. JoinType' /\ HasTarget'
      BY <1>7, <2>2 DEF HandleInfo, BrStop, Command, TInv, JoinType, HasTarget, m
    <2>5. ConfigType'
      BY <1>7, <2>2 DEF HandleInfo, TInv, ConfigType, m
    <2> QED
      BY <1>3, <1>7, <2>3, <2>4, <2>5 DEF HandleInfo, TInv, ListenType, listening
  <1>8. CASE HandleInfoNoMem(d)
    BY <1>3, <1>8 DEF HandleInfoNoMem, BrStop, TInv, AirType, JoinType, ConfigType,
       ListenType, HasTarget, config, listening
  <1>9. CASE HandleConfirm(d)
    <2>1. m \in Replies
      BY <1>2, <1>9, MessageKinds DEF HandleConfirm, Handles, m
    <2>2. [type |-> "ACK", from |-> d, to |-> m.from] \in Messages
      BY <2>1 DEF Messages, Replies
    <2>3. AirType'
      BY <1>9, <2>2 DEF HandleConfirm, TInv, AirType, m
    <2> QED
      BY <1>3, <1>9, <2>3 DEF HandleConfirm, TInv, JoinType, ConfigType, ListenType,
         HasTarget, joining, config, listening
  <1>10. CASE HandleAck(d)
    <2>1. QueueType'
      BY <1>10, BoundsAssumption DEF HandleAck, TInv, QueueType
    <2>2. ConfigType'
      BY <1>10 DEF HandleAck, TInv, ConfigType
    <2> QED
      BY <1>10, <2>1, <2>2 DEF HandleAck, TInv, AirType, JoinType, ListenType,
         HasTarget, listening
  <1> QED
    BY <1>4, <1>5, <1>6, <1>7, <1>8, <1>9, <1>10 DEF TaskStep

\* Every step keeps the types.
LEMMA TypeStep == TInv /\ [Next]_vars => TInv'
  <1> SUFFICES ASSUME TInv, [Next]_vars
               PROVE  TInv'
    OBVIOUS
  <1>1. CASE UNCHANGED vars
    BY <1>1 DEF vars, joining, config, listening, TInv, AirType, QueueType, JoinType,
       ConfigType, ListenType, HasTarget
  <1> QED
    BY <1>1, TypeAir, TypeTask, TypeBroadcast, TypeResend, TypeEvents DEF Next

\* For any number of devices that join, answer and listen at a time, with every
\* queue overflowing and every allocation failing, no queue of zero_prov_task is
\* longer than it was made, no counter of failures exceeds its bound, and
\* every message names devices and networks there are.
THEOREM ZeroTypeCorrect == Spec => []TypeOK
  <1>1. TInv => TypeOK
    BY TypeParts DEF TInv
  <1> QED
    BY TypeInit, TypeStep, <1>1, PTL DEF Spec

-----------------------------------------------------------------------------
(* A device joins a whole network. The invariant says of every message     *)
(* what it may rely on: an INFO names the mesh of its router, a CONFIRM    *)
(* comes from a new device that has a mesh id, an ACK goes to one.         *)

Held == {d \in New : mesh[d] # None}
Good(H) == {m \in Events : /\ m.type = "INFO" => m.router # None /\ m.router = m.mesh
                           /\ m.type = "CONFIRM" => m.from \in H
                           /\ m.type = "ACK" => m.to \in H}
Mine(d, H) == {m \in Good(H) : m.type = "ACK" => m.to = d}

AirInv == air \subseteq Good(Held)
QueueInv == \A d \in Devices : queue[d] \in Seq(Mine(d, Held))

Whole(d) == router[d] # None /\ router[d] = mesh[d]
DeviceInv ==
  \A d \in Devices :
    /\ d \in Members => resend[d] = "null" /\ Whole(d)
    /\ d \in New /\ done[d] => resend[d] = "null" /\ Whole(d)
    /\ d \in New /\ ~done[d] => router[d] = None /\ (up[d] => cfg[d] = mesh[d])
    /\ provisioner[d] => router[d] # None
    /\ resend[d] = "active" => mesh[d] # None

WInv == TInv /\ AirInv /\ QueueInv /\ DeviceInv

\* At power-on members are whole and new devices have nothing.
LEMMA WholeInit == Init => WInv
  <1> SUFFICES ASSUME Init
               PROVE  WInv
    OBVIOUS
  <1>1. AirInv /\ QueueInv
    BY DEF Init, AirInv, QueueInv
  <1>2. DeviceInv
    BY NetworksAssumption, DevicesAssumption DEF Init, DeviceInv, Whole, New
  <1> QED
    BY <1>1, <1>2, TypeInit DEF WInv

\* A message that is good stays so when more devices have a mesh id.
LEMMA GoodGrows ==
  ASSUME NEW H, NEW K, H \subseteq K
  PROVE  /\ Good(H) \subseteq Good(K)
         /\ \A d : Mine(d, H) \subseteq Mine(d, K)
  BY DEF Good, Mine

\* The same for the messages in a queue.
LEMMA SeqGrows ==
  ASSUME NEW S, NEW T, S \subseteq T, NEW q \in Seq(S)
  PROVE  q \in Seq(T)
  OBVIOUS

\* Good messages stay when the first is taken.
LEMMA SeqTail ==
  ASSUME NEW S, NEW q \in Seq(S), q # <<>>
  PROVE  Head(q) \in S /\ Tail(q) \in Seq(S)
  OBVIOUS

\* Good messages stay when a good one is added.
LEMMA SeqAppend ==
  ASSUME NEW S, NEW q \in Seq(S), NEW m \in S
  PROVE  Append(q, m) \in Seq(S)
  OBVIOUS

\* Steps that change no configuration.
Settled == UNCHANGED <<up, cfg, mesh, router, done, provisioner>>

\* What DeviceInv says of a device that is left alone.
LEMMA DeviceStays ==
  ASSUME DeviceInv, Settled, UNCHANGED resend
  PROVE  DeviceInv'
  BY DEF DeviceInv, Settled, Whole

\* Held depends on the mesh ids only.
LEMMA HeldStays == ASSUME UNCHANGED mesh PROVE Held' = Held
  BY DEF Held

\* The air and the Wi-Fi task.
LEMMA WholeAir ==
  ASSUME WInv, NEW m \in air,
         Lose(m) \/ \E d \in Devices : Receive(d, m) \/ ReceiveOverflows(d, m)
  PROVE  AirInv' /\ QueueInv' /\ DeviceInv'
  <1>1. Settled /\ UNCHANGED resend /\ air' \subseteq air
    BY DEF Lose, Receive, ReceiveOverflows, Settled, joining, config, listening
  <1>2. Held' = Held
    BY <1>1, HeldStays DEF Settled
  <1>3. AirInv' /\ DeviceInv'
    <2>1. DeviceInv'
      BY <1>1, DeviceStays DEF WInv
    <2>2. AirInv'
      BY <1>1, <1>2 DEF WInv, AirInv
    <2> QED
      BY <2>1, <2>2
  <1>4. QueueInv'
    <2>1. CASE Lose(m)
      BY <1>2, <2>1 DEF Lose, WInv, QueueInv
    <2>2. ASSUME NEW d \in Devices, Receive(d, m)
          PROVE  QueueInv'
      <3>1. m \in Mine(d, Held)
        BY <2>2 DEF Receive, Heard, WInv, AirInv, Mine
      <3>2. Append(queue[d], m) \in Seq(Mine(d, Held))
        BY <3>1, SeqAppend DEF WInv, QueueInv
      <3>3. queue' = [queue EXCEPT ![d] = Append(queue[d], m)]
        BY <2>2 DEF Receive
      <3> QED
        BY <1>2, <3>2, <3>3 DEF WInv, QueueInv, TInv, QueueType
    <2>3. ASSUME NEW d \in Devices, ReceiveOverflows(d, m)
          PROVE  QueueInv'
      BY <1>2, <2>3 DEF ReceiveOverflows, WInv, QueueInv, TInv, QueueType
    <2> QED
      BY <2>1, <2>2, <2>3
  <1> QED
    BY <1>3, <1>4

\* The timers: a CONFIRM that is repeated comes from a device with a mesh id.
LEMMA WholeTimers ==
  ASSUME WInv, NEW d \in Devices,
         BrStep(d) \/ Resend(d) \/ ResendFails(d) \/ GiveUp(d) \/ Restart(d)
  PROVE  AirInv' /\ QueueInv' /\ DeviceInv'
  <1>1. Settled
    BY DEF BrStep, BrTimer, BrSend, BrSendFreed, BrSent, Resend, ResendFails, GiveUp,
       Restart, Panic, Settled, joining, config, listening
  <1>2. Held' = Held
    BY <1>1, HeldStays DEF Settled
  <1>3. DeviceInv'
    <2>1. CASE GiveUp(d)
      <3>1. CASE resend[d] = "null"
        <4>1. UNCHANGED resend
          BY <2>1, <3>1, Zenon DEF GiveUp, Panic, joining
        <4> QED
          BY <1>1, <4>1, DeviceStays DEF WInv
      <3>2. CASE resend[d] # "null"
        <4>1. Command(d, "stopped")
          BY <2>1, <3>2, Zenon DEF GiveUp
        <4> QED
          BY <1>1, <3>2, <4>1 DEF Command, WInv, TInv, JoinType, DeviceInv, Settled, Whole
      <3> QED
        BY <3>1, <3>2
    <2>2. CASE ~GiveUp(d)
      <3>1. UNCHANGED resend
        BY <2>2 DEF BrStep, BrTimer, BrSend, BrSendFreed, BrSent, Resend, ResendFails,
           Restart, Panic, joining
      <3> QED
        BY <1>1, <3>1, DeviceStays DEF WInv
    <2> QED
      BY <2>1, <2>2
  <1>4. AirInv'
    <2>1. CASE BrSend(d)
      <3>1. [type |-> "BROADCAST", from |-> d] \in Good(Held)
        BY DEF Good, Events, Messages, Broadcasts
      <3> QED
        BY <1>2, <2>1, <3>1 DEF BrSend, WInv, AirInv
    <2>2. CASE Resend(d)
      <3>1. target[d] \in Devices /\ d \in Held
        BY <2>2 DEF Resend, WInv, TInv, HasTarget, DeviceInv, Held, New
      <3>2. [type |-> "CONFIRM", from |-> d, to |-> target[d]] \in Good(Held)
        BY <3>1 DEF Good, Events, Messages, Replies
      <3> QED
        BY <1>2, <2>2, <3>2 DEF Resend, WInv, AirInv
    <2>3. CASE BrTimer(d) \/ BrSendFreed(d) \/ BrSent(d) \/ ResendFails(d) \/ GiveUp(d)
                 \/ Restart(d)
      <3>1. UNCHANGED air
        BY <2>3 DEF BrTimer, BrSendFreed, BrSent, ResendFails, GiveUp, Restart, Panic
      <3> QED
        BY <1>2, <3>1 DEF WInv, AirInv
    <2> QED
      BY <2>1, <2>2, <2>3 DEF BrStep
  <1>5. QueueInv'
    <2>1. CASE BrSent(d)
      <3>1. Sent \in Mine(d, Held)
        BY DEF Mine, Good, Events, Sent
      <3>2. Append(queue[d], Sent) \in Seq(Mine(d, Held))
        BY <3>1, SeqAppend DEF WInv, QueueInv
      <3> QED
        BY <1>2, <2>1, <3>2 DEF BrSent, WInv, QueueInv, TInv, QueueType
    <2>2. CASE BrTimer(d) \/ BrSend(d) \/ BrSendFreed(d) \/ Resend(d) \/ ResendFails(d)
                 \/ GiveUp(d) \/ Restart(d)
      <3>1. UNCHANGED queue
        BY <2>2 DEF BrTimer, BrSend, BrSendFreed, Resend, ResendFails, GiveUp, Restart,
           Panic
      <3> QED
        BY <1>2, <3>1 DEF WInv, QueueInv
    <2> QED
      BY <2>1, <2>2 DEF BrStep
  <1> QED
    BY <1>3, <1>4, <1>5

\* Taking an event out of a queue.
LEMMA WholeDequeue ==
  ASSUME WInv, NEW d \in Devices, Dequeue(d), queue[d] # <<>>, Held \subseteq Held'
  PROVE  QueueInv'
  <1>1. Tail(queue[d]) \in Seq(Mine(d, Held))
    BY SeqTail DEF WInv, QueueInv
  <1>2. \A e \in Devices : queue'[e] \in Seq(Mine(e, Held))
    BY <1>1 DEF Dequeue, WInv, QueueInv, TInv, QueueType
  <1>3. \A e \in Devices : Mine(e, Held) \subseteq Mine(e, Held')
    BY GoodGrows
  <1> QED
    BY <1>2, <1>3, SeqGrows DEF QueueInv

\* zero_prov_task.
LEMMA WholeTask ==
  ASSUME WInv, NEW d \in Devices, TaskStep(d)
  PROVE  AirInv' /\ QueueInv' /\ DeviceInv'
  <1> DEFINE m == Head(queue[d])
  <1>1. queue[d] # <<>> /\ up[d]
    BY DEF TaskStep, HandleSent, HandleBroadcast, HandleInfoLate, HandleInfo,
       HandleInfoNoMem, HandleConfirm, HandleAck, Handles
  <1>2. m \in Mine(d, Held) /\ m \in Events
    BY <1>1, SeqTail DEF WInv, QueueInv, Mine, Good
  <1> HIDE DEF m
  <1>3. CASE HandleSent(d) \/ HandleInfoLate(d) \/ HandleInfoNoMem(d)
    <2>1. Settled /\ UNCHANGED resend /\ UNCHANGED air /\ Dequeue(d)
      BY <1>3 DEF HandleSent, HandleInfoLate, HandleInfoNoMem, Drop, Settled, joining,
         config, listening
    <2>2. Held' = Held
      BY <2>1, HeldStays DEF Settled
    <2>3. QueueInv'
      BY <1>1, <2>1, <2>2, WholeDequeue
    <2>4. DeviceInv'
      BY <2>1, DeviceStays DEF WInv
    <2> QED
      BY <2>1, <2>2, <2>3, <2>4 DEF WInv, AirInv
  <1>4. CASE HandleBroadcast(d)
    <2>1. Settled /\ UNCHANGED resend /\ Dequeue(d)
      BY <1>4 DEF HandleBroadcast, Settled, joining, config, listening
    <2>2. Held' = Held
      BY <2>1, HeldStays DEF Settled
    <2>3. QueueInv'
      BY <1>1, <2>1, <2>2, WholeDequeue
    <2>4. DeviceInv'
      BY <2>1, DeviceStays DEF WInv
    <2>5. AirInv'
      <3>1. CASE UNCHANGED air
        BY <2>2, <3>1 DEF WInv, AirInv
      <3>2. CASE /\ provisioner[d]
                 /\ air' = air \cup {[type |-> "INFO", from |-> d, to |-> m.from,
                                      mesh |-> mesh[d], router |-> router[d]]}
        <4>1. Whole(d)
          BY <3>2 DEF WInv, DeviceInv, New, Whole
        <4>2. m \in Broadcasts
          BY <1>2, <1>4, MessageKinds DEF HandleBroadcast, Handles, m
        <4>3. /\ mesh[d] \in Networks \cup {None}
              /\ router[d] \in Networks \cup {None}
          BY DEF WInv, TInv, ConfigType
        <4>4. [type |-> "INFO", from |-> d, to |-> m.from, mesh |-> mesh[d],
               router |-> router[d]] \in Good(Held)
          BY <4>1, <4>2, <4>3 DEF Good, Events, Messages, Infos, Broadcasts, Whole
        <4> QED
          BY <2>2, <3>2, <4>4 DEF WInv, AirInv
      <3> QED
        BY <1>4, <3>1, <3>2 DEF HandleBroadcast, m
    <2> QED
      BY <2>3, <2>4, <2>5
  <1>5. CASE HandleInfo(d)
    <2>1. m \in Infos /\ m.router # None /\ m.router = m.mesh
      BY <1>2, <1>5, MessageKinds DEF HandleInfo, Handles, Mine, Good, m
    <2>2. resend[d] # "null"
      BY <1>5 DEF HandleInfo
    <2>3. d \in New /\ ~done[d] /\ router[d] = None
      BY <2>2 DEF WInv, DeviceInv, New
    <2>4. /\ mesh' = [mesh EXCEPT ![d] = m.mesh]
          /\ cfg' = [cfg EXCEPT ![d] = m.router]
          /\ Command(d, "active")
          /\ air' = air \cup {[type |-> "CONFIRM", from |-> d, to |-> m.from]}
          /\ Dequeue(d)
          /\ UNCHANGED <<up, router, done, provisioner>>
      BY <1>5 DEF HandleInfo, listening, m
    <2>5. Held \subseteq Held' /\ d \in Held'
      BY <2>1, <2>3, <2>4 DEF Held, WInv, TInv, ConfigType
    <2>6. QueueInv'
      BY <1>1, <2>4, <2>5, WholeDequeue
    <2>7. AirInv'
      <3>1. [type |-> "CONFIRM", from |-> d, to |-> m.from] \in Good(Held')
        BY <2>1, <2>5 DEF Good, Events, Messages, Replies, Infos
      <3>2. Good(Held) \subseteq Good(Held')
        BY <2>5, GoodGrows
      <3> QED
        BY <2>4, <3>1, <3>2 DEF WInv, AirInv
    <2>8. DeviceInv'
      <3>1. d \notin Members
        BY <2>3 DEF New
      <3> QED
        BY <2>1, <2>2, <2>3, <2>4, <3>1 DEF Command, WInv, TInv, ConfigType, JoinType,
           DeviceInv, Whole
    <2> QED
      BY <2>6, <2>7, <2>8
  <1>6. CASE HandleConfirm(d)
    <2>1. Settled /\ UNCHANGED resend /\ Dequeue(d)
      BY <1>6 DEF HandleConfirm, Settled, joining, config, listening
    <2>2. Held' = Held
      BY <2>1, HeldStays DEF Settled
    <2>3. QueueInv'
      BY <1>1, <2>1, <2>2, WholeDequeue
    <2>4. DeviceInv'
      BY <2>1, DeviceStays DEF WInv
    <2>5. AirInv'
      <3>1. m.from \in Held /\ m \in Replies
        BY <1>2, <1>6, MessageKinds DEF HandleConfirm, Handles, Mine, Good, m
      <3>2. [type |-> "ACK", from |-> d, to |-> m.from] \in Good(Held)
        BY <3>1 DEF Good, Events, Messages, Replies
      <3> QED
        BY <1>6, <2>2, <3>2 DEF HandleConfirm, WInv, AirInv, m
    <2> QED
      BY <2>3, <2>4, <2>5
  <1>7. CASE HandleAck(d)
    <2>1. d \in Held
      BY <1>2, <1>7 DEF HandleAck, Handles, Mine, Good, m
    <2>2. d \in New /\ d \notin Members /\ mesh[d] # None
      BY <2>1 DEF Held, New
    <2>3. UNCHANGED <<air, up, cfg, mesh, provisioner>>
      BY <1>7 DEF HandleAck, listening
    <2>4. Held' = Held
      BY <2>3, HeldStays
    <2>5. AirInv' /\ QueueInv'
      BY <1>7, <2>3, <2>4 DEF HandleAck, WInv, AirInv, QueueInv, TInv, QueueType
    <2>6. /\ resend' = [resend EXCEPT ![d] = "null"]
          /\ router' = [router EXCEPT ![d] = IF done[d] THEN @ ELSE cfg[d]]
          /\ done' = [done EXCEPT ![d] = TRUE]
      BY <1>7 DEF HandleAck
    <2>7. Whole(d)'
      <3>1. CASE done[d]
        BY <2>2, <2>3, <2>6, <3>1 DEF WInv, TInv, ConfigType, DeviceInv, Whole
      <3>2. CASE ~done[d]
        BY <1>1, <2>2, <2>3, <2>6, <3>2 DEF WInv, TInv, ConfigType, DeviceInv, Whole
      <3> QED
        BY <3>1, <3>2
    <2>8. DeviceInv'
      BY <2>2, <2>3, <2>6, <2>7 DEF WInv, TInv, ConfigType, JoinType, DeviceInv, Whole
    <2> QED
      BY <2>5, <2>8
  <1> QED
    BY <1>3, <1>4, <1>5, <1>6, <1>7 DEF TaskStep

\* The manager's events and listening.
LEMMA WholeEvents ==
  ASSUME Users = {}, WInv, NEW d \in Devices,
         ProvStart(d) \/ ProvCredRecv(d) \/ ProvEnd(d) \/ ListenStep(d)
  PROVE  AirInv' /\ QueueInv' /\ DeviceInv'
  <1>1. CASE ProvStart(d)
    <2>1. Settled /\ UNCHANGED <<resend, air, queue>>
      BY <1>1 DEF ProvStart, Settled, config, listening
    <2>2. Held' = Held
      BY <2>1, HeldStays DEF Settled
    <2>3. DeviceInv'
      BY <2>1, DeviceStays DEF WInv
    <2> QED
      BY <2>1, <2>2, <2>3 DEF WInv, AirInv, QueueInv
  <1>2. ~ProvCredRecv(d) /\ ~ProvEnd(d)
    BY DEF ProvCredRecv, ProvEnd
  <1>3. CASE Listen(d)
    <2>1. UNCHANGED <<air, queue, mesh, router, done, resend>>
      BY <1>3 DEF Listen, joining
    <2>2. Held' = Held
      BY <2>1, HeldStays
    <2>3. DeviceInv'
      <3>1. router[d] # None
        BY <1>3 DEF Listen
      <3>2. d \in New => done[d]
        BY <3>1 DEF WInv, DeviceInv
      <3> QED
        BY <1>3, <2>1, <3>1, <3>2 DEF Listen, WInv, TInv, ListenType, ConfigType, DeviceInv, Whole
    <2> QED
      BY <2>1, <2>2, <2>3 DEF WInv, AirInv, QueueInv
  <1>4. ASSUME ListeningStop(d)
        PROVE  AirInv' /\ QueueInv' /\ DeviceInv'
    <2>1. /\ UNCHANGED <<air, mesh, router, done, resend>>
          /\ queue' = [queue EXCEPT ![d] = <<>>]
          /\ up' = [up EXCEPT ![d] = FALSE]
          /\ provisioner' = [provisioner EXCEPT ![d] = FALSE]
          /\ cfg' = [cfg EXCEPT ![d] = IF up[d] THEN None ELSE @]
      BY <1>4 DEF ListeningStop, joining
    <2>2. Held' = Held
      BY <2>1, HeldStays
    <2>3. AirInv' /\ QueueInv'
      BY <2>1, <2>2 DEF WInv, AirInv, QueueInv, TInv, QueueType
    <2>4. DeviceInv'
      BY <2>1 DEF WInv, TInv, ListenType, ConfigType, DeviceInv, Whole
    <2> QED
      BY <2>3, <2>4
  <1>5. CASE ListenExpires(d) \/ ListenStopped(d) \/ StrayExpires(d)
    BY <1>4, <1>5 DEF ListenExpires, ListenStopped, StrayExpires
  <1> QED
    BY <1>1, <1>2, <1>3, <1>5 DEF ListenStep

\* Every step keeps the invariant when no user provisions.
LEMMA WholeStep ==
  ASSUME Users = {}, WInv, [Next]_vars
  PROVE  WInv'
  <1>1. TInv'
    BY TypeStep DEF WInv
  <1>2. AirInv' /\ QueueInv' /\ DeviceInv'
    <2>1. CASE UNCHANGED vars
      <3>1. Settled /\ UNCHANGED <<resend, air, queue>>
        BY <2>1 DEF vars, Settled, joining, config, listening
      <3>2. Held' = Held
        BY <3>1, HeldStays DEF Settled
      <3>3. DeviceInv'
        BY <3>1, DeviceStays DEF WInv
      <3> QED
        BY <3>1, <3>2, <3>3 DEF WInv, AirInv, QueueInv
    <2> QED
      BY <2>1, WholeAir, WholeTask, WholeTimers, WholeEvents DEF Next
  <1> QED
    BY <1>1, <1>2 DEF WInv

\* If no user provisions the new devices meanwhile, a device that has joined has
\* the router and the mesh of one network: for any number of members of any
\* number of networks that answer it, and however their messages are lost, late
\* and mixed, also when queues overflow, allocations fail and listening stops.
THEOREM JoinedIsWhole == ASSUME Users = {} PROVE Spec => []WholeConfig
  <1>1. WInv => WholeConfig
    BY DEF WInv, DeviceInv, Whole, WholeConfig, New
  <1>2. WInv /\ [Next]_vars => WInv'
    BY WholeStep
  <1> QED
    BY WholeInit, <1>1, <1>2, PTL DEF Spec

-----------------------------------------------------------------------------
(* The broadcast goes on.                                                  *)

\* What is in a queue stays there when something is added, and when another
\* event is taken.
LEMMA StaysInQueue ==
  ASSUME NEW q \in Seq(Events), NEW e \in Range(q), NEW m \in Events
  PROVE  /\ e \in Range(Append(q, m))
         /\ q # <<>> /\ Head(q) # e => e \in Range(Tail(q))
  <1>1. PICK i \in 1..Len(q) : q[i] = e
    BY DEF Range
  <1>2. e \in Range(Append(q, m))
    <2>1. i \in DOMAIN Append(q, m) /\ Append(q, m)[i] = q[i]
      BY <1>1
    <2> QED
      BY <1>1, <2>1 DEF Range
  <1>3. ASSUME q # <<>>, Head(q) # e
        PROVE  e \in Range(Tail(q))
    <2>1. i # 1
      BY <1>1, <1>3
    <2>2. i - 1 \in DOMAIN Tail(q) /\ Tail(q)[i - 1] = q[i]
      BY <1>1, <1>3, <2>1
    <2> QED
      BY <1>1, <2>2 DEF Range
  <1> QED
    BY <1>2, <1>3

\* What is added to a queue is in it.
LEMMA AddedToQueue ==
  ASSUME NEW q \in Seq(Events), NEW m \in Events
  PROVE  m \in Range(Append(q, m))
  <1>1. Len(q) + 1 \in DOMAIN Append(q, m) /\ Append(q, m)[Len(q) + 1] = m
    OBVIOUS
  <1> QED
    BY <1>1 DEF Range

\* BroadcastGoesOn for one device.
Beating(d) == br[d] = "armed" \/ beat[d] # "no" \/ Sent \in Range(queue[d])
Searching(d) == Alive(d) /\ up[d] /\ ~done[d] /\ br[d] # "null"
GoesOn == \A d \in New : Searching(d) => Beating(d)

GInv == TInv /\ GoesOn

\* A step that does nothing to the broadcast of a device, and does not let it
\* search again.
LEMMA StillGoesOn ==
  ASSUME GoesOn, NEW d \in New, Searching(d)' => Searching(d),
         \/ br'[d] = "armed" \/ beat'[d] # "no"
         \/ /\ br[d] = "armed" => br'[d] = "armed"
            /\ beat[d] # "no" => beat'[d] # "no"
            /\ Sent \in Range(queue[d]) => Sent \in Range(queue'[d])
  PROVE  Searching(d)' => Beating(d)'
  BY DEF GoesOn, Beating

\* One device at a time: the others keep what they have.
Apart(d) ==
  \A e \in New \ {d} :
    /\ br'[e] = br[e] /\ beat'[e] = beat[e] /\ queue'[e] = queue[e]
    /\ up'[e] = up[e] /\ fault'[e] = fault[e] /\ done'[e] = done[e]

LEMMA OthersGoOn ==
  ASSUME GoesOn, NEW d, Apart(d), d \in New => (Searching(d)' => Beating(d)')
  PROVE  GoesOn'
  <1> SUFFICES ASSUME NEW e \in New
               PROVE  Searching(e)' => Beating(e)'
    BY DEF GoesOn
  <1>1. CASE e = d
    BY <1>1
  <1>2. CASE e # d
    BY <1>2 DEF Apart, GoesOn, Searching, Beating, Alive
  <1> QED
    BY <1>1, <1>2

\* zero_prov_recv_cb adds an event; it empties no queue when none stays full.
LEMMA AirGoesOn ==
  ASSUME ~StaysFull, TInv, GoesOn, NEW m \in air,
         Lose(m) \/ \E d \in Devices : Receive(d, m) \/ ReceiveOverflows(d, m)
  PROVE  GoesOn'
  <1>1. CASE Lose(m)
    BY <1>1 DEF Lose, joining, config, listening, GoesOn, Searching, Beating, Alive
  <1>2. ASSUME NEW d \in Devices, Receive(d, m)
        PROVE  GoesOn'
    <2>1. /\ queue' = [queue EXCEPT ![d] = Append(queue[d], m)]
          /\ UNCHANGED <<br, beat, up, fault, done>>
      BY <1>2 DEF Receive, joining, config
    <2>2. m \in Events /\ queue[d] \in Seq(Events)
      BY DEF TInv, AirType, QueueType, Events
    <2>3. Apart(d)
      BY <2>1, <2>2 DEF Apart, TInv, QueueType
    <2>4. Sent \in Range(queue[d]) => Sent \in Range(queue'[d])
      BY <2>1, <2>2, StaysInQueue DEF TInv, QueueType
    <2>5. Searching(d)' => Searching(d)
      BY <2>1 DEF Searching, Alive
    <2>6. d \in New => (Searching(d)' => Beating(d)')
      BY <2>1, <2>4, <2>5, StillGoesOn
    <2> QED
      BY <2>3, <2>6, OthersGoOn
  <1> QED
    BY <1>1, <1>2 DEF ReceiveOverflows

\* The timer, the callback and the event that arms the timer again take turns.
LEMMA BeatGoesOn ==
  ASSUME ~StaysFull, TInv, GoesOn, NEW d \in Devices, BrStep(d)
  PROVE  GoesOn'
  <1>1. CASE BrTimer(d)
    <2>1. /\ br' = [br EXCEPT ![d] = "idle"] /\ beat' = [beat EXCEPT ![d] = "firing"]
          /\ UNCHANGED <<queue, up, fault, done>>
      BY <1>1 DEF BrTimer, config
    <2>2. Apart(d) /\ beat'[d] # "no"
      BY <2>1 DEF Apart, TInv, JoinType
    <2> QED
      BY <2>2, OthersGoOn DEF Beating
  <1>2. CASE BrSend(d) \/ (BrSendFreed(d) /\ beat' = [beat EXCEPT ![d] = "sent"])
    <2>1. beat' = [beat EXCEPT ![d] = "sent"] /\ beat[d] # "no"
      BY <1>2 DEF BrSend, BrSendFreed
    <2>2. beat'[d] = "sent" /\ \A e \in Devices \ {d} : beat'[e] = beat[e]
      BY <2>1 DEF TInv, JoinType
    <2>3. /\ beat[d] # "no" /\ beat'[d] # "no"
          /\ UNCHANGED <<br, queue, up, fault, done>>
      <3>1. CASE BrSend(d)
        BY <2>1, <2>2, <3>1 DEF BrSend, config
      <3>2. CASE BrSendFreed(d)
        <4>1. ~Panic(d, "freed_buffer")
          <5>1. beat[d] = "dangling"
            BY <3>2 DEF BrSendFreed
          <5> QED
            BY <2>2, <5>1 DEF Panic, joining
        <4> QED
          BY <2>1, <2>2, <3>2, <4>1 DEF BrSendFreed, config
      <3> QED
        BY <1>2, <3>1, <3>2
    <2>4. Apart(d)
      BY <2>2, <2>3 DEF Apart, New
    <2> QED
      BY <2>3, <2>4, OthersGoOn DEF Beating
  <1>3. CASE Panic(d, "freed_buffer")
    <2>1. /\ fault' = [fault EXCEPT ![d] = "freed_buffer"]
          /\ UNCHANGED <<br, beat, queue, up, done>>
      BY <1>3 DEF Panic, joining, config
    <2>2. Apart(d) /\ ~Alive(d)'
      BY <2>1 DEF Apart, Alive, TInv, ListenType
    <2> QED
      BY <2>2, OthersGoOn DEF Searching
  <1>4. CASE BrSent(d)
    <2>1. /\ beat' = [beat EXCEPT ![d] = "no"]
          /\ \/ up[d] /\ queue' = [queue EXCEPT ![d] = Append(queue[d], Sent)]
             \/ ~up[d] /\ UNCHANGED queue
          /\ UNCHANGED <<br, up, fault, done>>
      BY <1>4 DEF BrSent, config
    <2>2. Apart(d)
      BY <2>1 DEF Apart, TInv, JoinType, QueueType, New
    <2>3. CASE ~up[d]
      BY <2>1, <2>2, <2>3, OthersGoOn DEF Searching
    <2>4. CASE up[d]
      <3>1. queue'[d] = Append(queue[d], Sent) /\ queue[d] \in Seq(Events)
        BY <2>1, <2>4 DEF TInv, QueueType
      <3>2. Sent \in Range(queue'[d])
        BY <3>1, AddedToQueue DEF Events
      <3> QED
        BY <2>2, <3>2, OthersGoOn DEF Beating
    <2> QED
      BY <2>3, <2>4
  <1> QED
    BY <1>1, <1>2, <1>3, <1>4 DEF BrStep, BrSendFreed

\* zero_prov_task: what arms the timer again is not lost with another event, and
\* whoever empties the queue has joined, or stops the broadcast.
LEMMA TaskGoesOn ==
  ASSUME TInv, GoesOn, NEW d \in Devices, TaskStep(d)
  PROVE  GoesOn'
  <1>1. queue[d] \in Seq(Events)
    BY DEF TInv, QueueType
  <1>2. CASE HandleSent(d)
    <2>1. /\ br' = [br EXCEPT ![d] = IF @ = "idle" THEN "armed" ELSE @]
          /\ queue' = [queue EXCEPT ![d] = Tail(@)]
          /\ UNCHANGED <<beat, up, fault, done>>
      BY <1>2 DEF HandleSent, Dequeue, config
    <2>2. Apart(d) /\ br'[d] \in {"armed", "null"}
      BY <2>1 DEF Apart, TInv, JoinType, QueueType, New
    <2> QED
      BY <2>2, OthersGoOn DEF Beating, Searching
  <1>3. CASE HandleBroadcast(d) \/ HandleInfoLate(d) \/ HandleConfirm(d)
    <2>1. /\ queue' = [queue EXCEPT ![d] = Tail(@)]
          /\ UNCHANGED <<br, beat, up, fault, done>>
          /\ queue[d] # <<>> /\ Head(queue[d]).type # "SENT"
      BY <1>3 DEF HandleBroadcast, HandleInfoLate, HandleConfirm, Drop, Dequeue,
         Handles, joining, config
    <2>2. Head(queue[d]) # Sent
      BY <2>1 DEF Sent
    <2>3. queue'[d] = Tail(queue[d])
      BY <2>1 DEF TInv, QueueType
    <2>4. Sent \in Range(queue[d]) => Sent \in Range(queue'[d])
      BY <1>1, <2>1, <2>2, <2>3, StaysInQueue DEF Events
    <2>5. Apart(d)
      BY <2>1 DEF Apart, TInv, QueueType, New
    <2>6. Searching(d)' => Searching(d)
      BY <2>1 DEF Searching, Alive
    <2>7. d \in New => (Searching(d)' => Beating(d)')
      BY <2>1, <2>4, <2>6, StillGoesOn
    <2> QED
      BY <2>5, <2>7, OthersGoOn
  <1>4. CASE HandleInfo(d) \/ HandleInfoNoMem(d)
    <2>1. /\ br' = [br EXCEPT ![d] = "null"]
          /\ beat' = [beat EXCEPT ![d] = IF @ = "firing" THEN "dangling" ELSE @]
          /\ queue' = [queue EXCEPT ![d] = Tail(@)]
          /\ UNCHANGED <<up, fault, done>>
      BY <1>4 DEF HandleInfo, HandleInfoNoMem, BrStop, Dequeue, config
    <2>2. Apart(d) /\ br'[d] = "null"
      BY <2>1 DEF Apart, TInv, JoinType, QueueType, New
    <2> QED
      BY <2>2, OthersGoOn DEF Searching
  <1>5. CASE HandleAck(d)
    <2>1. /\ queue' = [queue EXCEPT ![d] = <<>>] /\ done' = [done EXCEPT ![d] = TRUE]
          /\ UNCHANGED <<br, beat, up, fault>>
      BY <1>5 DEF HandleAck
    <2>2. Apart(d) /\ done'[d]
      BY <2>1 DEF Apart, TInv, ConfigType, QueueType, New
    <2> QED
      BY <2>2, OthersGoOn DEF Searching
  <1> QED
    BY <1>2, <1>3, <1>4, <1>5 DEF TaskStep

\* The resend timer begins the broadcast anew, and leaves one alone.
LEMMA ResendGoesOn ==
  ASSUME TInv, GoesOn, NEW d \in Devices,
         Resend(d) \/ ResendFails(d) \/ GiveUp(d) \/ Restart(d)
  PROVE  GoesOn'
  <1>1. CASE UNCHANGED <<br, beat, queue, up, fault, done>>
    BY <1>1 DEF GoesOn, Searching, Beating, Alive
  <1>2. CASE Resend(d) \/ ResendFails(d)
    BY <1>1, <1>2 DEF Resend, ResendFails, joining, config
  <1>3. CASE GiveUp(d)
    <2>1. CASE resend[d] = "null"
      <3>1. Panic(d, "null_timer")
        BY <1>3, <2>1, Zenon DEF GiveUp
      <3>2. /\ fault' = [fault EXCEPT ![d] = "null_timer"]
            /\ UNCHANGED <<br, beat, queue, up, done>>
        BY <3>1 DEF Panic, joining, config
      <3>3. Apart(d) /\ ~Alive(d)'
        BY <3>2 DEF Apart, Alive, TInv, ListenType
      <3> QED
        BY <3>3, OthersGoOn DEF Searching
    <2>2. CASE resend[d] # "null"
      <3>1. UNCHANGED <<air, up, queue, br, beat, fails, target, config, listening, fault>>
        BY <1>3, <2>2, Zenon DEF GiveUp
      <3> QED
        BY <1>1, <3>1 DEF config
    <2> QED
      BY <2>1, <2>2
  <1>4. CASE Restart(d)
    <2>1. /\ br' = [br EXCEPT ![d] = "armed"] \/ UNCHANGED br
          /\ UNCHANGED <<beat, queue, up, fault, done>>
      BY <1>4 DEF Restart, BrStart, config
    <2>2. CASE br' = [br EXCEPT ![d] = "armed"]
      <3>1. Apart(d) /\ br'[d] = "armed"
        BY <2>1, <2>2 DEF Apart, TInv, JoinType, New
      <3> QED
        BY <3>1, OthersGoOn DEF Beating
    <2> QED
      BY <1>1, <2>1, <2>2
  <1> QED
    BY <1>2, <1>3, <1>4

\* The manager's events.
LEMMA ManagerGoesOn ==
  ASSUME TInv, GoesOn, NEW d \in Devices,
         ProvStart(d) \/ ProvCredRecv(d) \/ ProvEnd(d)
  PROVE  GoesOn'
  <1>1. CASE ProvStart(d)
    <2>1. /\ br' = [br EXCEPT ![d] = "armed"] \/ UNCHANGED br
          /\ UNCHANGED <<beat, queue, up, fault, done>>
      BY <1>1 DEF ProvStart, BrStart, config
    <2>2. CASE br' = [br EXCEPT ![d] = "armed"]
      <3>1. Apart(d) /\ br'[d] = "armed"
        BY <2>1, <2>2 DEF Apart, TInv, JoinType, New
      <3> QED
        BY <3>1, OthersGoOn DEF Beating
    <2>3. CASE UNCHANGED br
      BY <2>1, <2>3 DEF GoesOn, Searching, Beating, Alive
    <2> QED
      BY <2>1, <2>2, <2>3
  <1>2. CASE ProvCredRecv(d) \/ ProvEnd(d)
    <2>1. /\ br' = [br EXCEPT ![d] = "null"]
          /\ beat' = [beat EXCEPT ![d] = IF @ = "firing" THEN "dangling" ELSE @]
          /\ UNCHANGED <<queue, up, fault, done>>
      BY <1>2 DEF ProvCredRecv, ProvEnd, BrStop, config
    <2>2. Apart(d) /\ br'[d] = "null"
      BY <2>1 DEF Apart, TInv, JoinType, New
    <2> QED
      BY <2>2, OthersGoOn DEF Searching
  <1> QED
    BY <1>1, <1>2

\* The end of listening takes the queue with it, and the task; a new device does
\* not get them back.
LEMMA ListenGoesOn ==
  ASSUME TInv, GoesOn, NEW d \in Devices, ListenStep(d)
  PROVE  GoesOn'
  <1>1. CASE Listen(d)
    <2>1. /\ up' = [up EXCEPT ![d] = TRUE] /\ (up[d] \/ d \in Members)
          /\ UNCHANGED <<br, beat, queue, fault, done>>
      BY <1>1 DEF Listen, joining
    <2>2. \A e \in New : up'[e] = up[e]
      BY <2>1 DEF TInv, ListenType, New
    <2> QED
      BY <2>1, <2>2 DEF GoesOn, Searching, Beating, Alive
  <1>2. CASE ListenExpires(d) \/ ListenStopped(d) \/ StrayExpires(d)
    <2>1. /\ up' = [up EXCEPT ![d] = FALSE] /\ queue' = [queue EXCEPT ![d] = <<>>]
          /\ UNCHANGED <<br, beat, fault, done>>
      BY <1>2 DEF ListenExpires, ListenStopped, StrayExpires, ListeningStop, joining
    <2>2. Apart(d) /\ ~up'[d]
      BY <2>1 DEF Apart, TInv, ListenType, QueueType, New
    <2> QED
      BY <2>2, OthersGoOn DEF Searching
  <1> QED
    BY <1>1, <1>2 DEF ListenStep

\* While a device that has not joined has a broadcast timer there is a next
\* broadcast, if the queue never stays full: for any number of devices, with
\* lost and late messages, failing allocations, confirmations that are given up,
\* users that provision the device meanwhile, and listening that ends.
THEOREM BroadcastNeverStops == Spec => []BroadcastGoesOn
  <1>1. CASE StaysFull
    <2>1. BroadcastGoesOn
      BY <1>1 DEF BroadcastGoesOn
    <2> QED
      BY <2>1, PTL
  <1>2. CASE ~StaysFull
    <2>1. Init => GInv
      <3> SUFFICES ASSUME Init PROVE GInv
        OBVIOUS
      <3>1. GoesOn
        BY DEF Init, GoesOn, Searching, New
      <3> QED
        BY <3>1, TypeInit DEF GInv
    <2>2. GInv /\ [Next]_vars => GInv'
      <3> SUFFICES ASSUME GInv, [Next]_vars PROVE GInv'
        OBVIOUS
      <3>1. TInv'
        BY TypeStep DEF GInv
      <3>2. GoesOn'
        <4>1. CASE UNCHANGED vars
          BY <4>1 DEF GInv, vars, joining, config, GoesOn, Searching, Beating, Alive
        <4> QED
          BY <1>2, <4>1, AirGoesOn, BeatGoesOn, TaskGoesOn, ResendGoesOn, ManagerGoesOn,
             ListenGoesOn DEF GInv, Next
      <3> QED
        BY <3>1, <3>2 DEF GInv
    <2>3. GInv => BroadcastGoesOn
      BY DEF GInv, GoesOn, Searching, Beating, BroadcastGoesOn
    <2> QED
      BY <2>1, <2>2, <2>3, PTL DEF Spec
  <1> QED
    BY <1>1, <1>2
=============================================================================
