------------------------------ MODULE ZeroProv ------------------------------
(***************************************************************************)
(* Zero provisioning, mesh_lite/src/wifi_prov/zero_provisioning.c: a new   *)
(* device broadcasts over ESP-NOW, a listening member of a mesh answers    *)
(* with the mesh's configuration (INFO), the new device confirms it again  *)
(* and again (CONFIRM) until it is acknowledged (ACK), and joins. A device *)
(* that has joined listens in its turn.                                    *)
(*                                                                         *)
(* On each device five tasks take part: zero_prov_task handles what is in  *)
(* the queue, the Wi-Fi task fills it, the esp_timer task runs the         *)
(* broadcast and the listen timer, the FreeRTOS timer task the resend      *)
(* timer, the event task zero_prov_event_handler. Hopping from channel to  *)
(* channel, and all that can keep a message from its receiver, is loss.    *)
(***************************************************************************)
EXTENDS Naturals, SequencesExt

(* A definition whose comment begins with "Defect:" is a variant of the    *)
(* definition after it, the way a mistake in the code would have it. The   *)
(* specification does not use it: a property's run has to fail with it.    *)

CONSTANTS
  Devices,
  Members,     \* the devices that have joined a mesh by other means
  Networks,    \* a mesh: its id, its router and their passwords
  Home,        \* Home[d]: the network of member d
  Users,       \* the devices whose user provisions them over BLE meanwhile
  Stoppers,    \* the devices whose application calls zero_prov_listening_stop
  QueueSize,   \* ZERO_PROV_QUEUE_SIZE
  MaxFails,    \* err_count at which a confirmation is given up: 5
  Lossy,       \* is a message lost, or only late for ever?
  StaysFull,   \* can a full queue stay full while the Wi-Fi task waits?
  ListenEnds,  \* the devices whose listening time ends within the run
  NoMem,       \* can malloc fail?
  TimerBusy    \* can the queue of the FreeRTOS timer task be full?

None == "none"

ASSUME DevicesAssumption == Members \subseteq Devices /\ None \notin Devices
ASSUME NetworksAssumption == Home \in [Members -> Networks] /\ None \notin Networks
ASSUME AppsAssumption ==
  Users \subseteq Devices /\ Stoppers \subseteq Devices /\ ListenEnds \subseteq Devices
ASSUME BoundsAssumption == QueueSize \in Nat \ {0} /\ MaxFails \in Nat
ASSUME FlagsAssumption ==
  {Lossy, StaysFull, NoMem, TimerBusy} \subseteq BOOLEAN

Broadcasts == [type : {"BROADCAST"}, from : Devices]
Infos == [type : {"INFO"}, from : Devices, to : Devices,
          mesh : Networks \cup {None}, router : Networks \cup {None}]
Replies == [type : {"CONFIRM", "ACK"}, from : Devices, to : Devices]
Messages == Broadcasts \cup Infos \cup Replies
\* What the queue holds besides: ZERO_PROV_SEND_BROADCAST. (The event for a
\* unicast that was sent is handled by doing nothing, and left out.)
Sent == [type |-> "SENT"]

VARIABLES
  air,          \* the messages under way
  up,           \* zero_prov_esp_now_init_done: queue, task and handlers exist
  queue,        \* s_zero_prov_queue
  provisioner,  \* zero_provisioner
  configured,   \* flg_is_wifi_provisioning
  br,           \* g_timer_handle: "null", or a timer "idle" or "armed"
  beat,         \* zero_prov_br_timer_cb: where the broadcast in progress is
  resend,       \* resend_timer: "null", or a timer "stopped" or "active"
  fails,        \* err_count of resend_timer_timercb
  giveup,       \* where that callback is when it gives up
  target,       \* resend_mac_addr
  cfg,          \* router_cfg
  mesh,         \* the mesh id and SoftAP given to the mesh core
  router,       \* the router configuration of the mesh core
  done,         \* zero_prov_done
  listen,       \* g_listen_timer: is there one? (It is always running.)
  stray,        \* is a listen timer running whose handle has been dropped?
  fault         \* what the device panicked on

joining == <<br, beat, resend, fails, giveup, target>>
config == <<configured, cfg, mesh, router, done>>
listening == <<provisioner, listen, stray>>
vars == <<air, up, queue, joining, config, listening, fault>>

New == Devices \ Members
Alive(d) == fault[d] = "none"

\* zero_prov_init of a device that has no Wi-Fi configuration; one that has
\* leaves everything as it is at boot.
Init ==
  /\ air = {}
  /\ up = [d \in Devices |-> d \in New]
  /\ queue = [d \in Devices |-> <<>>]
  /\ provisioner = [d \in Devices |-> FALSE]
  /\ configured = [d \in Devices |-> d \in Members]
  /\ br = [d \in Devices |-> "null"]
  /\ beat = [d \in Devices |-> "no"]
  /\ resend = [d \in Devices |-> IF d \in New THEN "stopped" ELSE "null"]
  /\ fails = [d \in Devices |-> 0]
  /\ giveup = [d \in Devices |-> "no"]
  /\ target = [d \in Devices |-> None]
  /\ cfg = [d \in Devices |-> None]
  /\ mesh = [d \in Devices |-> IF d \in Members THEN Home[d] ELSE None]
  /\ router = mesh
  /\ done = [d \in Devices |-> FALSE]
  /\ listen = [d \in Devices |-> FALSE]
  /\ stray = [d \in Devices |-> FALSE]
  /\ fault = [d \in Devices |-> "none"]

Panic(d, what) ==
  /\ fault' = [fault EXCEPT ![d] = what]
  /\ UNCHANGED <<air, up, queue, joining, config, listening>>

-----------------------------------------------------------------------------
(* The air and the Wi-Fi task.                                             *)

Heard(d, m) == IF m.type = "BROADCAST" THEN m.from # d ELSE m.to = d

\* What is true of every state of the messages that are late is true without
\* those that are lost; only liveness tells the two apart. (One that finds the
\* queue of its receiver full is not lost: the Wi-Fi task waits with it.)
Lose(m) ==
  /\ Lossy
  /\ m \in air
  /\ \A d \in Devices : Heard(d, m) => Len(queue[d]) < QueueSize
  /\ air' = air \ {m}
  /\ UNCHANGED <<up, queue, joining, config, listening, fault>>

\* zero_prov_recv_cb. (A broadcast is heard by one device; for the others it
\* is lost, and repeated.)
Receive(d, m) ==
  /\ m \in air
  /\ Heard(d, m)
  /\ Alive(d) /\ up[d]
  /\ Len(queue[d]) < QueueSize
  /\ queue' = [queue EXCEPT ![d] = Append(@, m)]
  /\ air' = air \ {m}
  /\ UNCHANGED <<up, joining, config, listening, fault>>

\* The queue has stayed full for the time of the wait: it is emptied, and the
\* message is not in it.
ReceiveOverflows(d, m) ==
  /\ StaysFull
  /\ m \in air
  /\ Heard(d, m)
  /\ Alive(d) /\ up[d]
  /\ Len(queue[d]) = QueueSize
  /\ queue' = [queue EXCEPT ![d] = <<>>]
  /\ air' = air \ {m}
  /\ UNCHANGED <<up, joining, config, listening, fault>>

-----------------------------------------------------------------------------
(* Broadcasting.                                                           *)

\* zero_prov_br_stop frees the buffer, also under a callback that sends it.
BrStop(d) ==
  /\ br' = [br EXCEPT ![d] = "null"]
  /\ beat' = [beat EXCEPT ![d] = IF @ = "firing" THEN "dangling" ELSE @]

\* zero_prov_br_start. A timer that is there is forgotten with its buffer; an
\* allocation that fails leaves none.
BrStart(d) ==
  \/ br' = [br EXCEPT ![d] = "armed"]
  \/ NoMem /\ UNCHANGED br

BrTimer(d) ==
  /\ Alive(d)
  /\ br[d] = "armed"
  /\ beat[d] = "no"
  /\ br' = [br EXCEPT ![d] = "idle"]
  /\ beat' = [beat EXCEPT ![d] = "firing"]
  /\ UNCHANGED <<air, up, queue, resend, fails, giveup, target, config,
                 listening, fault>>

\* Defect: a broadcast that was not sent is not followed by another one.
BrSendUnreported(d) ==
  /\ Alive(d)
  /\ beat[d] = "firing"
  /\ \/ /\ air' = air \cup {[type |-> "BROADCAST", from |-> d]}
        /\ beat' = [beat EXCEPT ![d] = "sent"]
     \/ beat' = [beat EXCEPT ![d] = "no"] /\ UNCHANGED air
  /\ UNCHANGED <<up, queue, br, resend, fails, giveup, target, config,
                 listening, fault>>

\* esp_mesh_lite_espnow_send succeeds or fails.
BrSend(d) ==
  /\ Alive(d)
  /\ beat[d] = "firing"
  /\ beat' = [beat EXCEPT ![d] = "sent"]
  /\ \/ air' = air \cup {[type |-> "BROADCAST", from |-> d]}
     \/ UNCHANGED air
  /\ UNCHANGED <<up, queue, br, resend, fails, giveup, target, config,
                 listening, fault>>

\* What is sent from the freed buffer is no broadcast, if its length can be read.
BrSendFreed(d) ==
  /\ Alive(d)
  /\ beat[d] = "dangling"
  /\ \/ Panic(d, "freed_buffer")
     \/ /\ beat' = [beat EXCEPT ![d] = "sent"]
        /\ UNCHANGED <<air, up, queue, br, resend, fails, giveup, target, config,
                       listening, fault>>

\* zero_prov_send_cb, or the callback itself when the send failed, asks for the
\* next broadcast.
BrSent(d) ==
  /\ Alive(d)
  /\ beat[d] = "sent"
  /\ beat' = [beat EXCEPT ![d] = "no"]
  /\ \/ up[d] /\ Len(queue[d]) < QueueSize /\ queue' = [queue EXCEPT ![d] = Append(@, Sent)]
     \/ up[d] /\ StaysFull /\ Len(queue[d]) = QueueSize /\ UNCHANGED queue
     \/ ~up[d] /\ UNCHANGED queue
  /\ UNCHANGED <<air, up, br, resend, fails, giveup, target, config, listening,
                 fault>>

-----------------------------------------------------------------------------
(* zero_prov_task handles the first event of the queue.                    *)

Handles(d, type) ==
  /\ Alive(d) /\ up[d]
  /\ queue[d] # <<>>
  /\ Head(queue[d]).type = type

Dequeue(d) == queue' = [queue EXCEPT ![d] = Tail(@)]

Drop(d) ==
  /\ Dequeue(d)
  /\ UNCHANGED <<air, up, joining, config, listening, fault>>

\* zero_prov_broadcast_cb
HandleSent(d) ==
  /\ Handles(d, "SENT")
  /\ br' = [br EXCEPT ![d] = IF @ = "idle" THEN "armed" ELSE @]
  /\ Dequeue(d)
  /\ UNCHANGED <<air, up, beat, resend, fails, giveup, target, config,
                 listening, fault>>

\* Only a provisioner with a configuration answers.
HandleBroadcast(d) ==
  /\ Handles(d, "BROADCAST")
  /\ \/ /\ provisioner[d] /\ configured[d]
        /\ air' = air \cup {[type |-> "INFO", from |-> d, to |-> Head(queue[d]).from,
                             mesh |-> mesh[d], router |-> router[d]]}
     \/ (provisioner[d] /\ configured[d] => NoMem) /\ UNCHANGED air
  /\ Dequeue(d)
  /\ UNCHANGED <<up, joining, config, listening, fault>>

\* INFO that comes when it has been acknowledged, or to a member.
HandleInfoLate(d) ==
  /\ Handles(d, "INFO")
  /\ resend[d] = "null"
  /\ Drop(d)

\* A command to the resend timer, where its queue may be full for as long as the
\* caller waits: nobody looks at the result of xTimerStart and xTimerStop.
Command(d, state) ==
  \/ resend' = [resend EXCEPT ![d] = state]
  \/ TimerBusy /\ UNCHANGED resend

\* The configuration is taken, confirmed and confirmed again by the timer.
\* A second INFO, of another mesh even, replaces the first.
HandleInfo(d) ==
  /\ Handles(d, "INFO")
  /\ resend[d] # "null"
  /\ BrStop(d)
  /\ LET m == Head(queue[d])
     IN /\ air' = air \cup {[type |-> "CONFIRM", from |-> d, to |-> m.from]}
        /\ target' = [target EXCEPT ![d] = m.from]
        /\ mesh' = [mesh EXCEPT ![d] = m.mesh]
        /\ cfg' = [cfg EXCEPT ![d] = m.router]
  /\ Command(d, "active")
  /\ configured' = [configured EXCEPT ![d] = TRUE]
  /\ Dequeue(d)
  /\ UNCHANGED <<up, fails, giveup, router, done, listening, fault>>

\* The broadcast is stopped before the allocation that fails.
HandleInfoNoMem(d) ==
  /\ NoMem
  /\ Handles(d, "INFO")
  /\ resend[d] # "null"
  /\ BrStop(d)
  /\ Dequeue(d)
  /\ UNCHANGED <<air, up, resend, fails, giveup, target, config, listening, fault>>

\* Whoever is asked acknowledges.
HandleConfirm(d) ==
  /\ Handles(d, "CONFIRM")
  /\ \/ air' = air \cup {[type |-> "ACK", from |-> d, to |-> Head(queue[d]).from]}
     \/ NoMem /\ UNCHANGED air
  /\ Dequeue(d)
  /\ UNCHANGED <<up, joining, config, listening, fault>>

\* Defect: the timer is stopped, not deleted.
HandleAckKeepsTimer(d) ==
  /\ Handles(d, "ACK")
  /\ resend' = [resend EXCEPT ![d] = IF @ = "null" THEN @ ELSE "stopped"]
  /\ queue' = [queue EXCEPT ![d] = <<>>]
  /\ router' = [router EXCEPT ![d] = IF done[d] THEN @ ELSE cfg[d]]
  /\ done' = [done EXCEPT ![d] = TRUE]
  /\ UNCHANGED <<air, up, br, beat, fails, giveup, target, configured, cfg,
                 mesh, listening, fault>>

\* The timer is deleted, the queue is emptied, and the first time
\* zero_prov_connect_ap gives the configuration to the mesh core.
HandleAck(d) ==
  /\ Handles(d, "ACK")
  /\ resend' = [resend EXCEPT ![d] = "null"]
  /\ queue' = [queue EXCEPT ![d] = <<>>]
  /\ router' = [router EXCEPT ![d] = IF done[d] THEN @ ELSE cfg[d]]
  /\ done' = [done EXCEPT ![d] = TRUE]
  /\ UNCHANGED <<air, up, br, beat, fails, giveup, target, configured, cfg,
                 mesh, listening, fault>>

-----------------------------------------------------------------------------
(* resend_timer_timercb, which FreeRTOS starts again by itself.            *)

Resend(d) ==
  /\ Alive(d)
  /\ resend[d] = "active" /\ giveup[d] = "no"
  /\ air' = air \cup {[type |-> "CONFIRM", from |-> d, to |-> target[d]]}
  /\ UNCHANGED <<up, queue, joining, config, listening, fault>>

\* ESP_ERR_ESPNOW_NOT_FOUND: the peer is not known to ESP-NOW.
ResendFails(d) ==
  /\ Alive(d)
  /\ resend[d] = "active" /\ giveup[d] = "no"
  /\ IF fails[d] < MaxFails
       THEN fails' = [fails EXCEPT ![d] = @ + 1] /\ UNCHANGED giveup
       ELSE fails' = [fails EXCEPT ![d] = 0] /\ giveup' = [giveup EXCEPT ![d] = "stop"]
  /\ UNCHANGED <<air, up, queue, br, beat, resend, target, config, listening, fault>>

\* xTimerStop asserts that the timer is not NULL; zero_prov_task may have
\* deleted it since.
GiveUp(d) ==
  /\ Alive(d)
  /\ giveup[d] = "stop"
  /\ IF resend[d] = "null"
       THEN Panic(d, "null_timer")
       ELSE /\ Command(d, "stopped")
            /\ giveup' = [giveup EXCEPT ![d] = "restart"]
            /\ UNCHANGED <<air, up, queue, br, beat, fails, target, config,
                           listening, fault>>

\* Defect: the broadcast is not started again.
GiveUpForGood(d) ==
  /\ Alive(d)
  /\ giveup[d] = "restart"
  /\ giveup' = [giveup EXCEPT ![d] = "no"]
  /\ UNCHANGED <<air, up, queue, br, beat, resend, fails, target, config,
                 listening, fault>>

Restart(d) ==
  /\ Alive(d)
  /\ giveup[d] = "restart"
  /\ giveup' = [giveup EXCEPT ![d] = "no"]
  /\ BrStart(d)
  /\ UNCHANGED <<air, up, queue, beat, resend, fails, target, config, listening,
                 fault>>

-----------------------------------------------------------------------------
(* zero_prov_event_handler, registered while the device is up.             *)

\* The application starts the manager on a device that is not configured. (The
\* manager, started again while the broadcast goes on, would leak its timer.)
ProvStart(d) ==
  /\ Alive(d) /\ up[d]
  /\ ~configured[d] /\ br[d] = "null"
  /\ BrStart(d)
  /\ UNCHANGED <<air, up, queue, beat, resend, fails, giveup, target, config,
                 listening, fault>>

\* The glue gives the credentials to the mesh core.
ProvCredRecv(d) ==
  /\ Alive(d) /\ up[d]
  /\ d \in Users
  /\ configured' = [configured EXCEPT ![d] = TRUE]
  /\ \E n \in Networks : router' = [router EXCEPT ![d] = n]
  /\ BrStop(d)
  /\ UNCHANGED <<air, up, queue, resend, fails, giveup, target, cfg, mesh, done,
                 listening, fault>>

ProvEnd(d) ==
  /\ Alive(d) /\ up[d]
  /\ d \in Users
  /\ BrStop(d)
  /\ UNCHANGED <<air, up, queue, resend, fails, giveup, target, config,
                 listening, fault>>

-----------------------------------------------------------------------------
(* Listening.                                                              *)

\* zero_prov_listening: on IP_EVENT_STA_GOT_IP, when no access point is found,
\* or called by a member's application. A device that is not up yet, or not
\* any more, gets a new queue and an empty router_cfg.
Listen(d) ==
  /\ Alive(d)
  /\ router[d] # None
  /\ up[d] \/ d \in Members
  /\ ~listen[d]
  /\ listen' = [listen EXCEPT ![d] = TRUE]
  /\ provisioner' = [provisioner EXCEPT ![d] = TRUE]
  /\ up' = [up EXCEPT ![d] = TRUE]
  /\ cfg' = [cfg EXCEPT ![d] = IF up[d] THEN @ ELSE None]
  /\ UNCHANGED <<air, queue, joining, configured, mesh, router, done, stray, fault>>

\* zero_prov_listening_stop: with the queue and the task goes what they had to
\* do. The resend timer and the broadcast timer stay.
ListeningStop(d) ==
  /\ provisioner' = [provisioner EXCEPT ![d] = FALSE]
  /\ listen' = [listen EXCEPT ![d] = FALSE]
  /\ up' = [up EXCEPT ![d] = FALSE]
  /\ queue' = [queue EXCEPT ![d] = <<>>]
  /\ cfg' = [cfg EXCEPT ![d] = IF up[d] THEN None ELSE @]
  /\ UNCHANGED <<air, joining, configured, mesh, router, done, fault>>

\* The timer has expired and is deleted.
ListenExpires(d) ==
  /\ d \in ListenEnds
  /\ Alive(d)
  /\ listen[d]
  /\ ListeningStop(d)
  /\ UNCHANGED stray

\* esp_timer_delete refuses a timer that is running: it goes on. (Bound: one
\* such timer at a time.)
ListenStopped(d) ==
  /\ d \in Stoppers
  /\ Alive(d)
  /\ ~(stray[d] /\ listen[d])
  /\ ListeningStop(d)
  /\ stray' = [stray EXCEPT ![d] = @ \/ listen[d]]

StrayExpires(d) ==
  /\ d \in ListenEnds
  /\ Alive(d)
  /\ stray[d]
  /\ ListeningStop(d)
  /\ stray' = [stray EXCEPT ![d] = listen[d]]

-----------------------------------------------------------------------------
TaskStep(d) ==
  \/ HandleSent(d) \/ HandleBroadcast(d) \/ HandleInfoLate(d) \/ HandleInfo(d)
  \/ HandleInfoNoMem(d) \/ HandleConfirm(d) \/ HandleAck(d)

BrStep(d) == BrTimer(d) \/ BrSend(d) \/ BrSendFreed(d) \/ BrSent(d)

ListenStep(d) == Listen(d) \/ ListenExpires(d) \/ ListenStopped(d) \/ StrayExpires(d)

Next ==
  \/ \E m \in air : Lose(m)
  \/ \E d \in Devices :
       \/ \E m \in air : Receive(d, m) \/ ReceiveOverflows(d, m)
       \/ TaskStep(d) \/ BrStep(d)
       \/ Resend(d) \/ ResendFails(d) \/ GiveUp(d) \/ Restart(d)
       \/ ProvStart(d) \/ ProvCredRecv(d) \/ ProvEnd(d)
       \/ ListenStep(d)

Spec == Init /\ [][Next]_vars

Hears(d, type) == \E m \in air : m.type = type /\ Receive(d, m)

Broadcasting(d) == [type |-> "BROADCAST", from |-> d]

\* The tasks run, the timers expire, and what is sent again and again is sent
\* and heard in the end.
Fairness ==
  /\ \A d \in Devices :
       /\ WF_vars(TaskStep(d))
       /\ WF_vars(BrTimer(d)) /\ WF_vars(BrSend(d) \/ BrSendFreed(d)) /\ WF_vars(BrSent(d))
       /\ WF_vars(GiveUp(d)) /\ WF_vars(Restart(d))
  /\ \A d \in New :
       /\ SF_vars(BrSend(d) /\ Broadcasting(d) \in air')
       /\ SF_vars(Hears(d, "INFO")) /\ SF_vars(Resend(d)) /\ SF_vars(Hears(d, "ACK"))
  /\ \A d \in Members :
       /\ WF_vars(Listen(d))
       /\ SF_vars(Hears(d, "BROADCAST")) /\ SF_vars(Hears(d, "CONFIRM"))

FairSpec == Spec /\ Fairness

-----------------------------------------------------------------------------
(* Properties.                                                             *)

\* Every variable is of its type, and no queue is longer than it was made.
TypeOK ==
  /\ air \subseteq Messages
  /\ up \in [Devices -> BOOLEAN]
  /\ queue \in [Devices -> Seq(Messages \cup {Sent})]
  /\ \A d \in Devices : Len(queue[d]) <= QueueSize
  /\ provisioner \in [Devices -> BOOLEAN]
  /\ configured \in [Devices -> BOOLEAN]
  /\ br \in [Devices -> {"null", "idle", "armed"}]
  /\ beat \in [Devices -> {"no", "firing", "dangling", "sent"}]
  /\ resend \in [Devices -> {"null", "stopped", "active"}]
  /\ fails \in [Devices -> 0..MaxFails]
  /\ giveup \in [Devices -> {"no", "stop", "restart"}]
  /\ target \in [Devices -> Devices \cup {None}]
  /\ cfg \in [Devices -> Networks \cup {None}]
  /\ mesh \in [Devices -> Networks \cup {None}]
  /\ router \in [Devices -> Networks \cup {None}]
  /\ done \in [Devices -> BOOLEAN]
  /\ listen \in [Devices -> BOOLEAN]
  /\ stray \in [Devices -> BOOLEAN]
  /\ fault \in [Devices -> {"none", "freed_buffer", "null_timer"}]

\* A device that has joined has the router and the mesh of one network, though
\* two members may answer it, each with its own, and INFO, CONFIRM and ACK of
\* the two be mixed, late or lost. (A device that its user provisions over BLE
\* meanwhile is out of it: its router comes from the user.)
WholeConfig ==
  \A d \in New \ Users : done[d] => router[d] # None /\ router[d] = mesh[d]

\* While a device that has not joined has a broadcast timer, there is a next
\* broadcast: the timer is armed, a broadcast is in progress, or the event that
\* arms the timer is in the queue. It holds only if the queue never stays full.
BroadcastGoesOn ==
  \A d \in New :
    ~StaysFull /\ Alive(d) /\ up[d] /\ ~done[d] /\ br[d] # "null"
      => br[d] = "armed" \/ beat[d] # "no" \/ Sent \in Range(queue[d])

\* A device that broadcasts joins in the end, if a member listens: also when
\* confirmations fail so often that it begins anew. (Or it has panicked.)
Joins == \A d \in New : br[d] = "armed" ~> done[d] \/ ~Alive(d)
=============================================================================
