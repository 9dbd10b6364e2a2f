----------------------------- MODULE SensorMesh -----------------------------
(***************************************************************************)
(* Sensor readings over ESP-NOW: main/sensor.c and main/espnow.c on top of *)
(* components/mesh_lite/src/esp_mesh_lite_espnow.c.                        *)
(*                                                                         *)
(* One device broadcasts a reading and keeps its buffer in sent_msgs, from *)
(* where a timer broadcasts it once more and frees it. On another device   *)
(* the Wi-Fi task looks for the handler of a frame in a list without a     *)
(* lock, the handler copies the frame into a queue, and espnow_task takes  *)
(* it from there. Zero provisioning enters its handler into the same list, *)
(* and takes it out.                                                       *)
(***************************************************************************)
EXTENDS Naturals

(* A definition whose comment begins with "Defect:" is a variant of the    *)
(* definition after it, the way a mistake in the code would have it. The   *)
(* specification does not use it: a property's run has to fail with it.    *)

CONSTANTS
  Readings,     \* the readings the sensor task makes, 1..Readings
  QueueSize,    \* ESPNOW_QUEUE_SIZE
  MaxEntries,   \* bound on the entries allocated for handlers at a time
  Spaced        \* is a reading retried and freed before the next is made?

ASSUME BoundsAssumption ==
  /\ Readings \in Nat \ {0} /\ QueueSize \in Nat \ {0} /\ MaxEntries \in Nat \ {0}
  /\ Spaced \in BOOLEAN

Buffers == 1..Readings      \* the buffer of reading r is r
Entries == 1..MaxEntries
NULL == 0

Senders == {"sensor", "timer"}
Registrars == {"main", "event"}
Procs == Senders \cup Registrars \cup {"wifi", "task"}
Labels == {"idle", "fill", "send", "keep", "give", "out", "publish", "peer", "in",
           "failed", "unlink", "walk", "copy", "push", "free"}

VARIABLES
  pc,        \* where each task is
  made,      \* the number of readings made
  heap,      \* the buffer of each reading: "unused", "live", "freed"
  slot,      \* *sent_msgs: max_retry, retry_times, sent_msg
  mutex,     \* sent_msgs_mutex: "free" or "timer"
  air,       \* the types of the frames under way
  attempts,  \* how often each reading has been given to esp_now_send
  head,      \* esp_mesh_lite_espnow_cb_list, NULL or an entry
  next,      \* entry->next
  type,      \* entry->type
  alive,     \* the entries that are allocated
  mine,      \* what a registrar enters or removes, and the entry before it
  entered,   \* history: has app_main's handler been entered?
  clash,     \* have two registrars been at work at a time?
  walk,      \* the Wi-Fi task: the type it looks for, the entry it has come to,
             \* and whether the application had entered its handler by then
  queued,    \* the number of copies in espnow_recv_queue
  held,      \* the number of copies that are allocated
  fault      \* "none", or what the receiving device panicked on

sending == <<made, heap, slot, mutex, attempts>>
handlers == <<head, next, type, alive, mine, entered, clash>>
receiving == <<walk, queued, held>>
vars == <<pc, sending, air, handlers, receiving, fault>>

Goto(t, l) == pc' = [pc EXCEPT ![t] = l]
At(t, l) == fault = "none" /\ pc[t] = l

Nothing == [entry |-> NULL, before |-> NULL]
NoWalk == [type |-> "ZERO_PROV", at |-> NULL, owed |-> FALSE]
Empty == [max |-> 0, tries |-> 0, msg |-> NULL]

Init ==
  /\ pc = [t \in Procs |-> IF t \in Registrars THEN "out" ELSE "idle"]
  /\ made = 0
  /\ heap = [r \in Buffers |-> "unused"]
  /\ slot = Empty
  /\ mutex = "free"
  /\ air = {}
  /\ attempts = [r \in Buffers |-> 0]
  /\ head = NULL
  /\ next = [e \in Entries |-> NULL]
  /\ type = [e \in Entries |-> "ZERO_PROV"]
  /\ alive = {}
  /\ mine = [t \in Registrars |-> Nothing]
  /\ entered = FALSE /\ clash = FALSE
  /\ walk = NoWalk
  /\ queued = 0
  /\ held = 0
  /\ fault = "none"
-----------------------------------------------------------------------------
(* The sending device. (An allocation that fails is dereferenced at once,  *)
(* and the device starts again: nothing of that is modelled.)              *)

\* Defect: the buffer is kept for the timer before it is sent.
SensorMakeKept ==
  /\ pc["sensor"] = "idle"
  /\ made < Readings
  /\ Spaced => slot.max = 0
  /\ made' = made + 1
  /\ heap' = [heap EXCEPT ![made + 1] = "live"]
  /\ slot' = [max |-> 1, tries |-> 0, msg |-> made + 1]
  /\ Goto("sensor", "fill")
  /\ UNCHANGED <<mutex, attempts, air, handlers, receiving, fault>>

\* sensor_main_task makes a reading every 10 s; in that time a timer of 100 ms
\* that may run at all has retried and freed the one before.
SensorMake ==
  /\ pc["sensor"] = "idle"
  /\ made < Readings
  /\ Spaced => slot.max = 0
  /\ made' = made + 1
  /\ heap' = [heap EXCEPT ![made + 1] = "live"]
  /\ Goto("sensor", "fill")
  /\ UNCHANGED <<slot, mutex, attempts, air, handlers, receiving, fault>>

\* The reading task t sends.
Sends(t) == IF t = "sensor" THEN made ELSE slot.msg

\* esp_mesh_lite_espnow_send: a message is put into espnow_data, the one buffer
\* there is, and then what that holds is sent.
FillFrame(t) ==
  /\ pc[t] = "fill"
  /\ Goto(t, "send")
  /\ UNCHANGED <<sending, air, handlers, receiving, fault>>

\* esp_now_send may fail, and nobody does anything about it.
SendFrame(t) ==
  /\ pc[t] = "send"
  /\ air' = air \cup {"RESERVE"} \/ UNCHANGED air
  /\ attempts' = [attempts EXCEPT ![Sends(t)] = @ + 1]
  /\ Goto(t, IF t = "sensor" THEN "keep" ELSE "give")
  /\ UNCHANGED <<made, heap, slot, mutex, handlers, receiving, fault>>

\* A device that is not provisioned broadcasts too.
OthersSend ==
  /\ air' = air \cup {"ZERO_PROV"}
  /\ UNCHANGED <<pc, sending, handlers, receiving, fault>>

\* A buffer that is still there is forgotten.
SensorKeep ==
  /\ pc["sensor"] = "keep"
  /\ mutex = "free"
  /\ slot' = [max |-> 1, tries |-> 0, msg |-> made]
  /\ Goto("sensor", "idle")
  /\ UNCHANGED <<made, heap, mutex, attempts, air, handlers, receiving, fault>>

\* Defect: one retry more.
TimerRetryOnceMore ==
  /\ pc["timer"] = "idle"
  /\ mutex = "free"
  /\ slot.max > 0 /\ slot.max >= slot.tries
  /\ slot' = [slot EXCEPT !.tries = @ + 1]
  /\ mutex' = "timer" /\ Goto("timer", "fill")
  /\ UNCHANGED <<made, heap, attempts, air, handlers, receiving, fault>>

\* esp_now_send_timer_cb keeps the mutex while it sends.
TimerRetry ==
  /\ pc["timer"] = "idle"
  /\ mutex = "free"
  /\ slot.max > slot.tries
  /\ slot' = [slot EXCEPT !.tries = @ + 1]
  /\ IF slot.msg # NULL
       THEN mutex' = "timer" /\ Goto("timer", "fill")
       ELSE UNCHANGED <<mutex, pc>>
  /\ UNCHANGED <<made, heap, attempts, air, handlers, receiving, fault>>

TimerGive ==
  /\ pc["timer"] = "give"
  /\ mutex' = "free"
  /\ Goto("timer", "idle")
  /\ UNCHANGED <<made, heap, slot, attempts, air, handlers, receiving, fault>>

TimerFrees ==
  /\ pc["timer"] = "idle"
  /\ mutex = "free"
  /\ slot.max <= slot.tries /\ slot.max > 0
  /\ slot' = Empty
  /\ heap' = IF slot.msg # NULL THEN [heap EXCEPT ![slot.msg] = "freed"] ELSE heap
  /\ UNCHANGED <<pc, made, mutex, attempts, air, handlers, receiving, fault>>

Lose(f) ==
  /\ f \in air
  /\ air' = air \ {f}
  /\ UNCHANGED <<pc, sending, handlers, receiving, fault>>
-----------------------------------------------------------------------------
(* The handlers of the receiving device: app_main enters its own, the      *)
(* event task enters that of zero provisioning and removes it again.       *)

TypeOf(t) == IF t = "main" THEN "RESERVE" ELSE "ZERO_PROV"
AtWork(t) == pc[t] \in {"publish", "unlink"}
Starts(t) == clash' = (clash \/ \E u \in Registrars \ {t} : AtWork(u))

Panic(what) ==
  /\ fault' = what
  /\ UNCHANGED <<pc, sending, air, handlers, receiving>>

\* Defect: the new entry does not lead to the others.
EnterUnlinked(t) ==
  /\ At(t, "out")
  /\ \E e \in Entries \ alive :
       /\ alive' = alive \cup {e}
       /\ type' = [type EXCEPT ![e] = TypeOf(t)]
       /\ next' = [next EXCEPT ![e] = NULL]
       /\ mine' = [mine EXCEPT ![t].entry = e]
  /\ Starts(t)
  /\ Goto(t, "publish")
  /\ UNCHANGED <<sending, air, head, entered, receiving, fault>>

\* esp_mesh_lite_espnow_recv_cb_register reads the head of the list, and then
\* writes it.
Enter(t) ==
  /\ At(t, "out")
  /\ \E e \in Entries \ alive :
       /\ alive' = alive \cup {e}
       /\ type' = [type EXCEPT ![e] = TypeOf(t)]
       /\ next' = [next EXCEPT ![e] = head]
       /\ mine' = [mine EXCEPT ![t].entry = e]
  /\ Starts(t)
  /\ Goto(t, "publish")
  /\ UNCHANGED <<sending, air, head, entered, receiving, fault>>

\* Without memory for the entry the list stays as it is, and neither caller looks
\* at the result.
EnterFails(t) ==
  /\ At(t, "out")
  /\ Goto(t, IF t = "main" THEN "peer" ELSE "in")
  /\ UNCHANGED <<sending, air, handlers, receiving, fault>>

Publish(t) ==
  /\ At(t, "publish")
  /\ head' = mine[t].entry
  /\ Goto(t, IF t = "main" THEN "peer" ELSE "in")
  /\ mine' = [mine EXCEPT ![t] = Nothing]
  /\ entered' = (entered \/ t = "main")
  /\ UNCHANGED <<sending, air, next, type, alive, clash, receiving, fault>>

\* app_espnow_init goes on, or deletes the queue and leaves the handler.
AddPeer ==
  /\ At("main", "peer")
  /\ Goto("main", "in") \/ Goto("main", "failed")
  /\ UNCHANGED <<sending, air, handlers, receiving, fault>>

\* p is the way from the head of the list to the first entry of a type, the n-th.
WayTo(p, n, what) ==
  /\ p[1] = head
  /\ \A k \in 1..(n - 1) : type[p[k]] # what /\ p[k + 1] = next[p[k]]
  /\ type[p[n]] = what

\* esp_mesh_lite_espnow_recv_cb_unregister looks the entry up, and then takes
\* it out of the list. (Only zero_prov_deinit calls it.)
LookUp ==
  /\ At("event", "in")
  /\ Starts("event")
  /\ \/ \E n \in Entries : \E p \in [1..n -> Entries] :
          /\ WayTo(p, n, "ZERO_PROV")
          /\ mine' = [mine EXCEPT !["event"] =
                        [entry |-> p[n], before |-> IF n = 1 THEN NULL ELSE p[n - 1]]]
          /\ Goto("event", "unlink")
     \/ /\ ~\E n \in Entries : \E p \in [1..n -> Entries] : WayTo(p, n, "ZERO_PROV")
        /\ Goto("event", "out") /\ UNCHANGED mine
  /\ UNCHANGED <<sending, air, head, next, type, alive, entered, receiving, fault>>

Unlink ==
  /\ At("event", "unlink")
  /\ LET it == mine["event"]
     IN /\ IF it.before = NULL
             THEN head' = next[it.entry] /\ UNCHANGED next
             ELSE next' = [next EXCEPT ![it.before] = next[it.entry]] /\ UNCHANGED head
        /\ alive' = alive \ {it.entry}
  /\ Goto("event", "out")
  /\ mine' = [mine EXCEPT !["event"] = Nothing]
  /\ UNCHANGED <<sending, air, type, entered, clash, receiving, fault>>
-----------------------------------------------------------------------------
(* The Wi-Fi task of the receiving device, and espnow_task.                *)

Arrive(f) ==
  /\ At("wifi", "idle")
  /\ f \in air
  /\ air' = air \ {f}
  /\ walk' = [type |-> f, at |-> head,
              owed |-> f = "RESERVE" /\ entered]
  /\ Goto("wifi", "walk")
  /\ UNCHANGED <<sending, handlers, queued, held, fault>>

\* esp_mesh_lite_espnow_recv_callback, one entry after the other.
Walk ==
  /\ At("wifi", "walk")
  /\ \/ /\ walk.at = NULL
        /\ Goto("wifi", "idle")
        /\ walk' = NoWalk
        /\ UNCHANGED <<sending, air, handlers, queued, held, fault>>
     \/ /\ walk.at # NULL /\ walk.at \notin alive
        /\ Panic("freed_entry")
     \/ /\ walk.at \in alive
        /\ type[walk.at] # walk.type
        /\ walk' = [walk EXCEPT !.at = next[@]]
        /\ UNCHANGED <<pc, sending, air, handlers, queued, held, fault>>
     \/ /\ walk.at \in alive
        /\ type[walk.at] = walk.type
        /\ Goto("wifi", IF walk.type = "RESERVE" THEN "copy" ELSE "idle")
        /\ walk' = NoWalk
        /\ UNCHANGED <<sending, air, handlers, queued, held, fault>>

\* espnow_recv_cb: a frame that is not one of its own, and one there is no
\* memory for, goes no further.
Copy ==
  /\ At("wifi", "copy")
  /\ \/ Goto("wifi", "idle") /\ UNCHANGED held
     \/ Goto("wifi", "push") /\ held' = held + 1
  /\ UNCHANGED <<sending, air, handlers, walk, queued, fault>>

\* Defect: the copy is not freed when the queue stays full.
PushLeaks ==
  /\ At("wifi", "push")
  /\ pc["main"] # "failed"
  /\ IF queued < QueueSize THEN queued' = queued + 1 ELSE UNCHANGED queued
  /\ Goto("wifi", "idle")
  /\ UNCHANGED <<sending, air, handlers, walk, held, fault>>

\* The queue may have stayed full for ESPNOW_MAXDELAY. It is NULL when
\* app_espnow_init has failed, which xQueueSend asserts it is not.
Push ==
  /\ At("wifi", "push")
  /\ \/ /\ pc["main"] = "failed"
        /\ Panic("null_queue")
     \/ /\ pc["main"] # "failed"
        /\ IF queued < QueueSize
             THEN queued' = queued + 1 /\ UNCHANGED held
             ELSE held' = held - 1 /\ UNCHANGED queued
        /\ Goto("wifi", "idle")
        /\ UNCHANGED <<sending, air, handlers, walk, fault>>

TaskTakes ==
  /\ At("task", "idle")
  /\ pc["main"] = "in"
  /\ queued > 0
  /\ queued' = queued - 1
  /\ Goto("task", "free")
  /\ UNCHANGED <<sending, air, handlers, walk, held, fault>>

TaskFrees ==
  /\ At("task", "free")
  /\ held' = held - 1
  /\ Goto("task", "idle")
  /\ UNCHANGED <<sending, air, handlers, walk, queued, fault>>
-----------------------------------------------------------------------------
Send(t) == FillFrame(t) \/ SendFrame(t)
SensorStep == Send("sensor") \/ SensorKeep
TimerStep == Send("timer") \/ TimerRetry \/ TimerGive \/ TimerFrees
WifiStep == Walk \/ Copy \/ Push
TaskStep == TaskTakes \/ TaskFrees

Next ==
  \/ SensorMake \/ SensorStep \/ TimerStep
  \/ OthersSend
  \/ \E f \in air : Lose(f) \/ Arrive(f)
  \/ \E t \in Registrars : Enter(t) \/ EnterFails(t) \/ Publish(t)
  \/ AddPeer \/ LookUp \/ Unlink
  \/ WifiStep \/ TaskStep

Spec == Init /\ [][Next]_vars

-----------------------------------------------------------------------------
TypeOK ==
  /\ pc \in [Procs -> Labels]
  /\ pc["sensor"] \in {"idle", "fill", "send", "keep"}
  /\ pc["timer"] \in {"idle", "fill", "send", "give"}
  /\ pc["main"] \in {"out", "publish", "peer", "in", "failed"}
  /\ pc["event"] \in {"out", "publish", "in", "unlink"}
  /\ pc["wifi"] \in {"idle", "walk", "copy", "push"}
  /\ pc["task"] \in {"idle", "free"}
  /\ made \in 0..Readings
  /\ heap \in [Buffers -> {"unused", "live", "freed"}]
  /\ slot \in [max : {0, 1}, tries : {0, 1}, msg : {NULL} \cup Buffers]
  /\ mutex \in {"free", "timer"}
  /\ air \subseteq {"RESERVE", "ZERO_PROV"}
  /\ attempts \in [Buffers -> Nat]
  /\ head \in {NULL} \cup Entries
  /\ next \in [Entries -> {NULL} \cup Entries]
  /\ type \in [Entries -> {"RESERVE", "ZERO_PROV"}]
  /\ alive \subseteq Entries
  /\ mine \in [Registrars -> [entry : {NULL} \cup Entries, before : {NULL} \cup Entries]]
  /\ entered \in BOOLEAN /\ clash \in BOOLEAN
  /\ walk \in [type : {"RESERVE", "ZERO_PROV"}, at : {NULL} \cup Entries, owed : BOOLEAN]
  /\ queued \in 0..QueueSize
  /\ held \in Nat
  /\ fault \in {"none", "freed_entry", "null_queue"}

InHand(t, r) == pc[t] # "idle" /\ Sends(t) = r

\* A reading is given to esp_now_send twice, never less and never more often:
\* by the task, and by the timer before it frees the reading. So one loss
\* of the two does not matter.
SentTwice ==
  \A r \in Buffers :
    /\ attempts[r] <= 2
    /\ heap[r] = "freed" => attempts[r] = 2

\* Every buffer is owned once. On the sending device by the task or sent_msgs,
\* and what the timer sends has not been freed; on the other device by the
\* handler, the queue or the task.
BuffersOwned ==
  /\ \A r \in Buffers : heap[r] = "live" <=> r = slot.msg \/ InHand("sensor", r)
  /\ fault = "none" =>
       held = queued + (IF pc["wifi"] = "push" THEN 1 ELSE 0)
                         + (IF pc["task"] = "free" THEN 1 ELSE 0)

\* The sensor task and the timer never fill espnow_data at a time, although the
\* mutex does not cover the task's sending.
SendApart == \E t \in Senders : pc[t] \notin {"fill", "send"}

\* The handler that app_main has entered is found for every frame that comes
\* later, while others come and go around it; unless two tasks have changed the
\* list at a time.
HandlerIsFound ==
  ~clash /\ pc["wifi"] = "walk" /\ walk.at = NULL => ~walk.owed
=============================================================================
