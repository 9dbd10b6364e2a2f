------------------------- MODULE SensorMesh_proofs -------------------------
(***************************************************************************)
(* Proofs about SensorMesh, for any number of readings, handler entries    *)
(* and places in the queue.                                                *)
(*                                                                         *)
(* The sending device needs a ledger: how often a reading has been sent is *)
(* known from where its buffer is, in the sensor task's hand, in sent_msgs *)
(* before or after the retry, or freed. The receiving device needs a count *)
(* of the copies, and the shape of the list of handlers at every point of  *)
(* an entry or a removal.                                                  *)
(***************************************************************************)
EXTENDS SensorMesh, TLAPS

Sending == <<sending, pc["sensor"], pc["timer"]>>

(* Types of what the two parts of the proof look at.                       *)

PcType ==
  /\ pc \in [Procs -> Labels]
  /\ pc["sensor"] \in {"idle", "fill", "send", "keep"}
  /\ pc["timer"] \in {"idle", "fill", "send", "give"}

SendType ==
  /\ PcType
  /\ made \in 0..Readings
  /\ heap \in [Buffers -> {"unused", "live", "freed"}]
  /\ slot \in [max : {0, 1}, tries : {0, 1}, msg : {NULL} \cup Buffers]
  /\ mutex \in {"free", "timer"}
  /\ attempts \in [Buffers -> Nat]

(* The ledger.                                                             *)

\* The timer is at work with the mutex held and a message to resend.
TimerHolds ==
  IF pc["timer"] = "idle"
    THEN mutex = "free"
    ELSE mutex = "timer" /\ slot.msg # NULL /\ slot.tries = 1

\* A reading that has not been made.
Unmade == \A r \in Buffers : r > made => heap[r] = "unused" /\ attempts[r] = 0

\* The reading the sensor task has in hand.
InTask ==
  pc["sensor"] # "idle" =>
    /\ made \in Buffers
    /\ made # slot.msg
    /\ heap[made] = "live"
    /\ attempts[made] = IF pc["sensor"] = "keep" THEN 1 ELSE 0

\* The reading in sent_msgs.
InSlot ==
  IF slot.msg = NULL
    THEN slot = Empty
    ELSE /\ slot.max = 1
         /\ slot.msg <= made
         /\ heap[slot.msg] = "live"
         /\ slot.tries = 0 => attempts[slot.msg] = 1
         /\ pc["timer"] \in {"fill", "send"} => attempts[slot.msg] = 1
         /\ slot.tries = 1 /\ pc["timer"] \notin {"fill", "send"}
              => attempts[slot.msg] = 2

Ledger == TimerHolds /\ Unmade /\ InTask /\ InSlot
SInv == SendType /\ Ledger /\ SentTwice

-----------------------------------------------------------------------------
LEMMA SenderInit == Init => SInv
  <1> SUFFICES ASSUME Init
               PROVE  SInv
    OBVIOUS
  <1>1. /\ pc \in [Procs -> Labels]
        /\ pc["sensor"] = "idle" /\ pc["timer"] = "idle"
    BY DEF Init, Procs, Senders, Registrars, Labels
  <1>2. /\ made \in 0..Readings /\ made = 0
        /\ heap \in [Buffers -> {"unused", "live", "freed"}]
        /\ attempts \in [Buffers -> Nat]
        /\ \A r \in Buffers : heap[r] = "unused" /\ attempts[r] = 0
    BY BoundsAssumption DEF Init
  <1>3. /\ slot \in [max : {0, 1}, tries : {0, 1}, msg : {NULL} \cup Buffers]
        /\ slot = Empty /\ slot.msg = NULL
        /\ mutex = "free"
    BY DEF Init, Empty, NULL
  <1> QED
    BY <1>1, <1>2, <1>3 DEF SInv, SendType, PcType, Ledger, TimerHolds, Unmade,
       InTask, InSlot, SentTwice

\* Nothing the receiving device does touches the sending one.
LEMMA OthersKeepSending ==
  ASSUME PcType,
         \/ OthersSend
         \/ \E f \in air : Lose(f) \/ Arrive(f)
         \/ \E t \in Registrars : Enter(t) \/ EnterFails(t) \/ Publish(t)
         \/ AddPeer \/ LookUp \/ Unlink
         \/ WifiStep \/ TaskStep
  PROVE  UNCHANGED Sending /\ pc' \in [Procs -> Labels]
  <1> USE DEF Labels
  <1>1. CASE OthersSend
    BY <1>1 DEF OthersSend, PcType, Sending, sending
  <1>2. CASE \E f \in air : Lose(f) \/ Arrive(f)
    BY <1>2 DEF Lose, Arrive, Goto, At, PcType, Sending, Procs, Senders, sending
  <1>3. CASE \E t \in Registrars : Enter(t) \/ EnterFails(t) \/ Publish(t)
    BY <1>3 DEF Enter, EnterFails, Publish, Goto, At, PcType, Sending, Procs, Senders,
       Registrars, sending
  <1>4. CASE AddPeer \/ LookUp \/ Unlink
    BY <1>4 DEF AddPeer, LookUp, Unlink, Goto, At, PcType, Sending, Procs, Senders,
       Registrars, sending
  <1>5. CASE WifiStep
    BY <1>5 DEF WifiStep, Walk, Copy, Push, Panic, Goto, At, PcType, Sending, Procs,
       Senders, sending
  <1>6. CASE TaskStep
    BY <1>6 DEF TaskStep, TaskTakes, TaskFrees, Goto, At, PcType, Sending, Procs,
       Senders, sending
  <1> QED
    BY <1>1, <1>2, <1>3, <1>4, <1>5, <1>6

LEMMA SenderStep == SInv /\ [Next]_vars => SInv'
  <1> SUFFICES ASSUME SInv, [Next]_vars
               PROVE  SInv'
    OBVIOUS
  <1> USE BoundsAssumption DEF Buffers, NULL, Empty, Labels
  <1> USE DEF SInv, SendType, PcType, Ledger, TimerHolds, Unmade, InTask, InSlot,
              SentTwice
  <1>1. CASE SensorMake
    BY <1>1 DEF SensorMake, Goto, Procs, Senders
  <1>2. CASE FillFrame("sensor")
    BY <1>2 DEF FillFrame, Goto, Procs, Senders, sending
  <1>3. CASE FillFrame("timer")
    BY <1>3 DEF FillFrame, Goto, Procs, Senders, sending
  <1>4. CASE SendFrame("sensor")
    BY <1>4 DEF SendFrame, Sends, Goto, Procs, Senders
  <1>5. CASE SendFrame("timer")
    BY <1>5 DEF SendFrame, Sends, Goto, Procs, Senders
  <1>6. CASE SensorKeep
    BY <1>6 DEF SensorKeep, Goto, Procs, Senders
  <1>7. CASE TimerRetry
    BY <1>7 DEF TimerRetry, Goto, Procs, Senders
  <1>8. CASE TimerGive
    BY <1>8 DEF TimerGive, Goto, Procs, Senders
  <1>9. CASE TimerFrees
    BY <1>9 DEF TimerFrees, Goto, Procs, Senders
  <1>10. CASE UNCHANGED Sending /\ pc' \in [Procs -> Labels]
    BY <1>10 DEF Sending, sending
  <1>11. CASE UNCHANGED vars
    BY <1>11 DEF vars, sending
  <1> QED
    BY <1>1, <1>2, <1>3, <1>4, <1>5, <1>6, <1>7, <1>8, <1>9, <1>10, <1>11,
       OthersKeepSending DEF Next, SensorStep, TimerStep, Send

\* A reading is given to esp_now_send at most twice, and exactly twice before it
\* is freed, however the sensor task and the timer of espnow.c take turns, and
\* also when readings come so fast that the slot is overwritten.
THEOREM ReadingsAreSentTwice == Spec => []SentTwice
  <1>1. SInv => SentTwice
    BY DEF SInv
  <1> QED
    BY SenderInit, SenderStep, <1>1, PTL DEF Spec

-----------------------------------------------------------------------------
(* Readings far enough apart: the slot is empty while the sensor task is   *)
(* at work, so that nothing is forgotten.                                  *)

Alone == pc["sensor"] # "idle" => slot.msg = NULL
OwnedHere == \A r \in Buffers : heap[r] = "live" <=> r = slot.msg \/ InHand("sensor", r)
AInv == SInv /\ Alone /\ OwnedHere

LEMMA AloneInit == Init => AInv
  <1> SUFFICES ASSUME Init
               PROVE  Alone /\ OwnedHere
    BY SenderInit DEF AInv
  <1>1. pc["sensor"] = "idle"
    BY DEF Init, Procs, Senders, Registrars
  <1>2. slot.msg = NULL /\ NULL \notin Buffers
    BY DEF Init, Empty, NULL, Buffers
  <1>3. \A r \in Buffers : heap[r] = "unused"
    BY DEF Init
  <1> QED
    BY <1>1, <1>2, <1>3 DEF Alone, OwnedHere, InHand

LEMMA AloneStep == Spaced /\ AInv /\ [Next]_vars => AInv'
  <1> SUFFICES ASSUME Spaced, AInv, [Next]_vars
               PROVE  Alone' /\ OwnedHere'
    BY SenderStep DEF AInv
  <1> USE BoundsAssumption DEF Buffers, NULL, Empty, Labels
  <1> USE DEF AInv, Alone, OwnedHere, InHand, Sends, SInv, SendType, PcType, Ledger,
              TimerHolds, Unmade, InTask, InSlot
  <1>1. CASE SensorMake
    BY <1>1 DEF SensorMake, Goto, Procs, Senders
  <1>2. CASE FillFrame("sensor")
    BY <1>2 DEF FillFrame, Goto, Procs, Senders, sending
  <1>3. CASE FillFrame("timer")
    BY <1>3 DEF FillFrame, Goto, Procs, Senders, sending
  <1>4. CASE SendFrame("sensor")
    BY <1>4 DEF SendFrame, Goto, Procs, Senders
  <1>5. CASE SendFrame("timer")
    BY <1>5 DEF SendFrame, Goto, Procs, Senders
  <1>6. CASE SensorKeep
    BY <1>6 DEF SensorKeep, Goto, Procs, Senders
  <1>7. CASE TimerRetry
    BY <1>7 DEF TimerRetry, Goto, Procs, Senders
  <1>8. CASE TimerGive
    BY <1>8 DEF TimerGive, Goto, Procs, Senders
  <1>9. CASE TimerFrees
    BY <1>9 DEF TimerFrees, Goto, Procs, Senders
  <1>10. CASE UNCHANGED Sending /\ pc' \in [Procs -> Labels]
    BY <1>10 DEF Sending, sending
  <1>11. CASE UNCHANGED vars
    BY <1>11 DEF vars, sending
  <1> QED
    BY <1>1, <1>2, <1>3, <1>4, <1>5, <1>6, <1>7, <1>8, <1>9, <1>10, <1>11,
       OthersKeepSending DEF Next, SensorStep, TimerStep, Send

\* If a reading is retried and freed before the next one is made, as the 10 s of
\* sensor.c and the 100 ms of the timer have it, the task and the timer never
\* use espnow_data at a time, although no lock covers it.
THEOREM SendersStayApart == ASSUME Spaced PROVE Spec => []SendApart
  <1>1. AInv => SendApart
    BY DEF AInv, Alone, SInv, Ledger, TimerHolds, SendApart, Senders
  <1>2. AInv /\ [Next]_vars => AInv'
    BY AloneStep
  <1> QED
    BY AloneInit, <1>1, <1>2, PTL DEF Spec

-----------------------------------------------------------------------------
(* The receiving device: the copies are counted.                           *)

HInv ==
  /\ pc \in [Procs -> Labels]
  /\ pc["wifi"] \in {"idle", "walk", "copy", "push"}
  /\ pc["task"] \in {"idle", "free"}
  /\ queued \in 0..QueueSize
  /\ fault \in {"none", "freed_entry", "null_queue"}
  /\ held = queued + (IF pc["wifi"] = "push" THEN 1 ELSE 0)
                     + (IF pc["task"] = "free" THEN 1 ELSE 0)

LEMMA HoldInit == Init => HInv
  BY BoundsAssumption DEF Init, HInv, Procs, Senders, Registrars, Labels

LEMMA HoldStep == HInv /\ [Next]_vars => HInv'
  <1> SUFFICES ASSUME HInv, [Next]_vars
               PROVE  HInv'
    OBVIOUS
  <1> USE BoundsAssumption DEF HInv, Labels, Procs, Senders, Registrars
  <1>1. CASE SensorMake \/ SensorKeep \/ Send("sensor")
    BY <1>1 DEF SensorMake, SensorKeep, Send, FillFrame, SendFrame, Goto, receiving
  <1>2. CASE TimerStep
    BY <1>2 DEF TimerStep, Send, FillFrame, SendFrame, TimerRetry, TimerGive,
       TimerFrees, Goto, receiving
  <1>3. CASE OthersSend \/ \E f \in air : Lose(f) \/ Arrive(f)
    BY <1>3 DEF OthersSend, Lose, Arrive, Goto, At, receiving
  <1>4. CASE \E t \in Registrars : Enter(t) \/ EnterFails(t) \/ Publish(t)
    BY <1>4 DEF Enter, EnterFails, Publish, Goto, At, receiving
  <1>5. CASE AddPeer \/ LookUp \/ Unlink
    BY <1>5 DEF AddPeer, LookUp, Unlink, Goto, At, receiving
  <1>6. CASE Walk
    BY <1>6 DEF Walk, Panic, Goto, At, receiving
  <1>7. CASE Copy
    BY <1>7 DEF Copy, Goto, At
  <1>8. CASE Push
    BY <1>8 DEF Push, Panic, Goto, At, receiving
  <1>9. CASE TaskStep
    BY <1>9 DEF TaskStep, TaskTakes, TaskFrees, Goto, At
  <1>10. CASE UNCHANGED vars
    BY <1>10 DEF vars, receiving
  <1> QED
    BY <1>1, <1>2, <1>3, <1>4, <1>5, <1>6, <1>7, <1>8, <1>9, <1>10
       DEF Next, SensorStep, WifiStep

\* No buffer of a reading and no copy of a frame is leaked or freed twice, for any
\* number of readings that are as far apart and any length of the queue.
THEOREM EveryBufferIsOwned == ASSUME Spaced PROVE Spec => []BuffersOwned
  <1>1. AInv /\ HInv => BuffersOwned
    BY DEF AInv, OwnedHere, HInv, BuffersOwned
  <1>2. AInv /\ [Next]_vars => AInv'
    BY AloneStep
  <1> QED
    BY AloneInit, <1>2, HoldInit, HoldStep, <1>1, PTL DEF Spec

-----------------------------------------------------------------------------
(* The list of handlers of the receiving device.                           *)

HandlerType ==
  /\ pc["main"] \in {"out", "publish", "peer", "in", "failed"}
  /\ pc["event"] \in {"out", "publish", "in", "unlink"}
  /\ air \subseteq {"RESERVE", "ZERO_PROV"}
  /\ head \in {NULL} \cup Entries
  /\ next \in [Entries -> {NULL} \cup Entries]
  /\ type \in [Entries -> {"RESERVE", "ZERO_PROV"}]
  /\ alive \subseteq Entries
  /\ mine \in [Registrars -> [entry : {NULL} \cup Entries, before : {NULL} \cup Entries]]
  /\ pc["event"] = "unlink" => mine["event"].entry \in Entries
  /\ walk \in [type : {"RESERVE", "ZERO_PROV"}, at : {NULL} \cup Entries, owed : BOOLEAN]
  /\ entered \in BOOLEAN
  /\ entered => pc["main"] \notin {"out", "publish"}

OfType(what) == {e \in alive : type[e] = what}
\* The entries that have been published.
Linked == alive \ {mine[t].entry : t \in {u \in Registrars : pc[u] = "publish"}}

\* Each of the two tasks has one entry at most, app_main has the one it has
\* entered, and they are not at work at a time.
OneEach ==
  /\ ~(AtWork("main") /\ AtWork("event"))
  /\ pc["main"] = "out" => OfType("RESERVE") = {}
  /\ pc["event"] = "out" => OfType("ZERO_PROV") = {}
  /\ \A y, z \in OfType("RESERVE") : y = z
  /\ \A y, z \in OfType("ZERO_PROV") : y = z
  /\ entered => OfType("RESERVE") # {}

\* What a task that is at work has read is still so.
WorkIsCurrent ==
  /\ \A t \in Registrars : pc[t] = "publish" =>
       mine[t].entry \in OfType(TypeOf(t)) /\ next[mine[t].entry] = head
  /\ pc["event"] = "unlink" =>
       /\ mine["event"].entry \in OfType("ZERO_PROV")
       /\ IF mine["event"].before = NULL THEN head = mine["event"].entry
          ELSE head = mine["event"].before /\ next[head] = mine["event"].entry

\* The list holds the entries that have been published: the head and the one
\* behind it.
Chained ==
  /\ head \in Linked \cup {NULL}
  /\ head = NULL => Linked = {}
  /\ head # NULL => next[head] \in (Linked \ {head}) \cup {NULL}
  /\ \A e \in Linked \ {head} : next[head] = e /\ next[e] = NULL

\* The walk of a frame for the application's handler has it still ahead, as long
\* as it goes over entries that are there.
Ahead ==
  pc["wifi"] = "walk" /\ walk.owed =>
    /\ walk.type = "RESERVE" /\ entered
    /\ walk.at # NULL
    /\ walk.at \in alive =>
         walk.at \in OfType("RESERVE") \/ next[walk.at] \in OfType("RESERVE")

ListInv == ~clash => OneEach /\ WorkIsCurrent /\ Chained /\ Ahead
FoundInv == PcType /\ HandlerType /\ ListInv

LEMMA FoundInit == Init => FoundInv
  <1> SUFFICES ASSUME Init
               PROVE  FoundInv
    OBVIOUS
  <1>1. PcType /\ HandlerType
    BY DEF Init, PcType, HandlerType, Procs, Senders, Registrars, Labels, Nothing,
           NoWalk, NULL, Entries
  <1>2. /\ pc["main"] = "out" /\ pc["event"] = "out" /\ pc["wifi"] = "idle"
        /\ alive = {} /\ head = NULL /\ ~entered
    BY DEF Init, Procs, Senders, Registrars
  <1>3. Linked = {} /\ \A what : OfType(what) = {}
    BY <1>2 DEF Linked, OfType
  <1> QED
    BY <1>1, <1>2, <1>3 DEF FoundInv, ListInv, OneEach, WorkIsCurrent, Chained, Ahead,
       AtWork, Registrars

LEMMA FoundStep == FoundInv /\ [Next]_vars => FoundInv'
  <1> SUFFICES ASSUME FoundInv, [Next]_vars
               PROVE  FoundInv'
    OBVIOUS
  <1> USE DEF FoundInv, PcType, HandlerType, Procs, Senders, Registrars, Labels
  <1>1. CASE /\ UNCHANGED <<handlers, walk, pc["main"], pc["event"], pc["wifi"]>>
             /\ PcType' /\ air' \subseteq {"RESERVE", "ZERO_PROV"}
    BY <1>1 DEF handlers, ListInv, OneEach, WorkIsCurrent, Chained, Ahead, OfType,
                Linked, AtWork
  <1>2. CASE SensorMake \/ SensorKeep
    <2>1. CASE SensorMake
      BY <1>1, <2>1 DEF SensorMake, Goto, handlers, receiving
    <2>2. CASE SensorKeep
      BY <1>1, <2>2 DEF SensorKeep, Goto, handlers, receiving
    <2> QED
      BY <1>2, <2>1, <2>2
  <1>3. CASE Send("sensor") \/ Send("timer")
    <2>1. ASSUME NEW t \in Senders, FillFrame(t)
          PROVE  FoundInv'
      BY <1>1, <2>1 DEF FillFrame, Goto, handlers, receiving
    <2>2. ASSUME NEW t \in Senders, SendFrame(t)
          PROVE  FoundInv'
      <3>1. /\ pc[t] = "send" /\ air' \subseteq air \cup {"RESERVE"}
            /\ pc' = [pc EXCEPT ![t] = IF t = "sensor" THEN "keep" ELSE "give"]
            /\ UNCHANGED <<handlers, receiving>>
        BY <2>2 DEF SendFrame, Goto
      <3> QED
        BY <1>1, <3>1 DEF handlers, receiving
    <2> QED
      BY <1>3, <2>1, <2>2 DEF Send
  <1>4. CASE TimerRetry \/ TimerGive \/ TimerFrees
    BY <1>1, <1>4 DEF TimerRetry, TimerGive, TimerFrees, Goto, handlers, receiving
  <1>5. CASE OthersSend \/ \E f \in air : Lose(f)
    BY <1>1, <1>5 DEF OthersSend, Lose, handlers, receiving
  <1>6. ASSUME NEW f \in air, Arrive(f)
        PROVE  FoundInv'
    <2>1. /\ UNCHANGED handlers /\ air' \subseteq air /\ f \in {"RESERVE", "ZERO_PROV"}
          /\ walk' = [type |-> f, at |-> head,
                      owed |-> f = "RESERVE" /\ entered]
          /\ pc' = [pc EXCEPT !["wifi"] = "walk"]
      BY <1>6 DEF Arrive, Goto
    <2>2. PcType' /\ HandlerType'
      BY <2>1 DEF handlers
    <2>3. /\ OneEach => OneEach'
          /\ WorkIsCurrent => WorkIsCurrent'
          /\ Chained => Chained'
      BY <2>1 DEF handlers, OneEach, WorkIsCurrent, Chained, OfType, Linked, AtWork
    <2>4. ASSUME OneEach, WorkIsCurrent, Chained, walk'.owed
          PROVE  /\ walk'.type = "RESERVE" /\ entered
                 /\ head # NULL
                 /\ head \in OfType("RESERVE") \/ next[head] \in OfType("RESERVE")
      <3>1. walk'.type = "RESERVE" /\ entered
        BY <2>1, <2>4
      <3>2. PICK m \in Entries : OfType("RESERVE") = {m}
        BY <2>4, <3>1 DEF OneEach, OfType
      <3>3. m \in Linked
        BY <2>4, <3>1, <3>2 DEF Linked, OfType, WorkIsCurrent, TypeOf
      <3> QED
        BY <2>4, <3>1, <3>2, <3>3 DEF Chained
    <2>5. OneEach /\ WorkIsCurrent /\ Chained => Ahead'
      BY <2>1, <2>4 DEF Ahead, OfType, handlers
    <2> QED
      BY <2>1, <2>2, <2>3, <2>5 DEF ListInv, handlers
  <1>7. ASSUME NEW t \in Registrars, Enter(t)
        PROVE  FoundInv'
    <2>1. PICK e \in Entries \ alive :
            /\ alive' = alive \cup {e}
            /\ type' = [type EXCEPT ![e] = TypeOf(t)]
            /\ next' = [next EXCEPT ![e] = head]
            /\ mine' = [mine EXCEPT ![t].entry = e]
      BY <1>7 DEF Enter
    <2>2. /\ pc[t] = "out" /\ pc' = [pc EXCEPT ![t] = "publish"]
          /\ clash' = (clash \/ \E u \in Registrars \ {t} : AtWork(u))
          /\ UNCHANGED <<air, head, walk, entered>>
      BY <1>7 DEF Enter, Starts, Goto, At, receiving
    <2>3. PcType' /\ HandlerType'
      <3>1. TypeOf(t) \in {"RESERVE", "ZERO_PROV"}
        BY DEF TypeOf
      <3> QED
        BY <2>1, <2>2, <3>1
    <2>4. ASSUME ~clash', ListInv
          PROVE  OneEach' /\ WorkIsCurrent' /\ Chained' /\ Ahead'
      <3>0. /\ OneEach /\ WorkIsCurrent /\ Chained /\ Ahead
            /\ \A u \in Registrars \ {t} : ~AtWork(u)
        BY <2>2, <2>4 DEF ListInv
      <3>1. OfType("RESERVE")' = OfType("RESERVE") \cup (IF t = "main" THEN {e} ELSE {})
        BY <2>1 DEF OfType, TypeOf
      <3>2. OfType("ZERO_PROV")' = OfType("ZERO_PROV") \cup (IF t = "event" THEN {e} ELSE {})
        BY <2>1 DEF OfType, TypeOf
      <3>3. Linked' = Linked /\ Linked = alive
        BY <2>1, <2>2, <3>0 DEF Linked, AtWork
      <3>4. OneEach'
        BY <2>2, <3>0, <3>1, <3>2 DEF OneEach, AtWork
      <3>5. WorkIsCurrent'
        BY <2>1, <2>2, <3>0, <3>1, <3>2 DEF WorkIsCurrent, AtWork, TypeOf
      <3>6. Chained'
        BY <2>1, <2>2, <3>0, <3>3 DEF Chained, NULL
      <3>7. Ahead'
        <4> SUFFICES ASSUME pc["wifi"] = "walk", walk.owed
                     PROVE  /\ walk.type = "RESERVE" /\ entered
                            /\ walk.at # NULL
                            /\ walk.at \in alive' =>
                                 \/ walk.at \in OfType("RESERVE")'
                                 \/ next'[walk.at] \in OfType("RESERVE")'
          BY <2>2 DEF Ahead
        <4>1. t = "event" /\ OfType("ZERO_PROV") = {}
          BY <2>2, <3>0 DEF Ahead, OneEach
        <4>2. PICK m \in Entries : OfType("RESERVE") = {m}
          BY <3>0 DEF Ahead, OneEach, OfType
        <4>3. alive = {m}
          BY <4>1, <4>2 DEF OfType
        <4>4. head = m
          BY <3>0, <3>3, <4>3 DEF Chained
        <4> QED
          BY <2>1, <2>2, <3>0, <3>1, <4>1, <4>2, <4>3, <4>4 DEF Ahead
      <3> QED
        BY <3>4, <3>5, <3>6, <3>7
    <2> QED
      BY <2>3, <2>4 DEF ListInv
  <1>8. ASSUME NEW t \in Registrars, Publish(t)
        PROVE  FoundInv'
    <2>1. /\ pc[t] = "publish" /\ head' = mine[t].entry
          /\ pc' = [pc EXCEPT ![t] = IF t = "main" THEN "peer" ELSE "in"]
          /\ mine' = [mine EXCEPT ![t] = Nothing]
          /\ entered' = (entered \/ t = "main")
          /\ UNCHANGED <<air, next, type, alive, clash, walk>>
      BY <1>8 DEF Publish, Goto, At, receiving
    <2>2. PcType' /\ HandlerType'
      BY <2>1 DEF Nothing, NULL
    <2>3. ASSUME ~clash, ListInv
          PROVE  OneEach' /\ WorkIsCurrent' /\ Chained' /\ Ahead'
      <3>0. OneEach /\ WorkIsCurrent /\ Chained /\ Ahead
        BY <2>3 DEF ListInv
      <3>1. OfType("RESERVE")' = OfType("RESERVE") /\ OfType("ZERO_PROV")' = OfType("ZERO_PROV")
        BY <2>1 DEF OfType
      <3>2. \A u \in Registrars \ {t} : ~AtWork(u)
        BY <2>1, <3>0 DEF OneEach, AtWork
      <3>3. \A u \in Registrars : ~AtWork(u)'
        BY <2>1, <3>2 DEF AtWork
      <3>4. OneEach'
        <4>1. t = "main" => mine[t].entry \in OfType("RESERVE")
          BY <2>1, <3>0 DEF WorkIsCurrent, TypeOf
        <4> QED
          BY <2>1, <3>0, <3>1, <3>3, <4>1 DEF OneEach
      <3>5. WorkIsCurrent'
        BY <3>3 DEF WorkIsCurrent, AtWork
      <3>6. Ahead'
        BY <2>1, <3>0, <3>1 DEF Ahead
      <3>7. Chained'
        <4> DEFINE x == mine[t].entry
        <4>1. x \in alive /\ next[x] = head
          BY <2>1, <3>0 DEF WorkIsCurrent, OfType
        <4>2. Linked = alive \ {x} /\ Linked' = alive
          BY <2>1, <3>2, <3>3 DEF Linked, AtWork
        <4>3. \A y, z \in Linked : y = z
          <5>1. x \in OfType(TypeOf(t))
            BY <2>1, <3>0 DEF WorkIsCurrent
          <5>2. \A y, z \in OfType("RESERVE") : y = z
            BY <3>0 DEF OneEach
          <5>3. \A y, z \in OfType("ZERO_PROV") : y = z
            BY <3>0 DEF OneEach
          <5>4. alive = OfType("RESERVE") \cup OfType("ZERO_PROV")
            BY DEF OfType
          <5> QED
            BY <4>2, <5>1, <5>2, <5>3, <5>4 DEF TypeOf
        <4> HIDE DEF x
        <4>4. head' = x /\ x # NULL
          BY <2>1, <4>1 DEF x, NULL, Entries
        <4> QED
          BY <2>1, <3>0, <4>1, <4>2, <4>3, <4>4 DEF Chained
      <3> QED
        BY <3>4, <3>5, <3>6, <3>7
    <2> QED
      BY <2>1, <2>2, <2>3 DEF ListInv
  <1>9. CASE AddPeer \/ \E t \in Registrars : EnterFails(t)
    BY <1>9 DEF AddPeer, EnterFails, At, Goto, handlers, receiving, ListInv, OneEach, WorkIsCurrent,
                Chained, Ahead, OfType, Linked, AtWork
  <1>10. CASE LookUp
    <2>1. /\ pc["event"] = "in"
          /\ clash' = (clash \/ \E u \in Registrars \ {"event"} : AtWork(u))
          /\ UNCHANGED <<air, head, next, type, alive, entered, walk>>
      BY <1>10 DEF LookUp, Starts, At, receiving
    <2>2. ASSUME NEW n \in Entries, NEW p \in [1..n -> Entries], WayTo(p, n, "ZERO_PROV"),
                 mine' = [mine EXCEPT !["event"] =
                           [entry |-> p[n], before |-> IF n = 1 THEN NULL ELSE p[n - 1]]],
                 pc' = [pc EXCEPT !["event"] = "unlink"]
          PROVE  FoundInv'
      <3>1. PcType' /\ HandlerType'
        <4>1. n \in 1..n /\ (n # 1 => n - 1 \in 1..n)
          BY DEF Entries
        <4>2. p[n] \in Entries /\ (n # 1 => p[n - 1] \in Entries)
          BY <4>1
        <4>3. mine' \in [Registrars ->
                          [entry : {NULL} \cup Entries, before : {NULL} \cup Entries]]
          BY <2>2, <4>2
        <4>4. mine'["event"].entry \in Entries
          BY <2>2, <4>2
        <4> QED
          BY <2>1, <2>2, <4>3, <4>4
      <3>2. ASSUME ~clash', ListInv
            PROVE  OneEach' /\ WorkIsCurrent' /\ Chained' /\ Ahead'
        <4>0. /\ OneEach /\ WorkIsCurrent /\ Chained /\ Ahead /\ ~AtWork("main")
          BY <2>1, <3>2 DEF ListInv
        <4>1. \A what : OfType(what)' = OfType(what)
          BY <2>1 DEF OfType
        <4>2. Linked' = alive /\ Linked = alive
          BY <2>1, <2>2, <4>0 DEF Linked, AtWork
        <4>3. p[1] = head /\ head \in alive /\ head # NULL
          BY <2>2, <4>0, <4>2 DEF WayTo, Entries, Chained, NULL
        <4>4. n = 1 \/ n = 2
          <5> SUFFICES ASSUME n > 2 PROVE FALSE
            BY DEF Entries
          <5>1. p[2] = next[head] /\ p[2] \in Entries /\ p[3] = next[p[2]] /\ p[3] \in Entries
            BY <2>2, <4>3 DEF WayTo, Entries
          <5> QED
            BY <4>0, <4>2, <4>3, <5>1 DEF Chained, NULL, Entries
        <4>5. IF n = 1 THEN type[head] = "ZERO_PROV"
              ELSE p[2] = next[head] /\ type[p[2]] = "ZERO_PROV" /\ p[2] \in alive
          BY <2>2, <4>0, <4>2, <4>3, <4>4 DEF WayTo, Chained, Entries, NULL
        <4>6. /\ mine'["event"].entry = p[n] /\ pc'["event"] = "unlink"
              /\ mine'["event"].before = IF n = 1 THEN NULL ELSE head
          BY <2>2, <4>3, <4>4
        <4>7. WorkIsCurrent'
          BY <2>1, <2>2, <4>0, <4>1, <4>3, <4>4, <4>5, <4>6
             DEF WorkIsCurrent, OfType, AtWork
        <4>8. OneEach' /\ Chained' /\ Ahead'
          BY <2>1, <2>2, <4>0, <4>1, <4>2 DEF OneEach, Chained, Ahead, AtWork
        <4> QED
          BY <4>7, <4>8
      <3> QED
        BY <2>1, <3>1, <3>2 DEF ListInv
    <2>3. ASSUME ~\E n \in Entries : \E p \in [1..n -> Entries] : WayTo(p, n, "ZERO_PROV"),
                 pc' = [pc EXCEPT !["event"] = "out"], mine' = mine
          PROVE  FoundInv'
      <3>1. PcType' /\ HandlerType'
        BY <2>1, <2>3
      <3>2. ASSUME ~clash', ListInv
            PROVE  OneEach' /\ WorkIsCurrent' /\ Chained' /\ Ahead'
        <4>0. /\ OneEach /\ WorkIsCurrent /\ Chained /\ Ahead /\ ~AtWork("main")
          BY <2>1, <3>2 DEF ListInv
        <4>1. OfType("ZERO_PROV") = {}
          <5> SUFFICES ASSUME NEW e \in OfType("ZERO_PROV")
                       PROVE  FALSE
            OBVIOUS
          <5>1. OfType("ZERO_PROV") = {e}
            BY <4>0 DEF OneEach
          <5>2. Linked = alive /\ e \in alive /\ type[e] = "ZERO_PROV" /\ head \in alive
            BY <2>1, <4>0, <5>1 DEF Linked, AtWork, OfType, Chained
          <5>3. CASE head = e
            <6> DEFINE p == [k \in 1..1 |-> e]
            <6>1. 1 \in Entries /\ p \in [1..1 -> Entries]
              BY <5>2, BoundsAssumption DEF Entries
            <6>2. WayTo(p, 1, "ZERO_PROV")
              BY <5>2, <5>3 DEF WayTo
            <6> QED
              BY <2>3, <6>1, <6>2
          <5>4. CASE head # e
            <6> DEFINE p == [k \in 1..2 |-> IF k = 1 THEN head ELSE e]
            <6>1. next[head] = e /\ type[head] # "ZERO_PROV"
              BY <4>0, <5>1, <5>2, <5>4 DEF Chained, OfType
            <6>2. 2 \in Entries /\ p \in [1..2 -> Entries]
              BY <5>2, <5>4, BoundsAssumption DEF Entries
            <6>3. WayTo(p, 2, "ZERO_PROV")
              BY <5>2, <6>1 DEF WayTo
            <6> QED
              BY <2>3, <6>2, <6>3
          <5> QED
            BY <5>3, <5>4
        <4>2. Linked' = Linked /\ \A what : OfType(what)' = OfType(what)
          BY <2>1, <2>3 DEF Linked, OfType
        <4> QED
          BY <2>1, <2>3, <4>0, <4>1, <4>2 DEF OneEach, WorkIsCurrent, Chained, Ahead, AtWork
      <3> QED
        BY <2>1, <3>1, <3>2 DEF ListInv
    <2> QED
      BY <1>10, <2>2, <2>3 DEF LookUp, Goto
  <1>11. CASE Unlink
    <2> DEFINE e == mine["event"].entry
               b == mine["event"].before
    <2>1. /\ pc["event"] = "unlink" /\ alive' = alive \ {e}
          /\ IF b = NULL THEN head' = next[e] /\ next' = next
             ELSE head' = head /\ next' = [next EXCEPT ![b] = next[e]]
          /\ pc' = [pc EXCEPT !["event"] = "out"]
          /\ mine' = [mine EXCEPT !["event"] = Nothing]
          /\ UNCHANGED <<air, type, entered, clash, walk>>
      BY <1>11 DEF Unlink, Goto, At, receiving
    <2>2. e \in Entries /\ b \in {NULL} \cup Entries
      BY <2>1
    <2> HIDE DEF e, b
    <2>3. PcType' /\ HandlerType'
      BY <2>1, <2>2 DEF Nothing
    <2>4. ASSUME ~clash, ListInv
          PROVE  OneEach' /\ WorkIsCurrent' /\ Chained' /\ Ahead'
      <3>0. /\ OneEach /\ WorkIsCurrent /\ Chained /\ Ahead
        BY <2>4 DEF ListInv
      <3>1. ~AtWork("main") /\ \A u \in Registrars : ~AtWork(u)'
        BY <2>1, <3>0 DEF OneEach, AtWork
      <3>2. Linked = alive /\ Linked' = alive \ {e}
        BY <2>1, <3>1 DEF Linked, AtWork
      <3>3. /\ e \in OfType("ZERO_PROV")
            /\ IF b = NULL THEN head = e ELSE head = b /\ next[head] = e
        BY <2>1, <3>0 DEF WorkIsCurrent, e, b
      <3>4. OfType("ZERO_PROV") = {e}
        BY <2>1, <3>0, <3>3 DEF OneEach
      <3>5. OfType("RESERVE")' = OfType("RESERVE") /\ OfType("ZERO_PROV")' = {}
        BY <2>1, <3>3, <3>4 DEF OfType
      <3>6. OneEach'
        BY <2>1, <3>0, <3>1, <3>5 DEF OneEach
      <3>7. WorkIsCurrent'
        BY <3>1 DEF WorkIsCurrent, AtWork
      <3>8. e # NULL /\ e \in alive
        BY <2>2, <3>3 DEF OfType, Entries, NULL
      <3>9. Chained'
        <4>1. CASE b = NULL
          <5>1. head = e /\ head' = next[e] /\ next' = next
            BY <2>1, <3>3, <4>1
          <5>2. head' \in (alive \ {e}) \cup {NULL}
            BY <3>0, <3>2, <3>8, <5>1 DEF Chained
          <5>3. \A x \in alive \ {e} : next[e] = x /\ next[x] = NULL
            BY <3>0, <3>2, <5>1 DEF Chained
          <5> QED
            BY <3>2, <5>1, <5>2, <5>3 DEF Chained, NULL, Entries
        <4>2. CASE b # NULL
          <5>1. /\ head = b /\ head' = b /\ b # e /\ b \in alive
                /\ next[b] = e /\ next[e] = NULL
            BY <2>1, <3>0, <3>2, <3>3, <3>8, <4>2 DEF Chained
          <5>2. Linked' = {b}
            BY <3>0, <3>2, <5>1 DEF Chained
          <5>3. next'[b] = NULL
            BY <2>1, <4>2, <5>1
          <5> QED
            BY <4>2, <5>1, <5>2, <5>3 DEF Chained
        <4> QED
          BY <4>1, <4>2
      <3>10. Ahead'
        <4>1. b # NULL => b # e /\ b \in OfType("RESERVE")
          BY <3>0, <3>2, <3>3, <3>4, <3>8 DEF Chained, OfType
        <4> QED
          BY <2>1, <3>0, <3>5, <4>1 DEF Ahead, OfType
      <3> QED
        BY <3>6, <3>7, <3>9, <3>10
    <2> QED
      BY <2>1, <2>3, <2>4 DEF ListInv
  <1>12. CASE Walk
    <2>1. CASE UNCHANGED <<handlers, walk, pc, air>>
      BY <1>1, <2>1
    <2>2. CASE pc' = [pc EXCEPT !["wifi"] = pc'["wifi"]] /\ pc'["wifi"] \in {"idle", "copy"}
      <3>1. walk' = NoWalk /\ UNCHANGED <<handlers, air>>
        BY <1>12, <2>2 DEF Walk, At, Panic, Goto
      <3> QED
        BY <2>2, <3>1 DEF NoWalk, NULL, handlers, ListInv, OneEach, WorkIsCurrent,
                          Chained, Ahead, OfType, Linked, AtWork
    <2>3. CASE /\ walk.at \in alive /\ type[walk.at] # walk.type
               /\ walk' = [walk EXCEPT !.at = next[@]] /\ UNCHANGED <<pc, handlers, air>>
      <3>1. PcType' /\ HandlerType'
        BY <2>3 DEF handlers
      <3>2. /\ OneEach => OneEach'
            /\ WorkIsCurrent => WorkIsCurrent'
            /\ Chained => Chained'
        BY <2>3 DEF handlers, OneEach, WorkIsCurrent, Chained, OfType, Linked, AtWork
      <3>3. Ahead => Ahead'
        BY <2>3 DEF handlers, Ahead, OfType, NULL, Entries
      <3> QED
        BY <2>3, <3>1, <3>2, <3>3 DEF ListInv, handlers
    <2> QED
      BY <1>12, <2>1, <2>2, <2>3 DEF Walk, At, Panic, Goto, receiving
  <1>13. CASE Copy \/ Push \/ TaskStep
    BY <1>13 DEF Copy, Push, Panic, TaskStep, TaskTakes, TaskFrees, At, Goto, handlers,
                 receiving, ListInv, OneEach, WorkIsCurrent, Chained, Ahead, OfType,
                 Linked, AtWork
  <1>14. CASE UNCHANGED vars
    BY <1>1, <1>14 DEF vars, receiving
  <1> QED
    BY <1>2, <1>3, <1>4, <1>5, <1>6, <1>7, <1>8, <1>9, <1>10, <1>11, <1>12, <1>13, <1>14
       DEF Next, SensorStep, TimerStep, Send, WifiStep

\* While one task at a time enters or removes a handler, the handler that
\* app_main has entered is found for every frame of the application that arrives
\* from then on, although the Wi-Fi task goes over the list without a lock and
\* entries come, go and are allocated anew around it, for any number of entries.
THEOREM HandlerIsAlwaysFound == Spec => []HandlerIsFound
  <1>1. FoundInv => HandlerIsFound
    BY DEF FoundInv, ListInv, Ahead, HandlerIsFound
  <1> QED
    BY FoundInit, FoundStep, <1>1, PTL DEF Spec

ClashType == clash \in BOOLEAN

\* Every variable of both devices stays within its type, also when handlers are
\* entered and removed by two tasks at a time.
THEOREM TypeCorrect == Spec => []TypeOK
  <1>1. Init => ClashType
    BY DEF Init, ClashType
  <1>2. ClashType /\ [Next]_vars => ClashType'
    <2> SUFFICES ASSUME clash \in BOOLEAN, [Next]_vars, clash' # clash
                 PROVE  clash' \in BOOLEAN
      BY DEF ClashType
    <2>1. \E t \in Registrars : Starts(t)
      BY DEF Next, vars, handlers, SensorMake, SensorStep, TimerStep, Send, FillFrame,
             SendFrame, SensorKeep, TimerRetry, TimerGive, TimerFrees, OthersSend, Lose,
             Arrive, Enter, EnterFails, Publish, AddPeer, LookUp, Unlink, WifiStep,
             Walk, Copy, Push, Panic, TaskStep, TaskTakes, TaskFrees, Registrars
    <2> QED
      BY <2>1 DEF Starts
  <1>3. HInv => held \in Nat
    BY BoundsAssumption DEF HInv
  <1>4. SInv /\ HInv /\ FoundInv /\ ClashType => TypeOK
    BY <1>3 DEF SInv, SendType, PcType, HInv, FoundInv, HandlerType, ClashType,
                TypeOK
  <1> QED
    BY SenderInit, SenderStep, HoldInit, HoldStep, FoundInit, FoundStep,
       <1>1, <1>2, <1>4, PTL DEF Spec
=============================================================================
