------------------------------ MODULE NodeList ------------------------------
(***************************************************************************)
(* The list of mesh nodes one device keeps,                                *)
(* components/mesh_lite/src/esp_mesh_lite.c, and the tasks that use it:    *)
(* the mesh task runs the handlers of the two messages, the FreeRTOS timer *)
(* task runs root_timer_cb, report_timer_cb and the main program's print   *)
(* timer, the event task runs the IP event handlers, the main task runs    *)
(* esp_mesh_lite_init, and the HTTP server's task shows the list.          *)
(*                                                                         *)
(* Under node_info_mutex, what readers without the mutex can watch is in   *)
(* steps of its own: an entry is linked and then counted, and a sweep is a *)
(* step per node, which unlinks it before it is counted out. A pointer to  *)
(* an entry is named by the entry's MAC; freeing the entry makes every     *)
(* pointer to it "dangling".                                               *)
(***************************************************************************)
EXTENDS Naturals, SequencesExt

(* A definition whose comment begins with "Defect:" is a variant of the    *)
(* definition after it, the way a mistake in the code would have it. The   *)
(* specification does not use it: a property's run has to fail with it.    *)

CONSTANTS
  Macs,         \* the MAC addresses of the nodes
  Self,         \* the one of this device
  Infos,        \* what else is known of a node: its level and IP address
  Levels,       \* the levels the mesh core gives this device: 0 none, 1 ROOT
  Interval,     \* CONFIG_MESH_LITE_REPORT_INTERVAL
  Buffer,       \* MESH_LITE_REPORT_INTERVAL_BUFFER
  Readers,      \* the tasks that walk the list without node_info_mutex
  NoMem,        \* can malloc fail?
  PostMayDrop   \* can the event queue be full? (esp_event_post waits for 0 ticks)

Tasks == {"main", "mesh", "timer", "event", "http"}
ROOT == 1
Full == Interval + Buffer

ASSUME MacsAssumption == Self \in Macs /\ Macs \cap {"null", "dangling"} = {}
ASSUME InfosAssumption == Infos # {}
ASSUME LevelsAssumption == Levels \subseteq Nat /\ Levels # {}
ASSUME TtlAssumption == Interval \in Nat \ {0} /\ Buffer \in Nat
ASSUME FlagsAssumption == NoMem \in BOOLEAN /\ PostMayDrop \in BOOLEAN
ASSUME ReadersAssumption == Readers \subseteq {"mesh", "timer", "http"}

Entry == [mac : Macs, info : Infos, ttl : 0..Full]
Pointer == Macs \cup {"null", "dangling"}
Update == UNION {[S -> Infos] : S \in SUBSET Macs}  \* what is to be entered

VARIABLES
  level,      \* esp_mesh_lite_get_level()
  list,       \* node_info_list, from its head
  num,        \* nodes_num
  mutex,      \* node_info_mutex: "free" or the task holding it
  pc,         \* where each task is
  todo,       \* the entries it still has to update
  ptr,        \* its pointer into the list
  size,       \* the size it was given with the list
  at,         \* the position of the sweep in progress
  reported,   \* the nodes of the list message being applied, {} if there is none
  known,      \* the nodes the application knows of from the events posted
  fault       \* "none", or "use_after_free"

shared == <<list, num, mutex, at, known>>
own == <<pc, todo, ptr, size>>
vars == <<level, shared, own, reported, fault>>

ListMacs == {list[i].mac : i \in DOMAIN list}
None == [m \in {} |-> Self]

Goto(t, l) == pc' = [pc EXCEPT ![t] = l]
Running(t, l) == fault = "none" /\ pc[t] = l

Init ==
  /\ level \in Levels
  /\ list = <<>> /\ num = 0 /\ mutex = "free" /\ at = 1
  /\ pc = [t \in Tasks |-> IF t = "main" THEN "update" ELSE "idle"]
  /\ \E i \in Infos :  \* level 0, address 0
       todo = [t \in Tasks |-> IF t = "main" THEN [m \in {Self} |-> i] ELSE None]
  /\ ptr = [t \in Tasks |-> "null"] /\ size = [t \in Tasks |-> 0]
  /\ reported = {} /\ known = {} /\ fault = "none"
-----------------------------------------------------------------------------
(* What the tasks begin with.                                              *)

Begin(t, l, new) ==
  /\ Running(t, "idle")
  /\ Goto(t, l)
  /\ todo' = [todo EXCEPT ![t] = new]
  /\ UNCHANGED <<level, shared, ptr, size, fault>>

\* mesh_lite_report_nodes_handler: a node reports itself to the root.
RecvReport ==
  /\ level = ROOT
  /\ \E m \in Macs, i \in Infos : Begin("mesh", "update", [x \in {m} |-> i])
  /\ UNCHANGED reported

\* mesh_lite_update_nodes_list: the root's list arrives.
RecvList ==
  /\ level > ROOT
  /\ \E new \in Update :
       /\ new # None
       /\ Begin("mesh", "mark", new)
       /\ reported' = DOMAIN new

\* report_timer_cb. Below the root esp_mesh_lite_report_info only sends.
ReportTimer ==
  /\ IF level = ROOT
       THEN \E i \in Infos : Begin("timer", "update", [x \in {Self} |-> i])
       ELSE Begin("timer", "recheck", None)
  /\ UNCHANGED reported

\* IP_EVENT_STA_GOT_IP and IP_EVENT_AP_STAIPASSIGNED.
GotIp ==
  /\ level = ROOT
  /\ \E i \in Infos : Begin("event", "update", [x \in {Self} |-> i])
  /\ UNCHANGED reported

\* mesh_handler of the HTTP server and print_system_info_timercb of main.c.
Show ==
  /\ \E t \in Readers \cap {"timer", "http"} : Begin(t, "walk", None)
  /\ UNCHANGED reported

\* After report_info the callback asks for the level again.
Recheck ==
  /\ Running("timer", "recheck")
  /\ Goto("timer", IF level = ROOT /\ "timer" \in Readers THEN "walk" ELSE "idle")
  /\ UNCHANGED <<level, shared, todo, ptr, size, reported, fault>>

-----------------------------------------------------------------------------
(* esp_mesh_lite_node_info_update, and what its callers do with its result *)

\* ret is "ok", "dup" or "nomem"; left is what is still to be entered.
Result(t, ret, left) ==
  CASE t = "timer" -> "recheck"
    [] t = "mesh" /\ reported # {} ->
         IF ret # "nomem" /\ left # {} THEN "update" ELSE "sweep"
    [] t = "mesh" /\ reported = {} /\ ret = "ok" /\ "mesh" \in Readers -> "walk"
    [] OTHER -> "idle"

PostOf(l) == CASE l = "post_JOIN" -> "JOIN" [] l = "post_CHANGE" -> "CHANGE"

\* Found: the entry gets a new lease, and the rest of its data if it changed.
Refresh(t) ==
  /\ Running(t, "update") /\ mutex = "free"
  /\ \E i \in DOMAIN list :
       LET m == list[i].mac
           left == DOMAIN todo[t] \ {m}
       IN /\ m \in DOMAIN todo[t]
          /\ todo' = [todo EXCEPT ![t] = Restrict(todo[t], left)]
          /\ list' = [list EXCEPT ![i].ttl = Full, ![i].info = todo[t][m]]
          /\ IF list[i].info = todo[t][m]
               THEN Goto(t, Result(t, "dup", left)) /\ UNCHANGED ptr
               ELSE Goto(t, "post_CHANGE") /\ ptr' = [ptr EXCEPT ![t] = m]
  /\ UNCHANGED <<level, num, mutex, at, known, size, reported, fault>>

\* Defect: the list is not searched.
AddAgain(t) ==
  /\ Running(t, "update") /\ mutex = "free"
  /\ \E m \in DOMAIN todo[t] :
       /\ todo' = [todo EXCEPT ![t] = Restrict(todo[t], DOMAIN todo[t] \ {m})]
       /\ list' = Cons([mac |-> m, info |-> todo[t][m], ttl |-> Full], list)
       /\ ptr' = [ptr EXCEPT ![t] = m]
  /\ mutex' = t
  /\ Goto(t, "linked")
  /\ UNCHANGED <<level, num, at, known, size, reported, fault>>

\* Not found: a new entry at the head of the list. The mutex is kept until it
\* has been counted.
Add(t) ==
  /\ Running(t, "update") /\ mutex = "free"
  /\ \E m \in DOMAIN todo[t] \ ListMacs :
       /\ todo' = [todo EXCEPT ![t] = Restrict(todo[t], DOMAIN todo[t] \ {m})]
       /\ list' = Cons([mac |-> m, info |-> todo[t][m], ttl |-> Full], list)
       /\ ptr' = [ptr EXCEPT ![t] = m]
  /\ mutex' = t
  /\ Goto(t, "linked")
  /\ UNCHANGED <<level, num, at, known, size, reported, fault>>

CountUp(t) ==
  /\ Running(t, "linked")
  /\ num' = num + 1
  /\ mutex' = "free"
  /\ Goto(t, "post_JOIN")
  /\ UNCHANGED <<level, list, at, known, todo, ptr, size, reported, fault>>

AddFails(t) ==
  /\ NoMem
  /\ Running(t, "update") /\ mutex = "free"
  /\ DOMAIN todo[t] \ ListMacs # {}
  /\ Goto(t, Result(t, "nomem", {}))
  /\ todo' = [todo EXCEPT ![t] = None]
  /\ UNCHANGED <<level, shared, ptr, size, reported, fault>>

\* The event is posted after the mutex has been given back, from the entry.
PostEvent(t) ==
  /\ fault = "none"
  /\ pc[t] \in {"post_JOIN", "post_CHANGE"}
  /\ ptr[t] # "dangling"
  /\ \/ pc[t] = "post_JOIN" /\ known' = known \cup {ptr[t]}
     \/ pc[t] = "post_CHANGE" /\ UNCHANGED known
     \/ PostMayDrop /\ UNCHANGED known
  /\ Goto(t, Result(t, "ok", DOMAIN todo[t]))
  /\ ptr' = [ptr EXCEPT ![t] = "null"]
  /\ UNCHANGED <<level, list, num, mutex, at, todo, size, reported, fault>>

-----------------------------------------------------------------------------
(* The two sweeps.                                                         *)

\* mesh_lite_update_nodes_list first marks every entry.
Mark ==
  /\ Running("mesh", "mark") /\ mutex = "free"
  /\ list' = [i \in DOMAIN list |-> [list[i] EXCEPT !.ttl = Buffer]]
  /\ Goto("mesh", "update")
  /\ UNCHANGED <<level, num, mutex, at, known, todo, ptr, size, reported, fault>>

TakeMutex(t) ==
  /\ mutex = "free"
  /\ mutex' = t
  /\ Goto(t, "sweeping")
  /\ UNCHANGED <<level, list, num, at, known, todo, ptr, size, reported, fault>>

SweepMarked == Running("mesh", "sweep") /\ TakeMutex("mesh")

\* root_timer_cb: it gives up when the mutex is taken.
RootTimer ==
  /\ Running("timer", "idle")
  /\ level <= ROOT
  /\ TakeMutex("timer")

\* Defect: no NODE_LEAVE is posted.
UnlinkSilently(t) ==
  /\ list' = RemoveAt(list, at)
  /\ ptr' = [u \in Tasks |-> IF ptr[u] = list[at].mac THEN "dangling" ELSE ptr[u]]
  /\ Goto(t, "unlinked")
  /\ UNCHANGED <<known, at>>

\* The entry at the position of the sweep is unlinked and freed.
Unlink(t) ==
  /\ list' = RemoveAt(list, at)
  /\ ptr' = [u \in Tasks |-> IF ptr[u] = list[at].mac THEN "dangling" ELSE ptr[u]]
  /\ \/ known' = known \ {list[at].mac}
     \/ PostMayDrop /\ UNCHANGED known
  /\ Goto(t, "unlinked")
  /\ UNCHANGED at

Keep(entry) ==
  /\ list' = [list EXCEPT ![at] = entry]
  /\ at' = at + 1
  /\ UNCHANGED <<ptr, known, pc>>

\* Defect: nodes_num is not decremented.
CountDownNot(t) ==
  /\ Running(t, "unlinked")
  /\ Goto(t, "sweeping")
  /\ UNCHANGED <<level, shared, todo, ptr, size, reported, fault>>

CountDown(t) ==
  /\ Running(t, "unlinked")
  /\ num' = num - 1
  /\ Goto(t, "sweeping")
  /\ UNCHANGED <<level, list, mutex, at, known, todo, ptr, size, reported, fault>>

Sweeping(t) == Running(t, "sweeping") /\ at <= Len(list)

\* Defect: < for <=, so that a marked entry stays.
SweepListStepStrict ==
  /\ Sweeping("mesh")
  /\ IF list[at].ttl < Buffer THEN Unlink("mesh") ELSE Keep(list[at])
  /\ UNCHANGED <<level, num, mutex, todo, size, reported, fault>>

SweepListStep ==
  /\ Sweeping("mesh")
  /\ IF list[at].ttl <= Buffer THEN Unlink("mesh") ELSE Keep(list[at])
  /\ UNCHANGED <<level, num, mutex, todo, size, reported, fault>>

SweepRootStep ==
  /\ Sweeping("timer")
  /\ IF list[at].ttl = 0
       THEN Unlink("timer")
       ELSE Keep([list[at] EXCEPT !.ttl = @ - 1])
  /\ UNCHANGED <<level, num, mutex, todo, size, reported, fault>>

\* The list message is relayed to the children, whatever came of it.
SweepEnd(t) ==
  /\ Running(t, "sweeping")
  /\ at > Len(list)
  /\ mutex' = "free"
  /\ at' = 1
  /\ Goto(t, IF t = "mesh" THEN "relay" ELSE "idle")
  /\ UNCHANGED <<level, list, num, known, todo, ptr, size, reported, fault>>

Relay ==
  /\ Running("mesh", "relay")
  /\ Goto("mesh", "idle")
  /\ reported' = {}
  /\ UNCHANGED <<level, shared, todo, ptr, size, fault>>

-----------------------------------------------------------------------------
(* esp_mesh_lite_get_nodes_list and its callers: nothing here takes the    *)
(* mutex.                                                                  *)

GetSize(t) ==
  /\ Running(t, "walk")
  /\ size' = [size EXCEPT ![t] = num]
  /\ Goto(t, "head")
  /\ UNCHANGED <<level, shared, todo, ptr, reported, fault>>

GetHead(t) ==
  /\ Running(t, "head")
  /\ ptr' = [ptr EXCEPT ![t] = IF list = <<>> THEN "null" ELSE Head(list).mac]
  /\ Goto(t, "read")
  /\ UNCHANGED <<level, shared, todo, size, reported, fault>>

\* One entry is read, and its next pointer.
ReadNode(t) ==
  /\ Running(t, "read")
  /\ size[t] > 0
  /\ \E i \in DOMAIN list :
       /\ list[i].mac = ptr[t]
       /\ ptr' = [ptr EXCEPT ![t] = IF i = Len(list) THEN "null" ELSE list[i + 1].mac]
  /\ size' = [size EXCEPT ![t] = @ - 1]
  /\ UNCHANGED <<level, shared, pc, todo, reported, fault>>

ReadEnd(t) ==
  /\ Running(t, "read")
  /\ size[t] = 0 \/ ptr[t] = "null"
  /\ Goto(t, "idle")
  /\ ptr' = [ptr EXCEPT ![t] = "null"]
  /\ size' = [size EXCEPT ![t] = 0]
  /\ UNCHANGED <<level, shared, todo, reported, fault>>

UseAfterFree(t) ==
  /\ fault = "none"
  /\ pc[t] \in {"post_JOIN", "post_CHANGE"} \/ (pc[t] = "read" /\ size[t] > 0)
  /\ ptr[t] = "dangling"
  /\ fault' = "use_after_free"
  /\ UNCHANGED <<level, shared, own, reported>>

-----------------------------------------------------------------------------
ChangeLevel ==
  /\ fault = "none"
  /\ level' \in Levels
  /\ UNCHANGED <<shared, own, reported, fault>>

TaskStep(t) ==
  \/ Refresh(t) \/ Add(t) \/ CountUp(t) \/ AddFails(t) \/ PostEvent(t)
  \/ CountDown(t) \/ SweepEnd(t) \/ GetSize(t) \/ GetHead(t) \/ ReadNode(t) \/ ReadEnd(t)
  \/ UseAfterFree(t)

Next ==
  \/ RecvReport \/ RecvList \/ ReportTimer \/ RootTimer \/ GotIp \/ Show
  \/ Recheck \/ Mark \/ SweepMarked \/ SweepListStep \/ SweepRootStep \/ Relay
  \/ ChangeLevel
  \/ \E t \in Tasks : TaskStep(t)

Spec == Init /\ [][Next]_vars

-----------------------------------------------------------------------------
ListTypeOK == list \in Seq(Entry) /\ num \in Nat /\ at \in Nat \ {0}
TaskTypeOK ==
  /\ pc \in [Tasks -> {"idle", "mark", "update", "linked", "post_JOIN",
                       "post_CHANGE", "sweep", "sweeping", "unlinked", "relay",
                       "recheck", "walk", "head", "read"}]
  /\ todo \in [Tasks -> Update]
  /\ ptr \in [Tasks -> Pointer]
  /\ size \in [Tasks -> Nat]
TypeOK ==
  /\ ListTypeOK /\ TaskTypeOK
  /\ level \in Levels
  /\ mutex \in {"free"} \cup Tasks
  /\ reported \subseteq Macs
  /\ known \subseteq Macs
  /\ fault \in {"none", "use_after_free"}

At(l) == \E t \in Tasks : pc[t] = l

\* nodes_num, which is counted in three places by five tasks, is the length of
\* the list once the mutex is given back. A reader that never takes the mutex
\* is off by one at most: one short while an entry is made, one over, so that
\* it must look for the end of the list, while a sweep is half way.
CountMatchesList ==
  /\ mutex = "free" => num = Len(list)
  /\ num = CASE At("linked") -> Len(list) - 1
            [] At("unlinked") -> Len(list) + 1
            [] OTHER -> Len(list)

\* A node is in the list once, although five tasks may report it at a time.
OneEntryPerMac ==
  \A i, j \in DOMAIN list : list[i].mac = list[j].mac => i = j

\* When a child has applied the root's list it has every node of it, and none
\* that the root no longer has (but for itself, which esp_mesh_lite_init may
\* just have entered).
MirrorsRoot ==
  pc["mesh"] = "relay" => reported \subseteq ListMacs /\ ListMacs \subseteq reported \cup {Self}

\* Once every event has been posted, the application knows the nodes of the
\* list from NODE_JOIN and NODE_LEAVE alone.
Joining == {ptr[t] : t \in {u \in Tasks : pc[u] \in {"linked", "post_JOIN"}}}
EventsTellList ==
  fault = "none" => known \subseteq ListMacs /\ ListMacs \subseteq known \cup Joining
=============================================================================
