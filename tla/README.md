# Verification of the esp_mesh_lite_intelligence firmware

TLA+ models of the concurrent parts of this repository, checked with TLC on
small instances, and proofs of their main invariants for every instance,
checked with TLAPS. Paths are relative to the repository; `manager.c` is
`components/wifi_provisioning/src/manager.c`, `esp_mesh_lite.c` and
`zero_provisioning.c` are under `components/mesh_lite/src`.

## 1. The system

Firmware in C for ESP32 devices (ESP-IDF, FreeRTOS) that form a Wi-Fi mesh
("Mesh Lite"), are given their Wi-Fi credentials over BLE or SoftAP or by
another device over ESP-NOW, and exchange sensor readings. There are no tests.
Everything runs in a handful of FreeRTOS tasks: application tasks, the event
loop, the esp_timer task, the FreeRTOS timer task, the Wi-Fi task (ESP-NOW
callbacks), the transport task (NimBLE host or HTTP server), the mesh core's
task.

### Inventory

**Provisioning manager** (`manager.c`).
State: the mutex `prov_ctx_lock`, the context `prov_ctx` (state IDLE, STARTING,
STARTED, CRED_RECV, FAIL, SUCCESS, STOPPING; the protocomm instance; three
timers; handler registrations), the event queue. Operations: init, start, stop
(scheduled), deinit (blocking), wait, disable_auto_stop, configure, the two
resets, the Wi-Fi event handler, three timer callbacks. Hard: almost every
operation gives the lock up in the middle (start, blocking stop, every event it
signals), the lock itself is created and deleted, timers and events outlive
what they were made for. Correct if: only one task cleans up; a start is not
overtaken by a stop; what was scheduled happens; nothing of a service survives
it; the state machine follows the life cycle the header promises.

**Scan for access points** (`manager.c:901-1272`, `handlers.c:176-225`,
`wifi_scan.c`). State: `scanning`, the channel, one array of records per
channel, the sorted list of pointers into them. Operations: start (may block),
status, result, the SCAN_DONE event with the merge, the deletion by a stop.
Hard: pointers are handed out of the lock; the merge works in place on a list
that may be full; the end of a scan is an event that other scans produce, too.
Correct if: the list is sorted, gapless and points to live records; nothing is
lost that has room; every scan ends.

**Mesh node list** (`esp_mesh_lite.c`). State: a linked list with its count, under
a mutex, leases per node; linking an entry and counting it are two statements.
Operations: a node's report to the root, the list from the root, two sweeps, the
readers. Hard: five tasks; readers without the mutex; events posted from an entry
after the mutex was given back; leases encode whether an entry was just reported.
Correct if: the count is the length whenever the mutex is free, no node is in
twice, a child has exactly the root's nodes after each message, the application
can follow the list by its events.

**Zero provisioning** (`zero_provisioning.c`). State per device: a queue and its
task, a broadcast timer, a resend timer, the address it confirms to, the
configuration it was given, whether it has joined, the time of listening.
Messages: BROADCAST, INFO, CONFIRM, ACK over ESP-NOW, which loses them. Hard:
callbacks in three tasks share all of it without a lock; two members may answer
the same new device; the chain of broadcasts is kept up by the events of their
being sent. Correct if: a joined device has the network of one member, not a
mix; it keeps broadcasting until it joins; it joins.

**Asynchronous HTTP workers** (`main/http_server.c:29-235`). State: a counting
semaphore, a queue with one slot, worker tasks. Hard: the two counts must agree.
Correct if: a permit stands for a worker that waits, a request is served once.

**Provisioning session** (`wifi_prov_mgr.c`, what the mesh makes of the manager).
State: one flag, a timeout timer and its handle. Operations: init, deinit, the
timeout, the handler of the manager's END event. They call the manager from the
application, the timer task and the event task. Hard: the flag, read and written
without a lock, is all that keeps three deinits apart; the timer reloads itself.
Correct if: every session ends, nothing is left of it, and a timeout hits the
session it was set for.

**Sensor messages** (`main/espnow.c`, `sensor.c`) on **ESP-NOW dispatch**
(`esp_mesh_lite_espnow.c`). State: one slot for a message to be resent, its
timer and mutex, a receive queue and its task; a list of receive handlers and a
static send buffer, both without a lock. Hard: the sender and the timer share
the slot and the send buffer, three tasks the list. Correct if: a reading is
sent twice and freed once, a copy is freed once, a handler that is registered is
found.

**The provisioning service** (`manager.c:260-640`, `scheme_*.c`). State: the
protocomm instance with its endpoints, security and version information, the
blocks behind the endpoints, the event handlers, the transport, the table of UUIDs
and the advertisement of BLE. Operations: a start in eleven steps of which each may
fail and undoes by hand what was done before, a stop that takes apart in another
order, application endpoints. Hard: the transport answers clients before the start
is finished and until the stop is nearly over; options and secrets outlive the
start they were given with. Correct if: data is never reachable unsecured, no block
goes while a request uses it, nothing is left, each service is the one asked for.

**Requests** (`wifi_config.c`, `wifi_scan.c`, `wifi_ctrl.c`, `handlers.c`). State:
the configuration set and not yet applied, and of a request its chain of
allocations. Operations: ten commands, each a few calls that take the manager's lock
one by one. Hard: the event loop and the application come in between those calls;
any allocation may fail; a client relies on an earlier answer. Correct if: a success
means what it says, and no memory is lost.

**Wireless debugging** (`esp_mesh_lite_wireless_debug.c`). State: a queue and its
task, one buffer for all answers, the address and channel last named, a console.
Operations: init, deinit, the receive callback, five commands, responses. Hard:
deinit deletes the task wherever it is, while messages come and before or after it
has made its queue; everything but the copy of the message is shared by all
commands. Correct if: an answer is that of its command and of the device meant, a
copy is freed once.

**Message coding** (generated), **logging and porting**, **application** (`main.c`,
`app_wifi.c`, `nimble.c`): straight-line code around library calls. **Mesh core**: a
closed library; only its header is here.

### How they interact

The application creates the manager, usually by a session; the manager
starts a transport, whose task brings the client's requests back into it; the
manager's events drive the session and zero provisioning, which give the mesh core
its router; the core gives the device a level, which decides what the node list
does. ESP-NOW's receive callback dispatches to zero provisioning, sensor
messages and wireless debugging. The HTTP server reads the node list. The
models cut these seams at the calls: each states what it lets its neighbours do.

## 2. Modules

| Module | Models | Proofs |
|---|---|---|
| `ProvManager` | life cycle of the provisioning manager | `ProvManager_proofs` |
| `ProvLifecycle`, `ProvRefinement` | what `manager.h` promises; `ProvManager` implements it | `ProvManager_proofs` |
| `WifiScan` | the scan and the sorted list of results | `WifiScan_proofs` |
| `NodeList` | the node list of one device | `NodeList_proofs` |
| `AsyncWorkers` | the HTTP workers | `Workers_proofs` |
| `ZeroProv` | zero provisioning between any number of devices | `ZeroProv_proofs` |
| `ProvSession` | sessions of the mesh around the manager, seen from outside | `ProvSession_proofs` |
| `SensorMesh` | sensor messages from one device to another, and the dispatch | `SensorMesh_proofs` |
| `ProvService` | the service: what a start builds and a stop takes apart | `ProvRequests_proofs` |
| `ProvRequests` | the requests of a client, on top of `ProvService` | `ProvRequests_proofs` |
| `WirelessDebug` | commands to a device over ESP-NOW | `Workers_proofs` |
| `MC...` | the constants of the instances TLC checks | |

`PROJECT.json` maps every definition to the lines it models.

A definition whose comment begins with "Defect:" is a deliberately wrong variant
of the one after it. No specification uses it; with it in place of the right one
the property named in `PROJECT.json` must fail, which shows that the property
can tell.

### ProvManager

One variable per field that decides something. `pc[p]` says where task `p` is:
waiting for the lock at the point named, outside the lock, or holding it across
steps (the STOP handler alone does). Everything between ACQUIRE_LOCK and
RELEASE_LOCK is one step, as the mutex makes it; `execute_event_cb`, which gives
the lock up, ends a step. Calls: `Call(t, op)` is the NULL check of the lock at
the head of an API function. Timers are a handle (`null`, `idle`, `armed`, or
`freed` when it dangles). What the code would crash on is a `fault`, followed by
a reboot. A start may fail anywhere in the service (`ServiceFail`); one whose
security version is not built in leaves the transport up, without an endpoint
(`pcomm = "bare"`). `stray` says that a transport was left so: protocomm knows of one
BLE or HTTP transport at a time, so no later start opens another, and no deinit
takes it down. The environment is a set of parameters:

- `AppOps` which API calls each task makes; `ClientOps`, `WifiEvents` what
  clients and the network do;
- `PostMayFail` whether the 100 ms post of the STOP event can time out;
- `EarlyClient` whether a client comes while the service is still starting;
- `LateEvent` whether a Wi-Fi event is waiting for the lock when a stop gets it
  (unregistering a handler does not wait for it);
- `StopDrains` whether taking the transport down waits for the request it
  serves. `httpd_stop` and `nimble_port_stop` do. With it the STOP handler, which
  holds the lock, and a request that wants the lock wait for each other, so
  liveness is claimed without clients; without it a request that survives its
  service reaches the next one.

### WifiScan

`aps[c]` is the array of channel c (0: all channels in one go), `sorted` the
list of pointers. The merge is a step per round of its loops, with the code's
own `rc` and `is`; the lock is held all the while, so other tasks see its end
only. `old` is history, the list before the merge. `Orderly` says that the client
scans only while the manager waits for credentials; without it the code lets a
scan run for ever (section 4).

### NodeList

One step per critical section, but what readers without the mutex can watch is
apart: linking an entry (`Add`) and `nodes_num++` (`CountUp`), each node of a
sweep, unlinking one (`Unlink`) and `nodes_num--` (`CountDown`). A pointer is
named by the MAC it points to and becomes `dangling` when the entry is freed.
`todo` is the rest of the message being applied; its order is free, as a list
message may name nodes in any order. Readers and allocation failures can be
switched off by constants.

### AsyncWorkers

`queue_request` and the workers, semaphore and queue; `copies` are the requests
not yet completed. Workers may not have been created at all. No handler in this
repository uses it yet, `start_workers` is called at start-up.

### ZeroProv

`air` is the set of messages sent; a message can be heard again or never, which
covers reordering, duplication, loss. A message is handled in one step of the
device's task; the broadcast timer, the send callback, the resend timer and its
giving up (two steps: it stops the timer, then starts broadcasting) are steps of
their own. A command to the resend timer may find the queue of the timer task full
(`TimerBusy`, `Command`), which the code does not look at; only the stop and
delete after an ACK, which wait for 10 ticks, are taken as done. Channels and
peers are loss, too. Two races of the code end in a fault: a freed buffer is sent,
a NULL timer is stopped.

### ProvSession

The manager is one variable, `mgr`, and the existence of its lock; `ProvManager`
has it in detail. `pc` splits the application's init and everybody's deinit
where another task can come in between, `timer[s]` is the timer of session s and
`handle` the one `prov_timeout_timer` names. `left` and `stray` are history: the
sessions the application ended itself, and whether a timer one of them left
behind has fired. Two flags bound the environment. `SlowClient`: no client
completes a session before the call that starts it has armed the timer (a few
lines after the start). `PatientApp`: the application starts the next session
when the last one is over, not as soon as the flag is down, which
is earlier; without it the code can abort in `wifi_prov_mgr_init`.

### SensorMesh

Sending device: the sensor task and the timer, each in the steps *fill the send
buffer*, *send*, *hand over*; a reading and its heap buffer have the same number.
Receiving device: the Wi-Fi task walks the list of handlers entry by entry
without a lock, while app_main and the event task register and unregister (each
in two steps: read the list, write it; or, without memory, not at all:
`EnterFails`); its copies go through the queue to
`espnow_task`. `clash` is history: two tasks have changed the list at a time; so is
`entered`: the application's handler is in it.
`Spaced` is the 10 s between readings against the 100 ms of the timer.

### ProvService

The other side of the manager: `ProvManager` has its lock, timers and events
around a service that starts or fails; here one application task starts and stops
it, and the service is in detail. `step` is how far `Building` (the start) or
`Removing` (the stop) has come, so that the order of the code is two tuples;
`failing` is how a failing start goes on, `stop` through prov_stop or `return` at
once. `blocks` are the allocated handlers' blocks this context knows of, `pops`
the copies of the pop, named by the start that made them. `start` and `past` are
history: what was asked for, and what kind of starts there were before, for a
start that failed leaves options and a start for a security version that is not
built in leaves the transport up (`stuck`); `failed` are the starts that failed.
The transport task is one variable, `client`: the endpoint whose handler it is in.

### ProvRequests

Extends `ProvService`: `at` follows the one request that is served, from one call
that takes the lock to the next, `heap` is its chain of allocations, `lost` what
nobody can free any more when it is over. `config` is the configuration set and
not yet applied. The Wi-Fi events and the scan are what the manager makes of them
(`wifi`, `why`, `scanning`, the length of the list); `WifiScan` and `ProvManager`
have them in detail. `offered`, `whole`, `told`, `origin` are history. `mesh` is
what the request being served has given the application as mesh data, `meshConfig`
what SetConfig kept of it. SoftAP name and passphrase are copied whatever their
length (`fits`): of a copy that is too long the model has two outcomes, damaged
mesh data (`Mangled`) or the end of the device (`Panic`, after which nothing goes
on). Panic is also the end of an answer with missing scan entries, which packing
dereferences. `Follow` names the sets of endpoints whose requests one behaviour
follows, see the bounds below. Requests that come while the service is being
started are left to `ProvManager`.

### WirelessDebug

`task` is where the task is, `inbox` its queue, `entering` the copy the Wi-Fi task is
about to queue, `current` the one the task works on. A copy is named by its block;
`output` is named by the copy whose command wrote it. `TaskStarts` makes a second
queue and a second console where there is one already, which `ESP_ERROR_CHECK` aborts
on. Whether `arg_parse`, which is outside the repository, refuses a command without a
mac is left open, since the code is prepared for both.

## 3. Runs

| Run | Instance and bounds | Shows |
|---|---|---|
| `prov_implements` | an owner (init, start, deinit, disable), a task that stops and waits, a client with credentials, status and reset, three Wi-Fi events | the invariants of the manager and that it implements `ProvLifecycle` |
| `prov_on_air` | beside the owner a task that stops, disables and resets at any time, a client that reprovisions, late events, lost posts, failing starts that leave a transport | `OnAirIsManaged` |
| `prov_liveness` | owner that hands over credentials itself, stopper | `StopCompletes`, `CallsReturn` under fairness |
| `scan` | two channels, lists of up to three records, two places, events of foreign scans, stops at any time | sorted list, merge, reads, `ScanFinishes` |
| `nodes_all` | two MACs, levels 0 to 2, failing allocations, a reader | count, uniqueness, events |
| `nodes_child` | three MACs, level 2, two versions of a node's data | `MirrorsRoot` |
| `workers` | three workers (or fewer), four requests, one slot; or: two copies of messages, a queue of one, every command | permits, single hand, every queued request is served; answers and copies of wireless debugging |
| `zero_two_meshes` | two members of two networks, one new device, queues of one that may stay full, failing allocations, a full queue of the timer task, a confirmation given up at its first failure, listening that ends or is stopped | `WholeConfig` |
| `zero_joins` | a member that a user may provision, a new device, queues of one, a confirmation given up at its third failure (the code: at its sixth), a lossy medium | `BroadcastGoesOn`, `Joins` under fairness |
| `session` | three sessions one after the other, one application task | `QuietIsClean`, `OneTimer`, `SessionEnds` |
| `sensor` | two readings, a queue of one, two handler entries | `SentTwice`, `BuffersOwned`, `SendApart`, `HandlerIsFound` |
| `requests` | BLE and SoftAP, four versions of security asked for and two builds, two starts, names and data that fit and do not; two credentials, lists of up to two results | the eight properties of `ProvService` and `ProvRequests` |

Why the bounds are enough: each hazard in `PROJECT.json` needs at most two tasks
besides the client, the event loop and the timer task, one event in flight and one
more that is late; a merge into a list that is empty, partly filled and overfull
needs two places and lists of one to three records; a mix of two configurations
needs two members and one new device; a sweep that meets an update needs two
nodes, mirroring three; a timer that outlives its session needs a second session
to fire into, and a third to start after it; a slot that is overwritten needs two
readings, a list with a middle two handlers; what a start leaves to the next needs
two starts, and a failing step is reached in each of them; credentials that are
mixed up need two, an index that is off by one a list of two; a copy that is taken
for another needs two. Where a queue is bounded the bound is a constant named
above. Three bounds of `requests` are in the module: `Follow` lets a behaviour
follow either the requests to prov-config and prov-ctrl, or those to prov-scan, or
none, because configuration and scan share no state but the manager's; where
requests are followed the service is plain (`Plain`: BLE, all versions built, no
failing start), where none are it has all its variety; and no request is taken up
while the service is being started. The theorems drop none of the three, but hold
for every `Follow`, so also for all endpoints at a time. In `workers` a behaviour
is of one of the two components, which have nothing in common. Type invariants are
theorems and are not checked again by the runs. `CHECK_DEADLOCK FALSE` is set
where the firmware may come to rest (nobody calls anything any more).

### Fairness

`ProvManager`: every task inside a call goes on; strong fairness where it waits
for the lock, because a FreeRTOS mutex is handed to its waiters by priority and
in turn and no modelled task holds it forever. Timers expire, the event loop
dispatches. Nothing makes an application call or a client send.
`WifiScan`: the driver ends its scans, the event loop handles events, the
transport task polls (strong: the flag it polls for goes up and down).
`AsyncWorkers`: tasks run, handlers return.
`ZeroProv`: tasks and timers run; what is sent again and again is heard in the
end, separately for each kind of message (strong fairness of a medium that loses
messages but not all).
`ProvSession`: a task inside a call goes on, an armed timer fires (strong: the
timer task may be busy in between). Nothing makes a client complete a session.
`SensorMesh`, `ProvService`, `ProvRequests`, `WirelessDebug`: safety only, no fairness.

## 4. What does not hold

- **The lock is deleted**: `wifi_prov_mgr_deinit` deletes `prov_ctx_lock`, which
  the comments at `manager.c:162` and `manager.c:1438` say never happens, because a
  task between its NULL check and the lock would take a deleted mutex. In the
  model that is the fault `lock_deleted`, which an invariant
  `fault # "lock_deleted"` finds at once.
- **A scan may run for ever**: SCAN_DONE is looked at in state STARTED only.
  Credentials that come first, or a scan asked for in another state, leave
  `scanning` TRUE; `ScanFinishes` fails with `Orderly = FALSE`.
- **The flag stays up on a provisioned device**: when
  `esp_mesh_lite_wifi_prov_mgr_init` finds credentials it deinitializes the manager
  and leaves `wifi_prov_status` TRUE (`wifi_prov_mgr.c:566`), so every later session
  is refused as already in progress, until the application calls deinit or a stray
  END event comes.
- **An application's deinit leaves the timer**: END finds the flag down and does
  not delete it; it fires into a later session, or into none.
- **Handlers can get lost**: two tasks that register at a time can lose one
  entry; the Wi-Fi task can walk into an entry that is being freed. The properties
  of `SensorMesh` exclude the first by `clash`; the second is its fault
  `freed_entry`.
- **A failed `app_espnow_init` leaves its handler**, with a NULL queue
  (`espnow.c:322`): the next frame ends in an assertion, the fault `null_queue`.

- **A start that fails lets a request use freed memory**: where a step after the
  transport fails, `wifi_prov_mgr_start_service` frees the handlers' blocks and only
  then calls prov_stop (`manager.c:420-450`). `BlocksOutliveRequests` excepts that.
- **Three leaks of a failing start**: the block of prov-scan when prov-ctrl fails
  (`manager.c:442-453`); the copy of the pop, which only a stop frees
  (`manager.c:1739`, error path `manager.c:1855`); and everything, the transport
  included, when the security version is not built in (`manager.c:336`, 344, 352).
  After the last no service can be started again, and a deinit of the manager, which
  is idle, leaves the transport up, although `manager.h:249` says that it releases
  what the manager used: an invariant `ctx = "null" => ~stray` finds it at once.
  `IdleIsClean` and `IdleHoldsNothing` except it by name. `IdleHoldsNothing` says
  that there is no fourth leak among what it looks at: transport, endpoints,
  handlers, blocks, copies.
- **ApplyConfig says Success though the mesh data were lost**: the event that carries
  them may not be posted for want of memory, which `execute_event_cb` only logs
  (`manager.c:207`), and `wifi_prov_mgr_configure_meshlite` returns ESP_OK.
- **SoftAP name and passphrase are not checked** by SetConfig (`wifi_config.c:173`), as
  the Wi-Fi ones are: too long they damage what lies behind them, in the model the
  mesh data or the device. `AppliedAsSet` excepts both.
- **A result that has gone ends the device**: InternalError of a ScanResult counts
  entries that are NULL (`wifi_scan.c:139`, 149), and packing reads them.
- **The count lags behind the list** by one while an entry is linked or unlinked: a
  reader of `nodes_num` without the mutex sees it (`esp_mesh_lite.c:129`, 203).
- **What a start leaves to the next**: no_sec and no_pop stay set, and after a start
  that failed a start without a pop is secured with the old one.
- **A refused command loses its request** in prov-config, and its memory
  (`wifi_config.c:319`); where an allocation fails in the middle, what was allocated
  before it.
- **Wireless debugging cannot be started twice**: the second task initializes the
  console again and aborts (`esp_mesh_lite_wireless_debug.c:391`).

Further disagreements the models contain and the properties step around are in
the hazards of `PROJECT.json`, each at its line: credentials that arrive before
the start has finished replace STARTING, so that a stop may interfere with it;
the STOP handler can wait for a request that waits for its lock; an event that
arrives late turns STOPPING into SUCCESS; `wifi_prov_mgr_wait` returns before END
is signalled; events are signalled twice when a service is started again;
`apply_config_handler` signals the mesh data before the credentials; a permit is
lost when a send to the queue times out; a running listen timer loses its handle
and ends a later time of listening.

## 5. Proofs

All are machine-checked for every value of the constants, from the named
assumptions in the modules (that sets of tasks are disjoint, bounds are positive
numbers, flags are Boolean), which TLC evaluates on its instances.

- `ProvManager_proofs`: `TypeCorrect`; `StartIsUndisturbed` and
  `OnAirOnlyIfManaged` (`OnAirIsManaged`), under `OneOwner(o)` (one task alone
  inits, starts and deinitializes; nobody but the client and it configures),
  `StopDrains` and no `EarlyClient`. The two need each other and a strengthening:
  where the owner is in its start or deinit fixes state and context
  (`OwnerStarts`, `StopGoesOn`, `TakenDown`), a request in progress has a service
  (`RequestNeedsService`), and no other task is at a place only the owner reaches
  (`OnlyOwner`). That the lock is carried from one step to the next by the STOP
  handler alone is a lemma.

  `CleanedByOne`, `IdleLeavesNothing`, `RunningServiceIsServed`,
  `StopIsNotForgotten` (the last also if the STOP event is always posted) and
  `LifecycleImplemented`, the refinement, hold under `Regular(o)`: besides the
  conditions above no event comes late, and nobody resets for a new provisioning.
  Those are the conditions of the run `prov_implements`. The invariant
  `LifeInv(o)` says, on top of `StartInv(o)`, who can be where (`Places`), what of
  the service and of the timers there is in each state (`StateFollows`,
  `ServiceFollows`, `TimersFollow`), that between the timer, the STOP event, its
  handler and the deinit there is one stop and not two (`OneStop`), and that one
  there is (`StopUnderWay`). A step that only moves a task keeps it (`QuietStep`),
  which leaves the steps that do something. The refinement has one lemma per step:
  each is an action of `ProvLifecycle` or leaves the life cycle alone. All of them
  hold with starts that fail in every way, the bare transport included: it is not
  reached by clients, and what is claimed of an idle manager is claimed but for
  it.

  `StopOutlivesLateEvents` is `StopScheduled` under other conditions
  (`ClientConfigures(o)`): events may be late and the client may reset for a new
  provisioning, but the application leaves the credentials to the client. Its
  invariant (`StopInv(o)`) says that a service in any state but IDLE and STARTING
  can be stopped: the handler is registered and the timer ready or armed.
- `ProvSession_proofs`: `SessionTypeCorrect`, without conditions; `TimerIsOwn`
  (`OneTimer`) and `NothingIsLeft` (`QuietIsClean`) for one application task,
  `SlowClient` and `PatientApp`, as in the run, but any number of sessions
  (`OneTask(t)`). The invariant `SessionInv(t)` follows a session by the timer:
  while the task is in its init nobody else is at work (`InitAlone`); an armed
  timer is the session's own (`OwnTimer`); manager and lock come and go together
  (`LockAndManager`); the lock, a lock without a manager, a timer: each is owed a
  task that will see to it (`LockIsOwed`, `TimerIsSeenTo`).
- `WifiScan_proofs`: `ScanTypeCorrect`, `ListStaysSorted`, `NoRecordIsLost`,
  `ReadingIsSafe`, all without conditions: for any channels, records and places,
  foreign scans and stops at any time. The merge works in place from the rear,
  and its loop invariant (`MergeInv`) is: the places up to `is + rc` are as they
  were (`Unwritten`), those above hold the new records from `rc` and the old
  places from `is` that have room, and nothing else (`RearIsMerged`), strongest
  first (`RearInOrder`), none stronger than what is still to be merged
  (`RearIsWeaker`). Outside the merge the arrays are sorted (`FoundInOrder`), and
  the reader's pointer is good until the service stops (`ReaderFollows`).
- `NodeList_proofs`: `ListTypeCorrect`, `CountIsRight`, `EntriesAreUnique`,
  `EventsAreComplete` (if no event is dropped). One inductive invariant,
  `TypeOK /\ CountMatchesList /\ OneEntryPerMac /\ PtrInv`. `CountMatchesList` says
  of every state how far count and list may be apart: not at all while the mutex is
  free, by one where a task that holds it is between the two. The
  pointer a NODE_JOIN is posted from names an entry that is in the list or is
  dangling (`PtrInv`). `ChildMirrorsRoot` (`MirrorsRoot`) is about a child, a device
  below the root whose allocations succeed (`Child`): the root ages its list and
  has nobody to mirror, and a failed allocation drops the rest of a message. Its
  invariant follows the leases: a node of the message that has been applied has a
  lease of its own, a node that has none is left for the sweep to take out
  (`Progress`), and nobody else writes meanwhile (`Writers`).
- `Workers_proofs`: of `AsyncWorkers`, `PoolTypeCorrect`, `PermitsAreWorkers`,
  `CopiesInOneHand`, from `TypeOK /\ PermitIsWorker /\ OneHand /\ HandsInv`, where
  `HandsInv` ties where the server and each worker are to what they hold. Of
  `WirelessDebug`, `AnswersAreCurrent`, from what the task knows where it is
  (`TaskInv`), and `CopiesAreInOnePlace`, from the queue having each copy once
  (`CopyInv`).
- `SensorMesh_proofs`: `TypeCorrect` and `ReadingsAreSentTwice`, without conditions;
  `SendersStayApart` and `EveryBufferIsOwned`, for readings that are apart
  (`Spaced`). The sending device needs a ledger (`Ledger`): from where a reading's
  buffer is, in the task's hand, in `sent_msgs` before or after the retry, or
  freed, follows how often it has been sent. With `Spaced` the slot is empty while
  the task is at work (`Alone`), so nothing is overwritten. The receiving device
  only needs its copies counted (`HInv`). `HandlerIsAlwaysFound` (`HandlerIsFound`),
  without conditions: as long as two tasks have not clashed, what each task has
  read of the list is still so (`WorkIsCurrent`), the list is a chain that ends
  (`Chained`), and the Wi-Fi task, while it still looks for the handler, stands
  before it (`Ahead`), although the entry it stands on may be freed. A registration
  that fails for want of memory leaves the list as it is, and nothing is owed.
- `ZeroProv_proofs`: `ZeroTypeCorrect`, without conditions (`TypeOK` needs that the
  resend timer, while it runs, has an address: `HasTarget`); `JoinedIsWhole`
  (`WholeConfig`) if no user provisions a device meanwhile (`Users = {}`), the
  case the run `zero_two_meshes` checks. Its invariant: every message on the air
  or in a queue is good (an INFO names the mesh of its router, a CONFIRM comes
  from, an ACK goes to a new device that has a mesh id), a joined device is whole
  and has no resend timer, one not joined has no router and, while it listens,
  keeps its configuration and its mesh id in step (`DeviceInv`).
  `BroadcastNeverStops` (`BroadcastGoesOn`), without conditions: each step either
  leaves the chain of broadcasts alone or hands it on, from timer to callback to
  queue to timer, and a new device whose queue is gone does not get it back.
- `ProvRequests_proofs`: of `ProvService`, `UuidsAreDistinct` and `SentDataFits`, and
  the invariant `ServiceInv`, which follows the service through its places in
  seven parts, each inductive with those before it (what is reachable, secured,
  backed by a block, held, told, secret). It survives requests and events, because
  a request is served only while its client is there (`RequestInv`), and then the
  stop waits before it frees. From that, all eight properties of the run
  `requests`, for every value of the constants: `EndpointsStaySecured`,
  `BlocksAreOutlived`, `IdleIsEmpty`, `EachIsServedAsAsked`, `AppliedIsWhatWasSet`,
  `ConnectionsAreOwn`, `ToldIsThere`, `MemoryIsKept`.

The conditions are needed. With any one dropped on the run's instance (a client
during the start, a late event, a transport that does not drain, a reset for a new
provisioning) TLC finds `OneCleaner`, `RunningIsServed`, `IdleIsClean` and the
refinement violated. Two tasks that both start and destroy violate them only when
a task also configures while another owns the manager; without that TLC finds all
of them to hold for two owners, so `OneOwner` is more than those need.
`StopScheduled` needs it: a second task that destroys the manager deletes the lock
while a service runs, and the stop is dropped. `StopScheduled` fails also when the
post may fail, when the transport does not drain or a client comes during the
start, and with late events once the application hands over credentials itself;
`QuietIsClean` and `OneTimer` with two application tasks, without `SlowClient`, or
without `PatientApp`; `MirrorsRoot` when allocations fail or at the root;
`BuffersOwned` and `SendApart` without `Spaced`; `EventsTellList` when an event is
dropped; `WholeConfig` when a user provisions a member, whose INFO then has the
router of the user and the mesh of the member, or a new device, which then answers
others. Section 4 and the hazards name the code behind each.

Every invariant a passing run checks, and the refinement, is so a theorem. Only
model-checked: liveness (`StopCompletes`, `CallsReturn`, `ScanFinishes`, `Joins`,
`SessionEnds` and that queued requests are served), because fairness and ENABLED
are out of the prover's reach; and that the conditions of the theorems can be met,
which the runs named with them show.

## 6. Not modelled

The coding of messages (generated, or field by field copies); what is inside
protocomm, BLE, HTTP and console (calls into the SDK, which succeed or fail); the
pages of the HTTP server; the closed core; start-up code. Of the manager, options
that are only handed through (manufacturer data and random address, service UUID,
storage). Of wireless debugging, the sending side: the log hook, which writes one
shared buffer from whatever task logs, `send_command`, and the receive callback of
logs. Of the sender of readings, failed allocations, which
it dereferences; `espnow_deinit` and `esp_now_remove_send_msgs`, which nothing
calls. Creation of the manager's lock by two first inits at a time, an allocation
failure in `zero_prov_esp_now_init`, and deleting the zero-provisioning task in
the middle of a message are left out of the models and named among the hazards
or here.

## 7. Plan

Done, in this order: `ProvManager` with `ProvLifecycle`; `NodeList`;
`AsyncWorkers`; `ZeroProv`; `WifiScan`; `ProvSession`; `SensorMesh`; `ProvService`;
`ProvRequests`; `WirelessDebug`; the proofs of the last three; the proofs of
`WifiScan` and `ProvSession`, the refinement, and of the others what was left.

1. `ProvManager_proofs` under weaker conditions: what of `Regular(o)` each theorem
   needs, several owners (an invariant that says which of them is at work) and a
   reset for a new provisioning first.
2. `ProvSession_proofs` for several application tasks.
3. A distributed `NodeList`: a root, a child and the messages between them.
4. `ProvRequests` on top of `ProvManager`: requests while the service is started.
