----------------------------- MODULE ProvManager -----------------------------
(***************************************************************************)
(* The life cycle of the Wi-Fi provisioning manager,                       *)
(* components/wifi_provisioning/src/manager.c, as the tasks of the         *)
(* firmware interleave in it: application tasks that call its API, the     *)
(* transport task that serves the requests of a client, the event-loop     *)
(* task that runs wifi_prov_mgr_event_handler_internal, and the esp_timer  *)
(* task that runs the timer callbacks.                                     *)
(*                                                                         *)
(* What the code does between ACQUIRE_LOCK and RELEASE_LOCK is one step.   *)
(* What it does outside the lock (the NULL check of prov_ctx_lock,         *)
(* wifi_prov_mgr_start_service, the blocking prov_stop_and_notify, the     *)
(* event callbacks, the deletion of the lock) are steps of their own.      *)
(***************************************************************************)
EXTENDS Naturals

(* A definition whose comment begins with "Defect:" is a variant of the    *)
(* definition after it, the way a mistake in the code would have it. The   *)
(* specification does not use it: a property's run has to fail with it.    *)

CONSTANTS
  Tasks,        \* the application tasks that call the API
  Client,       \* the transport task (BLE host or HTTP server)
  EventLoop,    \* the default event-loop task
  TimerTask,    \* the esp_timer task
  AppOps,       \* AppOps[t]: the API calls task t makes
  ClientOps,    \* the requests a client sends
  WifiEvents,   \* the Wi-Fi and IP events that occur
  QueueLen,     \* bound: slots of the event queue the STOP event can take
  PostMayFail,  \* can the 100 ms esp_event_post of the STOP event time out?
  StopDrains,   \* does prov_stop wait for the request being served?
  EarlyClient,  \* can a client's request come while the service is starting?
  LateEvent     \* can a Wi-Fi event be waiting for the lock when a stop gets it?

Procs == Tasks \cup {Client, EventLoop, TimerTask}

AllAppOps == {"init", "start", "stop", "deinit", "wait", "disable", "config",
              "reset", "reprov"}
AllClientOps == {"custdata", "status", "reset", "reprov"}
AllWifiEvents == {"STA_START", "GOT_IP", "DISC_AUTH", "DISC_OTHER"}

ASSUME ProcsDistinct ==
  /\ Client # EventLoop /\ Client # TimerTask /\ EventLoop # TimerTask
  /\ Tasks \cap {Client, EventLoop, TimerTask} = {}
  /\ Procs \cap {"null", "free"} = {}
ASSUME OpsAssumption ==
  /\ AppOps \in [Tasks -> SUBSET AllAppOps]
  /\ ClientOps \subseteq AllClientOps
  /\ WifiEvents \subseteq AllWifiEvents
ASSUME BoundsAssumption ==
  /\ QueueLen \in Nat \ {0}
  /\ PostMayFail \in BOOLEAN
  /\ StopDrains \in BOOLEAN
  /\ EarlyClient \in BOOLEAN
  /\ LateEvent \in BOOLEAN

States == {"IDLE", "STARTING", "STARTED", "CRED_RECV", "FAIL", "SUCCESS",
           "STOPPING"}
Handles == {"null", "idle", "armed", "freed"}  \* an esp_timer_handle_t
Faults == {"none", "lock_deleted", "freed_ctx", "null_ctx", "freed_timer",
           "double_cleanup"}

\* Where a task waits for prov_ctx_lock, and with what it goes on.
Waits == AllAppOps \cup AllClientOps \cup AllWifiEvents \cup
         {"STOP", "done", "startfin", "starterr", "deinitfin", "reacq",
          "custreacq"}
\* Where a task is inside the manager without the lock.
Outside == {"svc_open", "svc_register", "sync_begin", "sync_end", "post_INIT",
            "post_START", "post_CRED_RECV", "post_CUST_DATA",
            "post_CRED_FAIL", "post_CRED_SUCCESS", "deinit_END",
            "deinit_DEINIT", "delete_lock"}
\* Where the event loop holds the lock from one step to the next.
Holding == {"async_stop", "async_END"}
Labels == {"idle"} \cup Waits \cup Outside \cup Holding

VARIABLES
  lock,        \* prov_ctx_lock: "null", "free" or the task holding it
  ctx,         \* prov_ctx: "null", "live", or "freed" when it dangles
  state,       \* prov_ctx->prov_state
  noAutoStop,  \* prov_ctx->mgr_info.capabilities.no_auto_stop
  wifiState,   \* prov_ctx->wifi_state
  pcomm,       \* prov_ctx->pc and the handlers behind it: "up" with endpoints
               \* for a client, "bare" without any, "freed" when it dangles
  stray,       \* is a transport up that a failed start has left behind?
  wifiH,       \* is the handler registered for WIFI_EVENT and IP_EVENT?
  pvtH,        \* is it registered for WIFI_PROV_MGR_PVT_EVENT?
  autostop,    \* prov_ctx->autostop_timer
  connect,     \* prov_ctx->wifi_connect_timer
  cleanup,     \* prov_ctx->cleanup_delay_timer
  stopq,       \* WIFI_PROV_MGR_STOP events in the event queue
  pc,          \* where each task is
  fault        \* "none", or what the device panicked on

ctxVars == <<ctx, state, noAutoStop, wifiState>>
svcVars == <<pcomm, stray, wifiH, pvtH>>
timers == <<autostop, connect, cleanup>>
vars == <<lock, ctxVars, svcVars, timers, stopq, pc, fault>>

Goto(p, l) == pc' = [pc EXCEPT ![p] = l]

\* Before the first wifi_prov_mgr_init: both globals are NULL.
Init ==
  /\ lock = "null"
  /\ ctx = "null"
  /\ state = "IDLE"
  /\ noAutoStop = FALSE
  /\ wifiState = "CONNECTING"
  /\ pcomm = "null"
  /\ stray = FALSE
  /\ wifiH = FALSE
  /\ pvtH = FALSE
  /\ autostop = "null"
  /\ connect = "null"
  /\ cleanup = "null"
  /\ stopq = 0
  /\ pc = [p \in Procs |-> "idle"]
  /\ fault = "none"
-----------------------------------------------------------------------------
(* Taking the lock.                                                        *)

\* p takes the lock it waits for at l; the step that uses this releases it.
Acquire(p, l) == fault = "none" /\ pc[p] = l /\ lock = "free"

\* The same, where prov_ctx is dereferenced: it has to be valid.
AcquireLive(p, l) == Acquire(p, l) /\ ctx = "live"

Panic(kind) ==
  /\ fault' = kind
  /\ UNCHANGED <<lock, ctxVars, svcVars, timers, stopq, pc>>

Return(p) ==
  /\ Goto(p, "idle")
  /\ UNCHANGED <<lock, ctxVars, svcVars, timers, stopq, fault>>

\* A task reaches ACQUIRE_LOCK when wifi_prov_mgr_deinit has deleted the lock.
\* A call made inside another call (by the client or the timer) still makes its
\* own NULL check, and may have made it before or after the deletion.
AcquireDeleted(p) ==
  /\ fault = "none"
  /\ pc[p] \in Waits
  /\ lock = "null"
  /\ \/ Panic("lock_deleted")
     \/ p \notin Tasks /\ pc[p] \in {"done", "stop", "config"} /\ Return(p)

\* wifi_prov_mgr_init frees the context of a failed initialization without
\* resetting prov_ctx: whoever finds it non-NULL then uses freed memory.
\* (init itself only compares it with NULL.)
UseFreedCtx(p) ==
  /\ fault = "none"
  /\ pc[p] \in Waits \ {"init", "reacq", "custreacq"}
  /\ lock = "free"
  /\ ctx = "freed"
  /\ Panic("freed_ctx")

\* The calls that use prov_ctx without comparing it with NULL.
UseNullCtx(p) ==
  /\ fault = "none"
  /\ pc[p] \in {"reset", "reprov", "startfin", "starterr", "deinitfin",
               "svc_open", "svc_register", "sync_begin", "sync_end"}
  /\ pc[p] \in Waits => lock = "free"
  /\ ctx = "null"
  /\ Panic("null_ctx")

-----------------------------------------------------------------------------
(* Calls: the NULL check of prov_ctx_lock at the head of every API         *)
(* function, which runs without the lock.                                  *)

Call(t, op) ==
  /\ fault = "none"
  /\ pc[t] = "idle"
  /\ IF op = "init"
       THEN lock' = IF lock = "null" THEN "free" ELSE lock
       ELSE lock # "null" /\ UNCHANGED lock
  /\ Goto(t, op)
  /\ UNCHANGED <<ctxVars, svcVars, timers, stopq, fault>>

\* A request reaches the transport task while the protocomm endpoints are up:
\* apply_config (which starts with the mesh data), get_status, and the two
\* commands of the prov-ctrl endpoint.
ClientRequest(op) ==
  /\ fault = "none"
  /\ pc[Client] = "idle"
  /\ pcomm = "up"
  /\ EarlyClient \/ state # "STARTING"
  /\ op # "custdata" => lock # "null"
  /\ Goto(Client, op)
  /\ UNCHANGED <<lock, ctxVars, svcVars, timers, stopq, fault>>

-----------------------------------------------------------------------------
(* execute_event_cb: the lock is released, the callbacks run, the event is *)
(* posted, and the lock is taken again before the caller goes on.          *)

Posting == {"post_INIT", "post_START", "post_CRED_RECV", "post_CUST_DATA",
            "post_CRED_FAIL", "post_CRED_SUCCESS"}

ExecuteEventCb(p) ==
  /\ fault = "none"
  /\ pc[p] \in Posting
  /\ Goto(p, IF pc[p] = "post_CUST_DATA" THEN "custreacq" ELSE "reacq")
  /\ UNCHANGED <<lock, ctxVars, svcVars, timers, stopq, fault>>

\* After execute_event_cb every caller only releases the lock and returns,
\* except apply_config_handler, which goes on with wifi_prov_mgr_configure_sta.
Reacquire(p) ==
  /\ fault = "none"
  /\ lock = "free"
  /\ \/ pc[p] = "reacq" /\ Goto(p, "idle")
     \/ pc[p] = "custreacq" /\ Goto(p, "config")
  /\ UNCHANGED <<lock, ctxVars, svcVars, timers, stopq, fault>>

-----------------------------------------------------------------------------
(* wifi_prov_mgr_init                                                      *)

\* Refused when there is a context, when the scheme lacks a function, or when
\* calloc fails. The context comes from calloc: every handle NULL and state IDLE.
\* When the scheme configuration fails the context is freed, but prov_ctx is not
\* reset.
InitManager(p) ==
  /\ Acquire(p, "init")
  /\ \/ /\ Goto(p, "idle")
        /\ UNCHANGED <<ctxVars, svcVars, timers>>
     \/ /\ ctx = "null"
        /\ state' = "IDLE"
        /\ noAutoStop' = FALSE
        /\ wifiState' = "CONNECTING"
        /\ pcomm' = "null"
        /\ autostop' = "null"
        /\ connect' = "null"
        /\ cleanup' = "null"
        /\ \/ ctx' = "live" /\ Goto(p, "post_INIT")
           \/ ctx' = "freed" /\ Goto(p, "idle")
        /\ UNCHANGED <<stray, wifiH, pvtH>>
  /\ UNCHANGED <<lock, stopq, fault>>

DisableAutoStop(p) ==
  /\ Acquire(p, "disable")
  /\ ctx # "freed"
  /\ noAutoStop' = (noAutoStop \/ (ctx = "live" /\ state = "IDLE"))
  /\ Goto(p, "idle")
  /\ UNCHANGED <<lock, ctx, state, wifiState, svcVars, timers, stopq, fault>>

\* wifi_prov_mgr_wait polls until the manager is idle or gone.
Wait(p) ==
  /\ Acquire(p, "wait")
  /\ ctx # "freed"
  /\ ctx = "live" => state = "IDLE"
  /\ Return(p)

-----------------------------------------------------------------------------
(* wifi_prov_mgr_start_provisioning                                        *)

StartRefused(p) ==
  /\ Acquire(p, "start")
  /\ \/ ctx = "null"
     \/ ctx = "live" /\ state # "IDLE"
  /\ Return(p)

\* Up to the RELEASE_LOCK before wifi_prov_mgr_start_service.
StartBegin(p) ==
  /\ AcquireLive(p, "start")
  /\ state = "IDLE"
  /\ state' = "STARTING"
  /\ connect' = "idle"
  /\ autostop' = IF noAutoStop THEN autostop ELSE "idle"
  /\ cleanup' = "idle"
  /\ Goto(p, "svc_open")
  /\ UNCHANGED <<lock, ctx, noAutoStop, wifiState, svcVars, stopq, fault>>

\* The err: path under the same hold of the lock: setting the storage failed
\* or a timer could not be created. Timers that had been created are deleted,
\* their handles are kept.
StartNoTimer(p) ==
  /\ AcquireLive(p, "start")
  /\ state = "IDLE"
  /\ \/ UNCHANGED timers
     \/ /\ connect' = "freed"
        /\ UNCHANGED <<autostop, cleanup>>
     \/ /\ noAutoStop => autostop # "freed"
        /\ connect' = "freed"
        /\ autostop' = IF noAutoStop THEN autostop ELSE "freed"
        /\ UNCHANGED cleanup
  /\ Goto(p, "idle")
  /\ UNCHANGED <<lock, ctxVars, svcVars, stopq, fault>>

\* wifi_prov_mgr_start_service, without the lock: protocomm_new, prov_start,
\* which fails while a transport is up, and the endpoints. From here on a client
\* can send requests.
ServiceOpen(p) ==
  /\ fault = "none"
  /\ pc[p] = "svc_open"
  /\ ctx = "live"
  /\ ~stray
  /\ pcomm' = "up"
  /\ Goto(p, "svc_register")
  /\ UNCHANGED <<lock, ctxVars, stray, wifiH, pvtH, timers, stopq, fault>>

\* Defect: the handler is not registered for WIFI_PROV_MGR_PVT_EVENT.
ServiceRegisterNoPvt(p) ==
  /\ fault = "none"
  /\ pc[p] = "svc_register"
  /\ ctx = "live"
  /\ wifiH' = TRUE
  /\ Goto(p, "startfin")
  /\ UNCHANGED <<lock, ctxVars, pcomm, stray, pvtH, timers, stopq, fault>>

ServiceRegister(p) ==
  /\ fault = "none"
  /\ pc[p] = "svc_register"
  /\ ctx = "live"
  /\ wifiH' = TRUE
  /\ pvtH' = TRUE
  /\ Goto(p, "startfin")
  /\ UNCHANGED <<lock, ctxVars, pcomm, stray, timers, stopq, fault>>

\* prov_stop returns once the transport has finished the request it serves.
TransportIdle == StopDrains => pc[Client] = "idle"

\* A failure anywhere in it: what was started is stopped and freed (the handles
\* are kept), but for a security version the build leaves out, which is found
\* when the transport is up and has no endpoint yet: nothing is stopped then.
\* The caller deletes the timers.
ServiceFail(p) ==
  /\ fault = "none"
  /\ ctx = "live"
  /\ \/ pc[p] = "svc_open"
     \/ pc[p] = "svc_register" /\ TransportIdle
  /\ IF "freed" \in {autostop, connect, cleanup}
       THEN Panic("freed_timer")
       ELSE /\ \/ pcomm' = "freed" /\ UNCHANGED stray
               \/ pc[p] = "svc_open" /\ ~stray /\ pcomm' = "bare" /\ stray' = TRUE
            /\ autostop' = IF autostop = "null" THEN "null" ELSE "freed"
            /\ connect' = IF connect = "null" THEN "null" ELSE "freed"
            /\ cleanup' = IF cleanup = "null" THEN "null" ELSE "freed"
            /\ Goto(p, "starterr")
            /\ UNCHANGED <<lock, ctxVars, wifiH, pvtH, stopq, fault>>

StartFinish(p) ==
  /\ AcquireLive(p, "startfin")
  /\ state' = "STARTED"
  /\ Goto(p, "post_START")
  /\ UNCHANGED <<lock, ctx, noAutoStop, wifiState, svcVars, timers, stopq,
                 fault>>

StartError(p) ==
  /\ AcquireLive(p, "starterr")
  /\ state' = "IDLE"
  /\ Goto(p, "idle")
  /\ UNCHANGED <<lock, ctx, noAutoStop, wifiState, svcVars, timers, stopq,
                 fault>>

-----------------------------------------------------------------------------
(* wifi_prov_mgr_stop_service, what its two modes share: the autostop and  *)
(* connect timers are deleted, the event handlers unregistered.            *)

\* Defect: a service that is being stopped is taken for a running one.
RunningOrStopping == state \notin {"IDLE", "STARTING"}

Running == state \in {"STARTED", "CRED_RECV", "FAIL", "SUCCESS"}
\* esp_timer_stop and esp_timer_delete of a timer already deleted.
TimersValid == "freed" \notin {autostop, connect}

\* Defect: the event handlers stay registered.
StopServiceKeepsHandler ==
  /\ LateEvent \/ pc[EventLoop] \notin WifiEvents
  /\ autostop' = "null"
  /\ connect' = "null"
  /\ state' = "STOPPING"
  /\ UNCHANGED wifiH

\* Defect: the state is IDLE before the clean-up.
StopServiceTooSoon ==
  /\ LateEvent \/ pc[EventLoop] \notin WifiEvents
  /\ autostop' = "null"
  /\ connect' = "null"
  /\ state' = "IDLE"
  /\ wifiH' = FALSE

StopService ==
  /\ LateEvent \/ pc[EventLoop] \notin WifiEvents
  /\ autostop' = "null"
  /\ connect' = "null"
  /\ state' = "STOPPING"
  /\ wifiH' = FALSE

\* Defect: the timer is not started.
StartOnceForgotten(h) == h

\* esp_timer_start_once fails on a NULL handle and on a running timer.
StartOnce(h) == IF h = "idle" THEN "armed" ELSE h

\* The start that fails to create its last timer deletes the autostop timer
\* even if it created none.
BadTimer(p) ==
  /\ \/ /\ AcquireLive(p, "stop") \/ AcquireLive(p, "deinit")
        /\ Running
        /\ ~TimersValid
     \/ /\ AcquireLive(p, "start")
        /\ state = "IDLE"
        /\ noAutoStop
        /\ autostop = "freed"
  /\ Panic("freed_timer")

\* wifi_prov_mgr_stop_provisioning: not running, or stopping already. While the
\* state is STARTING the call polls.
StopRefused(p) ==
  /\ Acquire(p, "stop")
  /\ \/ ctx = "null"
     \/ ctx = "live" /\ state \in {"IDLE", "STOPPING"}
  /\ Return(p)

\* The clean-up is left to the cleanup timer.
StopAccept(p) ==
  /\ AcquireLive(p, "stop")
  /\ Running
  /\ TimersValid
  /\ StopService
  /\ cleanup' = StartOnce(cleanup)
  /\ Goto(p, "idle")
  /\ UNCHANGED <<lock, ctx, noAutoStop, wifiState, pcomm, stray, pvtH, stopq,
                 fault>>

\* wifi_prov_mgr_done: stops only if auto stop is enabled.
Done(p) ==
  /\ Acquire(p, "done")
  /\ ctx # "freed"
  /\ Goto(p, IF ctx = "live" /\ ~noAutoStop THEN "stop" ELSE "idle")
  /\ UNCHANGED <<lock, ctxVars, svcVars, timers, stopq, fault>>

\* get_status_handler: wifi_prov_mgr_get_wifi_state, then wifi_prov_mgr_done
\* once the client has been told that the station is connected.
GetStatus(p) ==
  /\ Acquire(p, "status")
  /\ ctx # "freed"
  /\ Goto(p, IF ctx = "live" /\ wifiState = "CONNECTED" THEN "done" ELSE "idle")
  /\ UNCHANGED <<lock, ctxVars, svcVars, timers, stopq, fault>>

-----------------------------------------------------------------------------
(* wifi_prov_mgr_deinit. While the state is STARTING or STOPPING the call  *)
(* polls.                                                                  *)

DeinitGone(p) ==
  /\ Acquire(p, "deinit")
  /\ ctx = "null"
  /\ Goto(p, "delete_lock")
  /\ UNCHANGED <<lock, ctxVars, svcVars, timers, stopq, fault>>

DeinitIdle(p) ==
  /\ AcquireLive(p, "deinit")
  /\ state = "IDLE"
  /\ ctx' = "null"
  /\ Goto(p, "deinit_DEINIT")
  /\ UNCHANGED <<lock, state, noAutoStop, wifiState, svcVars, timers, stopq,
                 fault>>

DeinitStop(p) ==
  /\ AcquireLive(p, "deinit")
  /\ Running
  /\ TimersValid
  /\ StopService
  /\ Goto(p, "sync_begin")
  /\ UNCHANGED <<lock, ctx, noAutoStop, wifiState, pcomm, stray, pvtH, cleanup,
                 stopq, fault>>

\* prov_stop_and_notify(false), without the lock: before its delay the STOP
\* handler and the cleanup timer go, after it the endpoints and the protocomm
\* instance.
SyncBegin(p) ==
  /\ fault = "none"
  /\ pc[p] = "sync_begin"
  /\ ctx = "live"
  /\ pvtH' = FALSE
  /\ cleanup' = "null"
  /\ Goto(p, "sync_end")
  /\ UNCHANGED <<lock, ctxVars, pcomm, stray, wifiH, autostop, connect, stopq,
                 fault>>

SyncEnd(p) ==
  /\ fault = "none"
  /\ pc[p] = "sync_end"
  /\ ctx = "live"
  /\ TransportIdle
  /\ IF pcomm # "up"
       THEN Panic("double_cleanup")
       ELSE /\ pcomm' = "null"
            /\ Goto(p, "deinitfin")
            /\ UNCHANGED <<lock, ctxVars, stray, wifiH, pvtH, timers, stopq, fault>>

\* The lock is taken again: state IDLE, and without releasing it the context is
\* freed.
DeinitFree(p) ==
  /\ AcquireLive(p, "deinitfin")
  /\ state' = "IDLE"
  /\ ctx' = "null"
  /\ Goto(p, "deinit_END")
  /\ UNCHANGED <<lock, noAutoStop, wifiState, svcVars, timers, stopq, fault>>

DeinitNotify(p) ==
  /\ fault = "none"
  /\ \/ /\ pc[p] = "deinit_END"
        /\ Goto(p, "deinit_DEINIT")
     \/ /\ pc[p] = "deinit_DEINIT"
        /\ Goto(p, "delete_lock")
  /\ UNCHANGED <<lock, ctxVars, svcVars, timers, stopq, fault>>

\* vSemaphoreDelete asserts that the handle is not NULL; deleting the mutex
\* another task holds leaves that task with freed memory.
DeleteLock(p) ==
  /\ fault = "none"
  /\ pc[p] = "delete_lock"
  /\ IF lock # "free"
       THEN Panic("lock_deleted")
       ELSE /\ lock' = "null"
            /\ Goto(p, "idle")
            /\ UNCHANGED <<ctxVars, svcVars, timers, stopq, fault>>

-----------------------------------------------------------------------------
(* Credentials and the two resets of the state machine.                    *)

\* apply_config_handler first hands the mesh data to the application:
\* wifi_prov_mgr_configure_meshlite.
ConfigureMeshlite(p) ==
  /\ Acquire(p, "custdata")
  /\ ctx # "freed"
  /\ Goto(p, IF ctx = "live" THEN "post_CUST_DATA" ELSE "config")
  /\ UNCHANGED <<lock, ctxVars, svcVars, timers, stopq, fault>>

\* Refused in CRED_RECV and later, and when a call of the Wi-Fi driver or the
\* start of the connect timer fails.
ConfigureStaRefused(p) ==
  /\ Acquire(p, "config")
  /\ ctx # "freed"
  /\ Return(p)

ConfigureSta(p) ==
  /\ AcquireLive(p, "config")
  /\ state \in {"IDLE", "STARTING", "STARTED"}
  /\ connect \in {"idle", "freed"}
  /\ IF connect = "freed"
       THEN Panic("freed_timer")
       ELSE /\ connect' = "armed"
            /\ wifiState' = "CONNECTING"
            /\ state' = "CRED_RECV"
            /\ Goto(p, "post_CRED_RECV")
            /\ UNCHANGED <<lock, ctx, noAutoStop, svcVars, autostop, cleanup,
                           stopq, fault>>

\* wifi_prov_mgr_reset_sm_state_on_failure
ResetOnFailure(p) ==
  /\ AcquireLive(p, "reset")
  /\ \/ state = "FAIL" /\ state' = "STARTED"
     \/ UNCHANGED state  \* not in FAIL, or esp_wifi_set_config failed
  /\ Goto(p, "idle")
  /\ UNCHANGED <<lock, ctx, noAutoStop, wifiState, svcVars, timers, stopq,
                 fault>>

\* wifi_prov_mgr_reset_sm_state_for_reprovision: refused only while auto stop
\* is enabled; the state is not looked at.
ResetForReprovision(p) ==
  /\ AcquireLive(p, "reprov")
  /\ \/ noAutoStop /\ state' = "STARTED" /\ Goto(p, "post_START")
     \/ UNCHANGED state /\ Goto(p, "idle")  \* or a Wi-Fi driver call failed
  /\ UNCHANGED <<lock, ctx, noAutoStop, wifiState, svcVars, timers, stopq,
                 fault>>

-----------------------------------------------------------------------------
(* The esp_timer task.                                                     *)

\* stop_prov_timer_cb calls wifi_prov_mgr_stop_provisioning, which checks the
\* lock for NULL first.
AutostopExpires ==
  /\ fault = "none"
  /\ pc[TimerTask] = "idle"
  /\ autostop = "armed"
  /\ autostop' = "idle"
  /\ IF lock = "null" THEN UNCHANGED pc ELSE Goto(TimerTask, "stop")
  /\ UNCHANGED <<lock, ctxVars, svcVars, connect, cleanup, stopq, fault>>

\* wifi_connect_timer_cb does nothing in this firmware: the connection is made
\* by the application's CRED_RECV handler.
ConnectExpires ==
  /\ fault = "none"
  /\ pc[TimerTask] = "idle"
  /\ connect = "armed"
  /\ connect' = "idle"
  /\ UNCHANGED <<lock, ctxVars, svcVars, autostop, cleanup, stopq, pc, fault>>

\* cleanup_delay_timer_cb posts the STOP event, or gives up after 100 ms.
CleanupExpires ==
  /\ fault = "none"
  /\ pc[TimerTask] = "idle"
  /\ cleanup = "armed"
  /\ cleanup' = "idle"
  /\ \/ stopq < QueueLen /\ stopq' = stopq + 1
     \/ PostMayFail /\ UNCHANGED stopq
  /\ UNCHANGED <<lock, ctxVars, svcVars, autostop, connect, pc,
                 fault>>

-----------------------------------------------------------------------------
(* The event-loop task and wifi_prov_mgr_event_handler_internal.           *)

\* Defect: events count in every state but IDLE.
TryingAny == state # "IDLE"

\* Defect: events do not count while the service is being stopped.
TryingNotStopping == state \in {"CRED_RECV", "FAIL", "SUCCESS"}

Trying == state \in {"CRED_RECV", "FAIL", "SUCCESS", "STOPPING"}

\* Unregistering a handler does not wait for a handler that is running: one
\* that waits for the lock goes on when it gets it.
DispatchWifi(e) ==
  /\ fault = "none"
  /\ pc[EventLoop] = "idle"
  /\ wifiH
  /\ lock # "null"
  /\ Goto(EventLoop, e)
  /\ UNCHANGED <<lock, ctxVars, svcVars, timers, stopq, fault>>

DispatchStop ==
  /\ fault = "none"
  /\ pc[EventLoop] = "idle"
  /\ stopq > 0
  /\ stopq' = stopq - 1
  /\ IF pvtH /\ lock # "null" THEN Goto(EventLoop, "STOP") ELSE UNCHANGED pc
  /\ UNCHANGED <<lock, ctxVars, svcVars, timers, fault>>

\* The checks at the head of the handler, the same for every event.
EventIgnored ==
  /\ \E e \in WifiEvents \cup {"STOP"} : Acquire(EventLoop, e)
  /\ \/ ctx = "null"
     \/ ctx = "live" /\ ~Trying
  /\ Return(EventLoop)

\* WIFI_EVENT_STA_START, and STA_DISCONNECTED for a reason that is retried.
StaConnecting ==
  /\ \E e \in {"STA_START", "DISC_OTHER"} : AcquireLive(EventLoop, e)
  /\ Trying
  /\ wifiState' = "CONNECTING"
  /\ Goto(EventLoop, "idle")
  /\ UNCHANGED <<lock, ctx, state, noAutoStop, svcVars, timers, stopq, fault>>

GotIp ==
  /\ AcquireLive(EventLoop, "GOT_IP")
  /\ Trying
  /\ IF ~noAutoStop /\ autostop = "freed"
       THEN Panic("freed_timer")
       ELSE /\ wifiState' = "CONNECTED"
            /\ state' = "SUCCESS"
            /\ autostop' = IF noAutoStop THEN autostop ELSE StartOnce(autostop)
            /\ Goto(EventLoop, "post_CRED_SUCCESS")
            /\ UNCHANGED <<lock, ctx, noAutoStop, svcVars, connect, cleanup,
                           stopq, fault>>

\* STA_DISCONNECTED: wrong credentials or no such access point.
StaFailed ==
  /\ AcquireLive(EventLoop, "DISC_AUTH")
  /\ Trying
  /\ wifiState' = "DISCONNECTED"
  /\ state' = "FAIL"
  /\ Goto(EventLoop, "post_CRED_FAIL")
  /\ UNCHANGED <<lock, ctx, noAutoStop, svcVars, timers, stopq, fault>>

\* WIFI_PROV_MGR_STOP: prov_stop_and_notify(true), which keeps the lock.
AsyncBegin ==
  /\ AcquireLive(EventLoop, "STOP")
  /\ Trying
  /\ IF cleanup = "freed"
       THEN Panic("freed_timer")
       ELSE /\ lock' = EventLoop
            /\ pvtH' = FALSE
            /\ cleanup' = "null"
            /\ Goto(EventLoop, "async_stop")
            /\ UNCHANGED <<ctxVars, pcomm, stray, wifiH, autostop, connect,
                           stopq, fault>>

AsyncStop ==
  /\ fault = "none"
  /\ pc[EventLoop] = "async_stop"
  /\ TransportIdle
  /\ IF pcomm # "up"
       THEN Panic("double_cleanup")
       ELSE /\ pcomm' = "null"
            /\ state' = "IDLE"
            /\ Goto(EventLoop, "async_END")
            /\ UNCHANGED <<lock, ctx, noAutoStop, wifiState, stray, wifiH, pvtH,
                           timers, stopq, fault>>

\* Defect: the handler returns without RELEASE_LOCK.
AsyncEndKeepsLock ==
  /\ fault = "none"
  /\ pc[EventLoop] = "async_END"
  /\ Goto(EventLoop, "idle")
  /\ UNCHANGED <<lock, ctxVars, svcVars, timers, stopq, fault>>

AsyncEnd ==
  /\ fault = "none"
  /\ pc[EventLoop] = "async_END"
  /\ lock' = "free"
  /\ Goto(EventLoop, "idle")
  /\ UNCHANGED <<ctxVars, svcVars, timers, stopq, fault>>

\* A panic reboots the device: everything of the above is in RAM.
Reboot ==
  /\ fault # "none"
  /\ lock' = "null" /\ ctx' = "null" /\ state' = "IDLE" /\ noAutoStop' = FALSE
  /\ wifiState' = "CONNECTING"
  /\ pcomm' = "null" /\ stray' = FALSE /\ wifiH' = FALSE /\ pvtH' = FALSE
  /\ autostop' = "null" /\ connect' = "null" /\ cleanup' = "null"
  /\ stopq' = 0
  /\ pc' = [p \in Procs |-> "idle"]
  /\ fault' = "none"

-----------------------------------------------------------------------------
\* What a task does once it is inside a call.
Step(p) ==
  \/ AcquireDeleted(p) \/ UseFreedCtx(p) \/ UseNullCtx(p)
  \/ ExecuteEventCb(p) \/ Reacquire(p)
  \/ InitManager(p) \/ DisableAutoStop(p) \/ Wait(p)
  \/ StartRefused(p) \/ StartBegin(p) \/ StartNoTimer(p)
  \/ ServiceOpen(p) \/ ServiceRegister(p) \/ ServiceFail(p)
  \/ StartFinish(p) \/ StartError(p)
  \/ BadTimer(p) \/ StopRefused(p) \/ StopAccept(p)
  \/ Done(p) \/ GetStatus(p)
  \/ DeinitGone(p) \/ DeinitIdle(p) \/ DeinitStop(p)
  \/ SyncBegin(p) \/ SyncEnd(p)
  \/ DeinitFree(p) \/ DeinitNotify(p) \/ DeleteLock(p)
  \/ ConfigureMeshlite(p) \/ ConfigureStaRefused(p) \/ ConfigureSta(p)
  \/ ResetOnFailure(p) \/ ResetForReprovision(p)

HandlerStep ==
  \/ EventIgnored \/ StaConnecting \/ GotIp \/ StaFailed
  \/ AsyncBegin \/ AsyncStop \/ AsyncEnd

TimerStep == AutostopExpires \/ ConnectExpires \/ CleanupExpires

Next ==
  \/ \E t \in Tasks : \E op \in AppOps[t] : Call(t, op)
  \/ \E op \in ClientOps : ClientRequest(op)
  \/ \E p \in Procs : Step(p)
  \/ \E e \in WifiEvents : DispatchWifi(e)
  \/ DispatchStop \/ HandlerStep \/ TimerStep
  \/ Reboot

Spec == Init /\ [][Next]_vars

\* Every task that can go on does; a task that waits for the lock gets it in
\* the end, since FreeRTOS hands a mutex to its waiters in turn. Nothing makes
\* the application call, a client send or the network answer.
Fairness ==
  /\ \A p \in Procs : SF_vars(Step(p))
  /\ SF_vars(HandlerStep)
  /\ SF_vars(DispatchStop)
  /\ WF_vars(AutostopExpires) /\ WF_vars(ConnectExpires)
  /\ SF_vars(CleanupExpires)
  /\ WF_vars(Reboot)

FairSpec == Spec /\ Fairness

-----------------------------------------------------------------------------
DataTypeOK ==
  /\ lock \in {"null", "free"} \cup Procs
  /\ ctx \in {"null", "live", "freed"}
  /\ state \in States
  /\ noAutoStop \in BOOLEAN
  /\ wifiState \in {"CONNECTING", "CONNECTED", "DISCONNECTED"}
  /\ pcomm \in {"null", "up", "bare", "freed"}
  /\ stray \in BOOLEAN
  /\ wifiH \in BOOLEAN
  /\ pvtH \in BOOLEAN
  /\ autostop \in Handles
  /\ connect \in Handles
  /\ cleanup \in Handles
  /\ stopq \in 0..QueueLen
  /\ fault \in Faults
TypeOK == DataTypeOK /\ pc \in [Procs -> Labels]

Cleaning(p) == pc[p] \in {"sync_begin", "sync_end", "async_stop"}
StartingUp(p) == pc[p] \in {"svc_open", "svc_register", "startfin", "starterr"}

\* The transport, the endpoints and their handlers are taken down by one task
\* at a time: prov_stop_and_notify frees them without looking.
OneCleaner ==
  \A p, q \in Procs : Cleaning(p) /\ Cleaning(q) => p = q

\* While the service runs its protocomm instance exists and the handlers that
\* will notice success, failure and the request to stop are registered.
RunningIsServed ==
  fault = "none" /\ ctx = "live" /\ Running => pcomm = "up" /\ wifiH /\ pvtH

\* manager.c:1677: the state STARTING keeps parallel calls of start, stop and
\* deinit away from a start that is in progress.
StartUndisturbed ==
  \A p \in Procs : StartingUp(p) => ctx = "live" /\ state = "STARTING"

\* A client can reach the endpoints of a service only while there is a manager
\* that knows of it: never at the end of a deinit or after a start that failed,
\* whoever else calls the manager meanwhile; and not beside a transport that a
\* failed start has left up.
OnAirIsManaged ==
  /\ pcomm = "up" => ctx = "live" /\ state # "IDLE"
  /\ stray => pcomm # "up"

\* Nothing of a service is left when the manager is idle or gone: no endpoint a
\* client could reach, no handler that could be called, no timer that could
\* fire. The exception is what manager.c:336, 344 and 352 leave: the transport
\* of a start whose security version is not built in stays up, without an
\* endpoint (stray), against manager.h:249, which has deinit release everything.
IdleIsClean ==
  (ctx = "null" \/ state = "IDLE") =>
    pcomm # "up" /\ ~wifiH /\ ~pvtH /\ "armed" \notin {autostop, connect, cleanup}

\* While the state is STOPPING somebody is going to finish the stop: the timer,
\* the STOP event, its handler, or a deinit that is cleaning up itself.
StopScheduled ==
  fault = "none" /\ ctx = "live" /\ state = "STOPPING" =>
    \/ cleanup = "armed"
    \/ stopq > 0 /\ pvtH
    \/ \E p \in Procs : Cleaning(p) \/ pc[p] \in {"STOP", "deinitfin"}

\* What wifi_prov_mgr_stop_provisioning has scheduled happens.
StopCompletes == cleanup = "armed" ~> pcomm # "up"

\* Every call of the API returns (or the device reboots), but for
\* wifi_prov_mgr_wait, which waits as long as the service runs.
CallsReturn == \A t \in Tasks : pc[t] \notin {"idle", "wait"} ~> pc[t] = "idle"
=============================================================================
