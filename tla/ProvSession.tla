----------------------------- MODULE ProvSession -----------------------------
(***************************************************************************)
(* A provisioning session of the mesh firmware,                            *)
(* components/mesh_lite/src/wifi_prov/wifi_prov_mgr.c: the flag            *)
(* wifi_prov_status, the timer that ends a session nobody completes, and   *)
(* the handler of WIFI_PROV_END, around the provisioning manager.          *)
(*                                                                         *)
(* Three tasks end a session, the application, the FreeRTOS timer task and *)
(* the event loop, and nothing but the flag keeps them apart. The manager  *)
(* is seen from outside, as ProvManager has it in detail: its calls wait   *)
(* for a stop in progress, and wifi_prov_mgr_deinit deletes the lock.      *)
(***************************************************************************)
EXTENDS Naturals

(* A definition whose comment begins with "Defect:" is a variant of the    *)
(* definition after it, the way a mistake in the code would have it. The   *)
(* specification does not use it: a property's run has to fail with it.    *)

CONSTANTS
  Tasks,       \* the application tasks
  EventLoop,   \* the default event-loop task
  TimerSvc,    \* the FreeRTOS timer task
  SlowClient,  \* does a session outlast the call that started it?
  PatientApp,  \* does the application wait for a session to be over?
  MaxSessions  \* bound on the sessions started

Procs == Tasks \cup {EventLoop, TimerSvc}
Sessions == 1..MaxSessions

ASSUME ProcsAssumption ==
  EventLoop # TimerSvc /\ Tasks \cap {EventLoop, TimerSvc} = {}
ASSUME BoundsAssumption ==
  /\ MaxSessions \in Nat \ {0}
  /\ SlowClient \in BOOLEAN /\ PatientApp \in BOOLEAN

\* Where a task is: in esp_mesh_lite_wifi_prov_mgr_init, in the END handler, or
\* in wifi_prov_mgr_deinit and what its caller does after it.
InInit == {"init_set", "init_create", "init_query", "init_start", "init_timer"}
InDeinit == {"deinit_check", "deinit", "deinit_sync", "deinit_post",
             "delete_lock"}
Labels == {"idle", "end_timer", "end_check", "clear"} \cup InInit \cup InDeinit

VARIABLES
  status,   \* wifi_prov_status
  session,  \* the last session started, 0 before the first
  timer,    \* the timer of each session: "none", "armed", "dormant", "deleted"
  handle,   \* the session prov_timeout_timer belongs to, 0 when it is NULL
  mgr,      \* the manager: "absent", "idle", "running", "stopping", "closing"
  lock,     \* does the manager's lock exist?
  ends,     \* WIFI_PROV_END events in the event queue
  pc,       \* where each task is
  after,    \* where a task goes after wifi_prov_mgr_deinit
  left,     \* the sessions the application has ended itself
  stray,    \* has the timer of one of those fired?
  fault     \* "none", or what the device panicked on

ghosts == <<left, stray>>
vars == <<status, session, timer, handle, mgr, lock, ends, pc, after, ghosts, fault>>

Goto(p, l) == pc' = [pc EXCEPT ![p] = l]
At(p, l) == fault = "none" /\ pc[p] = l

\* p calls wifi_prov_mgr_deinit, and goes on at l.
CallDeinit(p, l) ==
  /\ Goto(p, "deinit_check")
  /\ after' = [after EXCEPT ![p] = l]

Panic(kind) ==
  /\ fault' = kind
  /\ UNCHANGED <<status, session, timer, handle, mgr, lock, ends, pc, after, ghosts>>

Init ==
  /\ status = FALSE
  /\ session = 0
  /\ timer = [s \in Sessions |-> "none"]
  /\ handle = 0
  /\ mgr = "absent"
  /\ lock = FALSE
  /\ ends = 0
  /\ pc = [p \in Procs |-> "idle"]
  /\ after = [p \in Procs |-> "idle"]
  /\ left = {}
  /\ stray = FALSE
  /\ fault = "none"
-----------------------------------------------------------------------------
(* esp_mesh_lite_wifi_prov_mgr_init                                        *)

\* The flag falls before the timer task has ended the session. Whoever starts
\* the next one by the flag alone gets into its way.
SessionOver(t) == ends = 0 /\ \A p \in Procs \ {t} : pc[p] = "idle"

InitCheck(t) ==
  /\ At(t, "idle")
  /\ session < MaxSessions
  /\ PatientApp => SessionOver(t)
  /\ ~status
  /\ Goto(t, "init_set")
  /\ UNCHANGED <<status, session, timer, handle, mgr, lock, ends, after, ghosts, fault>>

InitSet(t) ==
  /\ At(t, "init_set")
  /\ session < MaxSessions
  /\ status' = TRUE
  /\ session' = session + 1
  /\ Goto(t, "init_create")
  /\ UNCHANGED <<timer, handle, mgr, lock, ends, after, ghosts, fault>>

\* wifi_prov_mgr_init creates the lock before it looks for a manager. Its
\* failure, like the others here, ends in ESP_ERROR_CHECK.
InitCreate(t) ==
  /\ At(t, "init_create")
  /\ IF mgr # "absent"
       THEN Panic("abort")
       ELSE /\ mgr' = "idle"
            /\ lock' = TRUE
            /\ Goto(t, "init_query")
            /\ UNCHANGED <<status, session, timer, handle, ends, after, ghosts, fault>>

\* A device with credentials needs no session: the manager goes again.
InitQuery(t) ==
  /\ At(t, "init_query")
  /\ \/ Goto(t, "init_start") /\ UNCHANGED after
     \/ CallDeinit(t, "idle")
  /\ UNCHANGED <<status, session, timer, handle, mgr, lock, ends, ghosts, fault>>

InitStart(t) ==
  /\ At(t, "init_start")
  /\ IF mgr # "idle"
       THEN Panic("abort")
       ELSE /\ mgr' = "running"
            /\ Goto(t, "init_timer")
            /\ UNCHANGED <<status, session, timer, handle, lock, ends, after,
                           ghosts, fault>>

\* Defect: the timer is created and not started.
InitTimerDormant(t) ==
  /\ At(t, "init_timer")
  /\ handle' = session
  /\ timer' = [timer EXCEPT ![session] = "dormant"]
  /\ Goto(t, "idle")
  /\ UNCHANGED <<status, session, mgr, lock, ends, after, ghosts, fault>>

InitTimer(t) ==
  /\ At(t, "init_timer")
  /\ handle' = session
  /\ timer' = [timer EXCEPT ![session] = "armed"]
  /\ Goto(t, "idle")
  /\ UNCHANGED <<status, session, mgr, lock, ends, after, ghosts, fault>>
-----------------------------------------------------------------------------
(* The service ends: esp_mesh_lite_wifi_prov_mgr_deinit, the timer, or a   *)
(* stop, and then the END event.                                           *)

AppDeinit(t) ==
  /\ At(t, "idle")
  /\ status
  /\ CallDeinit(t, "clear")
  /\ left' = left \cup {session}
  /\ UNCHANGED <<status, session, timer, handle, mgr, lock, ends, stray, fault>>

\* Defect: the timer, which reloads itself, is not stopped.
TimeoutReloads(s) ==
  /\ At(TimerSvc, "idle")
  /\ timer[s] = "armed"
  /\ status' = FALSE
  /\ CallDeinit(TimerSvc, "idle")
  /\ stray' = (stray \/ s \in left)
  /\ UNCHANGED <<session, timer, handle, mgr, lock, ends, left, fault>>

\* prov_timeout_timer_callback
Timeout(s) ==
  /\ At(TimerSvc, "idle")
  /\ timer[s] = "armed"
  /\ timer' = [timer EXCEPT ![s] = "dormant"]
  /\ status' = FALSE
  /\ CallDeinit(TimerSvc, "idle")
  /\ stray' = (stray \/ s \in left)
  /\ UNCHANGED <<session, handle, mgr, lock, ends, left, fault>>

\* wifi_provision_stop, or the manager's own stop after a success.
StopService ==
  /\ fault = "none"
  /\ mgr = "running"
  /\ SlowClient => \A t \in Tasks : pc[t] # "init_timer"
  /\ mgr' = "stopping"
  /\ UNCHANGED <<status, session, timer, handle, lock, ends, pc, after, ghosts, fault>>

\* The STOP handler of the manager, which runs on the event loop.
ServiceStopped ==
  /\ At(EventLoop, "idle")
  /\ mgr = "stopping"
  /\ mgr' = "idle"
  /\ ends' = ends + 1
  /\ UNCHANGED <<status, session, timer, handle, lock, pc, after, ghosts, fault>>

\* event_handler, WIFI_PROV_END: nothing is looked at when the flag is down.
HandleEnd ==
  /\ At(EventLoop, "idle")
  /\ ends > 0
  /\ ends' = ends - 1
  /\ IF status THEN Goto(EventLoop, "end_timer") ELSE UNCHANGED pc
  /\ UNCHANGED <<status, session, timer, handle, mgr, lock, after, ghosts, fault>>

\* Defect: the timer goes on.
EndTimerKept ==
  /\ At(EventLoop, "end_timer")
  /\ Goto(EventLoop, "end_check")
  /\ UNCHANGED <<status, session, timer, handle, mgr, lock, ends, after, ghosts, fault>>

\* xTimerDelete asserts its handle; the handle is kept.
EndTimer ==
  /\ At(EventLoop, "end_timer")
  /\ IF handle = 0
       THEN Panic("timer")
       ELSE IF timer[handle] = "deleted"
       THEN Panic("timer")
       ELSE /\ timer' = [timer EXCEPT ![handle] = "deleted"]
            /\ Goto(EventLoop, "end_check")
            /\ UNCHANGED <<status, session, handle, mgr, lock, ends, after,
                           ghosts, fault>>

EndCheck ==
  /\ At(EventLoop, "end_check")
  /\ IF status
       THEN CallDeinit(EventLoop, "clear")
       ELSE Goto(EventLoop, "idle") /\ UNCHANGED after
  /\ UNCHANGED <<status, session, timer, handle, mgr, lock, ends, ghosts, fault>>

Clear(p) ==
  /\ At(p, "clear")
  /\ status' = FALSE
  /\ Goto(p, "idle")
  /\ UNCHANGED <<session, timer, handle, mgr, lock, ends, after, ghosts, fault>>
-----------------------------------------------------------------------------
(* wifi_prov_mgr_deinit. The NULL check of the lock comes before the lock  *)
(* is taken, the lock is deleted after it was given back.                  *)

DeinitCheck(p) ==
  /\ At(p, "deinit_check")
  /\ Goto(p, IF lock THEN "deinit" ELSE after[p])
  /\ UNCHANGED <<status, session, timer, handle, mgr, lock, ends, after, ghosts, fault>>

Deinit(p) ==
  /\ At(p, "deinit")
  /\ \/ /\ ~lock
        /\ Panic("lock")
     \/ /\ lock
        /\ mgr \in {"absent", "idle"}
        /\ mgr' = "absent"
        /\ Goto(p, "delete_lock")
        /\ UNCHANGED <<status, session, timer, handle, lock, ends, after, ghosts, fault>>
     \/ /\ lock
        /\ mgr = "running"
        /\ mgr' = "closing"
        /\ Goto(p, "deinit_sync")
        /\ UNCHANGED <<status, session, timer, handle, lock, ends, after, ghosts, fault>>

DeinitSync(p) ==
  /\ At(p, "deinit_sync")
  /\ mgr' = "absent"
  /\ Goto(p, "deinit_post")
  /\ UNCHANGED <<status, session, timer, handle, lock, ends, after, ghosts, fault>>

DeinitPost(p) ==
  /\ At(p, "deinit_post")
  /\ ends' = ends + 1
  /\ Goto(p, "delete_lock")
  /\ UNCHANGED <<status, session, timer, handle, mgr, lock, after, ghosts, fault>>

DeleteLock(p) ==
  /\ At(p, "delete_lock")
  /\ IF ~lock
       THEN Panic("lock")
       ELSE /\ lock' = FALSE
            /\ Goto(p, after[p])
            /\ UNCHANGED <<status, session, timer, handle, mgr, ends, after,
                           ghosts, fault>>

Reboot ==
  /\ fault # "none"
  /\ status' = FALSE
  /\ timer' = [s \in Sessions |-> "none"]
  /\ handle' = 0
  /\ mgr' = "absent"
  /\ lock' = FALSE
  /\ ends' = 0
  /\ pc' = [p \in Procs |-> "idle"]
  /\ after' = [p \in Procs |-> "idle"]
  /\ stray' = FALSE
  /\ fault' = "none"
  /\ UNCHANGED <<session, left>>
-----------------------------------------------------------------------------
InitStep(t) ==
  \/ InitSet(t) \/ InitCreate(t) \/ InitQuery(t) \/ InitStart(t)
  \/ InitTimer(t)

DeinitStep(p) ==
  \/ DeinitCheck(p) \/ Deinit(p) \/ DeinitSync(p) \/ DeinitPost(p)
  \/ DeleteLock(p) \/ Clear(p)

EndStep == HandleEnd \/ EndTimer \/ EndCheck

Next ==
  \/ \E t \in Tasks : InitCheck(t) \/ AppDeinit(t) \/ InitStep(t)
  \/ \E p \in Procs : DeinitStep(p)
  \/ \E s \in Sessions : Timeout(s)
  \/ StopService \/ ServiceStopped \/ EndStep \/ Reboot

Spec == Init /\ [][Next]_vars

\* Every task that can go on does, and an armed timer fires in the end. Nothing
\* makes the application call, or a client complete the session.
Fairness ==
  /\ \A t \in Tasks : WF_vars(InitStep(t))
  /\ \A p \in Procs : WF_vars(DeinitStep(p))
  /\ \A s \in Sessions : SF_vars(Timeout(s))
  /\ WF_vars(ServiceStopped) /\ WF_vars(EndStep)
  /\ WF_vars(Reboot)

FairSpec == Spec /\ Fairness
-----------------------------------------------------------------------------
TypeOK ==
  /\ status \in BOOLEAN
  /\ session \in 0..MaxSessions
  /\ timer \in [Sessions -> {"none", "armed", "dormant", "deleted"}]
  /\ handle \in 0..MaxSessions
  /\ mgr \in {"absent", "idle", "running", "stopping", "closing"}
  /\ lock \in BOOLEAN
  /\ ends \in Nat
  /\ pc \in [Procs -> Labels]
  /\ after \in [Procs -> {"idle", "clear"}]
  /\ left \subseteq Sessions
  /\ stray \in BOOLEAN
  /\ fault \in {"none", "abort", "timer", "lock"}

Quiet == fault = "none" /\ \A p \in Procs : pc[p] = "idle"

\* A session the application ends itself may leave its timer behind: END is
\* posted while it deinitializes, and is seldom handled before the flag falls.
\* What is said here is true until such a timer fires.

\* When the flag is down and nobody is at work nothing of a session is left: no
\* manager, no lock, and no timer that could fire into the next session.
QuietIsClean ==
  ~stray /\ Quiet /\ ~status =>
    /\ mgr = "absent" /\ ~lock
    /\ \A s \in Sessions : timer[s] = "armed" => s \in left

\* A timeout can only hit the session it was set for: the armed timer is the one
\* prov_timeout_timer holds, and no other.
OneTimer ==
  ~stray =>
    \A s \in Sessions \ left : timer[s] = "armed" => s = session /\ s = handle

\* Kconfig, PROV_TIMEOUT_SECONDS: a device that is not provisioned in time exits
\* provisioning mode, and the manager goes.
SessionEnds == mgr # "absent" ~> mgr = "absent" \/ stray
=============================================================================
