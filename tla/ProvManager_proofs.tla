------------------------- MODULE ProvManager_proofs -------------------------
(***************************************************************************)
(* Theorems about ProvManager, for every choice of its constants.          *)
(***************************************************************************)
EXTENDS ProvRefinement, TLAPS

-----------------------------------------------------------------------------
(* Type correctness.                                                       *)

\* The labels a step can go to.
LEMMA LabelFacts ==
  /\ "idle" \in Labels /\ "stop" \in Labels /\ "config" \in Labels
  /\ "done" \in Labels /\ "delete_lock" \in Labels /\ "deinitfin" \in Labels
  /\ "svc_open" \in Labels /\ "svc_register" \in Labels /\ "STOP" \in Labels
  /\ "startfin" \in Labels /\ "starterr" \in Labels /\ "reacq" \in Labels
  /\ "custreacq" \in Labels /\ "sync_begin" \in Labels /\ "sync_end" \in Labels
  /\ "deinit_END" \in Labels /\ "deinit_DEINIT" \in Labels
  /\ "async_stop" \in Labels /\ "async_END" \in Labels
  /\ "post_INIT" \in Labels /\ "post_START" \in Labels
  /\ "post_CRED_RECV" \in Labels /\ "post_CUST_DATA" \in Labels
  /\ "post_CRED_FAIL" \in Labels /\ "post_CRED_SUCCESS" \in Labels
  /\ AllAppOps \cup AllClientOps \cup AllWifiEvents \subseteq Labels
BY DEF Labels, Waits, Outside, Holding, AllAppOps, AllClientOps, AllWifiEvents

\* Every task of the model is one of Procs.
LEMMA ProcFacts ==
  /\ Client \in Procs /\ EventLoop \in Procs /\ TimerTask \in Procs
  /\ Tasks \subseteq Procs
BY DEF Procs

\* A step of a task inside a call leaves every task at a label.
LEMMA StepPc ==
  ASSUME pc \in [Procs -> Labels], NEW p \in Procs, Step(p)
  PROVE  pc' \in [Procs -> Labels]
<1> USE LabelFacts DEF Goto
<1>1. CASE AcquireDeleted(p)
  BY <1>1 DEF AcquireDeleted, Panic, Return
<1>2. CASE UseFreedCtx(p)
  BY <1>2 DEF UseFreedCtx, Panic
<1>3. CASE UseNullCtx(p)
  BY <1>3 DEF UseNullCtx, Panic
<1>4. CASE ExecuteEventCb(p)
  BY <1>4 DEF ExecuteEventCb
<1>5. CASE Reacquire(p)
  BY <1>5 DEF Reacquire
<1>6. CASE InitManager(p)
  BY <1>6 DEF InitManager
<1>7. CASE DisableAutoStop(p)
  BY <1>7 DEF DisableAutoStop
<1>8. CASE Wait(p)
  BY <1>8 DEF Wait, Return
<1>9. CASE StartRefused(p)
  BY <1>9 DEF StartRefused, Return
<1>10. CASE StartBegin(p)
  BY <1>10 DEF StartBegin
<1>11. CASE StartNoTimer(p)
  BY <1>11 DEF StartNoTimer
<1>12. CASE ServiceOpen(p)
  BY <1>12 DEF ServiceOpen
<1>13. CASE ServiceRegister(p)
  BY <1>13 DEF ServiceRegister
<1>14. CASE ServiceFail(p)
  BY <1>14 DEF ServiceFail, Panic
<1>15. CASE StartFinish(p)
  BY <1>15 DEF StartFinish
<1>16. CASE StartError(p)
  BY <1>16 DEF StartError
<1>17. CASE BadTimer(p)
  BY <1>17 DEF BadTimer, Panic
<1>18. CASE StopRefused(p)
  BY <1>18 DEF StopRefused, Return
<1>19. CASE StopAccept(p)
  BY <1>19 DEF StopAccept
<1>20. CASE Done(p)
  BY <1>20 DEF Done
<1>21. CASE GetStatus(p)
  BY <1>21 DEF GetStatus
<1>22. CASE DeinitGone(p)
  BY <1>22 DEF DeinitGone
<1>23. CASE DeinitIdle(p)
  BY <1>23 DEF DeinitIdle
<1>24. CASE DeinitStop(p)
  BY <1>24 DEF DeinitStop
<1>25. CASE SyncBegin(p)
  BY <1>25 DEF SyncBegin
<1>26. CASE SyncEnd(p)
  BY <1>26 DEF SyncEnd, Panic
<1>27. CASE DeinitFree(p)
  BY <1>27 DEF DeinitFree
<1>28. CASE DeinitNotify(p)
  BY <1>28 DEF DeinitNotify
<1>29. CASE DeleteLock(p)
  BY <1>29 DEF DeleteLock, Panic
<1>30. CASE ConfigureMeshlite(p)
  BY <1>30 DEF ConfigureMeshlite
<1>31. CASE ConfigureStaRefused(p)
  BY <1>31 DEF ConfigureStaRefused, Return
<1>32. CASE ConfigureSta(p)
  BY <1>32 DEF ConfigureSta, Panic
<1>33. CASE ResetOnFailure(p)
  BY <1>33 DEF ResetOnFailure
<1>34. CASE ResetForReprovision(p)
  BY <1>34 DEF ResetForReprovision
<1> QED
  BY <1>1, <1>2, <1>3, <1>4, <1>5, <1>6, <1>7, <1>8, <1>9, <1>10, <1>11, <1>12, <1>13, <1>14, <1>15, <1>16, <1>17, <1>18, <1>19, <1>20, <1>21, <1>22, <1>23, <1>24, <1>25, <1>26, <1>27, <1>28, <1>29, <1>30, <1>31, <1>32, <1>33, <1>34 DEF Step

\* A step of a task inside a call keeps the other variables within their types.
LEMMA StepData ==
  ASSUME TypeOK, NEW p \in Procs, Step(p)
  PROVE  DataTypeOK'
<1> USE DEF TypeOK, DataTypeOK, ctxVars, svcVars, timers
<1>1. CASE AcquireDeleted(p)
  BY <1>1 DEF AcquireDeleted, Panic, Return, Faults
<1>2. CASE UseFreedCtx(p)
  BY <1>2 DEF UseFreedCtx, Panic, Faults
<1>3. CASE UseNullCtx(p)
  BY <1>3 DEF UseNullCtx, Panic, Faults
<1>4. CASE ExecuteEventCb(p)
  BY <1>4 DEF ExecuteEventCb
<1>5. CASE Reacquire(p)
  BY <1>5 DEF Reacquire
<1>6. CASE InitManager(p)
  BY <1>6 DEF InitManager, States, Handles
<1>7. CASE DisableAutoStop(p)
  BY <1>7 DEF DisableAutoStop
<1>8. CASE Wait(p)
  BY <1>8 DEF Wait, Return
<1>9. CASE StartRefused(p)
  BY <1>9 DEF StartRefused, Return
<1>10. CASE StartBegin(p)
  BY <1>10 DEF StartBegin, States, Handles
<1>11. CASE StartNoTimer(p)
  BY <1>11 DEF StartNoTimer, Handles
<1>12. CASE ServiceOpen(p)
  BY <1>12 DEF ServiceOpen
<1>13. CASE ServiceRegister(p)
  BY <1>13 DEF ServiceRegister
<1>14. CASE ServiceFail(p)
  BY <1>14 DEF ServiceFail, Panic, Faults, Handles
<1>15. CASE StartFinish(p)
  BY <1>15 DEF StartFinish, States
<1>16. CASE StartError(p)
  BY <1>16 DEF StartError, States
<1>17. CASE BadTimer(p)
  BY <1>17 DEF BadTimer, Panic, Faults
<1>18. CASE StopRefused(p)
  BY <1>18 DEF StopRefused, Return
<1>19. CASE StopAccept(p)
  BY <1>19 DEF StopAccept, StopService, StartOnce, States, Handles
<1>20. CASE Done(p)
  BY <1>20 DEF Done
<1>21. CASE GetStatus(p)
  BY <1>21 DEF GetStatus
<1>22. CASE DeinitGone(p)
  BY <1>22 DEF DeinitGone
<1>23. CASE DeinitIdle(p)
  BY <1>23 DEF DeinitIdle
<1>24. CASE DeinitStop(p)
  BY <1>24 DEF DeinitStop, StopService, States, Handles
<1>25. CASE SyncBegin(p)
  <2>1. /\ pvtH' = FALSE /\ cleanup' = "null"
        /\ UNCHANGED <<lock, ctxVars, pcomm, stray, wifiH, autostop, connect, stopq,
                       fault>>
    BY <1>25 DEF SyncBegin
  <2>2. /\ cleanup' \in Handles /\ autostop' \in Handles /\ connect' \in Handles
        /\ pvtH' \in BOOLEAN
    BY <2>1 DEF Handles
  <2>3. UNCHANGED <<lock, ctxVars, pcomm, stray, wifiH, stopq, fault>>
    BY <2>1
  <2> QED
    BY <2>2, <2>3
<1>26. CASE SyncEnd(p)
  BY <1>26 DEF SyncEnd, Panic, Faults
<1>27. CASE DeinitFree(p)
  BY <1>27 DEF DeinitFree, States
<1>28. CASE DeinitNotify(p)
  BY <1>28 DEF DeinitNotify
<1>29. CASE DeleteLock(p)
  BY <1>29 DEF DeleteLock, Panic, Faults
<1>30. CASE ConfigureMeshlite(p)
  BY <1>30 DEF ConfigureMeshlite
<1>31. CASE ConfigureStaRefused(p)
  BY <1>31 DEF ConfigureStaRefused, Return
<1>32. CASE ConfigureSta(p)
  BY <1>32 DEF ConfigureSta, Panic, Faults, States, Handles
<1>33. CASE ResetOnFailure(p)
  BY <1>33 DEF ResetOnFailure, States
<1>34. CASE ResetForReprovision(p)
  BY <1>34 DEF ResetForReprovision, States
<1> QED
  BY <1>1, <1>2, <1>3, <1>4, <1>5, <1>6, <1>7, <1>8, <1>9, <1>10, <1>11, <1>12, <1>13, <1>14, <1>15, <1>16, <1>17, <1>18, <1>19, <1>20, <1>21, <1>22, <1>23, <1>24, <1>25, <1>26, <1>27, <1>28, <1>29, <1>30, <1>31, <1>32, <1>33, <1>34 DEF Step

\* The same of the steps that begin a call or belong to one task.
LEMMA OtherPc ==
  ASSUME pc \in [Procs -> Labels], [Next]_vars, \A p \in Procs : ~Step(p)
  PROVE  pc' \in [Procs -> Labels]
<1> USE LabelFacts, ProcFacts DEF Goto
<1>1. ASSUME NEW t \in Tasks, NEW op \in AppOps[t], Call(t, op)
      PROVE  pc' \in [Procs -> Labels]
  <2>1. op \in Labels
    BY OpsAssumption
  <2> QED
    BY <1>1, <2>1 DEF Call
<1>2. ASSUME NEW op \in ClientOps, ClientRequest(op)
      PROVE  pc' \in [Procs -> Labels]
  BY <1>2, OpsAssumption DEF ClientRequest
<1>3. ASSUME NEW e \in WifiEvents, DispatchWifi(e)
      PROVE  pc' \in [Procs -> Labels]
  BY <1>3, OpsAssumption DEF DispatchWifi
<1>4. CASE DispatchStop
  BY <1>4 DEF DispatchStop
<1>5. CASE HandlerStep
  BY <1>5 DEF HandlerStep, EventIgnored, Return, StaConnecting, GotIp, StaFailed,
              AsyncBegin, AsyncStop, AsyncEnd, Panic
<1>6. CASE TimerStep
  BY <1>6 DEF TimerStep, AutostopExpires, ConnectExpires, CleanupExpires
<1>7. CASE Reboot
  BY <1>7 DEF Reboot
<1>8. CASE UNCHANGED vars
  BY <1>8 DEF vars
<1> QED
  BY <1>1, <1>2, <1>3, <1>4, <1>5, <1>6, <1>7, <1>8 DEF Next

\* And their effect on the other variables.
LEMMA OtherData ==
  ASSUME TypeOK, [Next]_vars, \A p \in Procs : ~Step(p)
  PROVE  DataTypeOK'
<1> USE ProcFacts, BoundsAssumption DEF TypeOK, DataTypeOK, ctxVars, svcVars, timers
<1>1. ASSUME NEW t \in Tasks, NEW op \in AppOps[t], Call(t, op)
      PROVE  DataTypeOK'
  BY <1>1 DEF Call
<1>2. ASSUME NEW op \in ClientOps, ClientRequest(op)
      PROVE  DataTypeOK'
  BY <1>2 DEF ClientRequest
<1>3. ASSUME NEW e \in WifiEvents, DispatchWifi(e)
      PROVE  DataTypeOK'
  BY <1>3 DEF DispatchWifi
<1>4. CASE DispatchStop
  BY <1>4 DEF DispatchStop
<1>5. CASE HandlerStep
  <2>1. CASE EventIgnored
    BY <2>1 DEF EventIgnored, Return
  <2>2. CASE StaConnecting
    BY <2>2 DEF StaConnecting
  <2>3. CASE GotIp
    BY <2>3 DEF GotIp, StartOnce, Panic, Faults, States, Handles
  <2>4. CASE StaFailed
    <3>1. /\ wifiState' = "DISCONNECTED" /\ state' = "FAIL"
          /\ UNCHANGED <<lock, ctx, noAutoStop, svcVars, timers, stopq, fault>>
      BY <2>4 DEF StaFailed
    <3> QED
      BY <3>1 DEF States
  <2>5. CASE AsyncBegin
    <3>1. CASE Panic("freed_timer")
      BY <3>1 DEF Panic, Faults
    <3>2. CASE ~Panic("freed_timer")
      <4>1. /\ lock' = EventLoop /\ pvtH' = FALSE /\ cleanup' = "null"
            /\ UNCHANGED <<ctxVars, pcomm, stray, wifiH, autostop, connect, stopq,
                           fault>>
        BY <2>5, <3>2 DEF AsyncBegin
      <4>2. /\ cleanup' \in Handles /\ autostop' \in Handles /\ connect' \in Handles
            /\ pvtH' \in BOOLEAN /\ lock' \in Procs
        BY <4>1 DEF Handles
      <4>3. UNCHANGED <<ctxVars, pcomm, stray, wifiH, stopq, fault>>
        BY <4>1
      <4> QED
        BY <4>2, <4>3
    <3> QED
      BY <2>5, <3>1, <3>2 DEF AsyncBegin
  <2>6. CASE AsyncStop
    BY <2>6 DEF AsyncStop, Panic, Faults, States
  <2>7. CASE AsyncEnd
    BY <2>7 DEF AsyncEnd
  <2> QED
    BY <1>5, <2>1, <2>2, <2>3, <2>4, <2>5, <2>6, <2>7 DEF HandlerStep
<1>6. CASE TimerStep
  <2>1. CASE AutostopExpires \/ ConnectExpires
    BY <2>1 DEF AutostopExpires, ConnectExpires, Handles
  <2>2. CASE CleanupExpires
    BY <2>2 DEF CleanupExpires, Handles
  <2> QED
    BY <1>6, <2>1, <2>2 DEF TimerStep
<1>7. CASE Reboot
  <2>1. /\ lock' = "null" /\ ctx' = "null" /\ state' = "IDLE" /\ stopq' = 0
        /\ fault' = "none" /\ wifiState' = "CONNECTING"
    BY <1>7 DEF Reboot
  <2>2. /\ pcomm' = "null" /\ stray' = FALSE /\ wifiH' = FALSE /\ pvtH' = FALSE
        /\ autostop' = "null" /\ connect' = "null" /\ cleanup' = "null"
        /\ noAutoStop' = FALSE
    BY <1>7 DEF Reboot
  <2>3. stopq' \in 0..QueueLen
    BY <2>1
  <2> QED
    BY <2>1, <2>2, <2>3 DEF States, Handles, Faults
<1>8. CASE UNCHANGED vars
  BY <1>8 DEF vars
<1> QED
  BY <1>1, <1>2, <1>3, <1>4, <1>5, <1>6, <1>7, <1>8 DEF Next

\* Every variable of the manager stays within its type, whatever the tasks call
\* and whatever the environment does: prov_ctx is NULL, valid or dangling, each
\* timer handle NULL, idle, armed or dangling, and every task is at a place of
\* the code.
THEOREM TypeCorrect == Spec => []TypeOK
<1>1. Init => TypeOK
  <2>1. Init => pc \in [Procs -> Labels]
    BY LabelFacts DEF Init
  <2>2. ASSUME Init PROVE DataTypeOK
    <3>1. stopq \in 0..QueueLen
      BY <2>2, BoundsAssumption DEF Init
    <3> QED
      BY <2>2, <3>1 DEF Init, DataTypeOK, States, Handles, Faults
  <2> QED
    BY <2>1, <2>2 DEF TypeOK
<1>2. TypeOK /\ [Next]_vars => TypeOK'
  BY StepPc, StepData, OtherPc, OtherData DEF TypeOK
<1> QED
  BY <1>1, <1>2, PTL DEF Spec

-----------------------------------------------------------------------------
(* The STOP handler is the only code that keeps the lock from one step to  *)
(* the next, and it relies on the context staying there.                   *)

LockProtectsStop ==
  /\ (lock = EventLoop) <=> (pc[EventLoop] \in Holding)
  /\ lock \in Procs => lock = EventLoop /\ ctx = "live"

\* A step of a task inside a call begins and ends outside the STOP handler,
\* leaves the lock alone unless it deletes it, and changes prov_ctx only while
\* nobody holds the lock.
LEMMA StepLock ==
  ASSUME TypeOK, NEW p \in Procs, Step(p)
  PROVE  /\ pc[p] \notin Holding /\ pc'[p] \notin Holding
         /\ \A q \in Procs \ {p} : pc'[q] = pc[q]
         /\ lock' = lock \/ (lock = "free" /\ lock' = "null")
         /\ ctx' = ctx \/ lock = "free"
<1>0. pc \in [Procs -> Labels]
  BY DEF TypeOK
<1> USE <1>0 DEF Goto, Holding, Acquire, AcquireLive, ctxVars
<1>1. CASE AcquireDeleted(p)
  BY <1>1 DEF AcquireDeleted, Panic, Return, Waits, AllAppOps, AllClientOps, AllWifiEvents
<1>2. CASE UseFreedCtx(p)
  BY <1>2 DEF UseFreedCtx, Panic, Waits, AllAppOps, AllClientOps, AllWifiEvents
<1>3. CASE UseNullCtx(p)
  BY <1>3 DEF UseNullCtx, Panic
<1>4. CASE ExecuteEventCb(p)
  BY <1>4 DEF ExecuteEventCb, Posting
<1>5. CASE Reacquire(p)
  BY <1>5 DEF Reacquire
<1>6. CASE InitManager(p)
  BY <1>6 DEF InitManager
<1>7. CASE DisableAutoStop(p)
  BY <1>7 DEF DisableAutoStop
<1>8. CASE Wait(p)
  BY <1>8 DEF Wait, Return
<1>9. CASE StartRefused(p)
  BY <1>9 DEF StartRefused, Return
<1>10. CASE StartBegin(p)
  BY <1>10 DEF StartBegin
<1>11. CASE StartNoTimer(p)
  BY <1>11 DEF StartNoTimer
<1>12. CASE ServiceOpen(p)
  BY <1>12 DEF ServiceOpen
<1>13. CASE ServiceRegister(p)
  BY <1>13 DEF ServiceRegister
<1>14. CASE ServiceFail(p)
  BY <1>14 DEF ServiceFail, Panic
<1>15. CASE StartFinish(p)
  BY <1>15 DEF StartFinish
<1>16. CASE StartError(p)
  BY <1>16 DEF StartError
<1>17. CASE BadTimer(p)
  BY <1>17 DEF BadTimer, Panic
<1>18. CASE StopRefused(p)
  BY <1>18 DEF StopRefused, Return
<1>19. CASE StopAccept(p)
  BY <1>19 DEF StopAccept
<1>20. CASE Done(p)
  BY <1>20 DEF Done
<1>21. CASE GetStatus(p)
  BY <1>21 DEF GetStatus
<1>22. CASE DeinitGone(p)
  BY <1>22 DEF DeinitGone
<1>23. CASE DeinitIdle(p)
  BY <1>23 DEF DeinitIdle
<1>24. CASE DeinitStop(p)
  BY <1>24 DEF DeinitStop
<1>25. CASE SyncBegin(p)
  BY <1>25 DEF SyncBegin
<1>26. CASE SyncEnd(p)
  BY <1>26 DEF SyncEnd, Panic
<1>27. CASE DeinitFree(p)
  BY <1>27 DEF DeinitFree
<1>28. CASE DeinitNotify(p)
  BY <1>28 DEF DeinitNotify
<1>29. CASE DeleteLock(p)
  BY <1>29 DEF DeleteLock, Panic
<1>30. CASE ConfigureMeshlite(p)
  BY <1>30 DEF ConfigureMeshlite
<1>31. CASE ConfigureStaRefused(p)
  BY <1>31 DEF ConfigureStaRefused, Return
<1>32. CASE ConfigureSta(p)
  BY <1>32 DEF ConfigureSta, Panic
<1>33. CASE ResetOnFailure(p)
  BY <1>33 DEF ResetOnFailure
<1>34. CASE ResetForReprovision(p)
  BY <1>34 DEF ResetForReprovision
<1> QED
  BY <1>1, <1>2, <1>3, <1>4, <1>5, <1>6, <1>7, <1>8, <1>9, <1>10, <1>11, <1>12, <1>13, <1>14, <1>15, <1>16, <1>17, <1>18, <1>19, <1>20, <1>21, <1>22, <1>23, <1>24, <1>25, <1>26, <1>27, <1>28, <1>29, <1>30, <1>31, <1>32, <1>33, <1>34 DEF Step

\* Of the other steps only the STOP handler takes the lock, and only it gives
\* it back.
LEMMA OtherLock ==
  ASSUME TypeOK, LockProtectsStop, [Next]_vars, \A p \in Procs : ~Step(p)
  PROVE  LockProtectsStop'
<1> USE ProcFacts, ProcsDistinct DEF TypeOK, LockProtectsStop, ctxVars, Goto, Holding
<1>1. ASSUME NEW t \in Tasks, NEW op \in AppOps[t], Call(t, op)
      PROVE  LockProtectsStop'
  <2>1. t # EventLoop
    OBVIOUS
  <2> QED
    BY <1>1, <2>1 DEF Call
<1>2. ASSUME NEW op \in ClientOps, ClientRequest(op)
      PROVE  LockProtectsStop'
  <2>1. op \notin Holding
    BY OpsAssumption DEF AllClientOps
  <2> QED
    BY <1>2, <2>1 DEF ClientRequest
<1>3. ASSUME NEW e \in WifiEvents, DispatchWifi(e)
      PROVE  LockProtectsStop'
  <2>1. e \notin Holding
    BY OpsAssumption DEF AllWifiEvents
  <2> QED
    BY <1>3, <2>1 DEF DispatchWifi
<1>4. CASE DispatchStop
  BY <1>4 DEF DispatchStop
<1>5. CASE HandlerStep
  <2>1. \A e \in WifiEvents \cup {"STOP"} : e \notin Holding
    BY OpsAssumption DEF AllWifiEvents
  <2>2. CASE EventIgnored
    BY <2>1, <2>2 DEF EventIgnored, Acquire, Return
  <2>3. CASE StaConnecting
    BY <2>3 DEF StaConnecting, AcquireLive, Acquire
  <2>4. CASE GotIp
    BY <2>4 DEF GotIp, AcquireLive, Acquire, Panic
  <2>5. CASE StaFailed
    BY <2>5 DEF StaFailed, AcquireLive, Acquire
  <2>6. CASE AsyncBegin
    BY <2>6 DEF AsyncBegin, AcquireLive, Acquire, Panic
  <2>7. CASE AsyncStop
    BY <2>7 DEF AsyncStop, Panic
  <2>8. CASE AsyncEnd
    BY <2>8 DEF AsyncEnd
  <2> QED
    BY <1>5, <2>2, <2>3, <2>4, <2>5, <2>6, <2>7, <2>8 DEF HandlerStep
<1>6. CASE TimerStep
  BY <1>6 DEF TimerStep, AutostopExpires, ConnectExpires, CleanupExpires
<1>7. CASE Reboot
  BY <1>7 DEF Reboot
<1>8. CASE UNCHANGED vars
  BY <1>8 DEF vars
<1> QED
  BY <1>1, <1>2, <1>3, <1>4, <1>5, <1>6, <1>7, <1>8 DEF Next

\* Between the steps of wifi_prov_mgr_event_handler_internal for the STOP event
\* no other task holds the lock and prov_ctx stays valid, although an application
\* task may be anywhere in wifi_prov_mgr_deinit, which deletes both.
LEMMA StopIsProtected == Spec => []LockProtectsStop
<1>1. Init => LockProtectsStop
  BY ProcFacts, ProcsDistinct DEF Init, LockProtectsStop, Holding
<1>2. TypeOK /\ LockProtectsStop /\ [Next]_vars => LockProtectsStop'
  <2> SUFFICES ASSUME TypeOK, LockProtectsStop, [Next]_vars
               PROVE  LockProtectsStop'
    OBVIOUS
  <2>1. ASSUME NEW p \in Procs, Step(p)
        PROVE  LockProtectsStop'
    <3>1. pc'[EventLoop] \in Holding <=> pc[EventLoop] \in Holding
      BY <2>1, StepLock, ProcFacts
    <3>2. /\ lock' = lock \/ (lock = "free" /\ lock' = "null")
          /\ ctx' = ctx \/ lock = "free"
      BY <2>1, StepLock
    <3> QED
      BY <3>1, <3>2, ProcFacts, ProcsDistinct DEF LockProtectsStop
  <2> QED
    BY <2>1, OtherLock
<1> QED
  BY <1>1, <1>2, TypeCorrect, PTL DEF Spec

-----------------------------------------------------------------------------
(* A start is undisturbed. One task, the owner, starts and destroys the    *)
(* manager and sends it credentials, as esp_mesh_lite_wifi_prov_mgr_init   *)
(* and _deinit do in one task; any number of other tasks stop it, wait for *)
(* it and reset it, and the client sends whatever request it likes.        *)

OwnerOps == {"start", "deinit", "config", "reprov"}
OneOwner(o) ==
  /\ o \in Tasks
  /\ \A t \in Tasks \ {o} : AppOps[t] \cap OwnerOps = {}

\* Where only the owner can be, and where only the owner and the client can.
OwnerLabels == {"start", "svc_open", "svc_register", "startfin", "starterr",
                "deinit", "sync_begin", "sync_end", "deinitfin"}
ConfigLabels == {"config", "reprov", "custdata", "post_CUST_DATA", "custreacq"}

OnlyOwner(o) ==
  /\ \A p \in Procs \ {o} : pc[p] \notin OwnerLabels
  /\ \A p \in Procs \ {o, Client} : pc[p] \notin ConfigLabels
\* The start in progress, if there is one, is the owner's.
OwnerStarts(o) == StartingUp(o) => ctx = "live" /\ state = "STARTING"
\* A request is served only by a service that has started.
RequestNeedsService ==
  pc[Client] # "idle" => ctx = "live" /\ state \notin {"IDLE", "STARTING"}
\* When the owner gives up the service, it is off the air already and nobody is
\* served any more.
TakenDown(o) ==
  /\ pc[o] \in {"starterr", "deinitfin"} => pcomm # "up"
  /\ pc[o] = "deinitfin" => pc[Client] = "idle"
\* Nobody can move the state while the STOP handler holds the lock.
StopGoesOn == pc[EventLoop] = "async_stop" => Trying

ServiceInv(o) ==
  /\ OwnerStarts(o) /\ OnAirIsManaged /\ RequestNeedsService
  /\ TakenDown(o) /\ StopGoesOn
StartInv(o) == OnlyOwner(o) /\ ServiceInv(o)

\* Nobody but the owner gets to the labels of a start or a deinit.
LEMMA StepOnlyOwner ==
  ASSUME NEW o, OneOwner(o), TypeOK, OnlyOwner(o), NEW p \in Procs, Step(p)
  PROVE  OnlyOwner(o)'
<1> USE DEF OnlyOwner, OwnerLabels, ConfigLabels
<1>0. /\ pc \in [Procs -> Labels]
      /\ \A q \in Procs \ {p} : pc'[q] = pc[q]
  BY StepLock DEF TypeOK
<1>1. CASE p = o
  BY <1>0, <1>1
<1>2. CASE p # o
  <2> SUFFICES pc'[p] \notin OwnerLabels /\ (p # Client => pc'[p] \notin ConfigLabels)
    BY <1>0, <1>2
  <2>0. pc[p] \notin OwnerLabels /\ (p # Client => pc[p] \notin ConfigLabels)
    BY <1>2
  <2> USE <1>0, <2>0 DEF Goto, Acquire, AcquireLive
  <2>1. CASE AcquireDeleted(p)
    BY <2>1 DEF AcquireDeleted, Panic, Return
  <2>2. CASE UseFreedCtx(p)
    BY <2>2 DEF UseFreedCtx, Panic
  <2>3. CASE UseNullCtx(p)
    BY <2>3 DEF UseNullCtx, Panic
  <2>4. CASE ExecuteEventCb(p)
    BY <2>4 DEF ExecuteEventCb, Posting
  <2>5. CASE Reacquire(p)
    BY <2>5 DEF Reacquire
  <2>6. CASE InitManager(p)
    BY <2>6 DEF InitManager
  <2>7. CASE DisableAutoStop(p)
    BY <2>7 DEF DisableAutoStop
  <2>8. CASE Wait(p)
    BY <2>8 DEF Wait, Return
  <2>9. CASE StartRefused(p)
    BY <2>9 DEF StartRefused, Return
  <2>10. CASE StartBegin(p)
    BY <2>10 DEF StartBegin
  <2>11. CASE StartNoTimer(p)
    BY <2>11 DEF StartNoTimer
  <2>12. CASE ServiceOpen(p)
    BY <2>12 DEF ServiceOpen
  <2>13. CASE ServiceRegister(p)
    BY <2>13 DEF ServiceRegister
  <2>14. CASE ServiceFail(p)
    BY <2>14 DEF ServiceFail, Panic
  <2>15. CASE StartFinish(p)
    BY <2>15 DEF StartFinish
  <2>16. CASE StartError(p)
    BY <2>16 DEF StartError
  <2>17. CASE BadTimer(p)
    BY <2>17 DEF BadTimer, Panic
  <2>18. CASE StopRefused(p)
    BY <2>18 DEF StopRefused, Return
  <2>19. CASE StopAccept(p)
    BY <2>19 DEF StopAccept, StopService
  <2>20. CASE Done(p)
    BY <2>20 DEF Done
  <2>21. CASE GetStatus(p)
    BY <2>21 DEF GetStatus
  <2>22. CASE DeinitGone(p)
    BY <2>22 DEF DeinitGone
  <2>23. CASE DeinitIdle(p)
    BY <2>23 DEF DeinitIdle
  <2>24. CASE DeinitStop(p)
    BY <2>24 DEF DeinitStop, StopService
  <2>25. CASE SyncBegin(p)
    BY <2>25 DEF SyncBegin
  <2>26. CASE SyncEnd(p)
    BY <2>26 DEF SyncEnd, Panic
  <2>27. CASE DeinitFree(p)
    BY <2>27 DEF DeinitFree
  <2>28. CASE DeinitNotify(p)
    BY <2>28 DEF DeinitNotify
  <2>29. CASE DeleteLock(p)
    BY <2>29 DEF DeleteLock, Panic
  <2>30. CASE ConfigureMeshlite(p)
    BY <2>30 DEF ConfigureMeshlite
  <2>31. CASE ConfigureStaRefused(p)
    BY <2>31 DEF ConfigureStaRefused, Return
  <2>32. CASE ConfigureSta(p)
    BY <2>32 DEF ConfigureSta, Panic
  <2>33. CASE ResetOnFailure(p)
    BY <2>33 DEF ResetOnFailure
  <2>34. CASE ResetForReprovision(p)
    BY <2>34 DEF ResetForReprovision
  <2> QED
    BY <2>1, <2>2, <2>3, <2>4, <2>5, <2>6, <2>7, <2>8, <2>9, <2>10, <2>11, <2>12, <2>13, <2>14, <2>15, <2>16, <2>17, <2>18, <2>19, <2>20, <2>21, <2>22, <2>23, <2>24, <2>25, <2>26, <2>27, <2>28, <2>29, <2>30, <2>31, <2>32, <2>33, <2>34 DEF Step
<1> QED
  BY <1>1, <1>2

\* The steps of a task inside a call keep what is known of the service.
LEMMA StepService ==
  ASSUME NEW o, OneOwner(o), StopDrains, TypeOK, LockProtectsStop, StartInv(o),
         NEW p \in Procs, Step(p)
  PROVE  ServiceInv(o)'
<1>0. /\ pc \in [Procs -> Labels] /\ o \in Procs /\ o # Client /\ o # EventLoop
      /\ Client \in Procs /\ EventLoop \in Procs /\ Client # EventLoop
  BY ProcFacts, ProcsDistinct DEF TypeOK, OneOwner
<1>h. lock = "free" => pc[EventLoop] # "async_stop"
  BY <1>0, ProcsDistinct DEF LockProtectsStop, Holding
<1> USE <1>0, <1>h DEF StartInv, ServiceInv, OnlyOwner, OwnerLabels, ConfigLabels,
      OwnerStarts, OnAirIsManaged, RequestNeedsService, TakenDown, StopGoesOn,
      StartingUp, Trying, Goto, Acquire, AcquireLive, ctxVars, svcVars
<1>1. CASE AcquireDeleted(p)
  BY <1>1 DEF AcquireDeleted, Panic, Return
<1>2. CASE UseFreedCtx(p)
  BY <1>2 DEF UseFreedCtx, Panic
<1>3. CASE UseNullCtx(p)
  BY <1>3 DEF UseNullCtx, Panic
<1>4. CASE ExecuteEventCb(p)
  BY <1>4 DEF ExecuteEventCb, Posting
<1>5. CASE Reacquire(p)
  BY <1>5 DEF Reacquire
<1>6. CASE InitManager(p)
  BY <1>6 DEF InitManager
<1>7. CASE DisableAutoStop(p)
  BY <1>7 DEF DisableAutoStop
<1>8. CASE Wait(p)
  BY <1>8 DEF Wait, Return
<1>9. CASE StartRefused(p)
  BY <1>9 DEF StartRefused, Return
<1>10. CASE StartBegin(p)
  BY <1>10 DEF StartBegin
<1>11. CASE StartNoTimer(p)
  BY <1>11 DEF StartNoTimer
<1>12. CASE ServiceOpen(p)
  BY <1>12 DEF ServiceOpen
<1>13. CASE ServiceRegister(p)
  BY <1>13 DEF ServiceRegister
<1>14. CASE ServiceFail(p)
  BY <1>14 DEF ServiceFail, Panic, TransportIdle
<1>15. CASE StartFinish(p)
  BY <1>15 DEF StartFinish
<1>16. CASE StartError(p)
  BY <1>16 DEF StartError
<1>17. CASE BadTimer(p)
  BY <1>17 DEF BadTimer, Panic, Running
<1>18. CASE StopRefused(p)
  BY <1>18 DEF StopRefused, Return
<1>19. CASE StopAccept(p)
  BY <1>19 DEF StopAccept, StopService, Running
<1>20. CASE Done(p)
  BY <1>20 DEF Done
<1>21. CASE GetStatus(p)
  BY <1>21 DEF GetStatus
<1>22. CASE DeinitGone(p)
  BY <1>22 DEF DeinitGone
<1>23. CASE DeinitIdle(p)
  BY <1>23 DEF DeinitIdle
<1>24. CASE DeinitStop(p)
  BY <1>24 DEF DeinitStop, StopService, Running
<1>25. CASE SyncBegin(p)
  BY <1>25 DEF SyncBegin
<1>26. CASE SyncEnd(p)
  BY <1>26 DEF SyncEnd, Panic, TransportIdle
<1>27. CASE DeinitFree(p)
  BY <1>27 DEF DeinitFree
<1>28. CASE DeinitNotify(p)
  BY <1>28 DEF DeinitNotify
<1>29. CASE DeleteLock(p)
  BY <1>29 DEF DeleteLock, Panic
<1>30. CASE ConfigureMeshlite(p)
  BY <1>30 DEF ConfigureMeshlite
<1>31. CASE ConfigureStaRefused(p)
  BY <1>31 DEF ConfigureStaRefused, Return
<1>32. CASE ConfigureSta(p)
  BY <1>32 DEF ConfigureSta, Panic
<1>33. CASE ResetOnFailure(p)
  BY <1>33 DEF ResetOnFailure
<1>34. CASE ResetForReprovision(p)
  BY <1>34 DEF ResetForReprovision
<1> QED
  BY <1>1, <1>2, <1>3, <1>4, <1>5, <1>6, <1>7, <1>8, <1>9, <1>10, <1>11, <1>12, <1>13, <1>14, <1>15, <1>16, <1>17, <1>18, <1>19, <1>20, <1>21, <1>22, <1>23, <1>24, <1>25, <1>26, <1>27, <1>28, <1>29, <1>30, <1>31, <1>32, <1>33, <1>34 DEF Step

\* The steps that begin a call or belong to one task respect the owner.
LEMMA OtherOnlyOwner ==
  ASSUME NEW o, OneOwner(o), TypeOK, OnlyOwner(o), [Next]_vars,
         \A p \in Procs : ~Step(p)
  PROVE  OnlyOwner(o)'
<1>0. pc \in [Procs -> Labels] /\ o \in Procs /\ o \in Tasks
  BY ProcFacts DEF TypeOK, OneOwner
<1> USE <1>0, ProcFacts, ProcsDistinct DEF OnlyOwner, OwnerLabels, ConfigLabels, Goto
<1>1. ASSUME NEW t \in Tasks, NEW op \in AppOps[t], Call(t, op)
      PROVE  OnlyOwner(o)'
  <2>1. t # o => op \notin OwnerLabels \cup ConfigLabels
    BY OpsAssumption DEF OneOwner, OwnerOps, AllAppOps
  <2> QED
    BY <1>1, <2>1 DEF Call
<1>2. ASSUME NEW op \in ClientOps, ClientRequest(op)
      PROVE  OnlyOwner(o)'
  <2>1. op \notin OwnerLabels
    BY OpsAssumption DEF AllClientOps
  <2> QED
    BY <1>2, <2>1 DEF ClientRequest
<1>3. ASSUME NEW e \in WifiEvents, DispatchWifi(e)
      PROVE  OnlyOwner(o)'
  <2>1. e \notin OwnerLabels \cup ConfigLabels
    BY OpsAssumption DEF AllWifiEvents
  <2> QED
    BY <1>3, <2>1 DEF DispatchWifi
<1>4. CASE DispatchStop
  BY <1>4 DEF DispatchStop
<1>5. CASE HandlerStep
  BY <1>5 DEF HandlerStep, EventIgnored, Return, StaConnecting, GotIp, StaFailed,
              AsyncBegin, AsyncStop, AsyncEnd, Panic
<1>6. CASE TimerStep
  BY <1>6 DEF TimerStep, AutostopExpires, ConnectExpires, CleanupExpires
<1>7. CASE Reboot
  BY <1>7 DEF Reboot
<1>8. CASE UNCHANGED vars
  BY <1>8 DEF vars
<1> QED
  BY <1>1, <1>2, <1>3, <1>4, <1>5, <1>6, <1>7, <1>8 DEF Next

\* And they keep what is known of the service.
LEMMA OtherService ==
  ASSUME NEW o, OneOwner(o), StopDrains, ~EarlyClient, TypeOK, LockProtectsStop,
         StartInv(o), [Next]_vars, \A p \in Procs : ~Step(p)
  PROVE  ServiceInv(o)'
<1>0. /\ pc \in [Procs -> Labels] /\ o \in Procs /\ o # Client /\ o # EventLoop
      /\ o # TimerTask
  BY ProcFacts, ProcsDistinct DEF TypeOK, OneOwner
<1> USE <1>0, ProcFacts, ProcsDistinct
    DEF StartInv, ServiceInv, OnlyOwner, OwnerLabels, ConfigLabels, OwnerStarts,
        OnAirIsManaged, RequestNeedsService, TakenDown, StopGoesOn, StartingUp,
        Trying, Goto, ctxVars, svcVars
<1>1. ASSUME NEW t \in Tasks, NEW op \in AppOps[t], Call(t, op)
      PROVE  ServiceInv(o)'
  <2>1. op \notin {"svc_open", "svc_register", "startfin", "starterr", "deinitfin"}
    BY OpsAssumption DEF AllAppOps
  <2> QED
    BY <1>1, <2>1 DEF Call
<1>2. ASSUME NEW op \in ClientOps, ClientRequest(op)
      PROVE  ServiceInv(o)'
  BY <1>2 DEF ClientRequest
<1>3. ASSUME NEW e \in WifiEvents, DispatchWifi(e)
      PROVE  ServiceInv(o)'
  <2>1. e # "async_stop"
    BY OpsAssumption DEF AllWifiEvents
  <2> QED
    BY <1>3, <2>1 DEF DispatchWifi
<1>4. CASE DispatchStop
  BY <1>4 DEF DispatchStop
<1>5. CASE HandlerStep
  <2>1. CASE EventIgnored
    BY <2>1 DEF EventIgnored, Return
  <2>2. CASE StaConnecting
    BY <2>2 DEF StaConnecting
  <2>3. CASE GotIp
    BY <2>3 DEF GotIp, Panic, AcquireLive
  <2>4. CASE StaFailed
    BY <2>4 DEF StaFailed, AcquireLive
  <2>5. CASE AsyncBegin
    BY <2>5 DEF AsyncBegin, Panic
  <2>6. CASE AsyncStop
    BY <2>6 DEF AsyncStop, Panic, TransportIdle
  <2>7. CASE AsyncEnd
    BY <2>7 DEF AsyncEnd
  <2> QED
    BY <1>5, <2>1, <2>2, <2>3, <2>4, <2>5, <2>6, <2>7 DEF HandlerStep
<1>6. CASE TimerStep
  BY <1>6 DEF TimerStep, AutostopExpires, ConnectExpires, CleanupExpires
<1>7. CASE Reboot
  BY <1>7 DEF Reboot
<1>8. CASE UNCHANGED vars
  BY <1>8 DEF vars
<1> QED
  BY <1>1, <1>2, <1>3, <1>4, <1>5, <1>6, <1>7, <1>8 DEF Next

\* The inductive invariant behind the two theorems that follow.
LEMMA StartInvHolds ==
  ASSUME NEW CONSTANT o, OneOwner(o), StopDrains, ~EarlyClient
  PROVE  Spec => []StartInv(o)
<1>1. Init => StartInv(o)
  BY ProcFacts, ProcsDistinct
     DEF Init, StartInv, ServiceInv, OnlyOwner, OwnerLabels, ConfigLabels,
         OwnerStarts, OnAirIsManaged, RequestNeedsService, TakenDown, StopGoesOn,
         StartingUp, OneOwner
<1>2. TypeOK /\ LockProtectsStop /\ StartInv(o) /\ [Next]_vars => StartInv(o)'
  <2> SUFFICES ASSUME TypeOK, LockProtectsStop, StartInv(o), [Next]_vars
               PROVE  StartInv(o)'
    OBVIOUS
  <2>1. OnlyOwner(o)'
    BY StepOnlyOwner, OtherOnlyOwner DEF StartInv
  <2>2. ServiceInv(o)'
    BY StepService, OtherService
  <2> QED
    BY <2>1, <2>2 DEF StartInv
<1> QED
  BY <1>1, <1>2, TypeCorrect, StopIsProtected, PTL DEF Spec

\* While the manager starts its service without holding the lock, its context
\* stays valid and its state stays STARTING, whatever stops, waits, resets,
\* requests, events and timers come in between: provided that one task does all
\* the starting and destroying, that the transport serves no request before the
\* start is complete, and that stopping it waits for the request being served.
THEOREM StartIsUndisturbed ==
  ASSUME NEW CONSTANT o, OneOwner(o), StopDrains, ~EarlyClient
  PROVE  Spec => []StartUndisturbed
<1>1. StartInv(o) => StartUndisturbed
  BY DEF StartInv, ServiceInv, OnlyOwner, OwnerLabels, OwnerStarts,
         StartUndisturbed, StartingUp
<1> QED
  BY <1>1, StartInvHolds, PTL

\* Under the same assumptions no client reaches the endpoints of a service whose
\* manager is gone or believes that it is idle, or beside a transport that a
\* failed start has left up; also with events that come late and resets for a new
\* provisioning.
THEOREM OnAirOnlyIfManaged ==
  ASSUME NEW CONSTANT o, OneOwner(o), StopDrains, ~EarlyClient
  PROVE  Spec => []OnAirIsManaged
<1>1. StartInv(o) => OnAirIsManaged
  BY DEF StartInv, ServiceInv
<1> QED
  BY <1>1, StartInvHolds, PTL

-----------------------------------------------------------------------------
(* The life of a service. Beside the assumptions above: no task and no     *)
(* client sets the state back for a new provisioning, which would declare  *)
(* a service started that is not there, and no Wi-Fi event is left over    *)
(* that would set the state while the service is being stopped.            *)

NoReprovision == "reprov" \notin ClientOps /\ \A t \in Tasks : "reprov" \notin AppOps[t]
Regular(o) ==
  OneOwner(o) /\ StopDrains /\ ~EarlyClient /\ ~LateEvent /\ NoReprovision

Syncing(o) == pc[o] \in {"sync_begin", "sync_end", "deinitfin"}
Ending == {"deinit_END", "deinit_DEINIT", "delete_lock"}
Stopping == pc[EventLoop] \in {"STOP", "async_stop"}

\* Only the owner is at the end of a deinit, only the event loop in the handler
\* of the STOP event; nobody resets for a new provisioning, and only the Wi-Fi
\* events that occur are handled.
Places(o) ==
  /\ \A p \in Procs \ {o} : pc[p] \notin Ending
  /\ \A p \in Procs \ {EventLoop} : pc[p] # "async_stop"
  /\ \A p \in Procs : pc[p] # "reprov"
  /\ pc[EventLoop] \in AllWifiEvents => pc[EventLoop] \in WifiEvents

\* The state follows the owner; the manager and its lock are there whenever the
\* state is not IDLE.
StateFollows(o) ==
  /\ ctx # "live" => state = "IDLE"
  /\ state = "STARTING" => StartingUp(o)
  /\ Syncing(o) => state = "STOPPING"
  /\ pc[o] \in Ending => state = "IDLE"
  /\ state # "IDLE" => lock # "null"

\* What there is of a service, for each state of it.
ServiceFollows(o) ==
  /\ pcomm = "up" <=> \/ Running \/ pc[o] \in {"svc_register", "startfin"}
                      \/ state = "STOPPING" /\ pc[o] # "deinitfin"
  /\ wifiH <=> Running \/ pc[o] = "startfin"
  /\ pvtH <=> \/ Running \/ pc[o] = "startfin"
              \/ /\ state = "STOPPING" /\ pc[o] \notin {"sync_end", "deinitfin"}
                 /\ pc[EventLoop] # "async_stop"
  /\ pc[EventLoop] \in WifiEvents => Running \/ pc[o] = "startfin"

\* The timers, for each state of it.
TimersFollow(o) ==
  /\ "armed" \in {autostop, connect} => Running
  /\ state = "IDLE" \/ pc[o] = "starterr" => connect # "idle"
  /\ state = "STOPPING" => autostop = "null" /\ connect = "null"
  /\ Running \/ pc[o] \in {"svc_open", "svc_register", "startfin"} => cleanup = "idle"

\* A stop that is asked for is under way once: with the timer, in the event
\* queue, or in the handler; and no stop is when none is asked for, or when the
\* owner destroys the manager.
OneStop(o) ==
  /\ state # "STOPPING" \/ Syncing(o) => cleanup # "armed" /\ stopq = 0 /\ ~Stopping
  /\ cleanup = "armed" => stopq = 0 /\ ~Stopping
  /\ stopq # 0 => stopq = 1 /\ ~Stopping

\* It does not get lost, unless posting the event can fail.
StopUnderWay(o) ==
  ~PostMayFail /\ state = "STOPPING" /\ ~Syncing(o) =>
    cleanup = "armed" \/ stopq = 1 \/ Stopping

\* The inductive invariant, beside StartInv.
LifeInv(o) ==
  /\ Places(o) /\ StateFollows(o) /\ ServiceFollows(o) /\ TimersFollow(o)
  /\ OneStop(o) /\ StopUnderWay(o)

\* The labels the invariant is about.
TellingLabels ==
  OwnerLabels \cup Ending \cup {"STOP", "async_stop", "reprov"} \cup AllWifiEvents

\* A step from and to other labels that only moves its task keeps it.
LEMMA QuietStep ==
  ASSUME NEW o, LifeInv(o), NEW p \in Procs,
         pc \in [Procs -> Labels], o \in Procs,
         \A q \in Procs \ {p} : pc'[q] = pc[q],
         UNCHANGED <<lock, ctx, state, svcVars, timers, stopq>>,
         pc[p] \notin TellingLabels, pc'[p] \notin TellingLabels
  PROVE  LifeInv(o)'
<1> USE ProcFacts, OpsAssumption DEF TellingLabels, AllWifiEvents, ctxVars, svcVars, timers
<1>0. /\ \A l \in TellingLabels : pc'[o] = l <=> pc[o] = l
      /\ \A l \in TellingLabels : pc'[EventLoop] = l <=> pc[EventLoop] = l
      /\ pc'[EventLoop] \in WifiEvents <=> pc[EventLoop] \in WifiEvents
  OBVIOUS
<1>1. Places(o)'
  BY <1>0 DEF LifeInv, Places, Ending
<1>2. StateFollows(o)'
  BY <1>0 DEF LifeInv, StateFollows, StartingUp, Syncing, Ending, OwnerLabels
<1>3. ServiceFollows(o)'
  BY <1>0 DEF LifeInv, ServiceFollows, Running, OwnerLabels
<1>4. TimersFollow(o)'
  BY <1>0 DEF LifeInv, TimersFollow, Running, OwnerLabels
<1>5. OneStop(o)'
  BY <1>0 DEF LifeInv, OneStop, Syncing, Stopping, OwnerLabels
<1>6. StopUnderWay(o)'
  BY <1>0 DEF LifeInv, StopUnderWay, Syncing, Stopping, OwnerLabels
<1> QED
  BY <1>1, <1>2, <1>3, <1>4, <1>5, <1>6 DEF LifeInv

\* The steps of a task inside a call keep the invariant.
LEMMA StepLife ==
  ASSUME NEW o, Regular(o), TypeOK, LockProtectsStop, StartInv(o), LifeInv(o),
         NEW p \in Procs, Step(p)
  PROVE  LifeInv(o)'
<1>0. /\ pc \in [Procs -> Labels] /\ o \in Procs /\ o \in Tasks
      /\ o # Client /\ o # EventLoop /\ o # TimerTask
      /\ Client # EventLoop /\ ctx \in {"null", "live", "freed"}
      /\ \A q \in Procs \ {p} : pc'[q] = pc[q]
      /\ WifiEvents \subseteq AllWifiEvents
      /\ \A l \in {"idle", "post_INIT"} : l \notin AllWifiEvents
  BY StepLock, ProcFacts, ProcsDistinct, OpsAssumption
     DEF TypeOK, DataTypeOK, Regular, OneOwner, AllWifiEvents
<1>h. lock = "free" => pc[EventLoop] # "async_stop"
  BY ProcFacts, ProcsDistinct DEF LockProtectsStop, Holding
<1> USE <1>0, <1>h, ProcFacts
    DEF Regular, StartInv, ServiceInv, OnlyOwner, OwnerLabels, ConfigLabels,
        OwnerStarts, OnAirIsManaged, RequestNeedsService, TakenDown, StopGoesOn,
        StartingUp, Syncing, Ending, Stopping, Running, LifeInv, Places, StateFollows,
        ServiceFollows, TimersFollow, OneStop, StopUnderWay,
        Goto, Acquire, AcquireLive, ctxVars, svcVars, timers
<1>1. CASE AcquireDeleted(p)
  <2>1. CASE Panic("lock_deleted")
    BY <2>1 DEF Panic
  <2>2. CASE pc[p] \in {"done", "stop", "config"} /\ Return(p)
    <3>1. /\ UNCHANGED <<lock, ctx, state, svcVars, timers, stopq>>
          /\ pc[p] \notin TellingLabels /\ pc'[p] \notin TellingLabels
      BY <2>2 DEF Return, TellingLabels, AllWifiEvents
    <3> QED
      BY <3>1, QuietStep
  <2> QED
    BY <1>1, <2>1, <2>2 DEF AcquireDeleted
<1>2. CASE UseFreedCtx(p)
  BY <1>2 DEF UseFreedCtx, Panic
<1>3. CASE UseNullCtx(p)
  BY <1>3 DEF UseNullCtx, Panic
<1>4. CASE ExecuteEventCb(p)
  <2>1. /\ UNCHANGED <<lock, ctx, state, svcVars, timers, stopq>>
        /\ pc[p] \notin TellingLabels /\ pc'[p] \notin TellingLabels
    BY <1>4 DEF ExecuteEventCb, Posting, TellingLabels, AllWifiEvents
  <2> QED
    BY <2>1, QuietStep
<1>5. CASE Reacquire(p)
  <2>1. /\ UNCHANGED <<lock, ctx, state, svcVars, timers, stopq>>
        /\ pc[p] \notin TellingLabels /\ pc'[p] \notin TellingLabels
    BY <1>5 DEF Reacquire, TellingLabels, AllWifiEvents
  <2> QED
    BY <2>1, QuietStep
<1>6. CASE InitManager(p)
  <2>1. CASE UNCHANGED <<ctxVars, svcVars, timers>> /\ pc'[p] = "idle"
    <3>1. /\ UNCHANGED <<lock, ctx, state, svcVars, timers, stopq>>
          /\ pc[p] \notin TellingLabels /\ pc'[p] \notin TellingLabels
      BY <1>6, <2>1 DEF InitManager, TellingLabels, AllWifiEvents, ctxVars
    <3> QED
      BY <3>1, QuietStep
  <2>2. CASE ~(UNCHANGED <<ctxVars, svcVars, timers>> /\ pc'[p] = "idle")
    <3>1. /\ ctx = "null" /\ state = "IDLE" /\ state' = "IDLE"
          /\ pcomm' = "null" /\ autostop' = "null"
          /\ connect' = "null" /\ cleanup' = "null"
          /\ UNCHANGED <<lock, wifiH, pvtH, stopq>>
          /\ pc[p] = "init" /\ pc'[p] \in {"post_INIT", "idle"}
      BY <1>6, <2>2 DEF InitManager
    <3>2. pc[EventLoop] \notin WifiEvents
      BY <3>1
    <3>3. /\ pc[o] \notin OwnerLabels \ {"start", "deinit"}
          /\ pc'[o] \notin OwnerLabels \ {"start", "deinit"}
      BY <2>2, <3>1
    <3>4. Places(o)'
      BY <3>1, <3>2, <3>3 DEF Places
    <3>5. StateFollows(o)'
      BY <3>1, <3>2, <3>3 DEF StateFollows
    <3>6. ServiceFollows(o)'
      BY <3>1, <3>2, <3>3 DEF ServiceFollows
    <3>7. TimersFollow(o)'
      BY <3>1, <3>2, <3>3 DEF TimersFollow
    <3>8. OneStop(o)'
      BY <3>1, <3>2, <3>3 DEF OneStop
    <3>9. StopUnderWay(o)'
      BY <3>1, <3>2, <3>3 DEF StopUnderWay
    <3> QED
      BY <3>4, <3>5, <3>6, <3>7, <3>8, <3>9
  <2> QED
    BY <2>1, <2>2
<1>7. CASE DisableAutoStop(p)
  <2>1. /\ UNCHANGED <<lock, ctx, state, svcVars, timers, stopq>>
        /\ pc[p] \notin TellingLabels /\ pc'[p] \notin TellingLabels
    BY <1>7 DEF DisableAutoStop, TellingLabels, AllWifiEvents
  <2> QED
    BY <2>1, QuietStep
<1>8. CASE Wait(p)
  <2>1. /\ UNCHANGED <<lock, ctx, state, svcVars, timers, stopq>>
        /\ pc[p] \notin TellingLabels /\ pc'[p] \notin TellingLabels
    BY <1>8 DEF Wait, Return, TellingLabels, AllWifiEvents
  <2> QED
    BY <2>1, QuietStep
<1>9. CASE StartRefused(p)
  BY <1>9 DEF StartRefused, Return
<1>10. CASE StartBegin(p)
  BY <1>10 DEF StartBegin
<1>11. CASE StartNoTimer(p)
  BY <1>11 DEF StartNoTimer
<1>12. CASE ServiceOpen(p)
  BY <1>12 DEF ServiceOpen
<1>13. CASE ServiceRegister(p)
  BY <1>13 DEF ServiceRegister
<1>14. CASE ServiceFail(p)
  BY <1>14 DEF ServiceFail, Panic, TransportIdle
<1>15. CASE StartFinish(p)
  BY <1>15 DEF StartFinish
<1>16. CASE StartError(p)
  BY <1>16 DEF StartError
<1>17. CASE BadTimer(p)
  BY <1>17 DEF BadTimer, Panic, Running
<1>18. CASE StopRefused(p)
  <2>1. /\ UNCHANGED <<lock, ctx, state, svcVars, timers, stopq>>
        /\ pc[p] \notin TellingLabels /\ pc'[p] \notin TellingLabels
    BY <1>18 DEF StopRefused, Return, TellingLabels, AllWifiEvents
  <2> QED
    BY <2>1, QuietStep
<1>19. CASE StopAccept(p)
  <2>1. /\ ctx = "live" /\ Running /\ lock = "free" /\ pc[p] = "stop"
        /\ state' = "STOPPING" /\ ~wifiH' /\ autostop' = "null" /\ connect' = "null"
        /\ pc'[p] = "idle" /\ UNCHANGED <<lock, ctx, pcomm, pvtH, stopq>>
        /\ pc[EventLoop] \notin WifiEvents
    BY <1>19 DEF StopAccept, StopService
  <2>2. cleanup' = "armed"
    BY <1>19 DEF StopAccept, StartOnce
  <2>3. ~Syncing(o) /\ pc[o] \notin Ending /\ ~StartingUp(o)
    BY <2>1
  <2>4. Places(o)'
    BY <2>1, <2>2, <2>3 DEF Places
  <2>5. StateFollows(o)'
    BY <2>1, <2>2, <2>3 DEF StateFollows
  <2>6. ServiceFollows(o)'
    BY <2>1, <2>2, <2>3 DEF ServiceFollows
  <2>7. TimersFollow(o)'
    BY <2>1, <2>2, <2>3 DEF TimersFollow
  <2>8. OneStop(o)'
    BY <2>1, <2>2, <2>3 DEF OneStop
  <2>9. StopUnderWay(o)'
    BY <2>1, <2>2, <2>3 DEF StopUnderWay
  <2> QED
    BY <2>4, <2>5, <2>6, <2>7, <2>8, <2>9
<1>20. CASE Done(p)
  <2>1. /\ UNCHANGED <<lock, ctx, state, svcVars, timers, stopq>>
        /\ pc[p] \notin TellingLabels /\ pc'[p] \notin TellingLabels
    BY <1>20 DEF Done, TellingLabels, AllWifiEvents
  <2> QED
    BY <2>1, QuietStep
<1>21. CASE GetStatus(p)
  <2>1. /\ UNCHANGED <<lock, ctx, state, svcVars, timers, stopq>>
        /\ pc[p] \notin TellingLabels /\ pc'[p] \notin TellingLabels
    BY <1>21 DEF GetStatus, TellingLabels, AllWifiEvents
  <2> QED
    BY <2>1, QuietStep
<1>22. CASE DeinitGone(p)
  BY <1>22 DEF DeinitGone
<1>23. CASE DeinitIdle(p)
  BY <1>23 DEF DeinitIdle
<1>24. CASE DeinitStop(p)
  BY <1>24 DEF DeinitStop, StopService, Running
<1>25. CASE SyncBegin(p)
  BY <1>25 DEF SyncBegin
<1>26. CASE SyncEnd(p)
  BY <1>26 DEF SyncEnd, Panic, TransportIdle
<1>27. CASE DeinitFree(p)
  BY <1>27 DEF DeinitFree
<1>28. CASE DeinitNotify(p)
  BY <1>28 DEF DeinitNotify
<1>29. CASE DeleteLock(p)
  BY <1>29 DEF DeleteLock, Panic
<1>30. CASE ConfigureMeshlite(p)
  BY <1>30 DEF ConfigureMeshlite
<1>31. CASE ConfigureStaRefused(p)
  BY <1>31 DEF ConfigureStaRefused, Return
<1>32. CASE ConfigureSta(p)
  BY <1>32 DEF ConfigureSta, Panic
<1>33. CASE ResetOnFailure(p)
  <2>1. CASE state' = state
    <3>1. /\ UNCHANGED <<lock, ctx, state, svcVars, timers, stopq>>
          /\ pc[p] \notin TellingLabels /\ pc'[p] \notin TellingLabels
      BY <1>33, <2>1 DEF ResetOnFailure, TellingLabels, AllWifiEvents
    <3> QED
      BY <3>1, QuietStep
  <2>2. CASE state = "FAIL" /\ state' = "STARTED"
    BY <1>33, <2>2 DEF ResetOnFailure
  <2> QED
    BY <1>33, <2>1, <2>2 DEF ResetOnFailure
<1>34. CASE ResetForReprovision(p)
  BY <1>34 DEF ResetForReprovision
<1> QED
  BY <1>1, <1>2, <1>3, <1>4, <1>5, <1>6, <1>7, <1>8, <1>9, <1>10, <1>11, <1>12, <1>13,
     <1>14, <1>15, <1>16, <1>17, <1>18, <1>19, <1>20, <1>21, <1>22, <1>23, <1>24, <1>25,
     <1>26, <1>27, <1>28, <1>29, <1>30, <1>31, <1>32, <1>33, <1>34 DEF Step

\* The steps that begin a call or belong to one task keep it as well.
LEMMA OtherLife ==
  ASSUME NEW o, Regular(o), TypeOK, LockProtectsStop, StartInv(o), LifeInv(o),
         [Next]_vars, \A p \in Procs : ~Step(p)
  PROVE  LifeInv(o)'
<1>0. /\ pc \in [Procs -> Labels] /\ o \in Procs /\ o \in Tasks
      /\ o # Client /\ o # EventLoop /\ o # TimerTask /\ stopq \in 0..QueueLen
      /\ Client # EventLoop /\ EventLoop # TimerTask /\ ctx \in {"null", "live", "freed"}
      /\ WifiEvents \subseteq AllWifiEvents
      /\ \A l \in {"idle", "STOP", "async_stop", "async_END"} : l \notin AllWifiEvents
  BY ProcFacts, ProcsDistinct, OpsAssumption
     DEF TypeOK, DataTypeOK, Regular, OneOwner, AllWifiEvents
<1>h. lock = "free" => pc[EventLoop] # "async_stop"
  BY ProcFacts, ProcsDistinct DEF LockProtectsStop, Holding
<1> USE <1>0, <1>h, ProcFacts
    DEF Regular, StartInv, ServiceInv, OnlyOwner, OwnerLabels, ConfigLabels,
        OwnerStarts, OnAirIsManaged, RequestNeedsService, TakenDown, StopGoesOn,
        StartingUp, Syncing, Ending, Stopping, Running, LifeInv, Places, StateFollows,
        ServiceFollows, TimersFollow, OneStop, StopUnderWay,
        Goto, Acquire, AcquireLive, ctxVars, svcVars, timers
<1>1. ASSUME NEW t \in Tasks, NEW op \in AppOps[t], Call(t, op)
      PROVE  LifeInv(o)'
  <2>1. /\ op \notin {"svc_open", "svc_register", "startfin", "starterr", "sync_begin",
                     "sync_end", "deinitfin", "async_stop"} \cup Ending
        /\ op # "reprov" /\ op \notin WifiEvents
    BY <1>1, OpsAssumption DEF AllAppOps, NoReprovision, AllWifiEvents
  <2>2. t # EventLoop /\ t # Client
    BY ProcsDistinct
  <2> QED
    BY <1>1, <2>1, <2>2 DEF Call
<1>2. ASSUME NEW op \in ClientOps, ClientRequest(op)
      PROVE  LifeInv(o)'
  <2>1. op \notin Ending /\ op # "async_stop" /\ op # "reprov"
    BY <1>2, OpsAssumption DEF AllClientOps, NoReprovision
  <2> QED
    BY <1>2, <2>1 DEF ClientRequest
<1>3. ASSUME NEW e \in WifiEvents, DispatchWifi(e)
      PROVE  LifeInv(o)'
  <2>1. e \notin Ending /\ e \notin {"STOP", "async_stop", "reprov"}
    BY <1>3, OpsAssumption DEF AllWifiEvents
  <2> QED
    BY <1>3, <2>1 DEF DispatchWifi
<1>4. CASE DispatchStop
  BY <1>4 DEF DispatchStop
<1>5. CASE HandlerStep
  <2>1. CASE EventIgnored
    <3>1. /\ pc[EventLoop] # "STOP" /\ pc[EventLoop] \in AllWifiEvents
          /\ pc'[EventLoop] = "idle"
          /\ UNCHANGED <<lock, ctx, state, svcVars, timers, stopq>>
          /\ \A q \in Procs \ {EventLoop} : pc'[q] = pc[q]
      BY <2>1 DEF EventIgnored, Return, Trying
    <3> QED
      BY <3>1
  <2>2. CASE StaConnecting
    BY <2>2 DEF StaConnecting
  <2>3. CASE GotIp
    <3>1. CASE Panic("freed_timer")
      BY <3>1 DEF Panic
    <3>2. CASE ~Panic("freed_timer")
      <4>1. /\ pc[EventLoop] = "GOT_IP" /\ pc'[EventLoop] = "post_CRED_SUCCESS" /\ Trying
            /\ state' = "SUCCESS" /\ autostop' \in {autostop, StartOnce(autostop)}
            /\ UNCHANGED <<lock, ctx, svcVars, connect, cleanup, stopq>>
            /\ \A q \in Procs \ {EventLoop} : pc'[q] = pc[q]
        BY <2>3, <3>2 DEF GotIp
      <4>2. Running /\ "post_CRED_SUCCESS" \notin AllWifiEvents
        BY <4>1 DEF AllWifiEvents, Trying
      <4>3. ~StartingUp(o) /\ ~Syncing(o) /\ pc[o] \notin Ending
        BY <4>2
      <4> QED
        BY <4>1, <4>2, <4>3
    <3> QED
      BY <2>3, <3>1, <3>2 DEF GotIp
  <2>4. CASE StaFailed
    <3>1. /\ pc[EventLoop] = "DISC_AUTH" /\ pc'[EventLoop] = "post_CRED_FAIL" /\ Trying
          /\ state' = "FAIL" /\ UNCHANGED <<lock, ctx, svcVars, timers, stopq>>
          /\ \A q \in Procs \ {EventLoop} : pc'[q] = pc[q]
      BY <2>4 DEF StaFailed
    <3>2. Running /\ "post_CRED_FAIL" \notin AllWifiEvents
      BY <3>1 DEF AllWifiEvents, Trying
    <3>3. ~StartingUp(o) /\ ~Syncing(o) /\ pc[o] \notin Ending
      BY <3>2
    <3> QED
      BY <3>1, <3>2, <3>3
  <2>5. CASE AsyncBegin
    <3>1. CASE Panic("freed_timer")
      BY <3>1 DEF Panic
    <3>2. CASE ~Panic("freed_timer")
      <4>1. /\ pc[EventLoop] = "STOP" /\ pc'[EventLoop] = "async_stop"
            /\ ctx = "live" /\ lock' = EventLoop /\ ~pvtH' /\ cleanup' = "null"
            /\ UNCHANGED <<ctx, state, pcomm, wifiH, autostop, connect, stopq>>
            /\ \A q \in Procs \ {EventLoop} : pc'[q] = pc[q]
        BY <2>5, <3>2 DEF AsyncBegin
      <4>2. /\ state = "STOPPING" /\ ~Syncing(o) /\ ~StartingUp(o) /\ pc[o] \notin Ending
            /\ EventLoop # "null" /\ "async_stop" \notin AllWifiEvents
        BY <4>1, ProcsDistinct DEF AllWifiEvents
      <4> QED
        BY <4>1, <4>2
    <3> QED
      BY <2>5, <3>1, <3>2 DEF AsyncBegin
  <2>6. CASE AsyncStop
    BY <2>6 DEF AsyncStop, Panic, TransportIdle
  <2>7. CASE AsyncEnd
    BY <2>7 DEF AsyncEnd
  <2> QED
    BY <1>5, <2>1, <2>2, <2>3, <2>4, <2>5, <2>6, <2>7 DEF HandlerStep
<1>6. CASE TimerStep
  BY <1>6 DEF TimerStep, AutostopExpires, ConnectExpires, CleanupExpires
<1>7. CASE Reboot
  BY <1>7 DEF Reboot
<1>8. CASE UNCHANGED vars
  BY <1>8 DEF vars
<1> QED
  BY <1>1, <1>2, <1>3, <1>4, <1>5, <1>6, <1>7, <1>8 DEF Next

\* The inductive invariant behind the theorems that follow.
LEMMA LifeInvHolds ==
  ASSUME NEW CONSTANT o, Regular(o)
  PROVE  Spec => []LifeInv(o)
<1>1. Init => LifeInv(o)
  <2> SUFFICES ASSUME Init PROVE LifeInv(o)
    OBVIOUS
  <2>1. /\ pc[o] = "idle" /\ pc[EventLoop] = "idle" /\ \A p \in Procs : pc[p] = "idle"
        /\ WifiEvents \subseteq AllWifiEvents /\ "idle" \notin AllWifiEvents
    BY ProcFacts, OpsAssumption DEF Init, Regular, OneOwner, AllWifiEvents
  <2> QED
    BY <2>1, ProcFacts
       DEF Init, LifeInv, Places, StateFollows, ServiceFollows, TimersFollow, OneStop,
           StopUnderWay, Syncing, Ending, Stopping, Running, StartingUp
<1>2. TypeOK /\ LockProtectsStop /\ StartInv(o) /\ LifeInv(o) /\ [Next]_vars => LifeInv(o)'
  BY StepLife, OtherLife
<1>3. Spec => []StartInv(o)
  BY StartInvHolds DEF Regular
<1> QED
  BY <1>1, <1>2, <1>3, TypeCorrect, StopIsProtected, PTL DEF Spec

\* Whenever the manager is idle or gone nothing of a service is left: it is off
\* the air, no event handler is registered and no timer armed. This needs the
\* assumptions: a second owner, a request served during the start, or a Wi-Fi
\* event handled after the stop began would leave something behind.
THEOREM IdleLeavesNothing ==
  ASSUME NEW CONSTANT o, Regular(o)
  PROVE  Spec => []IdleIsClean
<1>1. TypeOK /\ StartInv(o) /\ LifeInv(o) => IdleIsClean
  <2> SUFFICES ASSUME TypeOK, StartInv(o), LifeInv(o), ctx = "null" \/ state = "IDLE"
               PROVE  IdleIsClean
    BY DEF IdleIsClean
  <2>1. state = "IDLE"
    BY DEF LifeInv, StateFollows
  <2>2. ~Running /\ pc[o] \notin {"svc_open", "svc_register", "startfin"}
    BY <2>1 DEF StartInv, ServiceInv, OwnerStarts, StartingUp, Running
  <2>3. pcomm # "up" /\ ~wifiH /\ ~pvtH
    BY <2>1, <2>2 DEF LifeInv, ServiceFollows
  <2>4. "armed" \notin {autostop, connect, cleanup}
    BY <2>1, <2>2 DEF LifeInv, TimersFollow, OneStop
  <2> QED
    BY <2>3, <2>4 DEF IdleIsClean
<1>2. Spec => []StartInv(o)
  BY StartInvHolds DEF Regular
<1> QED
  BY <1>1, <1>2, LifeInvHolds, TypeCorrect, PTL

\* While the service runs its protocomm instance is there and both event handlers
\* are registered, so that success, failure and the stop will be noticed.
THEOREM RunningServiceIsServed ==
  ASSUME NEW CONSTANT o, Regular(o)
  PROVE  Spec => []RunningIsServed
<1>1. LifeInv(o) => RunningIsServed
  BY DEF LifeInv, ServiceFollows, RunningIsServed
<1> QED
  BY <1>1, LifeInvHolds, PTL

\* Only one task at a time is in prov_stop_and_notify: the owner that destroys
\* the manager, or the event loop, never both.
THEOREM CleanedByOne ==
  ASSUME NEW CONSTANT o, Regular(o)
  PROVE  Spec => []OneCleaner
<1>1. StartInv(o) /\ LifeInv(o) => OneCleaner
  <2> SUFFICES ASSUME StartInv(o), LifeInv(o), NEW p \in Procs, NEW q \in Procs,
                      Cleaning(p), Cleaning(q)
               PROVE  p = q
    BY DEF OneCleaner
  <2>1. \A r \in Procs : pc[r] \in {"sync_begin", "sync_end"} => r = o
    BY DEF StartInv, OnlyOwner, OwnerLabels
  <2>2. \A r \in Procs : pc[r] = "async_stop" => r = EventLoop
    BY DEF LifeInv, Places
  <2>3. ~(Syncing(o) /\ pc[EventLoop] = "async_stop")
    BY DEF LifeInv, OneStop, Stopping
  <2> QED
    BY <2>1, <2>2, <2>3 DEF Cleaning, Syncing
<1>2. Spec => []StartInv(o)
  BY StartInvHolds DEF Regular
<1> QED
  BY <1>1, <1>2, LifeInvHolds, PTL

\* A service that is being stopped is never forgotten: the clean-up timer is
\* armed, the STOP event is queued and its handler registered, it is handled, or
\* the deinit that waits for it goes on; unless the event queue is so full that
\* esp_event_post of the STOP event times out.
THEOREM StopIsNotForgotten ==
  ASSUME NEW CONSTANT o, Regular(o), ~PostMayFail
  PROVE  Spec => []StopScheduled
<1>1. LifeInv(o) => StopScheduled
  <2> SUFFICES ASSUME LifeInv(o), state = "STOPPING"
               PROVE  \/ cleanup = "armed"
                      \/ stopq > 0 /\ pvtH
                      \/ \E p \in Procs : Cleaning(p) \/ pc[p] \in {"STOP", "deinitfin"}
    BY DEF StopScheduled
  <2>0. o \in Procs /\ EventLoop \in Procs
    BY ProcFacts DEF Regular, OneOwner
  <2>1. CASE Syncing(o)
    BY <2>0, <2>1 DEF Syncing, Cleaning
  <2>2. CASE Stopping
    BY <2>0, <2>2 DEF Stopping, Cleaning
  <2>3. CASE stopq = 1 /\ ~Syncing(o) /\ ~Stopping
    BY <2>3 DEF LifeInv, ServiceFollows, Syncing, Stopping
  <2> QED
    BY <2>1, <2>2, <2>3 DEF LifeInv, StopUnderWay
<1> QED
  BY <1>1, LifeInvHolds, PTL

-----------------------------------------------------------------------------
(* A stop is not forgotten under other conditions, too: if only the client *)
(* configures, it may also set the state back for a new provisioning, and  *)
(* a Wi-Fi event may be handled after a stop began. Services then go wrong *)
(* in other ways, but whatever is stopping will have stopped.              *)

ClientConfigures(o) ==
  /\ OneOwner(o) /\ StopDrains /\ ~EarlyClient
  /\ \A t \in Tasks : AppOps[t] \cap {"config", "reprov"} = {}

ClientOnly == \A p \in Procs \ {Client} : pc[p] \notin ConfigLabels

\* The lock goes when there is no service, and there is none without a context.
EndsLast(o) ==
  /\ \A p \in Procs \ {o} : pc[p] \notin Ending
  /\ ctx # "live" \/ pc[o] \in Ending => state = "IDLE"
  /\ state # "IDLE" => lock # "null"

\* Somebody is in prov_stop_and_notify.
Handed(o) == Syncing(o) \/ pc[EventLoop] = "async_stop"
InService(o) == (Running \/ state = "STOPPING") /\ ~Handed(o)

\* A service that runs can be stopped: the handler of the STOP event is
\* registered, and the clean-up timer can be started or has been.
CanStop(o) ==
  /\ InService(o) \/ pc[o] = "startfin" => pvtH
  /\ InService(o) \/ pc[o] \in {"svc_open", "svc_register", "startfin"} =>
       cleanup \in {"idle", "armed"}

\* One that is being stopped is waited for by the timer, the event or its handler.
WillStop(o) ==
  state = "STOPPING" /\ ~Handed(o) =>
    cleanup = "armed" \/ stopq > 0 \/ pc[EventLoop] = "STOP"

StopInv(o) == ClientOnly /\ EndsLast(o) /\ CanStop(o) /\ WillStop(o)

\* The labels it is about.
StopLabels ==
  {"svc_open", "svc_register", "startfin", "sync_begin", "sync_end", "deinitfin",
   "STOP", "async_stop"} \cup Ending

\* A step from and to other labels that only moves its task keeps it.
LEMMA QuietStop ==
  ASSUME NEW o, StopInv(o), NEW p \in Procs, pc \in [Procs -> Labels], o \in Procs,
         \A q \in Procs \ {p} : pc'[q] = pc[q],
         UNCHANGED <<lock, ctx, state, pvtH, cleanup, stopq>>,
         pc[p] \notin StopLabels, pc'[p] \notin StopLabels,
         p # Client => pc'[p] \notin ConfigLabels
  PROVE  StopInv(o)'
<1>0. /\ \A l \in StopLabels : pc'[o] = l <=> pc[o] = l
      /\ \A l \in StopLabels : pc'[EventLoop] = l <=> pc[EventLoop] = l
  BY ProcFacts DEF StopLabels
<1>1. ClientOnly'
  BY DEF StopInv, ClientOnly
<1>2. EndsLast(o)'
  BY <1>0 DEF StopInv, EndsLast, StopLabels, Ending
<1>3. CanStop(o)'
  BY <1>0 DEF StopInv, CanStop, InService, Handed, Syncing, Running, StopLabels
<1>4. WillStop(o)'
  BY <1>0 DEF StopInv, WillStop, Handed, Syncing, StopLabels
<1> QED
  BY <1>1, <1>2, <1>3, <1>4 DEF StopInv

\* The steps of a task inside a call keep the invariant.
LEMMA StepStop ==
  ASSUME NEW o, ClientConfigures(o), TypeOK, LockProtectsStop, StartInv(o), StopInv(o),
         NEW p \in Procs, Step(p)
  PROVE  StopInv(o)'
<1>0. /\ pc \in [Procs -> Labels] /\ o \in Procs /\ o \in Tasks
      /\ o # Client /\ o # EventLoop /\ Client # EventLoop
      /\ ctx \in {"null", "live", "freed"} /\ cleanup \in Handles /\ stopq \in Nat
      /\ \A q \in Procs \ {p} : pc'[q] = pc[q]
  BY StepLock, ProcFacts, ProcsDistinct, BoundsAssumption
     DEF TypeOK, DataTypeOK, ClientConfigures, OneOwner
<1>h. lock = "free" => pc[EventLoop] # "async_stop"
  BY ProcFacts, ProcsDistinct DEF LockProtectsStop, Holding
<1> USE <1>0, <1>h, ProcFacts
    DEF StartInv, ServiceInv, OnlyOwner, OwnerLabels, ConfigLabels, OwnerStarts,
        RequestNeedsService, StartingUp, Trying, Syncing, Ending, Running, StopInv,
        ClientOnly, EndsLast, Handed, InService, CanStop, WillStop,
        Goto, Acquire, AcquireLive, ctxVars, svcVars, timers
<1>1. CASE AcquireDeleted(p)
  BY <1>1 DEF AcquireDeleted, Panic, Return
<1>2. CASE UseFreedCtx(p)
  BY <1>2 DEF UseFreedCtx, Panic
<1>3. CASE UseNullCtx(p)
  BY <1>3 DEF UseNullCtx, Panic
<1>4. CASE ExecuteEventCb(p)
  <2>1. /\ UNCHANGED <<lock, ctx, state, pvtH, cleanup, stopq>>
        /\ pc[p] \notin StopLabels /\ pc'[p] \notin StopLabels
        /\ p # Client => pc'[p] \notin ConfigLabels
    BY <1>4 DEF ExecuteEventCb, Posting, StopLabels
  <2> QED
    BY <2>1, QuietStop
<1>5. CASE Reacquire(p)
  <2>1. /\ UNCHANGED <<lock, ctx, state, pvtH, cleanup, stopq>>
        /\ pc[p] \notin StopLabels /\ pc'[p] \notin StopLabels
        /\ p # Client => pc'[p] \notin ConfigLabels
    BY <1>5 DEF Reacquire, StopLabels
  <2> QED
    BY <2>1, QuietStop
<1>6. CASE InitManager(p)
  BY <1>6 DEF InitManager
<1>7. CASE DisableAutoStop(p)
  <2>1. /\ UNCHANGED <<lock, ctx, state, pvtH, cleanup, stopq>>
        /\ pc[p] \notin StopLabels /\ pc'[p] \notin StopLabels
        /\ p # Client => pc'[p] \notin ConfigLabels
    BY <1>7 DEF DisableAutoStop, StopLabels
  <2> QED
    BY <2>1, QuietStop
<1>8. CASE Wait(p)
  <2>1. /\ UNCHANGED <<lock, ctx, state, pvtH, cleanup, stopq>>
        /\ pc[p] \notin StopLabels /\ pc'[p] \notin StopLabels
        /\ p # Client => pc'[p] \notin ConfigLabels
    BY <1>8 DEF Wait, Return, StopLabels
  <2> QED
    BY <2>1, QuietStop
<1>9. CASE StartRefused(p)
  <2>1. /\ UNCHANGED <<lock, ctx, state, pvtH, cleanup, stopq>>
        /\ pc[p] \notin StopLabels /\ pc'[p] \notin StopLabels
        /\ p # Client => pc'[p] \notin ConfigLabels
    BY <1>9 DEF StartRefused, Return, StopLabels
  <2> QED
    BY <2>1, QuietStop
<1>10. CASE StartBegin(p)
  BY <1>10 DEF StartBegin
<1>11. CASE StartNoTimer(p)
  <2>1. /\ UNCHANGED <<lock, ctx, state, pvtH, cleanup, stopq>>
        /\ pc[p] \notin StopLabels /\ pc'[p] \notin StopLabels
        /\ p # Client => pc'[p] \notin ConfigLabels
    BY <1>11 DEF StartNoTimer, StopLabels
  <2> QED
    BY <2>1, QuietStop
<1>12. CASE ServiceOpen(p)
  BY <1>12 DEF ServiceOpen
<1>13. CASE ServiceRegister(p)
  BY <1>13 DEF ServiceRegister
<1>14. CASE ServiceFail(p)
  BY <1>14 DEF ServiceFail, Panic
<1>15. CASE StartFinish(p)
  BY <1>15 DEF StartFinish
<1>16. CASE StartError(p)
  BY <1>16 DEF StartError
<1>17. CASE BadTimer(p)
  BY <1>17 DEF BadTimer, Panic
<1>18. CASE StopRefused(p)
  <2>1. /\ UNCHANGED <<lock, ctx, state, pvtH, cleanup, stopq>>
        /\ pc[p] \notin StopLabels /\ pc'[p] \notin StopLabels
        /\ p # Client => pc'[p] \notin ConfigLabels
    BY <1>18 DEF StopRefused, Return, StopLabels
  <2> QED
    BY <2>1, QuietStop
<1>19. CASE StopAccept(p)
  BY <1>19 DEF StopAccept, StopService, StartOnce
<1>20. CASE Done(p)
  <2>1. /\ UNCHANGED <<lock, ctx, state, pvtH, cleanup, stopq>>
        /\ pc[p] \notin StopLabels /\ pc'[p] \notin StopLabels
        /\ p # Client => pc'[p] \notin ConfigLabels
    BY <1>20 DEF Done, StopLabels
  <2> QED
    BY <2>1, QuietStop
<1>21. CASE GetStatus(p)
  <2>1. /\ UNCHANGED <<lock, ctx, state, pvtH, cleanup, stopq>>
        /\ pc[p] \notin StopLabels /\ pc'[p] \notin StopLabels
        /\ p # Client => pc'[p] \notin ConfigLabels
    BY <1>21 DEF GetStatus, StopLabels
  <2> QED
    BY <2>1, QuietStop
<1>22. CASE DeinitGone(p)
  BY <1>22 DEF DeinitGone
<1>23. CASE DeinitIdle(p)
  BY <1>23 DEF DeinitIdle
<1>24. CASE DeinitStop(p)
  BY <1>24 DEF DeinitStop, StopService
<1>25. CASE SyncBegin(p)
  BY <1>25 DEF SyncBegin
<1>26. CASE SyncEnd(p)
  BY <1>26 DEF SyncEnd, Panic
<1>27. CASE DeinitFree(p)
  BY <1>27 DEF DeinitFree
<1>28. CASE DeinitNotify(p)
  BY <1>28 DEF DeinitNotify
<1>29. CASE DeleteLock(p)
  BY <1>29 DEF DeleteLock, Panic
<1>30. CASE ConfigureMeshlite(p)
  <2>1. /\ UNCHANGED <<lock, ctx, state, pvtH, cleanup, stopq>>
        /\ pc[p] \notin StopLabels /\ pc'[p] \notin StopLabels
        /\ p # Client => pc'[p] \notin ConfigLabels
    BY <1>30 DEF ConfigureMeshlite, StopLabels
  <2> QED
    BY <2>1, QuietStop
<1>31. CASE ConfigureStaRefused(p)
  <2>1. /\ UNCHANGED <<lock, ctx, state, pvtH, cleanup, stopq>>
        /\ pc[p] \notin StopLabels /\ pc'[p] \notin StopLabels
        /\ p # Client => pc'[p] \notin ConfigLabels
    BY <1>31 DEF ConfigureStaRefused, Return, StopLabels
  <2> QED
    BY <2>1, QuietStop
<1>32. CASE ConfigureSta(p)
  BY <1>32 DEF ConfigureSta, Panic
<1>33. CASE ResetOnFailure(p)
  BY <1>33 DEF ResetOnFailure
<1>34. CASE ResetForReprovision(p)
  <2>1. /\ ctx = "live" /\ lock = "free" /\ pc[p] = "reprov"
        /\ pc'[p] \in {"post_START", "idle"} /\ state' \in {state, "STARTED"}
        /\ UNCHANGED <<lock, ctx, pvtH, cleanup, stopq>>
    BY <1>34 DEF ResetForReprovision
  <2>2. p = Client /\ state \notin {"IDLE", "STARTING"}
    BY <2>1
  <2>3. InService(o) <=> (Running \/ state = "STOPPING") /\ ~Handed(o)
    OBVIOUS
  <2>4. state \in States
    BY DEF TypeOK, DataTypeOK
  <2>5. Running \/ state = "STOPPING"
    BY <2>2, <2>4 DEF States
  <2> QED
    BY <2>1, <2>2, <2>5
<1> QED
  BY <1>1, <1>2, <1>3, <1>4, <1>5, <1>6, <1>7, <1>8, <1>9, <1>10, <1>11, <1>12, <1>13, <1>14, <1>15, <1>16, <1>17, <1>18, <1>19, <1>20, <1>21, <1>22, <1>23, <1>24, <1>25, <1>26, <1>27, <1>28, <1>29, <1>30, <1>31, <1>32, <1>33, <1>34 DEF Step

\* The steps that begin a call or belong to one task keep it as well.
LEMMA OtherStop ==
  ASSUME NEW o, ClientConfigures(o), ~PostMayFail, TypeOK, LockProtectsStop, StartInv(o),
         StopInv(o), [Next]_vars, \A p \in Procs : ~Step(p)
  PROVE  StopInv(o)'
<1>0. /\ pc \in [Procs -> Labels] /\ o \in Procs /\ o \in Tasks
      /\ o # Client /\ o # EventLoop /\ o # TimerTask
      /\ Client # EventLoop /\ EventLoop # TimerTask /\ Client # TimerTask
      /\ ctx \in {"null", "live", "freed"} /\ cleanup \in Handles /\ stopq \in Nat
      /\ Tasks \subseteq Procs \ {Client, EventLoop}
  BY ProcFacts, ProcsDistinct, BoundsAssumption
     DEF TypeOK, DataTypeOK, ClientConfigures, OneOwner, Procs
<1>h. lock = "free" => pc[EventLoop] # "async_stop"
  BY ProcFacts, ProcsDistinct DEF LockProtectsStop, Holding
<1> USE <1>0, <1>h, ProcFacts
    DEF StartInv, ServiceInv, OnlyOwner, OwnerLabels, ConfigLabels, OwnerStarts,
        RequestNeedsService, StartingUp, Trying, StopGoesOn, Syncing, Ending, Running,
        StopInv, ClientOnly, EndsLast, Handed, InService, CanStop, WillStop,
        Goto, Acquire, AcquireLive, ctxVars, svcVars, timers
<1>1. ASSUME NEW t \in Tasks, NEW op \in AppOps[t], Call(t, op)
      PROVE  StopInv(o)'
  <2>1. op \notin StopLabels /\ op \notin ConfigLabels
    BY <1>1, OpsAssumption DEF AllAppOps, ClientConfigures, StopLabels
  <2>2. /\ state # "IDLE" => lock' # "null"
        /\ pc[t] = "idle" /\ pc' = [pc EXCEPT ![t] = op]
        /\ UNCHANGED <<ctx, state, pvtH, cleanup, stopq>>
    BY <1>1 DEF Call
  <2> QED
    BY <2>1, <2>2 DEF StopLabels
<1>2. ASSUME NEW op \in ClientOps, ClientRequest(op)
      PROVE  StopInv(o)'
  <2>1. op \notin StopLabels
    BY <1>2, OpsAssumption DEF AllClientOps, StopLabels
  <2>2. /\ UNCHANGED <<lock, ctx, state, pvtH, cleanup, stopq>>
        /\ pc[Client] = "idle" /\ pc'[Client] = op
        /\ \A q \in Procs \ {Client} : pc'[q] = pc[q]
    BY <1>2 DEF ClientRequest
  <2> QED
    BY <2>1, <2>2, QuietStop DEF StopLabels
<1>3. ASSUME NEW e \in WifiEvents, DispatchWifi(e)
      PROVE  StopInv(o)'
  <2>1. e \notin StopLabels \cup ConfigLabels
    BY <1>3, OpsAssumption DEF AllWifiEvents, StopLabels
  <2>2. /\ UNCHANGED <<lock, ctx, state, pvtH, cleanup, stopq>>
        /\ pc[EventLoop] = "idle" /\ pc'[EventLoop] = e
        /\ \A q \in Procs \ {EventLoop} : pc'[q] = pc[q]
    BY <1>3 DEF DispatchWifi
  <2> QED
    BY <2>1, <2>2, QuietStop DEF StopLabels
<1>4. CASE DispatchStop
  BY <1>4 DEF DispatchStop
<1>5. CASE HandlerStep
  <2>1. CASE EventIgnored
    BY <2>1 DEF EventIgnored, Return
  <2>2. CASE StaConnecting
    BY <2>2 DEF StaConnecting
  <2>3. CASE GotIp
    BY <2>3 DEF GotIp, Panic
  <2>4. CASE StaFailed
    BY <2>4 DEF StaFailed
  <2>5. CASE AsyncBegin
    BY <2>5, ProcsDistinct DEF AsyncBegin, Panic
  <2>6. CASE AsyncStop
    BY <2>6 DEF AsyncStop, Panic
  <2>7. CASE AsyncEnd
    BY <2>7 DEF AsyncEnd
  <2> QED
    BY <1>5, <2>1, <2>2, <2>3, <2>4, <2>5, <2>6, <2>7 DEF HandlerStep
<1>6. CASE TimerStep
  BY <1>6 DEF TimerStep, AutostopExpires, ConnectExpires, CleanupExpires
<1>7. CASE Reboot
  BY <1>7 DEF Reboot
<1>8. CASE UNCHANGED vars
  BY <1>8 DEF vars
<1> QED
  BY <1>1, <1>2, <1>3, <1>4, <1>5, <1>6, <1>7, <1>8 DEF Next

\* A service that is being stopped is not forgotten even when a Wi-Fi event that
\* was waiting for the lock, or a client's reset for a new provisioning, sets the
\* state while it is being stopped: whenever the state is STOPPING again, the
\* timer is armed or the event under way.
THEOREM StopOutlivesLateEvents ==
  ASSUME NEW CONSTANT o, ClientConfigures(o), ~PostMayFail
  PROVE  Spec => []StopScheduled
<1>1. Init => StopInv(o)
  <2> SUFFICES ASSUME Init PROVE StopInv(o)
    OBVIOUS
  <2>1. pc[o] = "idle" /\ \A p \in Procs : pc[p] = "idle"
    BY ProcFacts DEF Init, ClientConfigures, OneOwner
  <2> QED
    BY <2>1, ProcFacts
       DEF Init, StopInv, ClientOnly, ConfigLabels, EndsLast, Ending, CanStop, InService,
           Running, WillStop
<1>2. /\ TypeOK /\ LockProtectsStop /\ StartInv(o) /\ StopInv(o) /\ [Next]_vars
      => StopInv(o)'
  BY StepStop, OtherStop
<1>3. StopInv(o) => StopScheduled
  <2> SUFFICES ASSUME StopInv(o), state = "STOPPING"
               PROVE  \/ cleanup = "armed"
                      \/ stopq > 0 /\ pvtH
                      \/ \E p \in Procs : Cleaning(p) \/ pc[p] \in {"STOP", "deinitfin"}
    BY DEF StopScheduled
  <2>0. o \in Procs /\ EventLoop \in Procs
    BY ProcFacts DEF ClientConfigures, OneOwner
  <2>1. CASE Handed(o)
    BY <2>0, <2>1 DEF Handed, Syncing, Cleaning
  <2>2. CASE ~Handed(o)
    BY <2>0, <2>2 DEF StopInv, CanStop, InService, WillStop
  <2> QED
    BY <2>1, <2>2
<1>4. Spec => []StartInv(o)
  BY StartInvHolds DEF ClientConfigures
<1> QED
  BY <1>1, <1>2, <1>3, <1>4, TypeCorrect, StopIsProtected, PTL DEF Spec

-----------------------------------------------------------------------------
(* The manager implements the life cycle it promises.                      *)

\* The phase of each state of the manager.
LEMMA PhaseFacts ==
  ASSUME TypeOK
  PROVE  /\ Phase = "absent" <=> ctx # "live"
         /\ Phase = "idle" <=> ctx = "live" /\ state = "IDLE"
         /\ Phase = "starting" <=> ctx = "live" /\ state = "STARTING"
         /\ Phase = "stopping" <=> ctx = "live" /\ state = "STOPPING"
         /\ Phase = "running" <=> ctx = "live" /\ Running
         /\ Phase \in {"absent", "idle", "starting", "running", "stopping"}
<1>1. state \in States
  BY DEF TypeOK, DataTypeOK
<1> QED
  BY <1>1 DEF Phase, States, Running

\* The same of the state after a step.
LEMMA PhaseFactsPrimed ==
  ASSUME TypeOK'
  PROVE  /\ Phase' = "absent" <=> ctx' # "live"
         /\ Phase' = "idle" <=> ctx' = "live" /\ state' = "IDLE"
         /\ Phase' = "starting" <=> ctx' = "live" /\ state' = "STARTING"
         /\ Phase' = "stopping" <=> ctx' = "live" /\ state' = "STOPPING"
         /\ Phase' = "running" <=> ctx' = "live" /\ Running'
         /\ Phase' \in {"absent", "idle", "starting", "running", "stopping"}
<1>1. state' \in States
  BY DEF TypeOK, DataTypeOK
<1> QED
  BY <1>1 DEF Phase, States, Running

LifecycleStep == [Lifecycle!Next]_<<Phase, pcomm = "up", stray>>

\* A step that leaves the manager, its state and the transport alone is none of
\* the life cycle, nor is one from one running state to another.
LEMMA StutterStep ==
  ASSUME TypeOK, TypeOK', pcomm' = pcomm, stray' = stray,
         \/ ctx' = ctx /\ state' = state
         \/ ctx = "live" /\ Running /\ ctx' = "live" /\ Running'
  PROVE  LifecycleStep
<1>1. Phase' = Phase
  BY PhaseFacts, PhaseFactsPrimed DEF Running
<1> QED
  BY <1>1 DEF LifecycleStep

\* What a step of a task inside a call is of the life cycle.
LEMMA StepLifecycle ==
  ASSUME NEW o, Regular(o), TypeOK, TypeOK', StartInv(o), LifeInv(o),
         NEW p \in Procs, Step(p)
  PROVE  LifecycleStep
<1>1. CASE ctx' = ctx /\ state' = state /\ pcomm' = pcomm /\ stray' = stray
  BY <1>1, StutterStep
<1>2. CASE InitManager(p)
  <2>1. CASE UNCHANGED <<ctxVars, svcVars>>
    BY <2>1, <1>1 DEF svcVars, ctxVars
  <2>2. CASE ~UNCHANGED <<ctxVars, svcVars>>
    <3>1. /\ ctx = "null" /\ pcomm # "up" /\ pcomm' # "up" /\ stray' = stray
          /\ ctx' \in {"live", "freed"} /\ state' = "IDLE"
      BY <1>2, <2>2 DEF InitManager, StartInv, ServiceInv, OnAirIsManaged
    <3>2. CASE ctx' = "live"
      BY <2>2, <3>1, <3>2, PhaseFacts, PhaseFactsPrimed
         DEF LifecycleStep, Lifecycle!Next, Lifecycle!Create, Lifecycle!Move
    <3>3. CASE ctx' # "live"
      BY <2>2, <3>1, <3>3, PhaseFacts, PhaseFactsPrimed DEF LifecycleStep
    <3> QED
      BY <3>2, <3>3
  <2> QED
    BY <2>1, <2>2
<1>3. CASE StartBegin(p)
  BY <1>3, PhaseFacts, PhaseFactsPrimed
     DEF StartBegin, AcquireLive, svcVars,
         LifecycleStep, Lifecycle!Next, Lifecycle!Begin, Lifecycle!Move
<1>4. CASE ServiceOpen(p)
  <2>1. /\ p = o /\ ctx = "live" /\ state = "STARTING" /\ pcomm # "up" /\ ~stray
    BY <1>4 DEF ServiceOpen, StartInv, OnlyOwner, OwnerLabels, ServiceInv, OwnerStarts,
                StartingUp, LifeInv, ServiceFollows, Running
  <2>2. ctx' = "live" /\ state' = "STARTING" /\ pcomm' = "up" /\ stray' = stray
    BY <1>4, <2>1 DEF ServiceOpen, ctxVars
  <2> QED
    BY <2>1, <2>2, PhaseFacts, PhaseFactsPrimed
       DEF LifecycleStep, Lifecycle!Next, Lifecycle!GoOnAir
<1>5. CASE ServiceFail(p)
  <2>1. /\ p = o /\ ctx = "live" /\ state = "STARTING"
    BY <1>5 DEF ServiceFail, StartInv, OnlyOwner, OwnerLabels, ServiceInv, OwnerStarts,
                StartingUp
  <2>2. CASE pcomm' # "up" /\ UNCHANGED <<ctx, state, stray>>
    BY <2>1, <2>2, PhaseFacts, PhaseFactsPrimed
       DEF LifecycleStep, Lifecycle!Next, Lifecycle!GoOffAir
  <2>3. CASE /\ pc[p] = "svc_open" /\ ~stray /\ stray' = TRUE
             /\ pcomm' = "bare" /\ UNCHANGED <<ctx, state>>
    <3>1. pcomm # "up"
      BY <2>1, <2>3 DEF LifeInv, ServiceFollows, Running
    <3> QED
      BY <2>1, <2>3, <3>1, PhaseFacts, PhaseFactsPrimed
         DEF LifecycleStep, Lifecycle!Next, Lifecycle!Strand
  <2> QED
    BY <1>1, <1>5, <2>2, <2>3 DEF ServiceFail, Panic, ctxVars, svcVars
<1>6. CASE StartFinish(p)
  <2>1. /\ p = o /\ ctx = "live" /\ state = "STARTING" /\ pcomm = "up"
    BY <1>6 DEF StartFinish, AcquireLive, Acquire, StartInv, OnlyOwner, OwnerLabels,
                ServiceInv, OwnerStarts, StartingUp, LifeInv, ServiceFollows
  <2>2. ctx' = "live" /\ state' = "STARTED" /\ pcomm' = "up" /\ stray' = stray
    BY <1>6, <2>1 DEF StartFinish, svcVars
  <2> QED
    BY <2>1, <2>2, PhaseFacts, PhaseFactsPrimed
       DEF LifecycleStep, Lifecycle!Next, Lifecycle!Ready, Lifecycle!Move, Running
<1>7. CASE StartError(p)
  <2>1. /\ p = o /\ ctx = "live" /\ state = "STARTING" /\ pcomm # "up"
    BY <1>7 DEF StartError, AcquireLive, Acquire, StartInv, OnlyOwner, OwnerLabels,
                ServiceInv, OwnerStarts, StartingUp, TakenDown
  <2>2. ctx' = "live" /\ state' = "IDLE" /\ pcomm' = pcomm /\ stray' = stray
    BY <1>7, <2>1 DEF StartError, svcVars
  <2> QED
    BY <2>1, <2>2, PhaseFacts, PhaseFactsPrimed
       DEF LifecycleStep, Lifecycle!Next, Lifecycle!Abort, Lifecycle!Move
<1>8. CASE StopAccept(p) \/ DeinitStop(p)
  <2>1. /\ ctx = "live" /\ Running /\ ctx' = "live" /\ state' = "STOPPING"
        /\ pcomm' = pcomm /\ stray' = stray
    BY <1>8 DEF StopAccept, DeinitStop, AcquireLive, StopService, svcVars
  <2> QED
    BY <2>1, PhaseFacts, PhaseFactsPrimed
       DEF LifecycleStep, Lifecycle!Next, Lifecycle!StopRequest, Lifecycle!Move
<1>9. CASE DeinitIdle(p) \/ DeinitFree(p)
  <2>1. /\ ctx = "live" /\ state \in {"IDLE", "STOPPING"} /\ pcomm # "up"
        /\ ctx' = "null" /\ pcomm' = pcomm /\ stray' = stray
    <3>1. CASE DeinitIdle(p)
      BY <3>1 DEF DeinitIdle, AcquireLive, svcVars, StartInv, ServiceInv, OnAirIsManaged
    <3>2. CASE DeinitFree(p)
      BY <3>2 DEF DeinitFree, AcquireLive, Acquire, svcVars, StartInv, OnlyOwner,
                  OwnerLabels, ServiceInv, TakenDown, LifeInv, StateFollows, Syncing
    <3> QED
      BY <1>9, <3>1, <3>2
  <2> QED
    BY <2>1, PhaseFacts, PhaseFactsPrimed
       DEF LifecycleStep, Lifecycle!Next, Lifecycle!Destroy, Lifecycle!Move
<1>10. CASE SyncEnd(p)
  <2>1. /\ p = o /\ ctx = "live" /\ state = "STOPPING"
    BY <1>10 DEF SyncEnd, StartInv, OnlyOwner, OwnerLabels, LifeInv, StateFollows,
                 Syncing
  <2>2. \/ UNCHANGED <<ctx, state, pcomm, stray>>
        \/ pcomm = "up" /\ pcomm' # "up" /\ UNCHANGED <<ctx, state, stray>>
    BY <1>10 DEF SyncEnd, Panic, ctxVars, svcVars
  <2> QED
    BY <1>1, <2>1, <2>2, PhaseFacts, PhaseFactsPrimed
       DEF LifecycleStep, Lifecycle!Next, Lifecycle!GoOffAir
<1>11. CASE ConfigureSta(p)
  <2>1. CASE Panic("freed_timer")
    BY <1>1, <2>1 DEF Panic, ctxVars, svcVars
  <2>2. CASE ~Panic("freed_timer")
    <3>1. /\ ctx = "live" /\ state \in {"IDLE", "STARTING", "STARTED"} /\ pc[p] = "config"
          /\ connect = "idle" /\ ctx' = "live" /\ state' = "CRED_RECV"
          /\ pcomm' = pcomm /\ stray' = stray
      BY <1>11, <2>2 DEF ConfigureSta, AcquireLive, Acquire, svcVars
    <3>2. state = "STARTED"
      <4>1. p \in {o, Client}
        BY <3>1 DEF StartInv, OnlyOwner, ConfigLabels
      <4> QED
        BY <3>1, <4>1 DEF StartInv, ServiceInv, RequestNeedsService, LifeInv,
                          StateFollows, TimersFollow, StartingUp
    <3> QED
      BY <3>1, <3>2, StutterStep DEF Running
  <2> QED
    BY <2>1, <2>2
<1>12. CASE ResetOnFailure(p)
  BY <1>1, <1>12, StutterStep DEF ResetOnFailure, AcquireLive, Running, svcVars
<1>13. CASE ResetForReprovision(p)
  BY <1>13 DEF ResetForReprovision, AcquireLive, Acquire, LifeInv, Places
<1> USE <1>1 DEF Panic, Return, ctxVars, svcVars
<1>14. CASE AcquireDeleted(p) \/ UseFreedCtx(p) \/ UseNullCtx(p)
  BY <1>14 DEF AcquireDeleted, UseFreedCtx, UseNullCtx
<1>15. CASE ExecuteEventCb(p) \/ Reacquire(p) \/ DisableAutoStop(p) \/ Wait(p)
  BY <1>15 DEF ExecuteEventCb, Reacquire, DisableAutoStop, Wait
<1>16. CASE StartRefused(p) \/ StartNoTimer(p) \/ ServiceRegister(p)
  BY <1>16 DEF StartRefused, StartNoTimer, ServiceRegister
<1>17. CASE BadTimer(p) \/ StopRefused(p) \/ Done(p) \/ GetStatus(p)
  BY <1>17 DEF BadTimer, StopRefused, Done, GetStatus
<1>18. CASE DeinitGone(p) \/ SyncBegin(p) \/ DeinitNotify(p) \/ DeleteLock(p)
  BY <1>18 DEF DeinitGone, SyncBegin, DeinitNotify, DeleteLock
<1>19. CASE ConfigureMeshlite(p) \/ ConfigureStaRefused(p)
  BY <1>19 DEF ConfigureMeshlite, ConfigureStaRefused
<1> QED
  BY <1>2, <1>3, <1>4, <1>5, <1>6, <1>7, <1>8, <1>9, <1>10, <1>11, <1>12, <1>13,
     <1>14, <1>15, <1>16, <1>17, <1>18, <1>19 DEF Step

\* What the other steps are of it: the STOP handler takes the service off the air,
\* and a panic ends everything.
LEMMA OtherLifecycle ==
  ASSUME NEW o, Regular(o), TypeOK, TypeOK', LockProtectsStop, StartInv(o), LifeInv(o),
         [Next]_vars, \A p \in Procs : ~Step(p)
  PROVE  LifecycleStep
<1>0. CASE ctx' = ctx /\ state' = state /\ pcomm' = pcomm /\ stray' = stray
  BY <1>0, StutterStep
<1>s. Trying /\ pc[EventLoop] \in AllWifiEvents => Running
  BY DEF LifeInv, Places, ServiceFollows, StartInv, ServiceInv, OwnerStarts, StartingUp,
         Trying
<1>1. ASSUME NEW t \in Tasks, NEW op \in AppOps[t], Call(t, op)
      PROVE  LifecycleStep
  BY <1>0, <1>1 DEF Call, ctxVars, svcVars
<1>2. ASSUME NEW op \in ClientOps, ClientRequest(op)
      PROVE  LifecycleStep
  BY <1>0, <1>2 DEF ClientRequest, ctxVars, svcVars
<1>3. ASSUME NEW e \in WifiEvents, DispatchWifi(e)
      PROVE  LifecycleStep
  BY <1>0, <1>3 DEF DispatchWifi, ctxVars, svcVars
<1>4. CASE DispatchStop \/ TimerStep \/ UNCHANGED vars
  BY <1>0, <1>4 DEF DispatchStop, TimerStep, AutostopExpires, ConnectExpires,
                    CleanupExpires, vars, ctxVars, svcVars
<1>5. CASE HandlerStep
  <2>1. CASE EventIgnored \/ StaConnecting \/ AsyncBegin \/ AsyncEnd
    BY <1>0, <2>1 DEF EventIgnored, Return, StaConnecting, AsyncBegin, Panic, AsyncEnd,
                      ctxVars, svcVars
  <2>2. CASE GotIp
    BY <1>0, <1>s, <2>2, StutterStep
       DEF GotIp, Panic, AcquireLive, Acquire, AllWifiEvents, Running, ctxVars, svcVars
  <2>3. CASE StaFailed
    BY <1>0, <1>s, <2>3, StutterStep
       DEF StaFailed, AcquireLive, Acquire, AllWifiEvents, Running, ctxVars, svcVars
  <2>4. CASE AsyncStop
    <3>1. ctx = "live" /\ state = "STOPPING"
      BY <2>4, ProcFacts
         DEF AsyncStop, LockProtectsStop, Holding, LifeInv, OneStop, Stopping
    <3>2. \/ UNCHANGED <<ctx, state, pcomm, stray>>
          \/ /\ pcomm = "up" /\ pcomm' # "up" /\ UNCHANGED <<ctx, stray>>
             /\ state' = "IDLE"
      BY <2>4 DEF AsyncStop, Panic, ctxVars, svcVars
    <3> QED
      BY <1>0, <3>1, <3>2, PhaseFacts, PhaseFactsPrimed
         DEF LifecycleStep, Lifecycle!Next, Lifecycle!GoOffAir
  <2> QED
    BY <1>5, <2>1, <2>2, <2>3, <2>4 DEF HandlerStep
<1>6. CASE Reboot
  <2>1. ctx' = "null" /\ pcomm' = "null" /\ stray' = FALSE
    BY <1>6 DEF Reboot
  <2> QED
    BY <2>1, PhaseFactsPrimed DEF LifecycleStep, Lifecycle!Next, Lifecycle!Crash
<1> QED
  BY <1>1, <1>2, <1>3, <1>4, <1>5, <1>6 DEF Next

\* The manager with all its tasks, timers and events implements the life cycle of
\* ProvLifecycle, the one wifi_provisioning/manager.h describes, credentials and
\* all: it goes on the air only in a start, is ready only while it is on the air,
\* goes off the air before a stop or a failed start is over, and is destroyed
\* only when it is off the air; a start whose security version is not built in
\* leaves a transport up, on which no service is offered again.
THEOREM LifecycleImplemented ==
  ASSUME NEW CONSTANT o, Regular(o)
  PROVE  Spec => ImplementsLifecycle
<1>1. Init => Lifecycle!Init
  BY DEF Init, Lifecycle!Init, Phase
<1>2. TypeOK /\ TypeOK' /\ LockProtectsStop /\ StartInv(o) /\ LifeInv(o) /\ [Next]_vars
      => [Lifecycle!Next]_<<Phase, pcomm = "up", stray>>
  BY StepLifecycle, OtherLifecycle DEF LifecycleStep
<1>3. Spec => []StartInv(o)
  BY StartInvHolds DEF Regular
<1> QED
  BY <1>1, <1>2, <1>3, LifeInvHolds, TypeCorrect, StopIsProtected, PTL
     DEF Spec, ImplementsLifecycle, Lifecycle!Spec
=============================================================================
