-------------------------- MODULE ProvSession_proofs --------------------------
(***************************************************************************)
(* Proofs about ProvSession, for any number of sessions and one            *)
(* application task, which waits for a session to be over before it starts *)
(* the next, as the firmware's main task does.                             *)
(*                                                                         *)
(* Until the timer of a session that the application ended itself fires    *)
(* into a later one (stray), the three tasks that end a session are kept   *)
(* apart from the one that starts it: an init finds them at rest, and the  *)
(* lock is there only while the flag is up or somebody is on the way to    *)
(* delete it.                                                              *)
(***************************************************************************)
EXTENDS ProvSession, TLAPS

-----------------------------------------------------------------------------
\* The labels a step can go to.
LEMMA LabelFacts ==
  /\ "idle" \in Labels /\ "end_timer" \in Labels /\ "end_check" \in Labels
  /\ "clear" \in Labels /\ "init_set" \in Labels /\ "init_create" \in Labels
  /\ "init_query" \in Labels /\ "init_start" \in Labels /\ "init_timer" \in Labels
  /\ "deinit_check" \in Labels /\ "deinit" \in Labels /\ "deinit_sync" \in Labels
  /\ "deinit_post" \in Labels /\ "delete_lock" \in Labels
BY DEF Labels, InInit, InDeinit

LEMMA ProcFacts ==
  /\ EventLoop \in Procs /\ TimerSvc \in Procs /\ Tasks \subseteq Procs
  /\ EventLoop \notin Tasks /\ TimerSvc \notin Tasks /\ EventLoop # TimerSvc
BY ProcsAssumption DEF Procs

\* The types of what is true or false, and of the rest.
FlagType == status \in BOOLEAN /\ lock \in BOOLEAN /\ stray \in BOOLEAN
DataType ==
  /\ session \in 0..MaxSessions
  /\ timer \in [Sessions -> {"none", "armed", "dormant", "deleted"}]
  /\ handle \in 0..MaxSessions
  /\ mgr \in {"absent", "idle", "running", "stopping", "closing"}
  /\ ends \in Nat
  /\ pc \in [Procs -> Labels]
  /\ after \in [Procs -> {"idle", "clear"}]
  /\ left \subseteq Sessions
  /\ fault \in {"none", "abort", "timer", "lock"}

\* The flag is up only in a session.
FlagOfSession == status => session # 0

LEMMA FlagTypeStep == FlagType /\ [Next]_vars => FlagType'
<1> SUFFICES ASSUME FlagType, [Next]_vars
             PROVE  FlagType'
  OBVIOUS
<1> USE DEF FlagType, CallDeinit, Panic, ghosts
<1>1. ASSUME NEW t \in Tasks, InitStep(t)
      PROVE  FlagType'
  BY <1>1 DEF InitStep, InitSet, InitCreate, InitQuery, InitStart, InitTimer
<1>2. ASSUME NEW t \in Tasks, InitCheck(t)
      PROVE  FlagType'
  BY <1>2 DEF InitCheck
<1>3. ASSUME NEW t \in Tasks, AppDeinit(t)
      PROVE  FlagType'
  BY <1>3 DEF AppDeinit
<1>4. ASSUME NEW p \in Procs, DeinitStep(p)
      PROVE  FlagType'
  BY <1>4 DEF DeinitStep, DeinitCheck, Deinit, DeinitSync, DeinitPost, DeleteLock, Clear
<1>5. ASSUME NEW s \in Sessions, Timeout(s)
      PROVE  FlagType'
  BY <1>5 DEF Timeout
<1>6. CASE StopService \/ ServiceStopped
  BY <1>6 DEF StopService, ServiceStopped
<1>7. CASE EndStep
  BY <1>7 DEF EndStep, HandleEnd, EndTimer, EndCheck
<1>8. CASE Reboot
  BY <1>8 DEF Reboot
<1>9. CASE UNCHANGED vars
  BY <1>9 DEF vars
<1> QED
  BY <1>1, <1>2, <1>3, <1>4, <1>5, <1>6, <1>7, <1>8, <1>9
     DEF Next

LEMMA FlagStep == DataType /\ FlagOfSession /\ [Next]_vars => FlagOfSession'
<1> SUFFICES ASSUME DataType, FlagOfSession, [Next]_vars
             PROVE  FlagOfSession'
  OBVIOUS
<1> USE BoundsAssumption DEF DataType, FlagOfSession, CallDeinit, Panic, ghosts
<1>1. ASSUME NEW t \in Tasks, InitSet(t)
      PROVE  FlagOfSession'
  BY <1>1 DEF InitSet
<1>2. ASSUME NEW t \in Tasks, InitCreate(t)
      PROVE  FlagOfSession'
  BY <1>2 DEF InitCreate
<1>3. ASSUME NEW t \in Tasks, InitQuery(t)
      PROVE  FlagOfSession'
  BY <1>3 DEF InitQuery
<1>4. ASSUME NEW t \in Tasks, InitStart(t)
      PROVE  FlagOfSession'
  BY <1>4 DEF InitStart
<1>5. ASSUME NEW t \in Tasks, InitTimer(t)
      PROVE  FlagOfSession'
  BY <1>5 DEF InitTimer
<1>6. ASSUME NEW t \in Tasks, InitCheck(t)
      PROVE  FlagOfSession'
  BY <1>6 DEF InitCheck
<1>7. ASSUME NEW t \in Tasks, AppDeinit(t)
      PROVE  FlagOfSession'
  BY <1>7 DEF AppDeinit
<1>8. ASSUME NEW p \in Procs, DeinitStep(p)
      PROVE  FlagOfSession'
  BY <1>8 DEF DeinitStep, DeinitCheck, Deinit, DeinitSync, DeinitPost, DeleteLock, Clear
<1>9. ASSUME NEW s \in Sessions, Timeout(s)
      PROVE  FlagOfSession'
  BY <1>9 DEF Timeout
<1>10. CASE StopService \/ ServiceStopped
  BY <1>10 DEF StopService, ServiceStopped
<1>11. CASE EndStep
  BY <1>11 DEF EndStep, HandleEnd, EndTimer, EndCheck
<1>12. CASE Reboot
  BY <1>12 DEF Reboot
<1>13. CASE UNCHANGED vars
  BY <1>13 DEF vars
<1> QED
  BY <1>1, <1>2, <1>3, <1>4, <1>5, <1>6, <1>7, <1>8, <1>9, <1>10, <1>11, <1>12, <1>13
     DEF Next, InitStep

LEMMA DataStep == DataType /\ FlagOfSession /\ [Next]_vars => DataType'
<1> SUFFICES ASSUME DataType, FlagOfSession, [Next]_vars
             PROVE  DataType'
  OBVIOUS
<1> USE ProcFacts, LabelFacts, BoundsAssumption
    DEF DataType, FlagOfSession, At, Goto, CallDeinit, Panic, ghosts, Sessions
<1>1. ASSUME NEW t \in Tasks, InitSet(t)
      PROVE  DataType'
  BY <1>1 DEF InitSet
<1>2. ASSUME NEW t \in Tasks, InitCreate(t)
      PROVE  DataType'
  BY <1>2 DEF InitCreate
<1>3. ASSUME NEW t \in Tasks, InitQuery(t)
      PROVE  DataType'
  BY <1>3 DEF InitQuery
<1>4. ASSUME NEW t \in Tasks, InitStart(t)
      PROVE  DataType'
  BY <1>4 DEF InitStart
<1>5. ASSUME NEW t \in Tasks, InitTimer(t)
      PROVE  DataType'
  BY <1>5 DEF InitTimer
<1>6. ASSUME NEW t \in Tasks, InitCheck(t)
      PROVE  DataType'
  BY <1>6 DEF InitCheck
<1>7. ASSUME NEW t \in Tasks, AppDeinit(t)
      PROVE  DataType'
  BY <1>7 DEF AppDeinit
<1>8. ASSUME NEW p \in Procs, DeinitCheck(p)
      PROVE  DataType'
  BY <1>8 DEF DeinitCheck
<1>9. ASSUME NEW p \in Procs, Deinit(p)
      PROVE  DataType'
  BY <1>9 DEF Deinit
<1>10. ASSUME NEW p \in Procs, DeinitSync(p)
      PROVE  DataType'
  BY <1>10 DEF DeinitSync
<1>11. ASSUME NEW p \in Procs, DeinitPost(p)
      PROVE  DataType'
  BY <1>11 DEF DeinitPost
<1>12. ASSUME NEW p \in Procs, DeleteLock(p)
      PROVE  DataType'
  BY <1>12 DEF DeleteLock
<1>13. ASSUME NEW p \in Procs, Clear(p)
      PROVE  DataType'
  BY <1>13 DEF Clear
<1>14. ASSUME NEW s \in Sessions, Timeout(s)
      PROVE  DataType'
  BY <1>14 DEF Timeout
<1>15. CASE StopService
  BY <1>15 DEF StopService
<1>16. CASE ServiceStopped
  BY <1>16 DEF ServiceStopped
<1>17. CASE HandleEnd
  BY <1>17 DEF HandleEnd
<1>18. CASE EndTimer
  BY <1>18 DEF EndTimer
<1>19. CASE EndCheck
  BY <1>19 DEF EndCheck
<1>20. CASE Reboot
  BY <1>20 DEF Reboot
<1>21. CASE UNCHANGED vars
  BY <1>21 DEF vars
<1> QED
  BY <1>1, <1>2, <1>3, <1>4, <1>5, <1>6, <1>7, <1>8, <1>9, <1>10, <1>11, <1>12, <1>13,
     <1>14, <1>15, <1>16, <1>17, <1>18, <1>19, <1>20, <1>21
     DEF Next, InitStep, DeinitStep, EndStep

LEMMA TypeStep == TypeOK /\ FlagOfSession /\ [Next]_vars => TypeOK' /\ FlagOfSession'
BY FlagTypeStep, FlagStep, DataStep DEF TypeOK, FlagType, DataType

LEMMA TypeInit == Init => TypeOK /\ FlagOfSession
<1>1. Init => FlagType /\ FlagOfSession
  BY DEF Init, FlagType, FlagOfSession
<1>2. Init => DataType
  BY LabelFacts, BoundsAssumption DEF Init, DataType
<1> QED
  BY <1>1, <1>2 DEF TypeOK, FlagType, DataType

\* The flag, the timers, the manager and its lock stay within their types, and
\* every task is at a place of the code.
THEOREM SessionTypeCorrect == Spec => []TypeOK
BY TypeInit, TypeStep, PTL DEF Spec

-----------------------------------------------------------------------------
(* One application task t.                                                 *)

\* It waits for a session to be over, and no session is so short that its service
\* is stopped before t has set the timer.
OneTask(t) == Tasks = {t} /\ SlowClient /\ PatientApp

\* While t starts a session nobody else is at work, and the session has neither
\* been left nor a timer yet.
InitAlone(t) ==
  pc[t] \in InInit =>
    /\ \A p \in Procs \ {t} : pc[p] = "idle"
    /\ ends = 0
    /\ pc[t] \in {"init_set", "init_create"} => mgr = "absent" /\ ~lock
    /\ pc[t] \in {"init_query", "init_start"} => mgr = "idle" /\ lock
    /\ pc[t] = "init_timer" => mgr = "running" /\ lock
    /\ IF pc[t] = "init_set"
         THEN ~status
         ELSE /\ status /\ session \in Sessions \ left
              /\ timer[session] = "none"

\* The past and the future: sessions left were started, those to come have
\* never had a timer.
Past ==
  /\ left \subseteq 1..session
  /\ handle <= session
  /\ \A s \in Sessions : s > session => timer[s] = "none"

\* An armed timer, but for those left behind, is that of the last session, which
\* prov_timeout_timer holds; the flag is up.
OwnTimer ==
  \A s \in Sessions \ left :
    timer[s] = "armed" => s = session /\ s = handle /\ status

\* Without the lock there is no manager, and one that has been destroyed stays
\* so until the lock goes.
LockAndManager ==
  /\ ~lock => mgr = "absent"
  /\ \A p \in Procs : pc[p] \in {"deinit_post", "delete_lock"} => mgr = "absent"
  /\ \A p \in Procs : pc[p] = "clear" => ~lock

\* The lock is there only while the flag is up, or somebody is in a
\* wifi_prov_mgr_deinit, which ends when it is gone, or in an init.
LockIsOwed(t) ==
  lock => status \/ pc[t] \in InInit \/ \E p \in Procs : pc[p] \in InDeinit

\* Who lets the flag fall has seen to the timer: the application has left the
\* session, the END handler has deleted it.
TimerIsSeenTo(t) ==
  /\ pc[t] \notin {"end_timer", "end_check"}
  /\ pc[t] = "clear" \/ (pc[t] \in InDeinit /\ after[t] = "clear") => session \in left
  /\ pc[EventLoop] \in {"end_check", "clear"} \cup InDeinit =>
       \A s \in Sessions \ left : timer[s] # "armed"
  /\ pc[TimerSvc] # "clear" /\ after[TimerSvc] = "idle"

Core(t) ==
  /\ InitAlone(t) /\ OwnTimer /\ LockAndManager /\ LockIsOwed(t)
  /\ TimerIsSeenTo(t)

SessionInv(t) == TypeOK /\ FlagOfSession /\ Past /\ (stray \/ Core(t))
-----------------------------------------------------------------------------
LEMMA SessionInit == ASSUME NEW t, OneTask(t) PROVE Init => SessionInv(t)
<1> SUFFICES ASSUME Init
             PROVE  SessionInv(t)
  OBVIOUS
<1> USE ProcFacts, LabelFacts, BoundsAssumption
<1>1. TypeOK /\ FlagOfSession
  BY TypeInit
<1>2. \A p \in Procs : pc[p] = "idle" /\ after[p] = "idle"
  BY DEF Init
<1> QED
  BY <1>1, <1>2 DEF Init, SessionInv, Past, Core, InitAlone, OwnTimer, LockAndManager,
     LockIsOwed, TimerIsSeenTo, InInit, InDeinit, Sessions, OneTask

LEMMA PastStep == DataType /\ FlagOfSession /\ Past /\ [Next]_vars => Past'
<1> SUFFICES ASSUME DataType, FlagOfSession, Past, [Next]_vars
             PROVE  Past'
  OBVIOUS
<1> USE BoundsAssumption DEF Past, FlagOfSession, DataType, CallDeinit, Panic, ghosts,
   Sessions
<1>1. ASSUME NEW t \in Tasks, InitSet(t)
      PROVE  Past'
  BY <1>1 DEF InitSet
<1>2. ASSUME NEW t \in Tasks, InitCreate(t)
      PROVE  Past'
  BY <1>2 DEF InitCreate
<1>3. ASSUME NEW t \in Tasks, InitQuery(t)
      PROVE  Past'
  BY <1>3 DEF InitQuery
<1>4. ASSUME NEW t \in Tasks, InitStart(t)
      PROVE  Past'
  BY <1>4 DEF InitStart
<1>5. ASSUME NEW t \in Tasks, InitTimer(t)
      PROVE  Past'
  BY <1>5 DEF InitTimer
<1>6. ASSUME NEW t \in Tasks, InitCheck(t)
      PROVE  Past'
  BY <1>6 DEF InitCheck
<1>7. ASSUME NEW t \in Tasks, AppDeinit(t)
      PROVE  Past'
  <2>1. session \in 1..session
    BY <1>7 DEF AppDeinit
  <2>2. left' = left \cup {session} /\ UNCHANGED <<session, timer, handle>>
    BY <1>7 DEF AppDeinit
  <2> QED
    BY <2>1, <2>2
<1>8. ASSUME NEW p \in Procs, DeinitStep(p)
      PROVE  Past'
  BY <1>8 DEF DeinitStep, DeinitCheck, Deinit, DeinitSync, DeinitPost, DeleteLock, Clear
<1>9. ASSUME NEW s \in Sessions, Timeout(s)
      PROVE  Past'
  BY <1>9 DEF Timeout
<1>10. CASE StopService \/ ServiceStopped
  BY <1>10 DEF StopService, ServiceStopped
<1>11. CASE HandleEnd
  BY <1>11 DEF HandleEnd
<1>12. CASE EndTimer
  <2>1. CASE UNCHANGED timer
    BY <1>12, <2>1 DEF EndTimer
  <2>2. CASE timer' # timer
    <3>1. handle \in Sessions /\ UNCHANGED <<session, left, handle>>
      BY <1>12, <2>2 DEF EndTimer
    <3>2. timer' = [timer EXCEPT ![handle] = "deleted"]
      BY <1>12, <2>2 DEF EndTimer
    <3> QED
      BY <3>1, <3>2
  <2> QED
    BY <2>1, <2>2
<1>13. CASE EndCheck
  BY <1>13 DEF EndCheck
<1>14. CASE Reboot
  BY <1>14 DEF Reboot
<1>15. CASE UNCHANGED vars
  BY <1>15 DEF vars
<1> QED
  BY <1>1, <1>2, <1>3, <1>4, <1>5, <1>6, <1>7, <1>8, <1>9, <1>10, <1>11, <1>12, <1>13,
     <1>14, <1>15
     DEF Next, InitStep, EndStep

LEMMA InitAloneStep ==
  ASSUME NEW t, OneTask(t), DataType, Past, Core(t), Next, ~stray', fault = "none"
  PROVE  InitAlone(t)'
<1> USE ProcFacts, ProcsAssumption, BoundsAssumption
    DEF OneTask, DataType, Past, Core, InitAlone, OwnTimer, LockAndManager, LockIsOwed,
        TimerIsSeenTo, CallDeinit, Panic, ghosts, Sessions, At, Goto, InInit, InDeinit
<1>1. CASE InitStep(t)
  BY <1>1 DEF InitStep, InitSet, InitCreate, InitQuery, InitStart, InitTimer
<1>2. CASE InitCheck(t)
  BY <1>2 DEF InitCheck, SessionOver
<1>3. CASE AppDeinit(t)
  BY <1>3 DEF AppDeinit
<1>4. ASSUME NEW p \in Procs, DeinitStep(p)
      PROVE  InitAlone(t)'
  BY <1>4 DEF DeinitStep, DeinitCheck, Deinit, DeinitSync, DeinitPost, DeleteLock, Clear
<1>5. ASSUME NEW s \in Sessions, Timeout(s)
      PROVE  InitAlone(t)'
  BY <1>5 DEF Timeout
<1>6. CASE StopService \/ ServiceStopped
  BY <1>6 DEF StopService, ServiceStopped
<1>7. CASE EndStep
  BY <1>7 DEF EndStep, HandleEnd, EndTimer, EndCheck
<1>8. CASE Reboot
  BY <1>8 DEF Reboot
<1>9. CASE UNCHANGED vars
  BY <1>9 DEF vars
<1> QED
  BY <1>1, <1>2, <1>3, <1>4, <1>5, <1>6, <1>7, <1>8, <1>9
     DEF Next

LEMMA OwnTimerStep ==
  ASSUME NEW t, OneTask(t), DataType, Past, Core(t), Next, ~stray', fault = "none"
  PROVE  OwnTimer'
<1> USE ProcFacts, ProcsAssumption, BoundsAssumption
    DEF OneTask, DataType, Past, Core, InitAlone, OwnTimer, LockAndManager, LockIsOwed,
        TimerIsSeenTo, CallDeinit, Panic, ghosts, Sessions, At, Goto, InInit, InDeinit
<1>1. CASE InitStep(t)
  BY <1>1 DEF InitStep, InitSet, InitCreate, InitQuery, InitStart, InitTimer
<1>2. CASE InitCheck(t)
  BY <1>2 DEF InitCheck
<1>3. CASE AppDeinit(t)
  BY <1>3 DEF AppDeinit
<1>4. ASSUME NEW p \in Procs, DeinitCheck(p)
      PROVE  OwnTimer'
  BY <1>4 DEF DeinitCheck
<1>5. ASSUME NEW p \in Procs, Deinit(p)
      PROVE  OwnTimer'
  BY <1>5 DEF Deinit
<1>6. ASSUME NEW p \in Procs, DeinitSync(p)
      PROVE  OwnTimer'
  BY <1>6 DEF DeinitSync
<1>7. ASSUME NEW p \in Procs, DeinitPost(p)
      PROVE  OwnTimer'
  BY <1>7 DEF DeinitPost
<1>8. ASSUME NEW p \in Procs, DeleteLock(p)
      PROVE  OwnTimer'
  BY <1>8 DEF DeleteLock
<1>9. ASSUME NEW p \in Procs, Clear(p)
      PROVE  OwnTimer'
  BY <1>9 DEF Clear, Procs
<1>10. ASSUME NEW s \in Sessions, Timeout(s)
      PROVE  OwnTimer'
  BY <1>10 DEF Timeout
<1>11. CASE StopService \/ ServiceStopped
  BY <1>11 DEF StopService, ServiceStopped
<1>12. CASE EndStep
  BY <1>12 DEF EndStep, HandleEnd, EndTimer, EndCheck
<1>13. CASE Reboot
  BY <1>13 DEF Reboot
<1>14. CASE UNCHANGED vars
  BY <1>14 DEF vars
<1> QED
  BY <1>1, <1>2, <1>3, <1>4, <1>5, <1>6, <1>7, <1>8, <1>9, <1>10, <1>11, <1>12, <1>13,
     <1>14
     DEF Next, DeinitStep

LEMMA LockAndManagerStep ==
  ASSUME NEW t, OneTask(t), DataType, Past, Core(t), Next, ~stray', fault = "none"
  PROVE  LockAndManager'
<1> USE ProcFacts, ProcsAssumption, BoundsAssumption
    DEF OneTask, DataType, Past, Core, InitAlone, OwnTimer, LockAndManager, LockIsOwed,
        TimerIsSeenTo, CallDeinit, Panic, ghosts, Sessions, At, Goto, InInit, InDeinit
<1>1. CASE InitStep(t)
  BY <1>1 DEF InitStep, InitSet, InitCreate, InitQuery, InitStart, InitTimer
<1>2. CASE InitCheck(t)
  BY <1>2 DEF InitCheck
<1>3. CASE AppDeinit(t)
  BY <1>3 DEF AppDeinit
<1>4. ASSUME NEW p \in Procs, DeinitStep(p)
      PROVE  LockAndManager'
  BY <1>4 DEF DeinitStep, DeinitCheck, Deinit, DeinitSync, DeinitPost, DeleteLock, Clear
<1>5. ASSUME NEW s \in Sessions, Timeout(s)
      PROVE  LockAndManager'
  BY <1>5 DEF Timeout
<1>6. CASE StopService \/ ServiceStopped
  BY <1>6 DEF StopService, ServiceStopped
<1>7. CASE EndStep
  BY <1>7 DEF EndStep, HandleEnd, EndTimer, EndCheck
<1>8. CASE Reboot
  BY <1>8 DEF Reboot
<1>9. CASE UNCHANGED vars
  BY <1>9 DEF vars
<1> QED
  BY <1>1, <1>2, <1>3, <1>4, <1>5, <1>6, <1>7, <1>8, <1>9
     DEF Next

LEMMA LockIsOwedStep ==
  ASSUME NEW t, OneTask(t), DataType, Past, Core(t), Next, ~stray', fault = "none"
  PROVE  LockIsOwed(t)'
<1> USE ProcFacts, ProcsAssumption, BoundsAssumption
    DEF OneTask, DataType, Past, Core, InitAlone, OwnTimer, LockAndManager, LockIsOwed,
        TimerIsSeenTo, CallDeinit, Panic, ghosts, Sessions, At, Goto, InInit, InDeinit
<1>1. CASE InitStep(t)
  BY <1>1 DEF InitStep, InitSet, InitCreate, InitQuery, InitStart, InitTimer
<1>2. CASE InitCheck(t)
  BY <1>2 DEF InitCheck
<1>3. CASE AppDeinit(t)
  BY <1>3 DEF AppDeinit
<1>4. ASSUME NEW p \in Procs, DeinitStep(p)
      PROVE  LockIsOwed(t)'
  BY <1>4 DEF DeinitStep, DeinitCheck, Deinit, DeinitSync, DeinitPost, DeleteLock, Clear
<1>5. ASSUME NEW s \in Sessions, Timeout(s)
      PROVE  LockIsOwed(t)'
  BY <1>5 DEF Timeout
<1>6. CASE StopService \/ ServiceStopped
  BY <1>6 DEF StopService, ServiceStopped
<1>7. CASE EndStep
  BY <1>7 DEF EndStep, HandleEnd, EndTimer, EndCheck
<1>8. CASE Reboot
  BY <1>8 DEF Reboot
<1>9. CASE UNCHANGED vars
  BY <1>9 DEF vars
<1> QED
  BY <1>1, <1>2, <1>3, <1>4, <1>5, <1>6, <1>7, <1>8, <1>9
     DEF Next

LEMMA TimerIsSeenToStep ==
  ASSUME NEW t, OneTask(t), DataType, Past, Core(t), Next, ~stray', fault = "none"
  PROVE  TimerIsSeenTo(t)'
<1> USE ProcFacts, ProcsAssumption, BoundsAssumption
    DEF OneTask, DataType, Past, Core, InitAlone, OwnTimer, LockAndManager, LockIsOwed,
        TimerIsSeenTo, CallDeinit, Panic, ghosts, Sessions, At, Goto, InInit, InDeinit
<1>1. CASE InitStep(t)
  BY <1>1 DEF InitStep, InitSet, InitCreate, InitQuery, InitStart, InitTimer
<1>2. CASE InitCheck(t)
  BY <1>2 DEF InitCheck
<1>3. CASE AppDeinit(t)
  BY <1>3 DEF AppDeinit
<1>4. ASSUME NEW p \in Procs, DeinitStep(p)
      PROVE  TimerIsSeenTo(t)'
  BY <1>4 DEF DeinitStep, DeinitCheck, Deinit, DeinitSync, DeinitPost, DeleteLock, Clear
<1>5. ASSUME NEW s \in Sessions, Timeout(s)
      PROVE  TimerIsSeenTo(t)'
  BY <1>5 DEF Timeout
<1>6. CASE StopService \/ ServiceStopped
  BY <1>6 DEF StopService, ServiceStopped
<1>7. CASE EndStep
  BY <1>7 DEF EndStep, HandleEnd, EndTimer, EndCheck
<1>8. CASE Reboot
  BY <1>8 DEF Reboot
<1>9. CASE UNCHANGED vars
  BY <1>9 DEF vars
<1> QED
  BY <1>1, <1>2, <1>3, <1>4, <1>5, <1>6, <1>7, <1>8, <1>9
     DEF Next

\* A panic stops everything but the reboot, which leaves nothing of a session.
LEMMA AfterPanic ==
  ASSUME NEW t, OneTask(t), Next, fault # "none"
  PROVE  Core(t)'
<1>1. Reboot
  BY DEF Next, InitStep, DeinitStep, EndStep, At, InitCheck, AppDeinit, InitSet,
     InitCreate, InitQuery, InitStart, InitTimer, DeinitCheck, Deinit, DeinitSync,
     DeinitPost, DeleteLock, Clear, Timeout, StopService, ServiceStopped, HandleEnd,
     EndTimer, EndCheck
<1>2. /\ \A p \in Procs : pc'[p] = "idle" /\ after'[p] = "idle"
      /\ \A s \in Sessions : timer'[s] = "none"
      /\ ~lock' /\ mgr' = "absent"
  BY <1>1 DEF Reboot
<1> QED
  BY <1>2, ProcFacts DEF OneTask, Core, InitAlone, OwnTimer, LockAndManager, LockIsOwed,
     TimerIsSeenTo, InInit, InDeinit

\* What strays goes on straying until then.
LEMMA StrayStays == Next /\ fault = "none" /\ stray => stray'
BY DEF Next, InitStep, DeinitStep, EndStep, Panic, ghosts, CallDeinit, Reboot,
   InitCheck, AppDeinit, InitSet, InitCreate, InitQuery, InitStart, InitTimer,
   DeinitCheck, Deinit, DeinitSync, DeinitPost, DeleteLock, Clear, Timeout, StopService,
   ServiceStopped, HandleEnd, EndTimer, EndCheck

LEMMA SessionInvHolds ==
  ASSUME NEW CONSTANT t, OneTask(t)
  PROVE  Spec => []SessionInv(t)
<1>1. SessionInv(t) /\ [Next]_vars => SessionInv(t)'
  <2> SUFFICES ASSUME SessionInv(t), [Next]_vars
               PROVE  SessionInv(t)'
    OBVIOUS
  <2>1. TypeOK' /\ FlagOfSession' /\ Past'
    BY TypeStep, PastStep DEF SessionInv, TypeOK, DataType
  <2>2. ASSUME Next, ~stray', fault = "none"
        PROVE  Core(t)'
    <3>1. Core(t) /\ DataType /\ Past
      BY <2>2, StrayStays DEF SessionInv, TypeOK, DataType
    <3> QED
      BY <2>2, <3>1, InitAloneStep, OwnTimerStep, LockAndManagerStep, LockIsOwedStep,
         TimerIsSeenToStep DEF Core
  <2>3. CASE UNCHANGED vars
    BY <2>3 DEF SessionInv, TypeOK, FlagOfSession, Past, Core, InitAlone, OwnTimer,
       LockAndManager, LockIsOwed, TimerIsSeenTo, vars, ghosts
  <2> QED
    BY <2>1, <2>2, <2>3, AfterPanic DEF SessionInv
<1> QED
  BY <1>1, SessionInit, PTL DEF Spec

-----------------------------------------------------------------------------
\* A timeout hits only the session it was set for, in whatever order the
\* application, the timer and the END handler end one session after the other,
\* as long as no timer of a session that the application ended fires.
THEOREM TimerIsOwn ==
  ASSUME NEW CONSTANT t, OneTask(t)
  PROVE  Spec => []OneTimer
<1>1. SessionInv(t) => OneTimer
  BY DEF SessionInv, Core, OwnTimer, OneTimer
<1> QED
  BY <1>1, SessionInvHolds, PTL

\* When the flag is down and nobody is at work nothing of a session is left, no
\* manager, no lock and no armed timer but of a session that was left, whoever
\* ended it and however far the others came with ending it, too.
THEOREM NothingIsLeft ==
  ASSUME NEW CONSTANT t, OneTask(t)
  PROVE  Spec => []QuietIsClean
<1>1. ASSUME SessionInv(t), ~stray, Quiet, ~status
      PROVE  mgr = "absent" /\ ~lock /\ \A s \in Sessions : timer[s] = "armed" => s \in left
  <2>1. Core(t) /\ t \in Procs
    BY <1>1, ProcFacts DEF SessionInv, OneTask
  <2>2. ~lock
    BY <1>1, <2>1 DEF Core, LockIsOwed, Quiet, InInit, InDeinit
  <2> QED
    BY <1>1, <2>1, <2>2 DEF Core, LockAndManager, OwnTimer
<1>2. SessionInv(t) => QuietIsClean
  BY <1>1 DEF QuietIsClean
<1> QED
  BY <1>2, SessionInvHolds, PTL
===============================================================================
