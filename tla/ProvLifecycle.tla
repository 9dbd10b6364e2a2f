---------------------------- MODULE ProvLifecycle ----------------------------
(***************************************************************************)
(* What the provisioning manager promises its application, as              *)
(* wifi_provisioning/manager.h words it: a manager that is created and     *)
(* destroyed, and in between a service that is started and stopped. The    *)
(* service is on the air only from a start to the end of the stop, and the *)
(* manager is never destroyed under a service that is on the air.          *)
(* One thing that manager.h does not say is part of it: a start may leave  *)
(* its transport up, with no service on it, when the security version      *)
(* asked for is not built in (manager.c:336, 344, 352). From then on no    *)
(* service goes on the air before the device reboots.                      *)
(***************************************************************************)
VARIABLES
  phase,    \* of the manager and its service
  serving,  \* can a client reach the service?
  stray     \* has a failed start left a transport up?

Phases == {"absent", "idle", "starting", "running", "stopping"}

Init == phase = "absent" /\ serving = FALSE /\ stray = FALSE

Move(from, to) == phase = from /\ phase' = to /\ UNCHANGED <<serving, stray>>

Create == Move("absent", "idle")
Begin == Move("idle", "starting")
Ready == serving /\ Move("starting", "running")
Abort == ~serving /\ Move("starting", "idle")
StopRequest == Move("running", "stopping")
Destroy == ~serving /\ (Move("idle", "absent") \/ Move("stopping", "absent"))

GoOnAir ==
  /\ phase = "starting" /\ ~serving /\ ~stray
  /\ serving' = TRUE
  /\ UNCHANGED <<phase, stray>>

\* A start that fails while its transport has no endpoint yet.
Strand ==
  /\ phase = "starting" /\ ~serving /\ ~stray
  /\ stray' = TRUE
  /\ UNCHANGED <<phase, serving>>

\* A failed start takes the service off the air, and so does a stop. When the
\* stop was asked for by wifi_prov_mgr_deinit the manager is not idle again
\* before it is destroyed.
GoOffAir ==
  /\ phase \in {"starting", "stopping"}
  /\ serving
  /\ serving' = FALSE
  /\ UNCHANGED stray
  /\ \/ UNCHANGED phase
     \/ phase = "stopping" /\ phase' = "idle"

\* The device reboots.
Crash == phase' = "absent" /\ serving' = FALSE /\ stray' = FALSE

Next ==
  \/ Create \/ Begin \/ Ready \/ Abort \/ StopRequest \/ Destroy
  \/ GoOnAir \/ Strand \/ GoOffAir \/ Crash

Spec == Init /\ [][Next]_<<phase, serving, stray>>
=============================================================================
