--------------------------- MODULE ProvRefinement ---------------------------
(***************************************************************************)
(* ProvManager implements ProvLifecycle, as long as one task owns the      *)
(* manager and nothing is left over from before a stop (Regular in         *)
(* ProvManager_proofs): the manager's state stands for the phase, and the  *)
(* endpoints of the protocomm instance for a service that is on the air.   *)
(***************************************************************************)
EXTENDS ProvManager

Phase ==
  CASE ctx # "live" -> "absent"
    [] ctx = "live" /\ state = "IDLE" -> "idle"
    [] ctx = "live" /\ state = "STARTING" -> "starting"
    [] ctx = "live" /\ state = "STOPPING" -> "stopping"
    [] ctx = "live" /\ Running -> "running"

Lifecycle ==
  INSTANCE ProvLifecycle WITH phase <- Phase, serving <- pcomm = "up", stray <- stray

\* Every step of the manager is a step of the promised life cycle, or changes
\* nothing a client or the application could see of it.
ImplementsLifecycle == Lifecycle!Spec
=============================================================================
