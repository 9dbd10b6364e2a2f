---------------------------- MODULE MCProvSession ----------------------------
(***************************************************************************)
(* Instances of ProvSession for TLC: the default event loop and the timer  *)
(* task around the application's tasks.                                    *)
(***************************************************************************)
EXTENDS ProvSession

CONSTANTS app, other

OneTask == {app}
TwoTasks == {app, other}
=============================================================================
