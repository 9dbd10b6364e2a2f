---------------------------- MODULE MCProvManager ----------------------------
(***************************************************************************)
(* Instances of ProvManager for TLC.                                       *)
(***************************************************************************)
EXTENDS ProvRefinement, TLC

CONSTANTS t1, t2

TwoTasks == {t1, t2}

\* t1 owns the manager (esp_mesh_lite_wifi_prov_mgr_init and _deinit run in one
\* task); t2 is any other task of the application.
OwnerAndStopper ==
  t1 :> {"init", "start", "deinit", "disable"}
    @@ t2 :> {"stop", "wait", "disable"}

\* The owner hands over the credentials itself, instead of a client.
OwnerConfigures ==
  t1 :> {"init", "start", "config", "deinit"}
    @@ t2 :> {"stop", "wait", "disable"}

\* Beside the owner a task that makes every call but those that start or destroy
\* the manager or declare a service started, at any time.
OwnerAndAnything ==
  t1 :> {"init", "start", "deinit", "disable", "reprov"}
    @@ t2 :> {"stop", "disable", "reset"}
=============================================================================
