---------------------------- MODULE ProvRequests ----------------------------
(***************************************************************************)
(* The requests of a client to the endpoints prov-config, prov-scan and    *)
(* prov-ctrl (components/wifi_provisioning/src/wifi_config.c, wifi_scan.c, *)
(* wifi_ctrl.c, handlers.c and the functions of manager.c they call), on   *)
(* top of the service that ProvService puts together and takes apart.      *)
(*                                                                         *)
(* Between two calls that take the manager's lock, the event loop and the  *)
(* application come in: a request is followed from one such call to the    *)
(* next. Of a request's memory every block is kept track of, for any       *)
(* allocation may fail.                                                    *)
(***************************************************************************)
EXTENDS ProvService

(* A definition whose comment begins with "Defect:" is a variant of the    *)
(* definition after it, the way a mistake in the code would have it. The   *)
(* specification does not use it: a property's run has to fail with it.    *)

CONSTANTS
  Creds,       \* Wi-Fi credentials, with the mesh data that goes with them
  MaxResults,  \* MAX_SCAN_RESULTS
  Follow       \* bound: the sets of endpoints whose requests are followed in
               \* one behaviour

ASSUME CredsAssumption == {None, "mangled"} \cap Creds = {}
ASSUME ResultsAssumption == MaxResults \in Nat
ASSUME FollowAssumption == Follow \subseteq SUBSET Data

ConfigRequests ==
  [to : {"prov-config"}, cmd : {"GetStatus", "ApplyConfig", "Other"}] \cup
  [to : {"prov-config"}, cmd : {"SetConfig"}, creds : Creds, valid : BOOLEAN, fits : BOOLEAN]
ScanRequests ==
  [to : {"prov-scan"}, cmd : {"ScanStatus", "Other"}] \cup
  [to : {"prov-scan"}, cmd : {"ScanStart"}, blocking : BOOLEAN] \cup
  [to : {"prov-scan"}, cmd : {"ScanResult"}, first : 0..MaxResults, count : 0..MaxResults]
CtrlRequests == [to : {"prov-ctrl"}, cmd : {"CtrlReset", "CtrlReprov", "Other"}]
Requests == ConfigRequests \cup ScanRequests \cup CtrlRequests

NoRequest == [to |-> None, cmd |-> None]
Mangled == "mangled"  \* mesh data that are not what the client sent
Strings == {"ip4", "bssid", "ssid"}
Blocks == {"req", "payload", "connected", "results", "entry"} \cup Strings
Labels == {"idle", "called", "done", "connected", "reason", "count", "entries", "wait",
           "apply", "reply", "over", "panic"}

VARIABLES
  follow,     \* the endpoints whose requests come, followed in detail
  autoStop,   \* ~mgr_info.capabilities.no_auto_stop
  wifi,       \* prov_ctx->wifi_state
  why,        \* prov_ctx->wifi_disconnect_reason
  config,     \* wifi_prov_handlers->ctx: None, or what the last SetConfig brought
  meshConfig, \* mesh_lite_cfg in it
  scanning,   \* prov_ctx->scanning
  listed,     \* the length of ap_list_sorted
  req,        \* the request being served
  at,         \* how far
  heap,       \* the blocks it has allocated
  lost,       \* the blocks nobody can free any more when it is over
  short,      \* has an allocation failed?
  reply,      \* the answer
  sta,        \* what the Wi-Fi driver has been given
  mesh,       \* what this ApplyConfig has given the application with CUST_DATA_RECV
  offered,    \* history: the last credentials whose SetConfig succeeded
  whole,      \* history: did its SoftAP name and passphrase fit?
  told,       \* history: the number of results the client knows of, from the answer
              \* that this service's last scan has finished
  origin      \* history: where wifi comes from: "none", "own" for credentials
              \* applied since the service was started, "old"

wifiVars == <<wifi, why, origin>>
scanVars == <<scanning, listed, told>>
memory == <<heap, lost, short>>
credVars == <<config, meshConfig, sta, mesh, offered, whole>>
requestVars == <<follow, autoStop, wifiVars, scanVars, req, at, memory, reply, credVars>>
vars == <<serviceVars, requestVars>>

NoReply == [status |-> None, sta |-> None, why |-> None]
Answer(s) == [NoReply EXCEPT !.status = s]

Init ==
  /\ ServiceInit
  /\ follow \in Follow /\ autoStop \in BOOLEAN
  /\ wifi = "CONNECTING" /\ why = "auth" /\ origin = "none"
  /\ config = None /\ meshConfig = None /\ sta = None /\ mesh = None
  /\ offered = None /\ whole = TRUE
  /\ scanning = FALSE /\ listed = 0 /\ told = 0
  /\ req = NoRequest /\ at = "idle" /\ reply = NoReply
  /\ heap = {} /\ lost = {} /\ short = FALSE
-----------------------------------------------------------------------------
(* A request from its arrival to its end.                                  *)

Called(c) == at = "called" /\ req.cmd = c

\* wifi_prov_config_data_handler and the like, up to the dispatcher. (A message
\* that cannot be unpacked is refused before anything happens. Bound: not while
\* the service is being started; ProvManager has those that come early.)
Receive(m) ==
  /\ m.to \in follow
  /\ state \in Running \cup {"STOPPING"}
  /\ Deliver(m.to)
  /\ req' = m /\ at' = "called" /\ heap' = {"req"}
  /\ UNCHANGED <<follow, autoStop, wifiVars, scanVars, lost, short, reply, credVars>>

End(l) ==
  /\ at' = "over" /\ lost' = l
  /\ heap' = {} /\ reply' = NoReply

\* Defect: the request is freed only when it has been served.
AbandonAll(blocks_left) == End(blocks_left)

\* The dispatcher fails: prov-config returns at once, the others free the
\* request, and the answer with nothing behind it has no type yet.
Abandon(blocks_left) ==
  End(IF req.to = "prov-config" THEN blocks_left ELSE blocks_left \ {"req"})

\* A command that is in no cmd_table.
RefuseCommand ==
  /\ Called("Other")
  /\ Abandon(heap)
  /\ UNCHANGED <<serviceVars, follow, autoStop, wifiVars, scanVars, req, short, credVars>>

\* No memory for the answer's payload: the handler is not called.
PayloadFails ==
  /\ at = "called" /\ req.cmd # "Other"
  /\ short' = TRUE
  /\ Abandon(heap)
  /\ UNCHANGED <<serviceVars, follow, autoStop, wifiVars, scanVars, req, credVars>>

Reply(answer, blocks_got) ==
  /\ at' = "reply" /\ reply' = answer
  /\ heap' = heap \cup blocks_got

\* An ApplyConfig that got as far as its handler has had its credentials.
Served ==
  /\ IF req.cmd = "ApplyConfig"
       THEN offered' = None /\ whole' = TRUE /\ mesh' = None
       ELSE UNCHANGED <<offered, whole, mesh>>
  /\ UNCHANGED <<serviceVars, follow, autoStop, wifiVars, scanVars, req, config,
                 meshConfig, sta>>

\* An answer about results has as many entries as were asked for. Where one is
\* not there it is NULL, and packing the answer reads through it.
Packable == ~(req.cmd = "ScanResult" /\ reply.status = "InternalError")

\* The answer is packed and given to protocomm, and everything freed.
SendReply ==
  /\ at = "reply" /\ Packable
  /\ End({})
  /\ Served /\ UNCHANGED short

\* No memory for the packed answer: prov-config forgets the payload.
SendReplyFails ==
  /\ at = "reply" /\ Packable
  /\ short' = TRUE
  /\ End(IF req.to = "prov-config" THEN heap \ {"req"} ELSE {})
  /\ Served

Over ==
  /\ at = "over"
  /\ Handled
  /\ at' = "idle" /\ req' = NoRequest /\ lost' = {} /\ short' = FALSE
  /\ UNCHANGED <<follow, autoStop, wifiVars, scanVars, heap, reply, credVars>>

-----------------------------------------------------------------------------
(* prov-config: GetStatus                                                  *)

\* get_status_handler begins with wifi_prov_mgr_get_wifi_state.
GetStatus ==
  /\ Called("GetStatus")
  /\ CASE wifi = "CONNECTED" ->
            at' = "done" /\ heap' = heap \cup {"payload"} /\ UNCHANGED reply
       [] wifi = "DISCONNECTED" ->
            at' = "reason" /\ heap' = heap \cup {"payload"} /\ UNCHANGED reply
       [] OTHER ->
            Reply([Answer("Success") EXCEPT !.sta = "Connecting"], {"payload"})
  /\ UNCHANGED <<serviceVars, follow, autoStop, wifiVars, scanVars, req, lost, short,
                 credVars>>

StopScanning == scanning' = FALSE /\ listed' = 0 /\ told' = 0

\* wifi_prov_mgr_done
GetStatusDone ==
  /\ at = "done"
  /\ at' = "connected"
  /\ IF autoStop /\ state \in Running
       THEN StopService /\ StopScanning /\ UNCHANGED client
       ELSE UNCHANGED <<serviceVars, scanVars>>
  /\ UNCHANGED <<follow, autoStop, wifiVars, req, memory, reply, credVars>>

\* The answer about a connection is put together from four more blocks. When
\* one cannot be had, those before it are freed, except "connected" itself.
Connected ==
  /\ at = "connected"
  /\ \/ /\ Reply([Answer("Success") EXCEPT !.sta = "Connected"],
                 {"connected"} \cup Strings)
        /\ UNCHANGED <<lost, short>>
     \/ /\ short' = TRUE
        /\ \E got \in {{}, {"connected"}} : Abandon({"req"} \cup got)
  /\ UNCHANGED <<serviceVars, follow, autoStop, wifiVars, scanVars, req, credVars>>

\* wifi_prov_mgr_get_wifi_disconnect_reason: the connection may be there now,
\* and then the reason is that of a memset, WIFI_PROV_STA_AUTH_ERROR.
GetReason ==
  /\ at = "reason"
  /\ Reply([Answer("Success") EXCEPT !.sta = "ConnectionFailed",
              !.why = IF wifi = "DISCONNECTED" THEN why ELSE "auth"], {})
  /\ UNCHANGED <<serviceVars, follow, autoStop, wifiVars, scanVars, req, lost, short,
                 credVars>>

-----------------------------------------------------------------------------
(* prov-config: SetConfig, ApplyConfig                                     *)

\* set_config_handler: what was set before is freed, also when there is no
\* memory for the new.
NewConfig(m) ==
  /\ config' \in {m.creds, None} /\ offered' = config' /\ whole' = m.fits
  /\ meshConfig' = IF config' = None THEN None ELSE IF m.fits THEN m.creds ELSE Mangled

\* BSSID, SSID or passphrase of a wrong length are refused, and what was set
\* before stays. The SoftAP's name and passphrase are copied whatever their
\* length: over the end of theirs, unless the device does not survive it.
SetConfig ==
  /\ Called("SetConfig")
  /\ \/ /\ ~req.valid
        /\ Reply(Answer("InvalidArgument"), {"payload"})
        /\ UNCHANGED <<config, meshConfig, offered, whole>>
     \/ /\ req.valid
        /\ NewConfig(req)
        /\ Reply(Answer(IF config' = None THEN "InternalError" ELSE "Success"),
                 {"payload"})
  /\ UNCHANGED <<serviceVars, follow, autoStop, wifiVars, scanVars, req, lost, short,
                 sta, mesh>>

\* apply_config_handler: the application gets the mesh data first, while the
\* lock is free (wifi_prov_mgr_configure_meshlite). When there is no memory for
\* the event it does not, and nobody is told.
ApplyMesh ==
  /\ Called("ApplyConfig")
  /\ \/ /\ config = None
        /\ Reply(Answer("InternalError"), {"payload"})
        /\ UNCHANGED <<mesh, short>>
     \/ /\ config # None
        /\ \/ mesh' = meshConfig /\ UNCHANGED short
           \/ short' = TRUE /\ UNCHANGED mesh
        /\ at' = "apply" /\ heap' = heap \cup {"payload"} /\ UNCHANGED reply
  /\ UNCHANGED <<serviceVars, follow, autoStop, wifiVars, scanVars, req, lost, config,
                 meshConfig, sta, offered, whole>>

WithState(s) ==
  /\ state' = s
  /\ UNCHANGED <<managerVars, step, failing, startVars, securityVars, protocommVars,
                 transport, advert, ownedVars, client>>

\* Defect: what has been applied is kept.
ApplyStaKeeps ==
  /\ at = "apply"
  /\ \/ /\ state \notin {"STARTED"}
        /\ Reply(Answer("InternalError"), {})
        /\ UNCHANGED <<serviceVars, wifiVars, sta>>
     \/ /\ state = "STARTED"
        /\ Reply(Answer("InternalError"), {})
        /\ sta' \in {sta, config}
        /\ UNCHANGED <<serviceVars, wifiVars>>
     \/ /\ state = "STARTED"
        /\ Reply(Answer("Success"), {})
        /\ sta' = config
        /\ wifi' = "CONNECTING" /\ origin' = "own" /\ UNCHANGED why
        /\ WithState("CRED_RECV")
  /\ UNCHANGED <<follow, autoStop, scanVars, req, lost, short, config, meshConfig, mesh,
                 offered, whole>>

\* wifi_prov_mgr_configure_sta, which takes credentials once. The driver may
\* refuse them, or accept them and the connect timer not start. Either way they
\* are freed.
ApplySta ==
  /\ at = "apply"
  /\ \/ /\ state # "STARTED"
        /\ Reply(Answer("InternalError"), {})
        /\ UNCHANGED <<serviceVars, wifiVars, sta>>
     \/ /\ state = "STARTED"
        /\ Reply(Answer("InternalError"), {})
        /\ sta' \in {sta, config}
        /\ UNCHANGED <<serviceVars, wifiVars>>
     \/ /\ state = "STARTED"
        /\ Reply(Answer("Success"), {})
        /\ sta' = config
        /\ wifi' = "CONNECTING" /\ origin' = "own" /\ UNCHANGED why
        /\ WithState("CRED_RECV")
  /\ config' = None /\ meshConfig' = None
  /\ UNCHANGED <<follow, autoStop, scanVars, req, lost, short, mesh, offered, whole>>

-----------------------------------------------------------------------------
(* prov-scan                                                               *)

\* wifi_prov_mgr_wifi_scan_start: a scan that is running answers for this one.
ScanStart ==
  /\ Called("ScanStart")
  /\ told' = 0
  /\ \/ /\ scanning
        /\ Reply(Answer("Success"), {"payload"})
        /\ UNCHANGED <<scanning, listed>>
     \/ /\ ~scanning
        /\ listed' = 0 /\ scanning' = TRUE
        /\ IF req.blocking
             THEN at' = "wait" /\ heap' = heap \cup {"payload"} /\ UNCHANGED reply
             ELSE Reply(Answer("Success"), {"payload"})
     \/ /\ ~scanning
        /\ listed' = 0 /\ UNCHANGED scanning
        /\ Reply(Answer("InternalError"), {"payload"})
  /\ UNCHANGED <<serviceVars, follow, autoStop, wifiVars, req, lost, short, credVars>>

ScanWaited ==
  /\ at = "wait" /\ ~scanning
  /\ Reply(Answer("Success"), {})
  /\ UNCHANGED <<serviceVars, follow, autoStop, wifiVars, scanVars, req, lost, short,
                 credVars>>

\* wifi_prov_mgr_wifi_scan_finished, then wifi_prov_mgr_wifi_scan_result_count
\* (reply.why holds what the first has told).
ScanFinished ==
  /\ Called("ScanStatus")
  /\ at' = "count" /\ heap' = heap \cup {"payload"}
  /\ reply' = [NoReply EXCEPT !.why = IF scanning THEN "running" ELSE "finished"]
  /\ UNCHANGED <<serviceVars, follow, autoStop, wifiVars, scanVars, req, lost, short,
                 credVars>>

ScanCount ==
  /\ at = "count"
  /\ told' = IF reply.why = "finished" THEN listed ELSE told
  /\ Reply([reply EXCEPT !.status = "Success"], {})
  /\ UNCHANGED <<serviceVars, follow, autoStop, wifiVars, scanning, listed, req, lost,
                 short, credVars>>

\* cmd_scan_result_handler begins with the array of the results.
ScanResults ==
  /\ Called("ScanResult")
  /\ \/ /\ at' = "entries"
        /\ heap' = heap \cup {"payload"} \cup (IF req.count = 0 THEN {} ELSE {"results"})
        /\ UNCHANGED <<lost, short, reply>>
     \/ /\ req.count > 0
        /\ short' = TRUE
        /\ Abandon(heap \cup {"payload"})
  /\ UNCHANGED <<serviceVars, follow, autoStop, wifiVars, scanVars, req, credVars>>

\* Defect: results are counted from 1.
ReadFromOne(first, count) == IF first + count < listed THEN "Success" ELSE "InternalError"

\* wifi_prov_mgr_wifi_scan_result for one entry after the other: they come from
\* a list that only a stop of the service takes away meanwhile.
ReadResults(first, count) ==
  IF count = 0 \/ first + count <= listed THEN "Success" ELSE "InternalError"

\* The first entry that is not there ends the loop, one without memory the
\* request. (The list does not shrink while a scan goes on: it is enough to
\* look at it once.)
ScanEntries ==
  /\ at = "entries"
  /\ \/ /\ Reply(Answer(ReadResults(req.first, req.count)),
                 IF req.count > 0 /\ req.first < listed THEN {"entry"} ELSE {})
        /\ UNCHANGED <<lost, short>>
     \/ /\ req.count > 0 /\ req.first < listed
        /\ short' = TRUE
        /\ Abandon(heap \cup {"entry"})
  /\ UNCHANGED <<serviceVars, follow, autoStop, wifiVars, scanVars, req, credVars>>

-----------------------------------------------------------------------------
(* prov-ctrl                                                               *)

\* wifi_prov_mgr_reset_sm_state_on_failure
CtrlReset ==
  /\ Called("CtrlReset")
  /\ \/ /\ Reply(Answer("InternalError"), {"payload"})
        /\ UNCHANGED <<serviceVars, sta>>
     \/ /\ state = "FAIL"
        /\ Reply(Answer("Success"), {"payload"})
        /\ sta' = None
        /\ WithState("STARTED")
  /\ UNCHANGED <<follow, autoStop, wifiVars, scanVars, req, lost, short, config,
                 meshConfig, mesh, offered, whole>>

\* wifi_prov_mgr_reset_sm_state_for_reprovision: wifi_state stays as it is.
\* (Bound: not while the service is being stopped; ProvManager has that.)
CtrlReprov ==
  /\ Called("CtrlReprov")
  /\ \/ /\ Reply(Answer("InternalError"), {"payload"})
        /\ sta' \in IF autoStop THEN {sta} ELSE {sta, None}
        /\ UNCHANGED <<serviceVars, origin>>
     \/ /\ ~autoStop /\ state # "STOPPING"
        /\ Reply(Answer("Success"), {"payload"})
        /\ sta' = None
        /\ origin' = "old"
        /\ WithState("STARTED")
  /\ UNCHANGED <<follow, autoStop, wifi, why, scanVars, req, lost, short, config,
                 meshConfig, mesh, offered, whole>>

-----------------------------------------------------------------------------
(* The event loop.                                                         *)

\* update_wifi_scan_results: a list, or one of the lists of a scan in groups.
ScanDone ==
  /\ "prov-scan" \in follow /\ "WIFI" \in handlers
  /\ state = "STARTED" /\ scanning
  /\ listed' \in listed..MaxResults
  /\ scanning' \in BOOLEAN
  /\ UNCHANGED <<serviceVars, follow, autoStop, wifiVars, told, req, at, memory, reply,
                 credVars>>

\* Defect: the mesh core's own connection is taken for the client's.
TryingOrNot == "prov-config" \in follow /\ state \in Running

Trying == "prov-config" \in follow /\ state \in {"CRED_RECV", "FAIL", "SUCCESS"}

StaGotIp ==
  /\ Trying
  /\ wifi' = "CONNECTED" /\ UNCHANGED <<why, origin>>
  /\ WithState("SUCCESS")
  /\ UNCHANGED <<follow, autoStop, scanVars, req, at, memory, reply, credVars>>

\* Only these two reasons end the attempt.
StaDisconnected(r) ==
  /\ Trying
  /\ wifi' = "DISCONNECTED" /\ why' = r /\ UNCHANGED origin
  /\ WithState("FAIL")
  /\ UNCHANGED <<follow, autoStop, scanVars, req, at, memory, reply, credVars>>

\* WIFI_EVENT_STA_START, or a disconnection for another reason.
StaConnecting ==
  /\ Trying
  /\ wifi' = "CONNECTING" /\ UNCHANGED <<why, origin>>
  /\ UNCHANGED <<serviceVars, follow, autoStop, scanVars, req, at, memory, reply, credVars>>

-----------------------------------------------------------------------------
(* The service around the requests.                                        *)

\* Bound: where requests are followed, the service is a plain one over BLE.
Plain ==
  /\ scheme' = "ble" /\ build' = 0..2 /\ uuid' <= LastUuid /\ ~appInfo'
  /\ "custom" \notin endpoints' /\ advert' = NoAdvert
  /\ start' \in {NoStartYet, [sec |-> 1, given |-> TRUE]}
  /\ ctx' # "freed" /\ past' \in {"new", "first", "stopped"} /\ failing' = "no"

Service ==
  /\ ServiceStep
  /\ follow # {} => Plain
  /\ IF "prov-config" \in blocks'
       THEN UNCHANGED <<config, meshConfig, offered, whole>>
       ELSE config' = None /\ meshConfig' = None /\ offered' = None /\ whole' = TRUE
  /\ IF ctx = "null"
       THEN wifi' = "CONNECTING" /\ why' = "auth" /\ origin' = "none"
       ELSE /\ origin' = IF state' = "STARTING" /\ origin = "own" THEN "old" ELSE origin
            /\ UNCHANGED <<wifi, why>>
  /\ IF state' = "STOPPING" /\ state # "STOPPING" THEN StopScanning ELSE UNCHANGED scanVars
  /\ UNCHANGED <<follow, autoStop, req, at, memory, reply, sta, mesh>>

\* What is not followed is only when a handler runs.
Unfollowed ==
  /\ follow = {}
  /\ (\E e \in Endpoints : Deliver(e)) \/ Handled
  /\ UNCHANGED requestVars

Serve ==
  \/ \E m \in Requests : Receive(m)
  \/ RefuseCommand \/ PayloadFails \/ SendReply \/ SendReplyFails \/ Over
  \/ GetStatus \/ GetStatusDone \/ Connected \/ GetReason
  \/ SetConfig \/ ApplyMesh \/ ApplySta
  \/ ScanStart \/ ScanWaited \/ ScanFinished \/ ScanCount \/ ScanResults \/ ScanEntries
  \/ CtrlReset \/ CtrlReprov

Events == ScanDone \/ StaGotIp \/ StaConnecting \/ \E r \in {"auth", "absent"} : StaDisconnected(r)

Work == at # "panic" /\ (Service \/ Unfollowed \/ Serve \/ Events)

\* A fault in the handler of a request: nothing goes on. The device starts again,
\* and what follows is another behaviour from the beginning.
Panic ==
  /\ \/ Called("SetConfig") /\ req.valid /\ ~req.fits
     \/ at = "reply" /\ ~Packable
  /\ at' = "panic"
  /\ UNCHANGED <<serviceVars, follow, autoStop, wifiVars, scanVars, req, memory, reply,
                 credVars>>

Next == Work \/ Panic

Spec == Init /\ [][Next]_vars

-----------------------------------------------------------------------------
TypeOK ==
  /\ ServiceTypeOK
  /\ follow \in Follow /\ autoStop \in BOOLEAN
  /\ wifi \in {"CONNECTING", "CONNECTED", "DISCONNECTED"} /\ why \in {"auth", "absent"}
  /\ {config, sta, offered} \subseteq Creds \cup {None} /\ whole \in BOOLEAN
  /\ {meshConfig, mesh} \subseteq Creds \cup {None, Mangled}
  /\ scanning \in BOOLEAN /\ listed \in 0..MaxResults /\ told \in 0..MaxResults
  /\ req \in Requests \cup {NoRequest} /\ at \in Labels
  /\ heap \subseteq Blocks /\ lost \subseteq Blocks /\ short \in BOOLEAN
  /\ reply \in [status : {None, "Success", "InvalidArgument", "InternalError"},
                sta : {None, "Connecting", "Connected", "ConnectionFailed"},
                why : {None, "auth", "absent", "running", "finished"}]
  /\ origin \in {"none", "own", "old"}

\* A client whose ApplyConfig succeeds has had applied what its last successful
\* SetConfig brought, the mesh data with the credentials: not what was refused,
\* not what an earlier ApplyConfig has used up. Two things the answer does not
\* tell it: that the mesh data never reached the application, because there was
\* no memory for the event, and that a SoftAP name or passphrase was too long.
AppliedAsSet ==
  at = "reply" /\ req.cmd = "ApplyConfig" /\ reply.status = "Success" =>
    /\ offered # None /\ sta = offered
    /\ ~short => mesh = (IF whole THEN offered ELSE Mangled)

\* "Connected" is said of credentials this client applied: events that belong
\* to the mesh core's own connection do not count. Only after a second start or
\* a CtrlReprov may it be a connection from before.
ConnectedIsOwn == at \in {"done", "connected"} => origin \in {"own", "old"}

\* A client that asks for no more results than it was told of gets them all,
\* while the service is not asked to stop. (Otherwise the device does not survive
\* the answer, see Panic.)
ToldResultsAreThere ==
  at = "reply" /\ req.cmd = "ScanResult" /\ reply.status = "InternalError" =>
    req.first + req.count > told

\* Memory is lost only with a request that had not enough of it, or, the
\* request itself, with an unknown command to prov-config.
LostOnlyWhenShort ==
  lost # {} => short \/ (lost = {"req"} /\ req.cmd = "Other" /\ req.to = "prov-config")
=============================================================================
