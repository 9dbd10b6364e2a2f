----------------------------- MODULE ProvService -----------------------------
(***************************************************************************)
(* The provisioning service of components/wifi_provisioning: what          *)
(* wifi_prov_mgr_start_service puts together step by step and what it      *)
(* takes apart again when a step fails or the service is stopped           *)
(* (src/manager.c), over a transport (src/scheme_ble.c, scheme_softap.c,   *)
(* scheme_console.c). ProvManager has the life cycle of the manager around *)
(* it, with its lock, timers and events; here the service may be started   *)
(* and stopped by one application task, while the transport task already   *)
(* or still calls the handlers of its endpoints.                           *)
(***************************************************************************)
EXTENDS Naturals, Sequences

(* A definition whose comment begins with "Defect:" is a variant of the    *)
(* definition after it, the way a mistake in the code would have it. The   *)
(* specification does not use it: a property's run has to fail with it.    *)

CONSTANTS
  Schemes,      \* the schemes an application may choose
  Builds,       \* the sets of security versions that protocomm may be built with
  Asked,        \* the security versions the application asks for
  NameLens,     \* the lengths of the names of the service
  DataLens,     \* the lengths of the manufacturer data, 0 for none
  MaxStarts,    \* bound: calls of wifi_prov_mgr_start_provisioning
  MaxCreated    \* bound: endpoints the application creates

ASSUME SchemesAssumption == Schemes \subseteq {"ble", "softap", "console"}
ASSUME VersionsAssumption == Builds \subseteq SUBSET (0..2) /\ Asked \subseteq 0..3
ASSUME LengthsAssumption == NameLens \subseteq Nat /\ DataLens \subseteq Nat
ASSUME BoundsAssumption == MaxStarts \in Nat /\ MaxCreated \in Nat

None == "none"
Starts == 1..MaxStarts
NoStart == 0

\* What wifi_prov_mgr_start_service does, in order.
Building == <<"protocomm", "configure", "transport", "prov-session", "proto-ver",
              "prov-config", "prov-scan", "prov-ctrl", "WIFI", "IP", "PVT">>

\* Defect: the security endpoint goes first.
RemovingSecurityFirst ==
  <<"prov-session", "prov-ctrl", "prov-scan", "prov-config", "proto-ver">>

\* The endpoints that prov_stop_and_notify removes, in order.
Removing == <<"prov-ctrl", "prov-scan", "prov-config", "prov-session", "proto-ver">>

Data == {"prov-config", "prov-scan", "prov-ctrl"}  \* they have a block each
Endpoints == Data \cup {"prov-session", "proto-ver", "custom"}
Handlers == {"WIFI", "IP", "PVT"}
States == {"IDLE", "STARTING", "STARTED", "CRED_RECV", "FAIL", "SUCCESS",
           "STOPPING"}
Running == {"STARTED", "CRED_RECV", "FAIL", "SUCCESS"}

\* The UUIDs 0xFF4F to 0xFF53 are those of the endpoints of the manager.
FirstUuid == 1
LastUuid == 5

VARIABLES
  build,      \* the security versions compiled into protocomm
  ctx,        \* prov_ctx: "null", "live", "freed" after a failed initialization
  scheme,     \* the scheme of the manager
  lookup,     \* the BLE scheme's table: the UUID of one endpoint after the other
  uuid,       \* endpoint_uuid_used
  appInfo,    \* app_info_json # NULL
  state,      \* prov_state
  step,       \* how far the service is built or taken apart
  failing,    \* a start that failed: "no", "stop", "return"
  start,      \* history: what the application asked for with the last start
  past,       \* history: the starts since the initialization: "new", "first",
              \* "stopped" (all before this one were), "failed" (one failed),
              \* "stuck" (one for a security version that is not built)
  starts,     \* the number of starts; the copy of the pop of start i is i
  failed,     \* history: the starts that failed
  security,   \* prov_ctx->security
  noSec,      \* mgr_info.capabilities.no_sec
  noPop,      \* mgr_info.capabilities.no_pop
  params,     \* protocomm_sec_params: "null", "sec1" or "sec2"
  pop,        \* sec1_params.data
  pops,       \* the copies that are allocated
  pcomm,      \* the protocomm instance: "null", "live", "freed" while it dangles
  endpoints,  \* its endpoints
  used,       \* the parameters its security has been set with
  info,       \* the version information it gives out
  transport,  \* "down" or "up"
  advert,     \* what BLE advertises: the lengths of name and manufacturer data
  handlers,   \* the event handlers that are registered
  blocks,     \* the blocks behind the data endpoints that are allocated
  client      \* the endpoint whose handler the transport task runs, or None

managerVars == <<build, ctx, scheme, lookup, uuid, appInfo>>
startVars == <<start, past, starts, failed>>
securityVars == <<security, noSec, noPop, params, pop, pops>>
protocommVars == <<pcomm, endpoints, used, info>>
ownedVars == <<handlers, blocks>>
serviceVars == <<managerVars, state, step, failing, startVars, securityVars,
                 protocommVars, transport, advert, ownedVars, client>>

NoStartYet == [sec |-> 0, given |-> FALSE]
NoInfo == [sec |-> 0, cap |-> None, app |-> FALSE]
NoAdvert == [name |-> 0, data |-> 0]

ServiceInit ==
  /\ build \in Builds
  /\ ctx = "null" /\ scheme \in Schemes /\ lookup = <<>> /\ uuid = 0
  /\ appInfo = FALSE
  /\ state = "IDLE" /\ step = 0 /\ failing = "no"
  /\ start = NoStartYet /\ past = "new" /\ starts = 0 /\ failed = {}
  /\ security = 0 /\ noSec = FALSE /\ noPop = FALSE
  /\ params = "null" /\ pop = NoStart /\ pops = {}
  /\ pcomm = "null" /\ endpoints = {} /\ used = "null" /\ info = NoInfo
  /\ transport = "down" /\ advert = NoAdvert
  /\ handlers = {} /\ blocks = {}
  /\ client = None
-----------------------------------------------------------------------------
(* The manager and its configuration.                                      *)

\* set_config_endpoint: only BLE needs the UUIDs.
Enter(s, table, new) == IF s = "ble" THEN table \o new ELSE table

\* wifi_prov_mgr_init, with an endpoint for each endpoint of the manager. One
\* that is short of memory frees the context and leaves prov_ctx dangling.
InitManager ==
  /\ ctx = "null"
  /\ \/ /\ ctx' = "live"
        /\ lookup' = Enter(scheme, <<>>, [i \in 1..5 |-> FirstUuid + i - 1])
        /\ uuid' = LastUuid
     \/ ctx' = "freed" /\ UNCHANGED <<lookup, uuid>>
  /\ past' = (IF past = "stuck" THEN past ELSE "new") /\ start' = NoStartYet
  /\ security' = 0 /\ noSec' = FALSE /\ noPop' = FALSE /\ params' = "null"
  /\ pcomm' = "null"
  /\ blocks' = {}  \* none that this context knows of
  /\ UNCHANGED <<build, scheme, appInfo, state, step, failing, starts, failed, pop, pops,
                 endpoints, used, info, transport, advert, handlers, client>>

\* What wifi_prov_mgr_deinit does once the service is stopped.
Deinit ==
  /\ ctx = "live" /\ state = "IDLE"
  /\ ctx' = "null" /\ lookup' = <<>> /\ uuid' = 0 /\ appInfo' = FALSE
  /\ UNCHANGED <<build, scheme, state, step, failing, startVars, securityVars,
                 protocommVars, transport, advert, ownedVars, client>>

SetAppInfo ==
  /\ ctx = "live" /\ state = "IDLE"
  /\ appInfo' = TRUE
  /\ UNCHANGED <<build, ctx, scheme, lookup, uuid, state, step, failing, startVars,
                 securityVars, protocommVars, transport, advert, ownedVars, client>>

\* wifi_prov_mgr_endpoint_create. (Without memory it changes nothing.)
CreateEndpoint ==
  /\ ctx = "live" /\ state = "IDLE"
  /\ uuid < LastUuid + MaxCreated
  /\ lookup' = Enter(scheme, lookup, <<uuid + 1>>)
  /\ uuid' = uuid + 1
  /\ UNCHANGED <<build, ctx, scheme, appInfo, state, step, failing, startVars,
                 securityVars, protocommVars, transport, advert, ownedVars, client>>

RegisterEndpoint ==
  /\ ctx = "live" /\ state \in Running
  /\ endpoints' = endpoints \cup {"custom"}
  /\ UNCHANGED <<managerVars, state, step, failing, startVars, securityVars, pcomm,
                 used, info, transport, advert, ownedVars, client>>

UnregisterEndpoint ==
  /\ ctx = "live" /\ state \in Running
  /\ endpoints' = endpoints \ {"custom"}
  /\ UNCHANGED <<managerVars, state, step, failing, startVars, securityVars, pcomm,
                 used, info, transport, advert, ownedVars, client>>

-----------------------------------------------------------------------------
(* wifi_prov_mgr_start_provisioning                                        *)

\* The parameters of the security version: an own copy of the pop for version
\* 1, the application's data for version 2. Where there are none, what an
\* earlier start has left stays.
SetSecurity(sec, given) ==
  /\ security' = sec
  /\ noSec' = (noSec \/ (sec = 0 /\ 0 \in build))
  /\ noPop' = (noPop \/ (sec = 1 /\ 1 \in build /\ ~given))
  /\ IF sec = 1 /\ 1 \in build /\ given
       THEN params' = "sec1" /\ pop' = starts' /\ pops' = pops \cup {starts'}
       ELSE /\ params' = IF sec = 2 /\ 2 \in build /\ given THEN "sec2" ELSE params
            /\ UNCHANGED <<pop, pops>>

\* A start that cannot create its timers ends here. (One that cannot copy the
\* pop, or set the storage, changes nothing of what is modelled.)
StartProvisioning(sec, given) ==
  /\ ctx = "live" /\ state = "IDLE"
  /\ starts < MaxStarts
  /\ starts' = starts + 1
  /\ start' = [sec |-> sec, given |-> given]
  /\ SetSecurity(sec, given)
  /\ \/ /\ state' = "STARTING" /\ step' = 1
        /\ blocks' = {}  \* the pointers will be overwritten
        /\ past' = CASE past = "new" -> "first" [] past = "first" -> "stopped"
                     [] OTHER -> past
        /\ UNCHANGED failed
     \/ /\ past' = (IF past = "stuck" THEN past ELSE "failed")
        /\ failed' = failed \cup {starts'}
        /\ UNCHANGED <<state, step, blocks>>
  /\ UNCHANGED <<managerVars, failing, protocommVars, transport, advert, handlers,
                 client>>

At(what) ==
  state = "STARTING" /\ failing = "no" /\ step \in DOMAIN Building /\ Building[step] = what

\* protocomm_new
NewProtocomm ==
  /\ At("protocomm")
  /\ pcomm' = "live" /\ endpoints' = {} /\ used' = "null" /\ info' = NoInfo
  /\ UNCHANGED <<transport, advert, ownedVars>>

\* protocomm_ble_config_t.device_name has MAX_BLE_DEVNAME_LEN characters.
MaxName == 29
DeviceName(length) == IF length > MaxName THEN MaxName ELSE length

MaxAdvert == 29  \* MAX_BLE_MANUFACTURER_DATA_LEN

\* set_config_service: how much of the manufacturer data is advertised.
SentData(name, data) ==
  LET header == IF name = 0 THEN 0 ELSE name + 2
  IN  IF name + 2 >= MaxAdvert THEN 0
      ELSE IF data + header > MaxAdvert THEN MaxAdvert - header
      ELSE data

\* set_config_service; SoftAP refuses a passphrase that is too short or long.
ConfigureService ==
  /\ At("configure")
  /\ advert' \in IF scheme = "ble"
                   THEN {[name |-> DeviceName(n), data |-> SentData(DeviceName(n), d)] :
                           n \in NameLens, d \in DataLens}
                   ELSE {NoAdvert}
  /\ UNCHANGED <<protocommVars, transport, ownedVars>>

\* prov_start: protocomm_ble_start and the like fail where they have started.
StartTransport ==
  /\ At("transport")
  /\ transport = "down"
  /\ transport' = "up"
  /\ UNCHANGED <<protocommVars, advert, ownedVars>>

\* protocomm_set_security
SetSecurityEndpoint ==
  /\ At("prov-session")
  /\ security \in build
  /\ endpoints' = endpoints \cup {"prov-session"}
  /\ used' = IF security = 0 THEN "null" ELSE params
  /\ UNCHANGED <<pcomm, info, transport, advert, ownedVars>>

\* wifi_prov_get_info_json and protocomm_set_version
SetVersionEndpoint ==
  /\ At("proto-ver")
  /\ endpoints' = endpoints \cup {"proto-ver"}
  /\ info' = [sec |-> security, app |-> appInfo,
              cap |-> IF noSec THEN "no_sec" ELSE IF noPop THEN "no_pop" ELSE None]
  /\ UNCHANGED <<pcomm, used, transport, advert, ownedVars>>

\* malloc and protocomm_add_endpoint
AddEndpoint(e) ==
  /\ At(e)
  /\ blocks' = blocks \cup {e}
  /\ endpoints' = endpoints \cup {e}
  /\ UNCHANGED <<pcomm, used, info, transport, advert, handlers>>

\* esp_event_handler_register
RegisterHandler(h) ==
  /\ At(h)
  /\ handlers' = handlers \cup {h}
  /\ UNCHANGED <<protocommVars, transport, advert, blocks>>

BuildStep ==
  /\ \/ NewProtocomm \/ ConfigureService \/ StartTransport
     \/ SetSecurityEndpoint \/ SetVersionEndpoint
     \/ \E e \in Data : AddEndpoint(e)
     \/ \E h \in Handlers : RegisterHandler(h)
  /\ step' = step + 1
  /\ UNCHANGED <<managerVars, state, failing, startVars, securityVars, client>>

\* Defect: the block of the step that failed is not freed with those before it.
FreedBefore(what) ==
  CASE what = "prov-scan" -> {"prov-config"}
    [] what = "prov-ctrl" -> {"prov-config", "prov-scan"}
    [] OTHER -> Data

\* Which blocks are freed where a step fails: the block of prov-scan is
\* forgotten when prov-ctrl fails.
Freed(what) == IF what = "prov-ctrl" THEN {"prov-config", "prov-ctrl"} ELSE Data

\* Everything in it may fail, protocomm_add_endpoint after the malloc. Without
\* a transport only the protocomm instance is deleted; with a security version
\* that is not compiled in, nothing is.
BuildFails ==
  /\ state = "STARTING" /\ failing = "no" /\ step \in DOMAIN Building
  /\ LET what == Building[step]
     IN  CASE what = "protocomm" ->
                failing' = "return" /\ pcomm' = "null" /\ UNCHANGED <<past, ownedVars>>
           [] what \in {"configure", "transport"} ->
                failing' = "return" /\ pcomm' = "freed" /\ UNCHANGED <<past, ownedVars>>
           [] what = "prov-session" /\ security \in 0..2 \ build ->
                failing' = "return" /\ past' = "stuck" /\ UNCHANGED <<pcomm, ownedVars>>
           [] OTHER ->
                /\ failing' = "stop" /\ handlers' = {}
                /\ blocks' = (blocks \cup ({what} \cap Data)) \ Freed(what)
                /\ UNCHANGED <<pcomm, past>>
  /\ UNCHANGED <<managerVars, state, step, start, starts, failed, securityVars, endpoints,
                 used, info, transport, advert, client>>

\* scheme->prov_stop, which lets the transport task finish what it does, and
\* protocomm_delete.
Shutdown ==
  /\ client = None
  /\ transport' = "down" /\ advert' = NoAdvert
  /\ endpoints' = {} /\ used' = "null" /\ info' = NoInfo

FailStop ==
  /\ failing = "stop"
  /\ Shutdown
  /\ pcomm' = "freed"
  /\ failing' = "return"
  /\ UNCHANGED <<managerVars, state, step, startVars, securityVars, ownedVars, client>>

FailReturn ==
  /\ failing = "return"
  /\ state' = "IDLE" /\ step' = 0 /\ failing' = "no"
  /\ past' = IF past = "stuck" THEN past ELSE "failed"
  /\ failed' = failed \cup {starts}
  /\ UNCHANGED <<managerVars, start, starts, securityVars, protocommVars, transport,
                 advert, ownedVars, client>>

\* Back in wifi_prov_mgr_start_provisioning, with the lock.
StartReturn ==
  /\ ctx = "live" /\ step = Len(Building) + 1
  /\ state' = "STARTED" /\ step' = 0
  /\ UNCHANGED <<managerVars, failing, startVars, securityVars, protocommVars,
                 transport, advert, ownedVars, client>>

-----------------------------------------------------------------------------
(* wifi_prov_mgr_stop_service and prov_stop_and_notify                     *)

\* Defect: the parameters of the security stay.
StopServiceKeeps ==
  /\ ctx = "live" /\ state \in Running
  /\ state' = "STOPPING"
  /\ pops' = IF params # "null" /\ security = 1 THEN pops \ {pop} ELSE pops
  /\ handlers' = handlers \ {"WIFI", "IP"}
  /\ step' = 1
  /\ UNCHANGED <<managerVars, failing, startVars, security, noSec, noPop, params, pop,
                 protocommVars, transport, advert, blocks>>

\* The copy of the pop is freed, though the transport goes on for a while.
StopService ==
  /\ ctx = "live" /\ state \in Running
  /\ state' = "STOPPING"
  /\ pops' = IF params # "null" /\ security = 1 THEN pops \ {pop} ELSE pops
  /\ params' = "null"
  /\ handlers' = handlers \ {"WIFI", "IP"}
  /\ step' = 1
  /\ UNCHANGED <<managerVars, failing, startVars, security, noSec, noPop, pop,
                 protocommVars, transport, advert, blocks>>

\* Defect: the block goes with its endpoint.
RemoveEndpointFrees ==
  /\ state = "STOPPING" /\ step \in DOMAIN Removing
  /\ handlers' = handlers \ {"PVT"}
  /\ endpoints' = endpoints \ {Removing[step]}
  /\ blocks' = blocks \ {Removing[step]}
  /\ step' = step + 1
  /\ UNCHANGED <<managerVars, state, failing, startVars, securityVars, pcomm, used,
                 info, transport, advert, client>>

\* The delay, and protocomm_remove_endpoint, protocomm_unset_security and
\* protocomm_unset_version.
RemoveEndpoint ==
  /\ state = "STOPPING" /\ step \in DOMAIN Removing
  /\ handlers' = handlers \ {"PVT"}
  /\ endpoints' = endpoints \ {Removing[step]}
  /\ step' = step + 1
  /\ UNCHANGED <<managerVars, state, failing, startVars, securityVars, pcomm, used,
                 info, transport, advert, blocks, client>>

StopTransport ==
  /\ state = "STOPPING" /\ step = Len(Removing) + 1
  /\ Shutdown
  /\ pcomm' = "null"
  /\ step' = step + 1
  /\ UNCHANGED <<managerVars, state, failing, startVars, securityVars, ownedVars,
                 client>>

FreeHandlers ==
  /\ state = "STOPPING" /\ step = Len(Removing) + 2
  /\ blocks' = {}
  /\ state' = "IDLE" /\ step' = 0
  /\ UNCHANGED <<managerVars, failing, startVars, securityVars, protocommVars,
                 transport, advert, handlers, client>>

-----------------------------------------------------------------------------
(* The transport task.                                                     *)

Deliver(e) ==
  /\ transport = "up" /\ client = None
  /\ e \in endpoints
  /\ client' = e
  /\ UNCHANGED <<managerVars, state, step, failing, startVars, securityVars,
                 protocommVars, transport, advert, ownedVars>>

Handled ==
  /\ client # None
  /\ client' = None
  /\ UNCHANGED <<managerVars, state, step, failing, startVars, securityVars,
                 protocommVars, transport, advert, ownedVars>>

-----------------------------------------------------------------------------
\* What the application's task does.
ServiceStep ==
  \/ InitManager \/ Deinit \/ SetAppInfo
  \/ CreateEndpoint \/ RegisterEndpoint \/ UnregisterEndpoint
  \/ \E sec \in Asked, given \in BOOLEAN : StartProvisioning(sec, given)
  \/ BuildStep \/ BuildFails \/ FailStop \/ FailReturn \/ StartReturn
  \/ (StopService /\ UNCHANGED client)
  \/ RemoveEndpoint \/ StopTransport \/ FreeHandlers

ServiceNext == ServiceStep \/ (\E e \in Endpoints : Deliver(e)) \/ Handled

ServiceSpec == ServiceInit /\ [][ServiceNext]_serviceVars

-----------------------------------------------------------------------------
ServiceTypeOK ==
  /\ build \in Builds /\ ctx \in {"null", "live", "freed"} /\ scheme \in Schemes
  /\ lookup \in Seq(Nat) /\ uuid \in Nat /\ appInfo \in BOOLEAN
  /\ state \in States /\ step \in 0..(Len(Building) + 1)
  /\ failing \in {"no", "stop", "return"}
  /\ start \in [sec : 0..3, given : BOOLEAN]
  /\ past \in {"new", "first", "stopped", "failed", "stuck"} /\ starts \in 0..MaxStarts
  /\ failed \subseteq Starts
  /\ security \in 0..3 /\ noSec \in BOOLEAN /\ noPop \in BOOLEAN
  /\ params \in {"null", "sec1", "sec2"} /\ used \in {"null", "sec1", "sec2"}
  /\ pop \in 0..MaxStarts /\ pops \subseteq Starts
  /\ pcomm \in {"null", "live", "freed"} /\ endpoints \subseteq Endpoints
  /\ info \in [sec : 0..3, cap : {None, "no_sec", "no_pop"}, app : BOOLEAN]
  /\ transport \in {"down", "up"} /\ advert \in [name : Nat, data : Nat]
  /\ handlers \subseteq Handlers /\ blocks \subseteq Data
  /\ client \in Endpoints \cup {None}

\* A client that reaches an endpoint of the manager with a data handler finds
\* the security endpoint there too, while the service is put together, while a
\* failed start is undone, and while the service is taken apart.
EndpointsAreSecured ==
  transport = "up" /\ endpoints \cap Data # {} => "prov-session" \in endpoints

\* manager.c frees the block of a data endpoint only when no request can reach
\* it any more, except where a start fails: there the blocks go before
\* prov_stop, and a request that comes in between works on freed memory.
BlocksOutliveRequests ==
  client \in Data /\ client \notin blocks => failing = "stop"

\* An idle manager holds nothing of a service, whatever step of the start
\* failed and however often, except three leaks: of the transport with all that
\* belongs to it when the security version asked for is not compiled in, of the
\* block of prov-scan when prov-ctrl fails, and of the copy of the pop, which a
\* start that fails keeps. A copy that is left is that of a failed start: every
\* service that was started has freed its own.
IdleHoldsNothing ==
  state = "IDLE" =>
    /\ pops \subseteq failed
    /\ past # "stuck" => /\ transport = "down" /\ endpoints = {} /\ handlers = {}
                         /\ blocks \subseteq {"prov-scan"}
                         /\ blocks # {} => past = "failed"

\* A client is served as the application asked with this start: its session is
\* established with the secret of this start, a copy of the pop that is still
\* there, and the version information tells of the security that is used and
\* never of a secret that is not. (Where a start failed its pop may turn up later,
\* and the capabilities stay set from one start to the next; a session that
\* begins while the service stops reads a copy that has been freed.)
ServedAsAsked ==
  /\ "prov-session" \in endpoints /\ past \in {"first", "stopped"} =>
       /\ used = IF ~start.given \/ start.sec = 0 THEN "null"
                 ELSE IF start.sec = 1 THEN "sec1" ELSE "sec2"
       /\ used = "sec1" => pop = starts /\ (pop \in pops \/ state = "STOPPING")
  /\ "proto-ver" \in endpoints =>
       /\ info.sec = start.sec /\ info.app = appInfo
       /\ info.cap = None => start.sec # 0 /\ (start.sec = 1 => start.given)
       /\ info.cap # None /\ past = "first" =>
            start.sec = 0 \/ (start.sec = 1 /\ ~start.given)

\* Every endpoint has a UUID of its own in the BLE scheme's table.
UuidsDiffer ==
  \A i, j \in DOMAIN lookup : i # j => lookup[i] # lookup[j]

=============================================================================
