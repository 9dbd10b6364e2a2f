------------------------ MODULE ProvRequests_proofs ------------------------
(***************************************************************************)
(* Proofs about ProvService and ProvRequests, for any schemes, builds,     *)
(* lengths, numbers of starts, credentials and numbers of results.         *)
(*                                                                         *)
(* The service's invariant follows it through its places: what is there    *)
(* when the start is at a step, when it fails there, when the stop is at a *)
(* step. ServiceInv is its conjunction, one part for each thing that is    *)
(* built up and taken down; each part is inductive with those before it.   *)
(*                                                                         *)
(* It holds on under requests and events, because a request is served only *)
(* while its client keeps the service from being taken down (RequestInv).  *)
(* On it rest the parts about memory, connection, configuration and scan   *)
(* results.                                                                *)
(***************************************************************************)
EXTENDS ProvRequests, TLAPS

-----------------------------------------------------------------------------
(* The service.                                                            *)

(* The two lists of steps, item by item.                                   *)

LEMMA BuildingIs ==
  /\ DOMAIN Building = 1..11 /\ Len(Building) = 11
  /\ Building[1] = "protocomm" /\ Building[2] = "configure"
  /\ Building[3] = "transport" /\ Building[4] = "prov-session"
  /\ Building[5] = "proto-ver" /\ Building[6] = "prov-config"
  /\ Building[7] = "prov-scan" /\ Building[8] = "prov-ctrl"
  /\ Building[9] = "WIFI" /\ Building[10] = "IP" /\ Building[11] = "PVT"
BY DEF Building

LEMMA RemovingIs ==
  /\ DOMAIN Removing = 1..5 /\ Len(Removing) = 5
  /\ Removing[1] = "prov-ctrl" /\ Removing[2] = "prov-scan"
  /\ Removing[3] = "prov-config" /\ Removing[4] = "prov-session"
  /\ Removing[5] = "proto-ver"
BY DEF Removing

\* Which places there are.
Place ==
  /\ ctx # "live" => state = "IDLE"
  /\ state \in States /\ step \in 0..12
  /\ failing \in {"no", "stop", "return"}
  /\ state = "STARTING" => step \in 1..12
  /\ state = "STOPPING" => step \in 1..7
  /\ state \notin {"STARTING", "STOPPING"} => step = 0
  /\ failing # "no" => state = "STARTING" /\ step \in 1..11

LEMMA PlaceInit == ServiceInit => Place
BY DEF ServiceInit, Place, States

\* Which step of the start is taken where.
LEMMA AtIs ==
  /\ \A what : At(what) => state = "STARTING" /\ failing = "no" /\ step \in 1..11
  /\ At("protocomm") => step = 1
  /\ At("configure") => step = 2
  /\ At("transport") => step = 3
  /\ At("prov-session") => step = 4
  /\ At("proto-ver") => step = 5
  /\ At("prov-config") => step = 6
  /\ At("prov-scan") => step = 7
  /\ At("prov-ctrl") => step = 8
  /\ \A h \in Handlers : At(h) => step \in 9..11 /\ (h = "WIFI" <=> step = 9)
BY BuildingIs DEF At, Handlers

\* What a step of the start does, in the order of the code.
LEMMA BuildIs ==
  BuildStep =>
    /\ state = "STARTING" /\ failing = "no" /\ step \in 1..11 /\ step' = step + 1
    /\ UNCHANGED <<managerVars, state, failing, startVars, securityVars, client>>
    /\ \/ step = 1 /\ NewProtocomm
       \/ step = 2 /\ ConfigureService
       \/ step = 3 /\ StartTransport
       \/ step = 4 /\ SetSecurityEndpoint
       \/ step = 5 /\ SetVersionEndpoint
       \/ step = 6 /\ AddEndpoint("prov-config")
       \/ step = 7 /\ AddEndpoint("prov-scan")
       \/ step = 8 /\ AddEndpoint("prov-ctrl")
       \/ step \in 9..11 /\ \E h \in Handlers : RegisterHandler(h)
<1> SUFFICES ASSUME BuildStep
             PROVE  /\ state = "STARTING" /\ failing = "no" /\ step \in 1..11
                    /\ \/ step = 1 /\ NewProtocomm
                       \/ step = 2 /\ ConfigureService
                       \/ step = 3 /\ StartTransport
                       \/ step = 4 /\ SetSecurityEndpoint
                       \/ step = 5 /\ SetVersionEndpoint
                       \/ step = 6 /\ AddEndpoint("prov-config")
                       \/ step = 7 /\ AddEndpoint("prov-scan")
                       \/ step = 8 /\ AddEndpoint("prov-ctrl")
                       \/ step \in 9..11 /\ \E h \in Handlers : RegisterHandler(h)
  BY DEF BuildStep
<1>1. CASE NewProtocomm
  BY <1>1, AtIs DEF NewProtocomm
<1>2. CASE ConfigureService
  BY <1>2, AtIs DEF ConfigureService
<1>3. CASE StartTransport
  BY <1>3, AtIs DEF StartTransport
<1>4. CASE SetSecurityEndpoint
  BY <1>4, AtIs DEF SetSecurityEndpoint
<1>5. CASE SetVersionEndpoint
  BY <1>5, AtIs DEF SetVersionEndpoint
<1>6. CASE \E e \in Data : AddEndpoint(e)
  BY <1>6, AtIs DEF AddEndpoint, Data
<1>7. CASE \E h \in Handlers : RegisterHandler(h)
  BY <1>7, AtIs DEF RegisterHandler
<1> QED BY <1>1, <1>2, <1>3, <1>4, <1>5, <1>6, <1>7 DEF BuildStep

\* What the failure of a step does.
LEMMA BuildFailsIs ==
  BuildFails =>
    /\ state = "STARTING" /\ failing = "no" /\ step \in 1..11
    /\ UNCHANGED <<managerVars, state, step, start, starts, failed, securityVars, endpoints,
                   used, info, transport, advert, client>>
    /\ \/ step \in 1..3 /\ failing' = "return" /\ UNCHANGED <<past, ownedVars>>
       \/ step = 4 /\ failing' = "return" /\ past' = "stuck" /\ UNCHANGED ownedVars
       \/ /\ step \in 4..11 /\ failing' = "stop" /\ handlers' = {} /\ past' = past
          /\ blocks' = (IF step = 8 THEN blocks \ {"prov-config", "prov-ctrl"}
                                    ELSE blocks \ Data)
<1> SUFFICES ASSUME BuildFails
             PROVE  \/ step \in 1..3 /\ failing' = "return" /\ UNCHANGED <<past, ownedVars>>
                    \/ step = 4 /\ failing' = "return" /\ past' = "stuck" /\ UNCHANGED ownedVars
                    \/ /\ step \in 4..11 /\ failing' = "stop" /\ handlers' = {} /\ past' = past
                       /\ blocks' = (IF step = 8 THEN blocks \ {"prov-config", "prov-ctrl"}
                                                 ELSE blocks \ Data)
  BY BuildingIs DEF BuildFails
<1>1. step \in 1..11
  BY BuildingIs DEF BuildFails
<1>2. CASE step \in 1..3
  <2>1. Building[step] \in {"protocomm", "configure", "transport"}
    BY <1>2, BuildingIs
  <2> QED BY <1>2, <2>1, Zenon DEF BuildFails
<1>3. CASE step \in 4..11
  <2>1. Building[step] \notin {"protocomm", "configure", "transport"}
    BY <1>3, BuildingIs
  <2>2. Building[step] = "prov-session" <=> step = 4
    BY <1>3, BuildingIs
  <2>3. \/ failing' = "return" /\ past' = "stuck" /\ UNCHANGED ownedVars /\ step = 4
        \/ /\ failing' = "stop" /\ handlers' = {} /\ past' = past
           /\ blocks' = (blocks \cup ({Building[step]} \cap Data)) \ Freed(Building[step])
    BY <2>1, <2>2, Zenon DEF BuildFails
  <2>4. (blocks \cup ({Building[step]} \cap Data)) \ Freed(Building[step])
          = (IF step = 8 THEN blocks \ {"prov-config", "prov-ctrl"} ELSE blocks \ Data)
    <3>1. CASE step = 8
      BY <3>1, BuildingIs DEF Freed, Data
    <3>2. CASE step # 8
      <4>1. Building[step] # "prov-ctrl"
        BY <1>3, <3>2, BuildingIs
      <4> QED BY <3>2, <4>1, Zenon DEF Freed
    <3> QED BY <3>1, <3>2
  <2> QED BY <1>3, <2>3, <2>4
<1> QED BY <1>1, <1>2, <1>3

\* How a start changes what is known of the starts before it.
LEMMA PastIs ==
  ASSUME NEW sec, NEW given, StartProvisioning(sec, given)
  PROVE  \/ /\ state' = "STARTING" /\ step' = 1 /\ blocks' = {}
            /\ past' \in {"first", "stopped"} => past \in {"new", "first", "stopped"}
            /\ past' = "first" => past = "new"
            /\ past' # "new"
            /\ past' = "stuck" <=> past = "stuck"
         \/ /\ UNCHANGED <<state, step, blocks>>
            /\ past' \in {"failed", "stuck"}
            /\ past' = "stuck" <=> past = "stuck"
BY Zenon DEF StartProvisioning

LEMMA PlaceStep == Place /\ [ServiceNext]_serviceVars => Place'
<1> SUFFICES ASSUME Place, [ServiceNext]_serviceVars PROVE Place'
  OBVIOUS
<1> USE DEF managerVars, startVars, securityVars, protocommVars, ownedVars, Place,
      Running, States
<1>1. CASE InitManager
  BY <1>1 DEF InitManager, Enter
<1>2. CASE Deinit
  BY <1>2 DEF Deinit
<1>3. CASE SetAppInfo
  BY <1>3 DEF SetAppInfo
<1>4. CASE CreateEndpoint
  BY <1>4 DEF CreateEndpoint
<1>5. CASE RegisterEndpoint
  BY <1>5 DEF RegisterEndpoint
<1>6. CASE UnregisterEndpoint
  BY <1>6 DEF UnregisterEndpoint
<1>7. CASE \E sec \in Asked, given \in BOOLEAN : StartProvisioning(sec, given)
  BY <1>7, PastIs DEF StartProvisioning, SetSecurity
<1>8. CASE BuildStep
  BY <1>8, BuildIs DEF NewProtocomm, ConfigureService, StartTransport,
     SetSecurityEndpoint, SetVersionEndpoint, AddEndpoint, RegisterHandler
<1>9. CASE BuildFails
  BY <1>9, BuildFailsIs
<1>10. CASE FailStop
  BY <1>10 DEF FailStop, Shutdown
<1>11. CASE FailReturn
  BY <1>11 DEF FailReturn
<1>12. CASE StartReturn
  BY <1>12, BuildingIs DEF StartReturn
<1>13. CASE StopService /\ UNCHANGED client
  BY <1>13 DEF StopService
<1>14. CASE RemoveEndpoint
  BY <1>14, RemovingIs DEF RemoveEndpoint
<1>15. CASE StopTransport
  BY <1>15, RemovingIs DEF StopTransport, Shutdown
<1>16. CASE FreeHandlers
  BY <1>16, RemovingIs DEF FreeHandlers
<1>17. CASE \E e \in Endpoints : Deliver(e)
  BY <1>17 DEF Deliver
<1>18. CASE Handled
  BY <1>18 DEF Handled
<1>19. CASE UNCHANGED serviceVars
  BY <1>19 DEF serviceVars
<1> QED BY <1>1, <1>2, <1>3, <1>4, <1>5, <1>6, <1>7, <1>8, <1>9, <1>10, <1>11, <1>12,
     <1>13, <1>14, <1>15, <1>16, <1>17, <1>18, <1>19 DEF ServiceNext, ServiceStep

\* Where the service is not reachable, nobody is in it.
Quiet ==
  /\ client = None \/ client \in Endpoints
  /\ state = "IDLE" \/ (state = "STARTING" /\ step <= 4) \/ failing = "return"
       \/ (state = "STOPPING" /\ step = 7) => endpoints = {} /\ client = None

LEMMA QuietInit == ServiceInit => Quiet
BY DEF ServiceInit, Quiet, Running, Data, Endpoints, None

LEMMA QuietStep == Place /\ Quiet /\ [ServiceNext]_serviceVars => Quiet'
<1> SUFFICES ASSUME Place, Quiet, [ServiceNext]_serviceVars PROVE Quiet'
  OBVIOUS
<1> USE DEF managerVars, startVars, securityVars, protocommVars, ownedVars, Place,
      Quiet, Running, Data, Endpoints, None
<1>1. CASE InitManager
  BY <1>1 DEF InitManager, Enter
<1>2. CASE Deinit
  BY <1>2 DEF Deinit
<1>3. CASE SetAppInfo
  BY <1>3 DEF SetAppInfo
<1>4. CASE CreateEndpoint
  BY <1>4 DEF CreateEndpoint
<1>5. CASE RegisterEndpoint
  BY <1>5 DEF RegisterEndpoint
<1>6. CASE UnregisterEndpoint
  BY <1>6 DEF UnregisterEndpoint
<1>7. CASE \E sec \in Asked, given \in BOOLEAN : StartProvisioning(sec, given)
  BY <1>7, PastIs DEF StartProvisioning, SetSecurity
<1>8. CASE BuildStep
  BY <1>8, BuildIs DEF NewProtocomm, ConfigureService, StartTransport,
     SetSecurityEndpoint, SetVersionEndpoint, AddEndpoint, RegisterHandler
<1>9. CASE BuildFails
  BY <1>9, BuildFailsIs
<1>10. CASE FailStop
  BY <1>10 DEF FailStop, Shutdown
<1>11. CASE FailReturn
  BY <1>11 DEF FailReturn
<1>12. CASE StartReturn
  BY <1>12, BuildingIs DEF StartReturn
<1>13. CASE StopService /\ UNCHANGED client
  BY <1>13 DEF StopService
<1>14. CASE RemoveEndpoint
  BY <1>14, RemovingIs DEF RemoveEndpoint
<1>15. CASE StopTransport
  BY <1>15, RemovingIs DEF StopTransport, Shutdown
<1>16. CASE FreeHandlers
  BY <1>16, RemovingIs DEF FreeHandlers
<1>17. CASE \E e \in Endpoints : Deliver(e)
  BY <1>17 DEF Deliver
<1>18. CASE Handled
  BY <1>18 DEF Handled
<1>19. CASE UNCHANGED serviceVars
  BY <1>19 DEF serviceVars
<1> QED BY <1>1, <1>2, <1>3, <1>4, <1>5, <1>6, <1>7, <1>8, <1>9, <1>10, <1>11, <1>12,
     <1>13, <1>14, <1>15, <1>16, <1>17, <1>18, <1>19 DEF ServiceNext, ServiceStep

\* The security endpoint is entered first and removed last of those that matter.
Secured ==
  /\ state \in Running \/ (state = "STARTING" /\ failing = "no" /\ step >= 5)
       \/ (state = "STOPPING" /\ step <= 4) => "prov-session" \in endpoints
  /\ failing = "stop" => "prov-session" \in endpoints \/ endpoints \cap Data = {}
  /\ state = "STOPPING" /\ step >= 2 => "prov-ctrl" \notin endpoints
  /\ state = "STOPPING" /\ step >= 3 => "prov-scan" \notin endpoints
  /\ state = "STOPPING" /\ step >= 4 => "prov-config" \notin endpoints

LEMMA SecuredInit == ServiceInit => Secured
BY DEF ServiceInit, Secured, Running, Data

LEMMA SecuredStep == Place /\ Quiet /\ Secured /\ [ServiceNext]_serviceVars => Secured'
<1> SUFFICES ASSUME Place, Quiet, Secured, [ServiceNext]_serviceVars PROVE Secured'
  OBVIOUS
<1> USE DEF managerVars, startVars, securityVars, protocommVars, ownedVars, Place,
      Quiet, Secured, Running, Data
<1>1. CASE InitManager
  BY <1>1 DEF InitManager, Enter
<1>2. CASE Deinit
  BY <1>2 DEF Deinit
<1>3. CASE SetAppInfo
  BY <1>3 DEF SetAppInfo
<1>4. CASE CreateEndpoint
  BY <1>4 DEF CreateEndpoint
<1>5. CASE RegisterEndpoint
  BY <1>5 DEF RegisterEndpoint
<1>6. CASE UnregisterEndpoint
  BY <1>6 DEF UnregisterEndpoint
<1>7. CASE \E sec \in Asked, given \in BOOLEAN : StartProvisioning(sec, given)
  BY <1>7, PastIs DEF StartProvisioning, SetSecurity
<1>8. CASE BuildStep
  BY <1>8, BuildIs DEF NewProtocomm, ConfigureService, StartTransport,
     SetSecurityEndpoint, SetVersionEndpoint, AddEndpoint, RegisterHandler
<1>9. CASE BuildFails
  BY <1>9, BuildFailsIs
<1>10. CASE FailStop
  BY <1>10 DEF FailStop, Shutdown
<1>11. CASE FailReturn
  BY <1>11 DEF FailReturn
<1>12. CASE StartReturn
  BY <1>12, BuildingIs DEF StartReturn
<1>13. CASE StopService /\ UNCHANGED client
  BY <1>13 DEF StopService
<1>14. CASE RemoveEndpoint
  BY <1>14, RemovingIs DEF RemoveEndpoint
<1>15. CASE StopTransport
  BY <1>15, RemovingIs DEF StopTransport, Shutdown
<1>16. CASE FreeHandlers
  BY <1>16, RemovingIs DEF FreeHandlers
<1>17. CASE \E e \in Endpoints : Deliver(e)
  BY <1>17 DEF Deliver
<1>18. CASE Handled
  BY <1>18 DEF Handled
<1>19. CASE UNCHANGED serviceVars
  BY <1>19 DEF serviceVars
<1> QED BY <1>1, <1>2, <1>3, <1>4, <1>5, <1>6, <1>7, <1>8, <1>9, <1>10, <1>11, <1>12,
     <1>13, <1>14, <1>15, <1>16, <1>17, <1>18, <1>19 DEF ServiceNext, ServiceStep

\* The endpoints that can be reached, and the one that is, have their block.
Backed ==
  failing # "stop" => (endpoints \cup {client}) \cap Data \subseteq blocks

LEMMA BackedInit == ServiceInit => Backed
BY DEF ServiceInit, Backed, Running, Data, None

LEMMA BackedStep == Place /\ Quiet /\ Backed /\ [ServiceNext]_serviceVars => Backed'
<1> SUFFICES ASSUME Place, Quiet, Backed, [ServiceNext]_serviceVars PROVE Backed'
  OBVIOUS
<1> USE DEF managerVars, startVars, securityVars, protocommVars, ownedVars, Place,
      Quiet, Backed, Running, Data, None
<1>1. CASE InitManager
  BY <1>1 DEF InitManager, Enter
<1>2. CASE Deinit
  BY <1>2 DEF Deinit
<1>3. CASE SetAppInfo
  BY <1>3 DEF SetAppInfo
<1>4. CASE CreateEndpoint
  BY <1>4 DEF CreateEndpoint
<1>5. CASE RegisterEndpoint
  BY <1>5 DEF RegisterEndpoint
<1>6. CASE UnregisterEndpoint
  BY <1>6 DEF UnregisterEndpoint
<1>7. CASE \E sec \in Asked, given \in BOOLEAN : StartProvisioning(sec, given)
  BY <1>7, PastIs DEF StartProvisioning, SetSecurity
<1>8. CASE BuildStep
  BY <1>8, BuildIs DEF NewProtocomm, ConfigureService, StartTransport,
     SetSecurityEndpoint, SetVersionEndpoint, AddEndpoint, RegisterHandler
<1>9. CASE BuildFails
  BY <1>9, BuildFailsIs
<1>10. CASE FailStop
  BY <1>10 DEF FailStop, Shutdown
<1>11. CASE FailReturn
  BY <1>11 DEF FailReturn
<1>12. CASE StartReturn
  BY <1>12, BuildingIs DEF StartReturn
<1>13. CASE StopService /\ UNCHANGED client
  BY <1>13 DEF StopService
<1>14. CASE RemoveEndpoint
  BY <1>14, RemovingIs DEF RemoveEndpoint
<1>15. CASE StopTransport
  BY <1>15, RemovingIs DEF StopTransport, Shutdown
<1>16. CASE FreeHandlers
  BY <1>16, RemovingIs DEF FreeHandlers
<1>17. CASE \E e \in Endpoints : Deliver(e)
  BY <1>17 DEF Deliver
<1>18. CASE Handled
  BY <1>18 DEF Handled
<1>19. CASE UNCHANGED serviceVars
  BY <1>19 DEF serviceVars
<1> QED BY <1>1, <1>2, <1>3, <1>4, <1>5, <1>6, <1>7, <1>8, <1>9, <1>10, <1>11, <1>12,
     <1>13, <1>14, <1>15, <1>16, <1>17, <1>18, <1>19 DEF ServiceNext, ServiceStep

\* What is held of a service at each place of a start, a failing start, a stop.
Held ==
  /\ handlers \subseteq Handlers /\ blocks \subseteq Data
  /\ state = "IDLE" \/ (state = "STARTING" /\ step <= 9) \/ failing # "no"
       \/ (state = "STOPPING" /\ step >= 2) => handlers = {}
  /\ state = "STOPPING" => handlers \subseteq {"PVT"}
  /\ past # "stuck" /\ (state = "IDLE" \/ (state = "STARTING" /\ step <= 3)
       \/ failing = "return" \/ (state = "STOPPING" /\ step = 7)) => transport = "down"
  /\ (state = "IDLE" /\ past # "stuck") \/ failing # "no" => blocks \subseteq {"prov-scan"}
  /\ state = "STARTING" /\ failing = "no" /\ step <= 6 => blocks = {}
  /\ state = "IDLE" /\ past # "stuck" /\ blocks # {} => past = "failed"

LEMMA HeldInit == ServiceInit => Held
BY DEF ServiceInit, Held, Running, Data, Handlers

LEMMA HeldStep == Place /\ Held /\ [ServiceNext]_serviceVars => Held'
<1> SUFFICES ASSUME Place, Held, [ServiceNext]_serviceVars PROVE Held'
  OBVIOUS
<1> USE DEF managerVars, startVars, securityVars, protocommVars, ownedVars, Place, Held,
      Running, Data, Handlers
<1>1. CASE InitManager
  BY <1>1 DEF InitManager, Enter
<1>2. CASE Deinit
  BY <1>2 DEF Deinit
<1>3. CASE SetAppInfo
  BY <1>3 DEF SetAppInfo
<1>4. CASE CreateEndpoint
  BY <1>4 DEF CreateEndpoint
<1>5. CASE RegisterEndpoint
  BY <1>5 DEF RegisterEndpoint
<1>6. CASE UnregisterEndpoint
  BY <1>6 DEF UnregisterEndpoint
<1>7. CASE \E sec \in Asked, given \in BOOLEAN : StartProvisioning(sec, given)
  BY <1>7, PastIs DEF StartProvisioning, SetSecurity
<1>8. CASE BuildStep
  <2>1. CASE step \in 1..5 /\ UNCHANGED ownedVars
    BY <1>8, <2>1, BuildIs DEF NewProtocomm, ConfigureService, StartTransport,
      SetSecurityEndpoint, SetVersionEndpoint
  <2>2. CASE \E e \in Data : step \in 6..8 /\ AddEndpoint(e)
    BY <1>8, <2>2, BuildIs DEF AddEndpoint
  <2>3. CASE \E h \in Handlers : step \in 9..11 /\ RegisterHandler(h)
    BY <1>8, <2>3, BuildIs DEF RegisterHandler
  <2> QED BY <1>8, <2>1, <2>2, <2>3, BuildIs DEF NewProtocomm, ConfigureService,
        StartTransport, SetSecurityEndpoint, SetVersionEndpoint
<1>9. CASE BuildFails
  <2>1. state' = "STARTING" /\ failing' \in {"return", "stop"} /\ step' = step /\ step \in 1..11
    BY <1>9, BuildFailsIs
  <2>2. handlers' = {}
    <3>1. handlers' = {} \/ (step \in 1..4 /\ handlers' = handlers)
      BY <1>9, BuildFailsIs
    <3>2. step \in 1..4 => handlers = {}
      BY <1>9, BuildFailsIs
    <3> QED BY <3>1, <3>2
  <2>3. blocks' \subseteq {"prov-scan"}
    <3>1. \/ step \in 1..4 /\ blocks' = blocks
          \/ step = 8 /\ blocks' = blocks \ {"prov-config", "prov-ctrl"}
          \/ step \in 5..11 /\ blocks' = blocks \ Data
          \/ step = 4 /\ blocks' = blocks \ Data
      BY <1>9, BuildFailsIs
    <3>2. step \in 1..4 => blocks = {}
      BY <1>9, BuildFailsIs
    <3> HIDE DEF Held, Place
    <3>3. blocks \subseteq Data
      BY DEF Held
    <3>4. CASE step \in 1..4 /\ blocks' = blocks
      BY <3>2, <3>4
    <3>5. CASE blocks' = blocks \ {"prov-config", "prov-ctrl"}
      BY <3>3, <3>5
    <3>6. CASE blocks' = blocks \ Data
      BY <3>3, <3>6
    <3> QED BY <3>1, <3>4, <3>5, <3>6
  <2>4. past' # "stuck" /\ failing' = "return" => transport' = "down"
    BY <1>9, BuildFailsIs
  <2>5. past' # "stuck" /\ step' <= 3 => transport' = "down"
    BY <1>9, BuildFailsIs
  <2> QED BY <2>1, <2>2, <2>3, <2>4, <2>5
<1>10. CASE FailStop
  BY <1>10 DEF FailStop, Shutdown
<1>11. CASE FailReturn
  BY <1>11 DEF FailReturn
<1>12. CASE StartReturn
  BY <1>12, BuildingIs DEF StartReturn
<1>13. CASE StopService /\ UNCHANGED client
  BY <1>13 DEF StopService
<1>14. CASE RemoveEndpoint
  BY <1>14, RemovingIs DEF RemoveEndpoint
<1>15. CASE StopTransport
  BY <1>15, RemovingIs DEF StopTransport, Shutdown
<1>16. CASE FreeHandlers
  BY <1>16, RemovingIs DEF FreeHandlers
<1>17. CASE \E e \in Endpoints : Deliver(e)
  BY <1>17 DEF Deliver
<1>18. CASE Handled
  BY <1>18 DEF Handled
<1>19. CASE UNCHANGED serviceVars
  BY <1>19 DEF serviceVars
<1> QED BY <1>1, <1>2, <1>3, <1>4, <1>5, <1>6, <1>7, <1>8, <1>9, <1>10, <1>11, <1>12,
     <1>13, <1>14, <1>15, <1>16, <1>17, <1>18, <1>19 DEF ServiceNext, ServiceStep

\* The options of the last start, and what is told of them. The capabilities are
\* those of this start as long as there was none before it.
Told ==
  /\ build \subseteq 0..2 /\ security = start.sec
  /\ start \in [sec : 0..3, given : BOOLEAN]
  /\ noSec \in BOOLEAN /\ noPop \in BOOLEAN
  /\ state # "IDLE" => past # "new"
  /\ past = "new" => noSec = FALSE /\ noPop = FALSE
  /\ state # "IDLE" /\ start.sec = 0 /\ 0 \in build => noSec = TRUE
  /\ state # "IDLE" /\ start.sec = 1 /\ 1 \in build /\ ~start.given => noPop = TRUE
  /\ past = "first" /\ noSec = TRUE => start.sec = 0
  /\ past = "first" /\ noPop = TRUE => start.sec = 1 /\ ~start.given
  /\ state = "STARTING" /\ failing = "no" /\ step >= 5 => start.sec \in build

LEMMA ToldInit == ServiceInit => Told
<1> SUFFICES ASSUME ServiceInit PROVE Told
  OBVIOUS
<1>1. build \subseteq 0..2
  BY VersionsAssumption DEF ServiceInit
<1>2. /\ start \in [sec : 0..3, given : BOOLEAN] /\ start.sec = 0
      /\ security = 0 /\ past = "new" /\ state = "IDLE" /\ noSec = FALSE /\ noPop = FALSE
  BY DEF ServiceInit, NoStartYet
<1> QED BY <1>1, <1>2 DEF Told

LEMMA ToldStep == Place /\ Told /\ [ServiceNext]_serviceVars => Told'
<1> SUFFICES ASSUME Place, Told, [ServiceNext]_serviceVars PROVE Told'
  OBVIOUS
<1> USE DEF managerVars, startVars, securityVars, protocommVars, ownedVars, Place, Told,
      Running, NoStartYet
<1>1. CASE InitManager
  <2>1. /\ start' \in [sec : 0..3, given : BOOLEAN] /\ start'.sec = 0
        /\ security' = 0 /\ noSec' = FALSE /\ noPop' = FALSE /\ build' = build
    BY <1>1 DEF InitManager
  <2>2. past' \in {"new", "stuck"} /\ state' = "IDLE"
    BY <1>1 DEF InitManager
  <2> QED BY <2>1, <2>2
<1>2. CASE Deinit
  BY <1>2 DEF Deinit
<1>3. CASE SetAppInfo
  BY <1>3 DEF SetAppInfo
<1>4. CASE CreateEndpoint
  BY <1>4 DEF CreateEndpoint
<1>5. CASE RegisterEndpoint
  BY <1>5 DEF RegisterEndpoint
<1>6. CASE UnregisterEndpoint
  BY <1>6 DEF UnregisterEndpoint
<1>7. CASE \E sec \in Asked, given \in BOOLEAN : StartProvisioning(sec, given)
  <2> PICK sec \in Asked, given \in BOOLEAN : StartProvisioning(sec, given)
    BY <1>7
  <2>1. /\ build' = build /\ security' = sec /\ start' = [sec |-> sec, given |-> given]
        /\ state = "IDLE" /\ failing' = failing /\ failing = "no" /\ sec \in 0..3
        /\ noSec' = (noSec \/ (sec = 0 /\ 0 \in build))
        /\ noPop' = (noPop \/ (sec = 1 /\ 1 \in build /\ ~given))
    BY VersionsAssumption DEF StartProvisioning, SetSecurity
  <2>2. noSec' \in BOOLEAN /\ noPop' \in BOOLEAN
    BY <2>1
  <2>3. past = "new" => (noSec' = TRUE => sec = 0) /\ (noPop' = TRUE => sec = 1 /\ ~given)
    BY <2>1
  <2>4. /\ (sec = 0 /\ 0 \in build => noSec' = TRUE)
        /\ (sec = 1 /\ 1 \in build /\ ~given => noPop' = TRUE)
    BY <2>1
  <2>5. start' \in [sec : 0..3, given : BOOLEAN] /\ start'.sec = sec /\ start'.given = given
    BY <2>1
  <2>6. /\ past' # "new" /\ (past' = "first" => past = "new")
        /\ state' = "STARTING" => step' = 1
    BY <2>1, PastIs
  <2> QED BY <2>1, <2>2, <2>3, <2>4, <2>5, <2>6
<1>8. CASE BuildStep
  <2>1. UNCHANGED <<build, security, start, noSec, noPop, state, past, failing>>
    BY <1>8, BuildIs
  <2>2. step' >= 5 => start.sec \in build
    BY <1>8, BuildIs DEF SetSecurityEndpoint
  <2> QED BY <2>1, <2>2
<1>9. CASE BuildFails
  BY <1>9, BuildFailsIs
<1>10. CASE FailStop
  BY <1>10 DEF FailStop, Shutdown
<1>11. CASE FailReturn
  BY <1>11 DEF FailReturn
<1>12. CASE StartReturn
  BY <1>12, BuildingIs DEF StartReturn
<1>13. CASE StopService /\ UNCHANGED client
  BY <1>13 DEF StopService
<1>14. CASE RemoveEndpoint
  BY <1>14, RemovingIs DEF RemoveEndpoint
<1>15. CASE StopTransport
  BY <1>15, RemovingIs DEF StopTransport, Shutdown
<1>16. CASE FreeHandlers
  BY <1>16, RemovingIs DEF FreeHandlers
<1>17. CASE \E e \in Endpoints : Deliver(e)
  BY <1>17 DEF Deliver
<1>18. CASE Handled
  BY <1>18 DEF Handled
<1>19. CASE UNCHANGED serviceVars
  BY <1>19 DEF serviceVars
<1> QED BY <1>1, <1>2, <1>3, <1>4, <1>5, <1>6, <1>7, <1>8, <1>9, <1>10, <1>11, <1>12,
     <1>13, <1>14, <1>15, <1>16, <1>17, <1>18, <1>19 DEF ServiceNext, ServiceStep

\* The version information, while it is given out.
Informed ==
  "proto-ver" \in endpoints =>
    /\ start.sec \in build
    /\ info.sec = start.sec /\ info.app = appInfo
    /\ info.cap = IF noSec THEN "no_sec" ELSE IF noPop THEN "no_pop" ELSE None

LEMMA InformedInit == ServiceInit => Informed
BY DEF ServiceInit, Informed, Running, Data, None

LEMMA InformedStep == Place /\ Quiet /\ Told /\ Informed /\ [ServiceNext]_serviceVars => Informed'
<1> SUFFICES ASSUME Place, Quiet, Told, Informed, [ServiceNext]_serviceVars PROVE Informed'
  OBVIOUS
<1> USE DEF managerVars, startVars, securityVars, protocommVars, ownedVars, Place,
      Quiet, Told, Informed, Running, Data, None
<1>1. CASE InitManager
  BY <1>1 DEF InitManager, Enter
<1>2. CASE Deinit
  BY <1>2 DEF Deinit
<1>3. CASE SetAppInfo
  BY <1>3 DEF SetAppInfo
<1>4. CASE CreateEndpoint
  BY <1>4 DEF CreateEndpoint
<1>5. CASE RegisterEndpoint
  BY <1>5 DEF RegisterEndpoint
<1>6. CASE UnregisterEndpoint
  BY <1>6 DEF UnregisterEndpoint
<1>7. CASE \E sec \in Asked, given \in BOOLEAN : StartProvisioning(sec, given)
  BY <1>7, PastIs DEF StartProvisioning, SetSecurity
<1>8. CASE BuildStep
  BY <1>8, BuildIs DEF NewProtocomm, ConfigureService, StartTransport,
     SetSecurityEndpoint, SetVersionEndpoint, AddEndpoint, RegisterHandler
<1>9. CASE BuildFails
  BY <1>9, BuildFailsIs
<1>10. CASE FailStop
  BY <1>10 DEF FailStop, Shutdown
<1>11. CASE FailReturn
  BY <1>11 DEF FailReturn
<1>12. CASE StartReturn
  BY <1>12, BuildingIs DEF StartReturn
<1>13. CASE StopService /\ UNCHANGED client
  BY <1>13 DEF StopService
<1>14. CASE RemoveEndpoint
  BY <1>14, RemovingIs DEF RemoveEndpoint
<1>15. CASE StopTransport
  BY <1>15, RemovingIs DEF StopTransport, Shutdown
<1>16. CASE FreeHandlers
  BY <1>16, RemovingIs DEF FreeHandlers
<1>17. CASE \E e \in Endpoints : Deliver(e)
  BY <1>17 DEF Deliver
<1>18. CASE Handled
  BY <1>18 DEF Handled
<1>19. CASE UNCHANGED serviceVars
  BY <1>19 DEF serviceVars
<1> QED BY <1>1, <1>2, <1>3, <1>4, <1>5, <1>6, <1>7, <1>8, <1>9, <1>10, <1>11, <1>12,
     <1>13, <1>14, <1>15, <1>16, <1>17, <1>18, <1>19 DEF ServiceNext, ServiceStep

\* The parameters that the security of the last start is set with.
Wanted ==
  IF ~start.given \/ start.sec = 0 \/ start.sec \notin build THEN "null"
  ELSE IF start.sec = 1 THEN "sec1" ELSE "sec2"

\* The parameters of the security, from the start until the stop.
Secret ==
  /\ past \in {"new", "first", "stopped"} /\ state = "IDLE" => params = "null"
  /\ state = "STOPPING" => params = "null"
  /\ past \in {"first", "stopped"} /\ state \notin {"IDLE", "STOPPING"} =>
       params = Wanted /\ (params = "sec1" => pop = starts /\ pop \in pops)
  /\ past \in {"first", "stopped"} /\ "prov-session" \in endpoints =>
       start.sec \in build /\ used = Wanted /\ (used = "sec1" => pop = starts)

LEMMA SecretInit == ServiceInit => Secret
BY DEF ServiceInit, Secret, Running, Data, Wanted

LEMMA SecretStep == Place /\ Quiet /\ Told /\ Secret /\ [ServiceNext]_serviceVars => Secret'
<1> SUFFICES ASSUME Place, Quiet, Told, Secret, [ServiceNext]_serviceVars PROVE Secret'
  OBVIOUS
<1> USE DEF managerVars, startVars, securityVars, protocommVars, ownedVars, Place,
      Quiet, Told, Secret, Running, Data, Wanted
<1>1. CASE InitManager
  BY <1>1 DEF InitManager, Enter
<1>2. CASE Deinit
  BY <1>2 DEF Deinit
<1>3. CASE SetAppInfo
  BY <1>3 DEF SetAppInfo
<1>4. CASE CreateEndpoint
  BY <1>4 DEF CreateEndpoint
<1>5. CASE RegisterEndpoint
  BY <1>5 DEF RegisterEndpoint
<1>6. CASE UnregisterEndpoint
  BY <1>6 DEF UnregisterEndpoint
<1>7. CASE \E sec \in Asked, given \in BOOLEAN : StartProvisioning(sec, given)
  BY <1>7, PastIs DEF StartProvisioning, SetSecurity
<1>8. CASE BuildStep
  BY <1>8, BuildIs DEF NewProtocomm, ConfigureService, StartTransport,
     SetSecurityEndpoint, SetVersionEndpoint, AddEndpoint, RegisterHandler
<1>9. CASE BuildFails
  BY <1>9, BuildFailsIs
<1>10. CASE FailStop
  BY <1>10 DEF FailStop, Shutdown
<1>11. CASE FailReturn
  BY <1>11 DEF FailReturn
<1>12. CASE StartReturn
  BY <1>12, BuildingIs DEF StartReturn
<1>13. CASE StopService /\ UNCHANGED client
  BY <1>13 DEF StopService
<1>14. CASE RemoveEndpoint
  BY <1>14, RemovingIs DEF RemoveEndpoint
<1>15. CASE StopTransport
  BY <1>15, RemovingIs DEF StopTransport, Shutdown
<1>16. CASE FreeHandlers
  BY <1>16, RemovingIs DEF FreeHandlers
<1>17. CASE \E e \in Endpoints : Deliver(e)
  BY <1>17 DEF Deliver
<1>18. CASE Handled
  BY <1>18 DEF Handled
<1>19. CASE UNCHANGED serviceVars
  BY <1>19 DEF serviceVars
<1> QED BY <1>1, <1>2, <1>3, <1>4, <1>5, <1>6, <1>7, <1>8, <1>9, <1>10, <1>11, <1>12,
     <1>13, <1>14, <1>15, <1>16, <1>17, <1>18, <1>19 DEF ServiceNext, ServiceStep

\* Which copies of a pop are there: those of starts that failed, and that of this
\* start until its stop frees it.
Pops ==
  /\ starts \in Nat /\ failed \subseteq 0..starts /\ pops \subseteq failed \cup {starts}
  /\ state \in {"IDLE", "STOPPING"} => pops \subseteq failed
  /\ state \notin {"IDLE", "STOPPING"} /\ starts \in pops =>
       params = "sec1" /\ security = 1 /\ pop = starts

LEMMA PopsInit == ServiceInit => Pops
BY DEF ServiceInit, Pops

LEMMA PopsStep == Place /\ Pops /\ [ServiceNext]_serviceVars => Pops'
<1> SUFFICES ASSUME Place, Pops, [ServiceNext]_serviceVars PROVE Pops'
  OBVIOUS
<1> USE DEF managerVars, startVars, securityVars, protocommVars, ownedVars, Place,
      Pops, Running
<1>1. CASE InitManager
  BY <1>1 DEF InitManager, Enter
<1>2. CASE Deinit
  BY <1>2 DEF Deinit
<1>3. CASE SetAppInfo
  BY <1>3 DEF SetAppInfo
<1>4. CASE CreateEndpoint
  BY <1>4 DEF CreateEndpoint
<1>5. CASE RegisterEndpoint
  BY <1>5 DEF RegisterEndpoint
<1>6. CASE UnregisterEndpoint
  BY <1>6 DEF UnregisterEndpoint
<1>7. CASE \E sec \in Asked, given \in BOOLEAN : StartProvisioning(sec, given)
  BY <1>7, PastIs DEF StartProvisioning, SetSecurity
<1>8. CASE BuildStep
  <2>1. UNCHANGED <<state, startVars, securityVars>>
    BY <1>8, BuildIs
  <2> QED BY <2>1
<1>9. CASE BuildFails
  BY <1>9, BuildFailsIs
<1>10. CASE FailStop
  BY <1>10 DEF FailStop, Shutdown
<1>11. CASE FailReturn
  <2>1. state' = "IDLE" /\ failed' = failed \cup {starts} /\ UNCHANGED <<starts, pops>>
    BY <1>11 DEF FailReturn
  <2>2. starts \in 0..starts
    BY DEF Pops
  <2> QED BY <2>1, <2>2
<1>12. CASE StartReturn
  BY <1>12, BuildingIs DEF StartReturn
<1>13. CASE StopService /\ UNCHANGED client
  BY <1>13 DEF StopService
<1>14. CASE RemoveEndpoint
  BY <1>14, RemovingIs DEF RemoveEndpoint
<1>15. CASE StopTransport
  BY <1>15, RemovingIs DEF StopTransport, Shutdown
<1>16. CASE FreeHandlers
  BY <1>16, RemovingIs DEF FreeHandlers
<1>17. CASE \E e \in Endpoints : Deliver(e)
  BY <1>17 DEF Deliver
<1>18. CASE Handled
  BY <1>18 DEF Handled
<1>19. CASE UNCHANGED serviceVars
  BY <1>19 DEF serviceVars
<1> QED BY <1>1, <1>2, <1>3, <1>4, <1>5, <1>6, <1>7, <1>8, <1>9, <1>10, <1>11, <1>12,
     <1>13, <1>14, <1>15, <1>16, <1>17, <1>18, <1>19 DEF ServiceNext, ServiceStep

ServiceInv ==
  Place /\ Quiet /\ Secured /\ Backed /\ Held /\ Told /\ Informed /\ Secret
    /\ Pops

LEMMA ServiceInvInit == ServiceInit => ServiceInv
BY PlaceInit, QuietInit, SecuredInit, BackedInit, HeldInit, ToldInit, InformedInit, SecretInit,
   PopsInit
   DEF ServiceInv

LEMMA ServiceInvStep == ServiceInv /\ [ServiceNext]_serviceVars => ServiceInv'
BY PlaceStep, QuietStep, SecuredStep, BackedStep, HeldStep, ToldStep, InformedStep, SecretStep,
   PopsStep
   DEF ServiceInv

\* A step of the state machine within a service that runs keeps the invariant.
LEMMA RunningInv ==
  ASSUME ServiceInv, state \in Running, state' \in Running,
         UNCHANGED <<managerVars, step, failing, startVars, securityVars, protocommVars,
                     transport, advert, ownedVars, client>>
  PROVE  ServiceInv'
<1> USE DEF managerVars, startVars, securityVars, protocommVars, ownedVars, ServiceInv, Running
<1>1. Place' /\ Quiet'
  BY DEF Place, Quiet, States
<1>2. Secured' /\ Backed'
  BY DEF Place, Secured, Backed
<1>3. Held'
  BY DEF Place, Held
<1>4. Told'
  BY DEF Place, Told
<1>5. Informed' /\ Secret'
  BY DEF Place, Told, Informed, Secret, Wanted
<1>6. Pops'
  BY DEF Place, Pops
<1> QED BY <1>1, <1>2, <1>3, <1>4, <1>5, <1>6

LEMMA InvSecured == ServiceInv => EndpointsAreSecured
BY DEF ServiceInv, Place, Quiet, Secured, EndpointsAreSecured, Running, Data, States

LEMMA InvBacked == ServiceInv => BlocksOutliveRequests
BY DEF ServiceInv, Backed, BlocksOutliveRequests

LEMMA InvHeld == ServiceInv => IdleHoldsNothing
BY DEF ServiceInv, Place, Quiet, Held, Pops, IdleHoldsNothing

LEMMA InvServed == ServiceInv => ServedAsAsked
<1> SUFFICES ASSUME ServiceInv PROVE ServedAsAsked
  OBVIOUS
<1> USE DEF ServiceInv
<1>1. ASSUME "prov-session" \in endpoints, past \in {"first", "stopped"}
      PROVE  /\ used = IF ~start.given \/ start.sec = 0 THEN "null"
                       ELSE IF start.sec = 1 THEN "sec1" ELSE "sec2"
             /\ used = "sec1" => pop = starts /\ (pop \in pops \/ state = "STOPPING")
  <2>1. state # "IDLE"
    BY <1>1 DEF Quiet
  <2>2. start.sec \in build /\ used = Wanted /\ (used = "sec1" => pop = starts)
    BY <1>1 DEF Secret
  <2>3. state # "STOPPING" /\ used = "sec1" => pop \in pops
    BY <1>1, <2>1, <2>2 DEF Secret
  <2> QED BY <2>1, <2>2, <2>3 DEF Wanted
<1>2. ASSUME "proto-ver" \in endpoints
      PROVE  /\ info.sec = start.sec /\ info.app = appInfo
             /\ info.cap = None => start.sec # 0 /\ (start.sec = 1 => start.given)
             /\ info.cap # None /\ past = "first" =>
                  start.sec = 0 \/ (start.sec = 1 /\ ~start.given)
  <2>1. state # "IDLE"
    BY <1>2 DEF Quiet
  <2>2. /\ start.sec \in build /\ info.sec = start.sec /\ info.app = appInfo
        /\ info.cap = IF noSec THEN "no_sec" ELSE IF noPop THEN "no_pop" ELSE None
    BY <1>2 DEF Informed
  <2> QED BY <2>1, <2>2 DEF Told, None
<1> QED BY <1>1, <1>2 DEF ServedAsAsked

\* set_config_service of scheme_ble.c: name and manufacturer data with their headers
\* fit into the 31 bytes of an advertisement, and its unsigned subtraction never
\* wraps, whatever lengths the application gives.
THEOREM SentDataFits ==
  ASSUME NEW name \in Nat, NEW data \in Nat
  PROVE  LET sent == SentData(DeviceName(name), data)
         IN  /\ sent \in 0..data
             /\ sent > 0 => (IF DeviceName(name) = 0 THEN 0 ELSE DeviceName(name) + 2)
                              + sent + 2 <= 31
BY DEF SentData, DeviceName, MaxAdvert, MaxName

UuidInv ==
  /\ uuid \in Nat /\ lookup \in Seq(Nat)
  /\ \A i \in 1..Len(lookup) : lookup[i] <= uuid
  /\ UuidsDiffer

LEMMA EnteredDiffer ==
  ASSUME NEW table \in Seq(Nat), NEW most \in Nat,
         \A i \in 1..Len(table) : table[i] <= most,
         \A i, j \in 1..Len(table) : i # j => table[i] # table[j]
  PROVE  LET new == table \o <<most + 1>>
         IN  /\ new \in Seq(Nat)
             /\ \A i \in 1..Len(new) : new[i] <= most + 1
             /\ \A i, j \in 1..Len(new) : i # j => new[i] # new[j]
OBVIOUS

LEMMA UuidsKept == UuidInv /\ [ServiceNext]_serviceVars => UuidInv'
<1> SUFFICES ASSUME UuidInv, [ServiceNext]_serviceVars PROVE UuidInv'
  OBVIOUS
<1>1. CASE InitManager
  <2> DEFINE own == [i \in 1..5 |-> FirstUuid + i - 1]
  <2>1. own \in Seq(Nat) /\ Len(own) = 5 /\ \A i \in 1..5 : own[i] = i
    BY DEF FirstUuid
  <2>2. <<>> \o own = own
    BY <2>1
  <2>3. \/ UNCHANGED <<lookup, uuid>>
        \/ uuid' = 5 /\ (lookup' = <<>> \/ lookup' = own)
    BY <1>1, <2>2 DEF InitManager, Enter, LastUuid
  <2> HIDE DEF own
  <2>4. CASE UNCHANGED <<lookup, uuid>>
    BY <2>4 DEF UuidInv, UuidsDiffer
  <2>5. CASE uuid' = 5 /\ lookup' = <<>>
    BY <2>5 DEF UuidInv, UuidsDiffer
  <2>6. CASE uuid' = 5 /\ lookup' = own
    <3>1. lookup' \in Seq(Nat) /\ Len(lookup') = 5 /\ \A i \in 1..5 : lookup'[i] = i
      BY <2>1, <2>6
    <3>2. DOMAIN lookup' = 1..5
      BY <3>1
    <3>3. \A i \in 1..5 : lookup'[i] <= uuid'
      BY <2>6, <3>1
    <3> QED BY <2>6, <3>1, <3>2, <3>3 DEF UuidInv, UuidsDiffer
  <2> QED BY <2>3, <2>4, <2>5, <2>6
<1>2. CASE CreateEndpoint
  <2>1. uuid' = uuid + 1 /\ lookup' \in {lookup, lookup \o <<uuid + 1>>}
    BY <1>2 DEF CreateEndpoint, Enter
  <2>2. CASE lookup' = lookup
    BY <2>1, <2>2 DEF UuidInv, UuidsDiffer
  <2>3. CASE lookup' = lookup \o <<uuid + 1>>
    <3>1. \A i, j \in 1..Len(lookup) : i # j => lookup[i] # lookup[j]
      BY DEF UuidInv, UuidsDiffer
    <3> QED BY <2>1, <2>3, <3>1, EnteredDiffer DEF UuidInv, UuidsDiffer
  <2> QED BY <2>1, <2>2, <2>3
<1>3. CASE Deinit
  BY <1>3 DEF Deinit, UuidInv, UuidsDiffer
<1>4. CASE UNCHANGED <<lookup, uuid>>
  BY <1>4 DEF UuidInv, UuidsDiffer
<1>5. InitManager \/ CreateEndpoint \/ Deinit \/ UNCHANGED <<lookup, uuid>>
  BY BuildIs, BuildFailsIs DEF ServiceNext, ServiceStep, SetAppInfo, RegisterEndpoint,
     UnregisterEndpoint, StartProvisioning, FailStop, FailReturn, StartReturn, StopService,
     RemoveEndpoint, StopTransport, FreeHandlers, Deliver, Handled, managerVars, serviceVars
<1> QED BY <1>1, <1>2, <1>3, <1>4, <1>5

\* No two endpoints of the BLE scheme's table have the same UUID, those of the
\* manager and those the application creates with wifi_prov_mgr_endpoint_create.
THEOREM UuidsAreDistinct == ServiceSpec => []UuidsDiffer
<1>1. ServiceInit => UuidInv
  BY DEF ServiceInit, UuidInv, UuidsDiffer
<1>2. UuidInv => UuidsDiffer
  BY DEF UuidInv
<1> QED BY <1>1, <1>2, UuidsKept, PTL DEF ServiceSpec

-----------------------------------------------------------------------------
(* The requests to it.                                                     *)

\* While a request is served its client is there, the service is not gone.
Busy == state \in Running \cup {"STOPPING"}

\* Which commands come to which place.
OfCommand ==
  /\ at \in {"done", "connected", "reason"} => req.cmd = "GetStatus"
  /\ at = "apply" => req.cmd = "ApplyConfig"
  /\ at = "entries" => req.cmd = "ScanResult"
  /\ at = "wait" => req.cmd = "ScanStart"
  /\ at = "count" => req.cmd = "ScanStatus"

\* What is known of the request that is being served.
RequestInv ==
  at # "idle" => /\ Busy /\ client = req.to /\ client \in follow
                 /\ req \in Requests /\ OfCommand

LEMMA RequestTo ==
  ASSUME NEW m \in Requests
  PROVE  /\ m.to \in Data
         /\ m.cmd = "ApplyConfig" => m.to = "prov-config"
         /\ m.cmd = "ScanResult" => m.first \in Nat /\ m.count \in Nat
BY ResultsAssumption DEF Requests, ConfigRequests, ScanRequests, CtrlRequests, Data

\* What the application's task does to a service that a request is served by.
LEMMA ServiceBusy ==
  ASSUME ServiceInv, Busy, client # None, ServiceStep
  PROVE  Busy' /\ client' = client
<1> USE DEF ServiceInv, Place, Busy, Running
<1>1. CASE BuildStep
  BY <1>1, BuildIs
<1>2. CASE BuildFails
  BY <1>2, BuildFailsIs
<1>3. CASE FreeHandlers \/ StopTransport \/ FailStop
  BY <1>3, RemovingIs DEF FreeHandlers, StopTransport, FailStop, Shutdown, Quiet
<1>4. CASE InitManager \/ Deinit \/ SetAppInfo \/ CreateEndpoint \/ RegisterEndpoint
             \/ UnregisterEndpoint
  BY <1>4 DEF InitManager, Deinit, SetAppInfo, CreateEndpoint, RegisterEndpoint,
     UnregisterEndpoint
<1>5. CASE \E sec \in Asked, given \in BOOLEAN : StartProvisioning(sec, given)
  BY <1>5 DEF StartProvisioning
<1>6. CASE FailReturn \/ StartReturn \/ (StopService /\ UNCHANGED client) \/ RemoveEndpoint
  BY <1>6 DEF FailReturn, StartReturn, StopService, RemoveEndpoint
<1> QED BY <1>1, <1>2, <1>3, <1>4, <1>5, <1>6 DEF ServiceStep

\* It takes the service to no other state where credentials are tried, and from
\* no manager to none but an idle one.
Tried == {"CRED_RECV", "FAIL", "SUCCESS"}

LEMMA ServiceState ==
  ASSUME ServiceInv, ServiceStep
  PROVE  /\ state' \in Tried => state' = state
         /\ ctx = "null" => state' = "IDLE"
<1> USE DEF ServiceInv, Place, Tried
<1>1. CASE BuildStep
  BY <1>1, BuildIs
<1>2. CASE BuildFails
  BY <1>2, BuildFailsIs
<1>3. CASE FreeHandlers \/ StopTransport \/ FailStop
  BY <1>3 DEF FreeHandlers, StopTransport, FailStop
<1>4. CASE InitManager \/ Deinit \/ SetAppInfo \/ CreateEndpoint \/ RegisterEndpoint
             \/ UnregisterEndpoint
  BY <1>4 DEF InitManager, Deinit, SetAppInfo, CreateEndpoint, RegisterEndpoint,
     UnregisterEndpoint
<1>5. CASE \E sec \in Asked, given \in BOOLEAN : StartProvisioning(sec, given)
  BY <1>5 DEF StartProvisioning
<1>6. CASE FailReturn \/ StartReturn \/ (StopService /\ UNCHANGED client) \/ RemoveEndpoint
  BY <1>6 DEF FailReturn, StartReturn, StopService, RemoveEndpoint
<1> QED BY <1>1, <1>2, <1>3, <1>4, <1>5, <1>6 DEF ServiceStep

LEMMA RequestInvStep == ServiceInv /\ RequestInv /\ [Next]_vars => RequestInv'
<1> SUFFICES ASSUME ServiceInv, RequestInv, [Next]_vars PROVE RequestInv'
  OBVIOUS
<1> USE DEF serviceVars, requestVars, managerVars, startVars, securityVars,
      protocommVars, ownedVars, wifiVars, scanVars, memory, credVars, Answer, NoReply,
      RequestInv, Busy, OfCommand, Running
<1>1. CASE Service
  <2>1. ServiceStep /\ UNCHANGED <<at, req, follow>>
    BY <1>1 DEF Service
  <2>2. CASE at # "idle"
    <3>1. Busy /\ client = req.to /\ req \in Requests /\ client \in follow /\ OfCommand
      BY <2>2
    <3>2. client # None
      BY <3>1, RequestTo DEF None, Data
    <3> HIDE DEF Busy
    <3>3. Busy' /\ client' = client
      BY <2>1, <3>1, <3>2, ServiceBusy
    <3> QED BY <2>1, <3>1, <3>3
  <2>3. CASE at = "idle"
    BY <2>1, <2>3
  <2> QED BY <2>2, <2>3
<1>2. CASE Unfollowed
  BY <1>2 DEF Unfollowed, Deliver, Handled
<1>3. CASE \E m \in Requests : Receive(m)
  BY <1>3 DEF Receive, Deliver
<1>4. CASE RefuseCommand
  BY <1>4 DEF RefuseCommand, Called, Abandon, End
<1>5. CASE PayloadFails
  BY <1>5 DEF PayloadFails, Abandon, End
<1>6. CASE SendReply
  BY <1>6 DEF SendReply, End, Served
<1>7. CASE SendReplyFails
  BY <1>7 DEF SendReplyFails, End, Served
<1>8. CASE Over
  BY <1>8 DEF Over, Handled
<1>9. CASE GetStatus
  BY <1>9 DEF GetStatus, Called, Reply
<1>10. CASE GetStatusDone
  BY <1>10 DEF GetStatusDone, StopScanning, StopService
<1>11. CASE Connected
  BY <1>11 DEF Connected, Reply, Abandon, End
<1>12. CASE GetReason
  BY <1>12 DEF GetReason, Reply
<1>13. CASE SetConfig
  BY <1>13 DEF SetConfig, Called, Reply, NewConfig
<1>14. CASE ApplyMesh
  BY <1>14 DEF ApplyMesh, Called, Reply
<1>15. CASE ApplySta
  BY <1>15 DEF ApplySta, Reply, WithState
<1>16. CASE ScanStart
  BY <1>16 DEF ScanStart, Called, Reply
<1>17. CASE ScanWaited
  BY <1>17 DEF ScanWaited, Reply
<1>18. CASE ScanFinished
  BY <1>18 DEF ScanFinished, Called
<1>19. CASE ScanCount
  BY <1>19 DEF ScanCount, Reply
<1>20. CASE ScanResults
  BY <1>20 DEF ScanResults, Called, Abandon, End
<1>21. CASE ScanEntries
  BY <1>21 DEF ScanEntries, Reply, Abandon, End, ReadResults
<1>22. CASE CtrlReset
  BY <1>22 DEF CtrlReset, Called, Reply, WithState
<1>23. CASE CtrlReprov
  BY <1>23 DEF CtrlReprov, Called, Reply, WithState
<1>24. CASE ScanDone
  BY <1>24 DEF ScanDone
<1>25. CASE StaGotIp
  BY <1>25 DEF StaGotIp, Trying, WithState
<1>26. CASE StaConnecting
  BY <1>26 DEF StaConnecting, Trying
<1>27. CASE \E r \in {"auth", "absent"} : StaDisconnected(r)
  BY <1>27 DEF StaDisconnected, Trying, WithState
<1>28. CASE UNCHANGED vars
  BY <1>28 DEF vars
<1>29. CASE Panic
  BY <1>29 DEF Panic, Called
<1> QED BY <1>1, <1>2, <1>3, <1>4, <1>5, <1>6, <1>7, <1>8, <1>9, <1>10, <1>11, <1>12,
     <1>13, <1>14, <1>15, <1>16, <1>17, <1>18, <1>19, <1>20, <1>21, <1>22, <1>23, <1>24,
     <1>25, <1>26, <1>27, <1>28, <1>29 DEF Next, Work, Serve, Events

\* The service keeps its invariant, whatever is done to it by requests and events.
LEMMA ServiceInvKept == ServiceInv /\ RequestInv /\ [Next]_vars => ServiceInv'
<1> SUFFICES ASSUME ServiceInv, RequestInv, [Next]_vars PROVE ServiceInv'
  OBVIOUS
<1> USE DEF Running
<1>1. CASE ServiceStep \/ (\E e \in Endpoints : Deliver(e)) \/ Handled \/ UNCHANGED serviceVars
  BY <1>1, ServiceInvStep DEF ServiceNext
<1>2. CASE StopService /\ UNCHANGED client
  BY <1>2, ServiceInvStep DEF ServiceNext, ServiceStep
<1>3. CASE state \in Running /\ \E s \in Running : WithState(s)
  BY <1>3, RunningInv DEF WithState
<1>4. CASE Service \/ Unfollowed \/ UNCHANGED vars
  BY <1>1, <1>4 DEF Service, Unfollowed, vars
<1>5. CASE \E m \in Requests : Receive(m)
  BY <1>1, <1>5, RequestTo DEF Receive, Endpoints
<1>6. CASE RefuseCommand \/ PayloadFails \/ GetStatus \/ Connected \/ GetReason \/ SetConfig
             \/ ApplyMesh
  BY <1>1, <1>6 DEF RefuseCommand, PayloadFails, GetStatus, Connected, GetReason, SetConfig,
     ApplyMesh
<1>7. CASE SendReply \/ SendReplyFails
  BY <1>1, <1>7 DEF SendReply, SendReplyFails, Served
<1>8. CASE Over
  BY <1>1, <1>8 DEF Over
<1>9. CASE GetStatusDone
  BY <1>1, <1>2, <1>9 DEF GetStatusDone
<1>10. CASE ApplySta
  BY <1>1, <1>3, <1>10 DEF ApplySta
<1>11. CASE ScanStart \/ ScanWaited \/ ScanFinished \/ ScanCount \/ ScanResults \/ ScanEntries
  BY <1>1, <1>11 DEF ScanStart, ScanWaited, ScanFinished, ScanCount, ScanResults, ScanEntries
<1>12. CASE CtrlReset
  BY <1>1, <1>3, <1>12 DEF CtrlReset
<1>13. CASE CtrlReprov
  <2>1. Busy
    BY <1>13 DEF CtrlReprov, Called, RequestInv
  <2> QED BY <1>1, <1>3, <1>13, <2>1 DEF CtrlReprov, Busy
<1>14. CASE StaGotIp
  BY <1>3, <1>14 DEF StaGotIp, Trying
<1>15. CASE \E r \in {"auth", "absent"} : StaDisconnected(r)
  BY <1>3, <1>15 DEF StaDisconnected, Trying
<1>16. CASE ScanDone \/ StaConnecting \/ Panic
  BY <1>1, <1>16 DEF ScanDone, StaConnecting, Panic
<1> QED BY <1>4, <1>5, <1>6, <1>7, <1>8, <1>9, <1>10, <1>11, <1>12, <1>13, <1>14, <1>15,
        <1>16 DEF Next, Work, Serve, Events

\* Memory is lost only when a request is over; it begins with its own block.
MemoryInv ==
  /\ at # "over" => lost = {}
  /\ at = "called" => heap = {"req"}
  /\ LostOnlyWhenShort

LEMMA MemoryInvStep == RequestInv /\ MemoryInv /\ [Next]_vars => MemoryInv'
<1> SUFFICES ASSUME RequestInv, MemoryInv, [Next]_vars PROVE MemoryInv'
  OBVIOUS
<1> USE DEF serviceVars, requestVars, managerVars, startVars, securityVars,
      protocommVars, ownedVars, wifiVars, scanVars, memory, credVars, Answer, NoReply,
      MemoryInv, LostOnlyWhenShort
<1>1. CASE Service
  BY <1>1 DEF Service, StopScanning
<1>2. CASE Unfollowed
  BY <1>2 DEF Unfollowed, Deliver, Handled
<1>3. CASE \E m \in Requests : Receive(m)
  <2>1. at = "idle"
    BY <1>3, RequestTo DEF Receive, Deliver, RequestInv, None, Data
  <2> QED BY <1>3, <2>1 DEF Receive
<1>4. CASE RefuseCommand
  BY <1>4 DEF RefuseCommand, Called, Abandon, End
<1>5. CASE PayloadFails
  BY <1>5 DEF PayloadFails, Abandon, End
<1>6. CASE SendReply
  BY <1>6 DEF SendReply, End, Served
<1>7. CASE SendReplyFails
  BY <1>7 DEF SendReplyFails, End, Served
<1>8. CASE Over
  BY <1>8 DEF Over, Handled
<1>9. CASE GetStatus
  BY <1>9 DEF GetStatus, Called, Reply
<1>10. CASE GetStatusDone
  BY <1>10 DEF GetStatusDone, StopScanning, StopService
<1>11. CASE Connected
  BY <1>11 DEF Connected, Reply, Abandon, End
<1>12. CASE GetReason
  BY <1>12 DEF GetReason, Reply
<1>13. CASE SetConfig
  BY <1>13 DEF SetConfig, Called, Reply, NewConfig
<1>14. CASE ApplyMesh
  BY <1>14 DEF ApplyMesh, Called, Reply
<1>15. CASE ApplySta
  BY <1>15 DEF ApplySta, Reply, WithState
<1>16. CASE ScanStart
  BY <1>16 DEF ScanStart, Called, Reply
<1>17. CASE ScanWaited
  BY <1>17 DEF ScanWaited, Reply
<1>18. CASE ScanFinished
  BY <1>18 DEF ScanFinished, Called
<1>19. CASE ScanCount
  BY <1>19 DEF ScanCount, Reply
<1>20. CASE ScanResults
  BY <1>20 DEF ScanResults, Called, Abandon, End
<1>21. CASE ScanEntries
  BY <1>21 DEF ScanEntries, Reply, Abandon, End, ReadResults
<1>22. CASE CtrlReset
  BY <1>22 DEF CtrlReset, Called, Reply, WithState
<1>23. CASE CtrlReprov
  BY <1>23 DEF CtrlReprov, Called, Reply, WithState
<1>24. CASE ScanDone
  BY <1>24 DEF ScanDone
<1>25. CASE StaGotIp
  BY <1>25 DEF StaGotIp, Trying, WithState
<1>26. CASE StaConnecting
  BY <1>26 DEF StaConnecting, Trying
<1>27. CASE \E r \in {"auth", "absent"} : StaDisconnected(r)
  BY <1>27 DEF StaDisconnected, Trying, WithState
<1>28. CASE UNCHANGED vars
  BY <1>28 DEF vars
<1>29. CASE Panic
  BY <1>29 DEF Panic, Called
<1> QED BY <1>1, <1>2, <1>3, <1>4, <1>5, <1>6, <1>7, <1>8, <1>9, <1>10, <1>11, <1>12,
     <1>13, <1>14, <1>15, <1>16, <1>17, <1>18, <1>19, <1>20, <1>21, <1>22, <1>23, <1>24,
     <1>25, <1>26, <1>27, <1>28, <1>29 DEF Next, Work, Serve, Events

\* A connection is one of credentials that a client applied.
OriginInv ==
  /\ wifi = "CONNECTED" => origin \in {"own", "old"}
  /\ state \in Tried => origin \in {"own", "old"}
  /\ ConnectedIsOwn

LEMMA OriginInvStep == ServiceInv /\ RequestInv /\ OriginInv /\ [Next]_vars => OriginInv'
<1> SUFFICES ASSUME ServiceInv, RequestInv, OriginInv, [Next]_vars PROVE OriginInv'
  OBVIOUS
<1> USE DEF serviceVars, requestVars, managerVars, startVars, securityVars,
      protocommVars, ownedVars, wifiVars, scanVars, memory, credVars, Answer, NoReply,
      OriginInv, ConnectedIsOwn, Tried, RequestInv, Called
<1>1. CASE Service
  <2>1. CASE ctx = "null"
    <3>1. wifi' = "CONNECTING" /\ state' = "IDLE" /\ at' = at
      BY <1>1, <2>1, ServiceState DEF Service
    <3>2. state = "IDLE"
      BY <2>1 DEF ServiceInv, Place
    <3>3. at = "idle"
      BY <3>2 DEF Busy, Running
    <3> QED BY <3>1, <3>3
  <2>2. CASE ctx # "null"
    <3>1. UNCHANGED <<wifi, at>> /\ (origin \in {"own", "old"} => origin' \in {"own", "old"})
      BY <1>1, <2>2 DEF Service
    <3>2. state' \in Tried => state \in Tried
      BY <1>1, ServiceState DEF Service
    <3> QED BY <3>1, <3>2
  <2> QED BY <2>1, <2>2
<1>2. CASE Unfollowed
  BY <1>2 DEF Unfollowed, Deliver, Handled
<1>3. CASE \E m \in Requests : Receive(m)
  BY <1>3 DEF Receive, Deliver
<1>4. CASE RefuseCommand
  BY <1>4 DEF RefuseCommand, Called, Abandon, End
<1>5. CASE PayloadFails
  BY <1>5 DEF PayloadFails, Abandon, End
<1>6. CASE SendReply
  BY <1>6 DEF SendReply, End, Served
<1>7. CASE SendReplyFails
  BY <1>7 DEF SendReplyFails, End, Served
<1>8. CASE Over
  BY <1>8 DEF Over, Handled
<1>9. CASE GetStatus
  BY <1>9 DEF GetStatus, Called, Reply
<1>10. CASE GetStatusDone
  BY <1>10 DEF GetStatusDone, StopScanning, StopService
<1>11. CASE Connected
  BY <1>11 DEF Connected, Reply, Abandon, End
<1>12. CASE GetReason
  BY <1>12 DEF GetReason, Reply
<1>13. CASE SetConfig
  BY <1>13 DEF SetConfig, Called, Reply, NewConfig
<1>14. CASE ApplyMesh
  BY <1>14 DEF ApplyMesh, Called, Reply
<1>15. CASE ApplySta
  BY <1>15 DEF ApplySta, Reply, WithState
<1>16. CASE ScanStart
  BY <1>16 DEF ScanStart, Called, Reply
<1>17. CASE ScanWaited
  BY <1>17 DEF ScanWaited, Reply
<1>18. CASE ScanFinished
  BY <1>18 DEF ScanFinished, Called
<1>19. CASE ScanCount
  BY <1>19 DEF ScanCount, Reply
<1>20. CASE ScanResults
  BY <1>20 DEF ScanResults, Called, Abandon, End
<1>21. CASE ScanEntries
  BY <1>21 DEF ScanEntries, Reply, Abandon, End, ReadResults
<1>22. CASE CtrlReset
  BY <1>22 DEF CtrlReset, Called, Reply, WithState
<1>23. CASE CtrlReprov
  BY <1>23 DEF CtrlReprov, Called, Reply, WithState
<1>24. CASE ScanDone
  BY <1>24 DEF ScanDone
<1>25. CASE StaGotIp
  BY <1>25 DEF StaGotIp, Trying, WithState
<1>26. CASE StaConnecting
  BY <1>26 DEF StaConnecting, Trying
<1>27. CASE \E r \in {"auth", "absent"} : StaDisconnected(r)
  BY <1>27 DEF StaDisconnected, Trying, WithState
<1>28. CASE UNCHANGED vars
  BY <1>28 DEF vars
<1>29. CASE Panic
  BY <1>29 DEF Panic, Called
<1> QED BY <1>1, <1>2, <1>3, <1>4, <1>5, <1>6, <1>7, <1>8, <1>9, <1>10, <1>11, <1>12,
     <1>13, <1>14, <1>15, <1>16, <1>17, <1>18, <1>19, <1>20, <1>21, <1>22, <1>23, <1>24,
     <1>25, <1>26, <1>27, <1>28, <1>29 DEF Next, Work, Serve, Events

\* What is set and not yet applied is what was offered.
ConfigInv ==
  /\ config # None => config = offered /\ meshConfig = (IF whole THEN config ELSE Mangled)
  /\ at = "apply" => config # None /\ (~short => mesh = meshConfig)
  /\ at = "reply" /\ req.cmd = "ApplyConfig" => config = None
  /\ AppliedAsSet

LEMMA ConfigInvStep == ServiceInv /\ ServiceInv' /\ RequestInv /\ ConfigInv /\ [Next]_vars => ConfigInv'
<1> SUFFICES ASSUME ServiceInv, ServiceInv', RequestInv, ConfigInv, [Next]_vars PROVE ConfigInv'
  OBVIOUS
<1> USE DEF serviceVars, requestVars, managerVars, startVars, securityVars,
      protocommVars, ownedVars, wifiVars, scanVars, memory, credVars, Answer, NoReply,
      ConfigInv, AppliedAsSet, RequestInv, OfCommand
<1>1. CASE Service
  <2>1. UNCHANGED <<at, req, reply, short, sta, mesh, follow>>
    BY <1>1 DEF Service
  <2>2. \/ UNCHANGED <<config, meshConfig, offered, whole>> /\ "prov-config" \in blocks'
        \/ config' = None /\ offered' = None /\ "prov-config" \notin blocks'
    BY <1>1 DEF Service
  <2>3. CASE at \in {"apply", "reply"} /\ req.cmd = "ApplyConfig"
    <3>1. client = "prov-config" /\ Busy /\ follow # {}
      BY <2>3, RequestTo
    <3>2. client' = client
      BY <1>1, <3>1, ServiceBusy DEF Service, None
    <3>3. failing' = "no"
      BY <1>1, <3>1 DEF Service, Plain
    <3>4. "prov-config" \in blocks'
      BY <3>1, <3>2, <3>3 DEF ServiceInv, Backed, Data
    <3> QED BY <2>1, <2>2, <3>4
  <2>4. CASE ~(at \in {"apply", "reply"} /\ req.cmd = "ApplyConfig")
    BY <2>1, <2>2, <2>4
  <2> QED BY <2>3, <2>4
<1>2. CASE Unfollowed
  BY <1>2 DEF Unfollowed, Deliver, Handled
<1>3. CASE \E m \in Requests : Receive(m)
  BY <1>3 DEF Receive, Deliver
<1>4. CASE RefuseCommand
  BY <1>4 DEF RefuseCommand, Called, Abandon, End
<1>5. CASE PayloadFails
  BY <1>5 DEF PayloadFails, Abandon, End
<1>6. CASE SendReply
  BY <1>6 DEF SendReply, End, Served
<1>7. CASE SendReplyFails
  BY <1>7 DEF SendReplyFails, End, Served
<1>8. CASE Over
  BY <1>8 DEF Over, Handled
<1>9. CASE GetStatus
  BY <1>9 DEF GetStatus, Called, Reply
<1>10. CASE GetStatusDone
  BY <1>10 DEF GetStatusDone, StopScanning, StopService
<1>11. CASE Connected
  BY <1>11 DEF Connected, Reply, Abandon, End
<1>12. CASE GetReason
  BY <1>12 DEF GetReason, Reply
<1>13. CASE SetConfig
  BY <1>13 DEF SetConfig, Called, Reply, NewConfig
<1>14. CASE ApplyMesh
  BY <1>14 DEF ApplyMesh, Called, Reply
<1>15. CASE ApplySta
  BY <1>15 DEF ApplySta, Reply, WithState
<1>16. CASE ScanStart
  BY <1>16 DEF ScanStart, Called, Reply
<1>17. CASE ScanWaited
  BY <1>17 DEF ScanWaited, Reply
<1>18. CASE ScanFinished
  BY <1>18 DEF ScanFinished, Called
<1>19. CASE ScanCount
  BY <1>19 DEF ScanCount, Reply
<1>20. CASE ScanResults
  BY <1>20 DEF ScanResults, Called, Abandon, End
<1>21. CASE ScanEntries
  BY <1>21 DEF ScanEntries, Reply, Abandon, End, ReadResults
<1>22. CASE CtrlReset
  BY <1>22 DEF CtrlReset, Called, Reply, WithState
<1>23. CASE CtrlReprov
  BY <1>23 DEF CtrlReprov, Called, Reply, WithState
<1>24. CASE ScanDone
  BY <1>24 DEF ScanDone
<1>25. CASE StaGotIp
  BY <1>25 DEF StaGotIp, Trying, WithState
<1>26. CASE StaConnecting
  BY <1>26 DEF StaConnecting, Trying
<1>27. CASE \E r \in {"auth", "absent"} : StaDisconnected(r)
  BY <1>27 DEF StaDisconnected, Trying, WithState
<1>28. CASE UNCHANGED vars
  BY <1>28 DEF vars
<1>29. CASE Panic
  BY <1>29 DEF Panic, Called
<1> QED BY <1>1, <1>2, <1>3, <1>4, <1>5, <1>6, <1>7, <1>8, <1>9, <1>10, <1>11, <1>12,
     <1>13, <1>14, <1>15, <1>16, <1>17, <1>18, <1>19, <1>20, <1>21, <1>22, <1>23, <1>24,
     <1>25, <1>26, <1>27, <1>28, <1>29 DEF Next, Work, Serve, Events

\* The list does not get shorter than the client was told.
ScanInv ==
  /\ told \in Nat /\ listed \in Nat /\ told <= listed
  /\ ToldResultsAreThere

LEMMA ScanInvStep == RequestInv /\ ScanInv /\ [Next]_vars => ScanInv'
<1> SUFFICES ASSUME RequestInv, ScanInv, [Next]_vars PROVE ScanInv'
  OBVIOUS
<1> USE DEF serviceVars, requestVars, managerVars, startVars, securityVars,
      protocommVars, ownedVars, wifiVars, scanVars, memory, credVars, Answer, NoReply,
      ScanInv, ToldResultsAreThere, RequestInv, OfCommand
<1>1. CASE Service
  <2>1. UNCHANGED <<at, req, reply>>
    BY <1>1 DEF Service
  <2>2. UNCHANGED <<told, listed>> \/ (told' = 0 /\ listed' = 0)
    BY <1>1 DEF Service, StopScanning
  <2>3. CASE UNCHANGED <<told, listed>>
    BY <2>1, <2>3
  <2>4. CASE told' = 0 /\ listed' = 0
    <3>1. CASE at = "reply" /\ req.cmd = "ScanResult"
      <4>1. req.first \in Nat /\ req.count \in Nat
        BY <3>1, RequestTo
      <4> QED BY <2>1, <2>4, <3>1, <4>1
    <3>2. CASE ~(at = "reply" /\ req.cmd = "ScanResult")
      BY <2>1, <2>4, <3>2
    <3> QED BY <3>1, <3>2
  <2> QED BY <2>2, <2>3, <2>4
<1>2. CASE Unfollowed
  BY <1>2 DEF Unfollowed, Deliver, Handled
<1>3. CASE \E m \in Requests : Receive(m)
  BY <1>3 DEF Receive, Deliver
<1>4. CASE RefuseCommand
  BY <1>4 DEF RefuseCommand, Called, Abandon, End
<1>5. CASE PayloadFails
  BY <1>5 DEF PayloadFails, Abandon, End
<1>6. CASE SendReply
  BY <1>6 DEF SendReply, End, Served
<1>7. CASE SendReplyFails
  BY <1>7 DEF SendReplyFails, End, Served
<1>8. CASE Over
  BY <1>8 DEF Over, Handled
<1>9. CASE GetStatus
  BY <1>9 DEF GetStatus, Called, Reply
<1>10. CASE GetStatusDone
  BY <1>10 DEF GetStatusDone, StopScanning, StopService
<1>11. CASE Connected
  BY <1>11 DEF Connected, Reply, Abandon, End
<1>12. CASE GetReason
  BY <1>12 DEF GetReason, Reply
<1>13. CASE SetConfig
  BY <1>13 DEF SetConfig, Called, Reply, NewConfig
<1>14. CASE ApplyMesh
  BY <1>14 DEF ApplyMesh, Called, Reply
<1>15. CASE ApplySta
  BY <1>15 DEF ApplySta, Reply, WithState
<1>16. CASE ScanStart
  BY <1>16 DEF ScanStart, Called, Reply
<1>17. CASE ScanWaited
  BY <1>17 DEF ScanWaited, Reply
<1>18. CASE ScanFinished
  BY <1>18 DEF ScanFinished, Called
<1>19. CASE ScanCount
  BY <1>19 DEF ScanCount, Reply
<1>20. CASE ScanResults
  BY <1>20 DEF ScanResults, Called, Abandon, End
<1>21. CASE ScanEntries
  BY <1>21, RequestTo DEF ScanEntries, Reply, Abandon, End, ReadResults
<1>22. CASE CtrlReset
  BY <1>22 DEF CtrlReset, Called, Reply, WithState
<1>23. CASE CtrlReprov
  BY <1>23 DEF CtrlReprov, Called, Reply, WithState
<1>24. CASE ScanDone
  BY <1>24 DEF ScanDone
<1>25. CASE StaGotIp
  BY <1>25 DEF StaGotIp, Trying, WithState
<1>26. CASE StaConnecting
  BY <1>26 DEF StaConnecting, Trying
<1>27. CASE \E r \in {"auth", "absent"} : StaDisconnected(r)
  BY <1>27 DEF StaDisconnected, Trying, WithState
<1>28. CASE UNCHANGED vars
  BY <1>28 DEF vars
<1>29. CASE Panic
  BY <1>29 DEF Panic, Called
<1> QED BY <1>1, <1>2, <1>3, <1>4, <1>5, <1>6, <1>7, <1>8, <1>9, <1>10, <1>11, <1>12,
     <1>13, <1>14, <1>15, <1>16, <1>17, <1>18, <1>19, <1>20, <1>21, <1>22, <1>23, <1>24,
     <1>25, <1>26, <1>27, <1>28, <1>29 DEF Next, Work, Serve, Events

Inv ==
  ServiceInv /\ RequestInv /\ MemoryInv /\ OriginInv /\ ConfigInv /\ ScanInv

LEMMA InvInit == Init => Inv
<1> SUFFICES ASSUME Init PROVE Inv
  OBVIOUS
<1>1. ServiceInv
  BY ServiceInvInit DEF Init
<1>2. RequestInv /\ MemoryInv
  BY DEF Init, RequestInv, MemoryInv, LostOnlyWhenShort
<1>3. OriginInv
  BY DEF Init, ServiceInit, OriginInv, ConnectedIsOwn, Tried
<1>4. ConfigInv /\ ScanInv
  BY DEF Init, ConfigInv, ScanInv, AppliedAsSet, ToldResultsAreThere
<1> QED BY <1>1, <1>2, <1>3, <1>4 DEF Inv

LEMMA InvStep == Inv /\ [Next]_vars => Inv'
BY ServiceInvKept, RequestInvStep, MemoryInvStep, OriginInvStep, ConfigInvStep, ScanInvStep
   DEF Inv

LEMMA InvAlways == Spec => []Inv
BY InvInit, InvStep, PTL DEF Spec

\* While a service is built, undone or taken apart (manager.c), no endpoint with
\* data is reached where the security endpoint is missing.
THEOREM EndpointsStaySecured == Spec => []EndpointsAreSecured
<1>1. Inv => EndpointsAreSecured
  BY InvSecured DEF Inv
<1> QED BY <1>1, InvAlways, PTL

\* manager.c frees no block of a handler that a request is in, except where a
\* start fails.
THEOREM BlocksAreOutlived == Spec => []BlocksOutliveRequests
<1>1. Inv => BlocksOutliveRequests
  BY InvBacked DEF Inv
<1> QED BY <1>1, InvAlways, PTL

\* Whatever step of wifi_prov_mgr_start_service fails, and however often, an idle
\* manager holds nothing but the three leaks named in IdleHoldsNothing, and the
\* copies of the pop it holds are those of starts that failed.
THEOREM IdleIsEmpty == Spec => []IdleHoldsNothing
<1>1. Inv => IdleHoldsNothing
  BY InvHeld DEF Inv
<1> QED BY <1>1, InvAlways, PTL

\* wifi_prov_mgr_start_provisioning gives each service the security, the secret
\* and the version information that this start asked for.
THEOREM EachIsServedAsAsked == Spec => []ServedAsAsked
<1>1. Inv => ServedAsAsked
  BY InvServed DEF Inv
<1> QED BY <1>1, InvAlways, PTL

\* apply_config_handler succeeds only with what the last successful SetConfig has
\* brought, mesh data and credentials, unless the event with the mesh data could not
\* be posted or the mesh data did not fit.
THEOREM AppliedIsWhatWasSet == Spec => []AppliedAsSet
<1>1. Inv => AppliedAsSet
  BY DEF Inv, ConfigInv
<1> QED BY <1>1, InvAlways, PTL

\* get_status_handler calls a client connected only with credentials that a
\* client applied.
THEOREM ConnectionsAreOwn == Spec => []ConnectedIsOwn
<1>1. Inv => ConnectedIsOwn
  BY DEF Inv, OriginInv
<1> QED BY <1>1, InvAlways, PTL

\* A client of wifi_scan.c gets the results it was told of while the service is
\* not asked to stop.
THEOREM ToldIsThere == Spec => []ToldResultsAreThere
<1>1. Inv => ToldResultsAreThere
  BY DEF Inv, ScanInv
<1> QED BY <1>1, InvAlways, PTL

\* The handlers of wifi_config.c, wifi_scan.c and wifi_ctrl.c lose memory only
\* where there was not enough, or with an unknown command.
THEOREM MemoryIsKept == Spec => []LostOnlyWhenShort
<1>1. Inv => LostOnlyWhenShort
  BY DEF Inv, MemoryInv
<1> QED BY <1>1, InvAlways, PTL
============================================================================
