------------------------------ MODULE WifiScan ------------------------------
(***************************************************************************)
(* The provisioning manager's scan for access points                       *)
(* (components/wifi_provisioning/src/manager.c, handlers.c): the transport *)
(* task serves the client's requests to scan and to read results, the      *)
(* event-loop task handles WIFI_EVENT_SCAN_DONE, any other task stops the  *)
(* service.                                                                *)
(*                                                                         *)
(* What happens under prov_ctx_lock in one go is one step. Only the merge  *)
(* of new records into the sorted list is a step per round of its loops,   *)
(* with the lock held. A record is what the merge looks at, its signal     *)
(* strength; a pointer to one is its channel and its place there.          *)
(***************************************************************************)
EXTENDS Integers, Sequences, Functions

(* A definition whose comment begins with "Defect:" is a variant of the    *)
(* definition after it, the way a mistake in the code would have it. The   *)
(* specification does not use it: a property's run has to fail with it.    *)

CONSTANTS
  Rssi,         \* the signal strengths of access points
  LastChannel,  \* the last channel of a scan in groups (13 in the code)
  MaxResults,   \* MAX_SCAN_RESULTS
  MaxFound,     \* bound: records of one scan of the driver
  MaxEvents,    \* bound: WIFI_EVENT_SCAN_DONE events in the event queue
  Orderly,      \* does the client scan only before it sends credentials?
  CoreScans     \* does the mesh core scan, too?

ASSUME RssiAssumption == Rssi \subseteq Int /\ Rssi # {}
ASSUME ChannelsAssumption == LastChannel \in Nat \ {0}
ASSUME BoundsAssumption ==
  /\ MaxResults \in Nat \ {0} /\ MaxFound \in Nat /\ MaxEvents \in Nat \ {0}
ASSUME FlagsAssumption == Orderly \in BOOLEAN /\ CoreScans \in BOOLEAN

Null == <<0, 0>>
Channels == 0..LastChannel  \* 0 stands for a scan of all channels
Places == 0..(MaxResults - 1)
Pointers == Channels \X (1..MaxResults)

\* The driver reports the strongest access points first.
Descending(s) == \A i, j \in DOMAIN s : i < j => s[i] >= s[j]
Results == {s \in UNION {[1..n -> Rssi] : n \in 0..MaxFound} : Descending(s)}

VARIABLES
  state,     \* prov_state: "off" without a service, "CRED" from CRED_RECV on
  scanning,  \* prov_ctx->scanning
  grouped,   \* prov_ctx->channels_per_group # 0
  channel,   \* prov_ctx->curr_channel
  aps,       \* prov_ctx->ap_list and ap_list_len, <<>> where there is no list
  sorted,    \* prov_ctx->ap_list_sorted
  driver,    \* the Wi-Fi driver: is it scanning?
  found,     \* the results it has not handed over
  events,    \* WIFI_EVENT_SCAN_DONE events on their way
  handler,   \* update_wifi_scan_results: where it is (it holds the lock)
  rc, is,    \* the variables of its loops
  old,       \* history: the sorted list when the merge began
  client,    \* where the transport task is
  ptr,       \* the record it reads
  fault      \* "none", or "use_after_free"

scanVars == <<scanning, grouped, channel>>
lists == <<aps, sorted>>
radio == <<driver, found, events>>
merging == <<handler, rc, is, old>>
reader == <<client, ptr, fault>>
vars == <<state, scanVars, lists, radio, merging, reader>>

Unlocked == handler = "idle"
Valid(p) == p[2] \in DOMAIN aps[p[1]]
Strength(p) == aps[p[1]][p[2]]

Init ==
  /\ state = "off"
  /\ scanning = FALSE /\ grouped = FALSE /\ channel = 0
  /\ aps = [c \in Channels |-> <<>>]
  /\ sorted = [i \in Places |-> Null]
  /\ driver = "idle" /\ found = <<>> /\ events = 0
  /\ handler = "idle" /\ rc = 0 /\ is = -1 /\ old = sorted
  /\ client = "idle" /\ ptr = Null /\ fault = "none"
-----------------------------------------------------------------------------
(* The Wi-Fi driver.                                                       *)

\* esp_wifi_scan_start: it may fail, and does while a scan is in progress.
DriverStarts ==
  /\ driver = "idle"
  /\ driver' = "scanning"
  /\ found' = <<>>
  /\ UNCHANGED events

\* The mesh core has a scan of its own made.
CoreScan ==
  /\ CoreScans
  /\ DriverStarts
  /\ UNCHANGED <<state, scanVars, lists, merging, reader>>

ScanDone ==
  /\ driver = "scanning"
  /\ events < MaxEvents
  /\ driver' = "idle"
  /\ found' \in Results
  /\ events' = events + 1
  /\ UNCHANGED <<state, scanVars, lists, merging, reader>>

\* Defect: the sorted list keeps the entries of the last scan.
KeepSorted == UNCHANGED sorted

ClearSorted == sorted' = [i \in Places |-> Null]

-----------------------------------------------------------------------------
(* The service, as far as it touches the scan.                             *)

ServiceUp ==
  /\ Unlocked
  /\ state = "off"
  /\ state' = "STARTED"
  /\ UNCHANGED <<scanVars, lists, radio, merging, reader>>

Credentials ==
  /\ Unlocked
  /\ state = "STARTED"
  /\ Orderly => ~scanning
  /\ state' = "CRED"
  /\ UNCHANGED <<scanVars, lists, radio, merging, reader>>

\* wifi_prov_mgr_reset_sm_state_on_failure: the client may try again.
ResetState ==
  /\ Unlocked
  /\ state = "CRED"
  /\ state' = "STARTED"
  /\ UNCHANGED <<scanVars, lists, radio, merging, reader>>

\* wifi_prov_mgr_stop_service deletes all scan results at once, though the
\* transport goes on until the clean-up.
StopService ==
  /\ Unlocked
  /\ state \in {"STARTED", "CRED"}
  /\ state' = "STOPPING"
  /\ aps' = [c \in Channels |-> <<>>]
  /\ ClearSorted
  /\ scanning' = FALSE
  /\ UNCHANGED <<grouped, channel, radio, merging, reader>>

\* The transport finishes the request it serves.
ServiceDown ==
  /\ Unlocked
  /\ state = "STOPPING"
  /\ client = "idle"
  /\ state' = "off"
  /\ UNCHANGED <<scanVars, lists, radio, merging, reader>>

-----------------------------------------------------------------------------
(* The client's requests.                                                  *)

Served == state # "off" /\ client = "idle" /\ fault = "none" /\ Unlocked

\* The first half of wifi_prov_mgr_wifi_scan_start. (While a scan is running it
\* returns at once and changes nothing, also when it was to block.)
ScanStart(blocking, group) ==
  /\ Served
  /\ Orderly => state = "STARTED"
  /\ ~scanning
  /\ ClearSorted
  /\ grouped' = group
  /\ \/ /\ DriverStarts
        /\ scanning' = TRUE
        /\ channel' = IF group THEN 1 ELSE 0
        /\ client' = IF blocking THEN "wait" ELSE "idle"
     \/ UNCHANGED <<radio, scanning, channel, client>>  \* ESP_FAIL
  /\ UNCHANGED <<state, aps, merging, ptr, fault>>

\* The loop in its second half.
ScanWaited ==
  /\ client = "wait"
  /\ Unlocked
  /\ ~scanning
  /\ client' = "idle"
  /\ UNCHANGED <<state, scanVars, lists, radio, merging, ptr, fault>>

\* wifi_prov_mgr_wifi_scan_result gives out a pointer under the lock,
\* scan_result of handlers.c reads the record without it.
ScanResult(i) ==
  /\ Served
  /\ sorted[i] # Null
  /\ ptr' = sorted[i]
  /\ client' = "copy"
  /\ UNCHANGED <<state, scanVars, lists, radio, merging, fault>>

CopyRecord ==
  /\ client = "copy"
  /\ ptr' = Null
  /\ client' = "idle"
  /\ fault' = IF Valid(ptr) THEN "none" ELSE "use_after_free"
  /\ UNCHANGED <<state, scanVars, lists, radio, merging>>

-----------------------------------------------------------------------------
(* update_wifi_scan_results                                                *)

\* The event is for a scan of the manager, and the state lets it be handled.
Expected == state = "STARTED" /\ scanning

EventIgnored ==
  /\ Unlocked
  /\ events > 0
  /\ ~Expected
  /\ events' = events - 1
  /\ UNCHANGED <<state, scanVars, lists, driver, found, merging, reader>>

\* The list of the channel is replaced by min(count, MAX_SCAN_RESULTS) records.
ResultsTaken ==
  /\ Unlocked
  /\ events > 0
  /\ Expected
  /\ events' = events - 1
  /\ rc' = IF Len(found) < MaxResults THEN Len(found) ELSE MaxResults
  /\ aps' = [aps EXCEPT ![channel] = SubSeq(found, 1, rc')]
  /\ found' = <<>>
  /\ is' = MaxResults - rc' - 1
  /\ old' = sorted
  /\ handler' = "merge"
  /\ UNCHANGED <<state, scanVars, sorted, driver, reader>>

\* Defect: the lists of all channels are freed, not only that of this one.
ResultsFailedFreesAll ==
  /\ Unlocked
  /\ events > 0
  /\ Expected
  /\ events' = events - 1
  /\ aps' = [c \in Channels |-> <<>>]
  /\ found' \in {found, <<>>}
  /\ channel' = IF grouped THEN (channel + 1) % (LastChannel + 1) ELSE channel
  /\ scanning' = FALSE
  /\ UNCHANGED <<state, grouped, sorted, driver, merging, reader>>

\* The driver does not answer, or memory is short: the scan ends here.
ResultsFailed ==
  /\ Unlocked
  /\ events > 0
  /\ Expected
  /\ events' = events - 1
  /\ aps' = [aps EXCEPT ![channel] = <<>>]
  /\ found' \in {found, <<>>}
  /\ channel' = IF grouped THEN (channel + 1) % (LastChannel + 1) ELSE channel
  /\ scanning' = FALSE
  /\ UNCHANGED <<state, grouped, sorted, driver, merging, reader>>

\* The strongest place not looked at yet goes to the new record or stays with
\* the old one, from the end of the list to its head.
NewIsWeaker == sorted[is] # Null /\ Strength(sorted[is]) > aps[channel][rc]

PlaceNew ==
  /\ handler = "merge"
  /\ rc > 0 /\ is >= 0
  /\ NewIsWeaker
  /\ sorted' = [sorted EXCEPT ![is + rc] = <<channel, rc>>]
  /\ rc' = rc - 1
  /\ UNCHANGED <<state, scanVars, aps, radio, handler, is, old, reader>>

\* Defect: an old record is not moved.
MoveOldNot ==
  /\ handler = "merge"
  /\ rc > 0 /\ is >= 0
  /\ ~NewIsWeaker
  /\ is' = is - 1
  /\ UNCHANGED <<state, scanVars, lists, radio, handler, rc, old, reader>>

MoveOld ==
  /\ handler = "merge"
  /\ rc > 0 /\ is >= 0
  /\ ~NewIsWeaker
  /\ sorted' = IF sorted[is] = Null THEN sorted
               ELSE [sorted EXCEPT ![is + rc] = sorted[is]]
  /\ is' = is - 1
  /\ UNCHANGED <<state, scanVars, aps, radio, handler, rc, old, reader>>

PlaceRest ==
  /\ handler = "merge"
  /\ rc > 0 /\ is < 0
  /\ sorted' = [sorted EXCEPT ![rc - 1] = <<channel, rc>>]
  /\ rc' = rc - 1
  /\ UNCHANGED <<state, scanVars, aps, radio, handler, is, old, reader>>

\* Defect: the scan stays marked as running when the driver refuses.
NextChannelRunning ==
  /\ handler = "merge"
  /\ rc = 0
  /\ handler' = "idle"
  /\ channel' = IF grouped THEN (channel + 1) % (LastChannel + 1) ELSE channel
  /\ \/ /\ grouped /\ channel' # 0
        /\ DriverStarts \/ UNCHANGED radio
        /\ UNCHANGED scanning
     \/ /\ ~grouped \/ channel' = 0
        /\ scanning' = FALSE
        /\ UNCHANGED radio
  /\ UNCHANGED <<state, grouped, lists, rc, is, old, reader>>

\* A scan of all channels is over; one in groups goes on with the next channel
\* unless it was the last or the driver refuses.
NextChannel ==
  /\ handler = "merge"
  /\ rc = 0
  /\ handler' = "idle"
  /\ channel' = IF grouped THEN (channel + 1) % (LastChannel + 1) ELSE channel
  /\ \/ /\ grouped /\ channel' # 0
        /\ DriverStarts
        /\ UNCHANGED scanning
     \/ /\ scanning' = FALSE
        /\ UNCHANGED radio
  /\ UNCHANGED <<state, grouped, lists, rc, is, old, reader>>

-----------------------------------------------------------------------------
Handler ==
  \/ EventIgnored \/ ResultsTaken \/ ResultsFailed
  \/ PlaceNew \/ MoveOld \/ PlaceRest \/ NextChannel

\* cmd_scan_start_handler. (What scan_start returns is the client's status.)
StartRequest == \E blocking, group \in BOOLEAN : ScanStart(blocking, group)

\* cmd_scan_result_handler reads one record after the other, with the lock free
\* in between; where there is none, or no memory for its copy, it stops. So a
\* request is any number of readings.
ResultRequest == \E i \in Places : ScanResult(i)

Request == StartRequest \/ ResultRequest

Next ==
  \/ CoreScan \/ ScanDone
  \/ ServiceUp \/ Credentials \/ ResetState \/ StopService \/ ServiceDown
  \/ Request \/ ScanWaited \/ CopyRecord
  \/ Handler

Spec == Init /\ [][Next]_vars

\* A scan of the driver ends, the event loop handles its events, the transport
\* task goes on with its request. Nothing makes a client ask for anything.
Fairness ==
  /\ WF_vars(ScanDone) /\ WF_vars(Handler)
  /\ SF_vars(ScanWaited) /\ WF_vars(CopyRecord)

FairSpec == Spec /\ Fairness

-----------------------------------------------------------------------------
TypeOK ==
  /\ state \in {"off", "STARTED", "CRED", "STOPPING"}
  /\ scanning \in BOOLEAN /\ grouped \in BOOLEAN /\ channel \in Channels
  /\ aps \in [Channels -> Seq(Rssi)]
  /\ sorted \in [Places -> Pointers \cup {Null}]
  /\ driver \in {"idle", "scanning"}
  /\ found \in Seq(Rssi) /\ events \in 0..MaxEvents
  /\ handler \in {"idle", "merge"}
  /\ rc \in 0..MaxResults /\ is \in -1..(MaxResults - 1)
  /\ old \in [Places -> Pointers \cup {Null}]
  /\ client \in {"idle", "wait", "copy"} /\ ptr \in Pointers \cup {Null}
  /\ fault \in {"none", "use_after_free"}

Filled(list) == {i \in Places : list[i] # Null}

\* The list a client reads has no gap, strongest first, and every entry is a
\* record of its own that is still there, though the arrays behind the entries
\* are freed and replaced channel by channel.
SortedList ==
  Unlocked =>
    /\ \A i \in Filled(sorted) : Valid(sorted[i])
    /\ \A i, j \in Filled(sorted) :
         i < j => /\ sorted[i] # sorted[j]
                  /\ Strength(sorted[i]) >= Strength(sorted[j])
    /\ \A i \in Filled(sorted), j \in Places : j < i => sorted[j] # Null

\* A merge keeps every new record and of the old ones those that were in the
\* places which the new ones do not need: none is lost while all have room.
MergeKeeps ==
  handler = "merge" /\ rc = 0 =>
    Range(sorted) \ {Null} =
      {<<channel, k>> : k \in DOMAIN aps[channel]}
        \cup ({old[i] : i \in 0..(MaxResults - Len(aps[channel]) - 1)} \ {Null})

\* What is handed over to a client that reads results while the scan goes on is
\* freed under its hands only when the service is stopped.
ReadIsSafe == client = "copy" /\ ~Valid(ptr) => state = "STOPPING"

\* wifi_scan.h:108 "When scan has finished this returns true": the scan does
\* not stay "running" for ever.
ScanFinishes == scanning ~> ~scanning
=============================================================================
