--------------------------- MODULE WifiScan_proofs ---------------------------
(***************************************************************************)
(* Proofs about the scan for access points: for any number of channels, of *)
(* places in the sorted list and of records, with a mesh core that scans   *)
(* or not, and with any client.                                            *)
(***************************************************************************)
EXTENDS WifiScan, SequenceTheorems, TLAPS

-----------------------------------------------------------------------------
(* The inductive invariant.                                                *)

\* A list of pointers into given records.
There(p, a) == p[2] \in DOMAIN a[p[1]]
Level(p, a) == a[p[1]][p[2]]

\* What SortedList says of it.
InOrder(s, a) ==
  /\ \A i \in Filled(s) : There(s[i], a)
  /\ \A i, j \in Filled(s) :
       i < j => s[i] # s[j] /\ Level(s[i], a) >= Level(s[j], a)
  /\ \A i \in Filled(s), j \in Places : j < i => s[j] # Null

\* The channels of a scan in groups that are done: a list being built points
\* to no other.
Scanned == IF grouped THEN 1..(channel - 1) ELSE {}
FromScanned(s) == \A i \in Filled(s) : s[i][1] \in Scanned

FoundInOrder == Descending(found)

ChannelFollows ==
  scanning => IF grouped THEN channel \in 1..LastChannel ELSE channel = 0

ListIsSorted ==
  Unlocked => InOrder(sorted, aps) /\ (scanning => FromScanned(sorted))

ReaderFollows ==
  client = "copy" =>
    /\ ptr \in Pointers
    /\ scanning => ptr[1] \in Scanned
    /\ There(ptr, aps) \/ state = "STOPPING"

\* The merge writes the places from the last one to the first; is + rc is the
\* next, and those after it are written: the tail.
New == aps[channel]
Room == MaxResults - Len(New) - 1  \* the last old place there is room for
Rear == {j \in Places : j > is + rc}

Underway ==
  /\ scanning /\ state = "STARTED"
  /\ InOrder(old, aps) /\ FromScanned(old)
  /\ Descending(New) /\ Len(New) <= MaxResults
  /\ rc <= Len(New) /\ is <= Room

Unwritten == \A j \in Places : j <= is + rc => sorted[j] = old[j]

\* The tail is made of the new records and of the old ones merged so far,
RearIsMerged ==
  /\ \A j \in Rear : sorted[j] # Null =>
       \/ \E k \in (rc + 1)..Len(New) : sorted[j] = <<channel, k>>
       \/ \E i \in Places : is < i /\ i <= Room /\ sorted[j] = old[i]
  /\ \A k \in (rc + 1)..Len(New) : \E j \in Rear : sorted[j] = <<channel, k>>
  /\ \A i \in Places : is < i /\ i <= Room /\ old[i] # Null =>
       \E j \in Rear : sorted[j] = old[i]

\* is in order,
RearInOrder ==
  \A i, j \in Rear : i < j /\ sorted[j] # Null =>
    /\ sorted[i] # Null /\ sorted[i] # sorted[j]
    /\ Level(sorted[i], aps) >= Level(sorted[j], aps)

\* and weaker than what is still to be merged.
RearIsWeaker ==
  \A j \in Rear : sorted[j] # Null =>
    /\ \A k \in 1..rc : New[k] >= Level(sorted[j], aps)
    /\ \A i \in Places : i <= is =>
         old[i] # Null /\ Level(old[i], aps) >= Level(sorted[j], aps)

MergeInv ==
  handler = "merge" =>
    Underway /\ Unwritten /\ RearIsMerged /\ RearInOrder /\ RearIsWeaker

ScanInv ==
  /\ TypeOK /\ FoundInOrder /\ ChannelFollows /\ ListIsSorted /\ ReaderFollows
  /\ MergeInv

-----------------------------------------------------------------------------
(* The data.                                                               *)

LEMMA NumberFacts ==
  /\ MaxResults \in Nat /\ MaxResults >= 1 /\ LastChannel \in Nat
  /\ LastChannel >= 1 /\ MaxEvents \in Nat
  /\ 0 \in Channels /\ Channels \subseteq Nat /\ Places \subseteq Nat
  /\ Null[1] = 0 /\ Null[2] = 0
BY BoundsAssumption, ChannelsAssumption DEF Channels, Places, Null

LEMMA PointerFacts ==
  ASSUME NEW p \in Pointers
  PROVE  /\ p[1] \in Channels /\ p[2] \in 1..MaxResults /\ p = <<p[1], p[2]>>
         /\ p # Null
BY NumberFacts DEF Pointers

LEMMA RecordFacts ==
  ASSUME TypeOK, NEW c \in Channels
  PROVE  /\ aps[c] \in Seq(Rssi) /\ Len(aps[c]) \in Nat
         /\ DOMAIN aps[c] = 1..Len(aps[c])
         /\ \A k \in 1..Len(aps[c]) : aps[c][k] \in Int
BY LenProperties, ElementOfSeq, RssiAssumption DEF TypeOK

LEMMA LevelFacts ==
  ASSUME TypeOK, NEW p \in Pointers, There(p, aps)
  PROVE  Level(p, aps) \in Int
BY PointerFacts, RecordFacts DEF There, Level

LEMMA ListFacts ==
  ASSUME TypeOK
  PROVE  /\ \A i \in Places : sorted[i] \in Pointers \cup {Null}
                              /\ old[i] \in Pointers \cup {Null}
         /\ \A i \in Filled(sorted) : i \in Places /\ sorted[i] \in Pointers
         /\ \A i \in Filled(old) : i \in Places /\ old[i] \in Pointers
         /\ DOMAIN sorted = Places
         /\ rc \in 0..MaxResults /\ is \in -1..(MaxResults - 1)
         /\ channel \in Channels
BY DEF TypeOK, Filled

LEMMA LoopFacts ==
  ASSUME TypeOK
  PROVE  is \in Int /\ rc \in Nat /\ (\A j \in Places : j \in Int)
<1>1. is \in -1..(MaxResults - 1) /\ rc \in 0..MaxResults
  BY DEF TypeOK
<1>2. \A j \in Places : j \in Nat
  BY NumberFacts
<1> QED
  BY <1>1, <1>2, NumberFacts

\* The same list, in order in other records where its own ones are the same.
LEMMA StillInOrder ==
  ASSUME NEW s, NEW a, NEW b, InOrder(s, a),
         \A i \in Filled(s) : b[s[i][1]] = a[s[i][1]]
  PROVE  InOrder(s, b)
BY DEF InOrder, There, Level

LEMMA EmptyInOrder ==
  ASSUME NEW s, NEW a, s = [i \in Places |-> Null]
  PROVE  Filled(s) = {} /\ InOrder(s, a)
BY DEF Filled, InOrder

\* The records of the channel being scanned are not those of a channel done.
LEMMA OtherChannels ==
  ASSUME TypeOK, ChannelFollows, scanning, NEW c \in Scanned
  PROVE  c \in Nat /\ c # channel
BY ListFacts, NumberFacts DEF ChannelFollows, Scanned

\* (x + 1) % 14 counts on and begins again.
LEMMA NextOf ==
  ASSUME NEW x \in Channels
  PROVE  (x + 1) % (LastChannel + 1) = IF x = LastChannel THEN 0 ELSE x + 1
<1>1. /\ x \in Nat /\ x <= LastChannel /\ LastChannel \in Nat
      /\ LastChannel + 1 > 0
  BY NumberFacts DEF Channels
<1>2. CASE x = LastChannel
  <2>1. (LastChannel + 1) % (LastChannel + 1) = 0
    BY <1>1
  <2> QED
    BY <1>2, <2>1
<1>3. CASE x # LastChannel
  <2>1. x + 1 \in Nat /\ x + 1 < LastChannel + 1
    BY <1>1, <1>3
  <2>2. (x + 1) % (LastChannel + 1) = x + 1
    BY <1>1, <2>1
  <2> QED
    BY <1>3, <2>2
<1> QED
  BY <1>2, <1>3

\* The strongest n of the records a scan has found.
LEMMA TakenFacts ==
  ASSUME NEW s \in Seq(Rssi), Descending(s), NEW n \in 0..Len(s)
  PROVE  /\ SubSeq(s, 1, n) \in Seq(Rssi) /\ Len(SubSeq(s, 1, n)) = n
         /\ Descending(SubSeq(s, 1, n))
<1>1. Len(s) \in Nat /\ DOMAIN s = 1..Len(s)
  BY LenProperties
<1>2. /\ SubSeq(s, 1, n) \in Seq(Rssi) /\ Len(SubSeq(s, 1, n)) = n
      /\ \A i \in 1..n : SubSeq(s, 1, n)[i] = s[i]
  <2>1. CASE n = 0
    <3>1. SubSeq(s, 1, n) = <<>>
      BY <2>1
    <3> QED
      BY <2>1, <3>1, EmptySeq
  <2>2. CASE n # 0
    BY <1>1, <2>2, SubSeqProperties
  <2> QED
    BY <2>1, <2>2
<1>3. DOMAIN SubSeq(s, 1, n) = 1..n
  BY <1>2, LenProperties
<1>4. \A i \in 1..n : i \in DOMAIN s
  BY <1>1
<1> QED
  BY <1>2, <1>3, <1>4 DEF Descending

\* What a scan finds.
LEMMA FoundFacts ==
  /\ \A s \in Results : s \in Seq(Rssi) /\ Descending(s)
  /\ <<>> \in Seq(Rssi) /\ Descending(<<>>)
<1>1. ASSUME NEW s \in Results
      PROVE  s \in Seq(Rssi) /\ Descending(s)
  <2>1. PICK n \in 0..MaxFound : s \in [1..n -> Rssi]
    BY DEF Results
  <2>2. n \in Nat
    BY <2>1, BoundsAssumption
  <2>3. s \in Seq(Rssi)
    BY <2>1, <2>2, SeqDef
  <2> QED
    BY <2>3 DEF Results
<1>2. <<>> \in Seq(Rssi) /\ DOMAIN <<>> = {}
  BY EmptySeq
<1> QED
  BY <1>1, <1>2 DEF Descending

\* The place the merge writes next.
LEMMA PlaceFacts ==
  ASSUME TypeOK, MergeInv, handler = "merge", rc > 0
  PROVE  /\ is + rc \in Places /\ is + rc > is /\ rc - 1 \in 0..MaxResults
         /\ rc \in 1..MaxResults /\ rc \in 1..Len(New)
         /\ is >= 0 => is \in Places /\ is - 1 \in -1..(MaxResults - 1)
         /\ is < 0 => is = -1
         /\ is \in Int /\ rc \in Int
<1>1. /\ rc \in 0..MaxResults /\ is \in -1..(MaxResults - 1) /\ MaxResults \in Nat
      /\ Len(New) \in Nat
  BY ListFacts, NumberFacts, RecordFacts DEF New
<1>2. rc <= Len(New) /\ is <= MaxResults - Len(New) - 1
  BY DEF MergeInv, Underway, Room
<1> QED
  BY <1>1, <1>2 DEF Places

-----------------------------------------------------------------------------
(* The variables keep their types.                                         *)

LEMMA StepType ==
  ASSUME ScanInv, [Next]_vars
  PROVE  TypeOK'
<1> USE DEF TypeOK
<1>0. TypeOK /\ MergeInv /\ FoundInOrder /\ Descending(found)
  BY DEF ScanInv, FoundInOrder
<1>1. CASE UNCHANGED vars
  BY <1>0, <1>1 DEF vars, scanVars, lists, radio, merging, reader
<1>2. CASE CoreScan \/ ScanDone
  <2>1. /\ driver' \in {"idle", "scanning"} /\ found' \in Seq(Rssi)
        /\ events' \in 0..MaxEvents
    <3>1. CASE CoreScan
      BY <1>0, <3>1, FoundFacts DEF CoreScan, DriverStarts
    <3>2. CASE ScanDone
      <4>1. driver' = "idle" /\ found' \in Seq(Rssi)
        BY <3>2, FoundFacts DEF ScanDone
      <4>2. events' \in 0..MaxEvents
        BY <1>0, <3>2, NumberFacts DEF ScanDone
      <4> QED
        BY <4>1, <4>2
    <3> QED
      BY <1>2, <3>1, <3>2
  <2>2. UNCHANGED <<state, scanVars, lists, merging, reader>>
    BY <1>2 DEF CoreScan, ScanDone
  <2> QED
    BY <1>0, <2>1, <2>2 DEF scanVars, lists, merging, reader
<1>3. CASE ServiceUp \/ Credentials \/ ResetState \/ ServiceDown
  BY <1>0, <1>3
  DEF ServiceUp, Credentials, ResetState, ServiceDown, scanVars, lists, radio,
      merging, reader
<1>4. CASE StopService
  <2>1. aps' \in [Channels -> Seq(Rssi)] /\ sorted' \in [Places -> Pointers \cup {Null}]
    BY <1>4, FoundFacts DEF StopService, ClearSorted
  <2> QED
    BY <1>0, <1>4, <2>1 DEF StopService, radio, merging, reader
<1>5. CASE Request
  <2>1. CASE StartRequest
    <3>1. PICK blocking \in BOOLEAN, group \in BOOLEAN : ScanStart(blocking, group)
      BY <2>1 DEF StartRequest
    <3>2. sorted' \in [Places -> Pointers \cup {Null}] /\ UNCHANGED aps
      BY <3>1 DEF ScanStart, ClearSorted
    <3>3. 0 \in Channels /\ 1 \in Channels
      BY NumberFacts DEF Channels
    <3>4. /\ channel' \in Channels /\ client' \in {"idle", "wait", "copy"}
          /\ scanning' \in BOOLEAN /\ grouped' \in BOOLEAN
      BY <1>0, <3>1, <3>3 DEF ScanStart
    <3>5. driver' \in {"idle", "scanning"} /\ found' \in Seq(Rssi) /\ events' = events
      BY <1>0, <3>1, FoundFacts DEF ScanStart, DriverStarts, radio
    <3> QED
      BY <1>0, <3>1, <3>2, <3>4, <3>5 DEF ScanStart, merging
  <2>2. CASE ResultRequest
    <3>1. PICK i \in Places : ScanResult(i)
      BY <2>2 DEF ResultRequest
    <3> QED
      BY <1>0, <3>1, ListFacts
      DEF ScanResult, scanVars, lists, radio, merging
  <2> QED
    BY <1>5, <2>1, <2>2 DEF Request
<1>6. CASE ScanWaited \/ CopyRecord
  BY <1>0, <1>6 DEF ScanWaited, CopyRecord, scanVars, lists, radio, merging
<1>7. CASE EventIgnored
  BY <1>0, <1>7, NumberFacts DEF EventIgnored, scanVars, lists, merging, reader
<1>8. CASE ResultsTaken
  <2>1. /\ rc' = IF Len(found) < MaxResults THEN Len(found) ELSE MaxResults
        /\ aps' = [aps EXCEPT ![channel] = SubSeq(found, 1, rc')]
        /\ is' = MaxResults - rc' - 1
    BY <1>8 DEF ResultsTaken
  <2>2. Len(found) \in Nat
    BY <1>0, LenProperties
  <2>3. rc' \in 0..Len(found) /\ rc' \in 0..MaxResults
    BY <2>1, <2>2, NumberFacts
  <2>4. SubSeq(found, 1, rc') \in Seq(Rssi)
    BY <1>0, <2>3, TakenFacts
  <2>5. aps' \in [Channels -> Seq(Rssi)]
    BY <1>0, <2>1, <2>4
  <2>6. is' \in -1..(MaxResults - 1)
    BY <2>1, <2>3, NumberFacts
  <2>7. events' \in 0..MaxEvents
    BY <1>0, <1>8, NumberFacts DEF ResultsTaken
  <2> QED
    BY <1>0, <1>8, <2>3, <2>5, <2>6, <2>7, FoundFacts
    DEF ResultsTaken, scanVars, reader
<1>9. CASE ResultsFailed
  <2>1. channel' \in Channels
    <3>1. channel' = IF grouped /\ channel = LastChannel THEN 0
                     ELSE IF grouped THEN channel + 1 ELSE channel
      BY <1>0, <1>9, NextOf DEF ResultsFailed
    <3> QED
      BY <1>0, <3>1, NumberFacts DEF Channels
  <2>2. aps' \in [Channels -> Seq(Rssi)] /\ found' \in Seq(Rssi)
    BY <1>0, <1>9, FoundFacts DEF ResultsFailed
  <2>3. events' \in 0..MaxEvents
    BY <1>0, <1>9, NumberFacts DEF ResultsFailed
  <2> QED
    BY <1>0, <1>9, <2>1, <2>2, <2>3 DEF ResultsFailed, merging, reader
<1>10. CASE PlaceNew \/ PlaceRest
  <2>1. /\ handler = "merge" /\ rc > 0 /\ rc' = rc - 1
        /\ sorted' = [sorted EXCEPT ![is + rc] = <<channel, rc>>]
                       \/ (is < 0 /\ sorted' = [sorted EXCEPT ![rc - 1] = <<channel, rc>>])
        /\ UNCHANGED <<state, scanVars, aps, radio, handler, is, old, reader>>
    BY <1>10 DEF PlaceNew, PlaceRest
  <2>2. <<channel, rc>> \in Pointers
    BY <1>0, <2>1, PlaceFacts DEF Pointers
  <2>3. sorted' \in [Places -> Pointers \cup {Null}]
    BY <1>0, <2>1, <2>2
  <2>4. rc' \in 0..MaxResults
    BY <1>0, <2>1, PlaceFacts
  <2> QED
    BY <1>0, <2>1, <2>3, <2>4 DEF scanVars, radio, reader
<1>11. CASE MoveOld
  <2>1. sorted' \in [Places -> Pointers \cup {Null}]
    BY <1>0, <1>11, PlaceFacts DEF MoveOld
  <2>2. is' \in -1..(MaxResults - 1)
    BY <1>0, <1>11, PlaceFacts DEF MoveOld
  <2> QED
    BY <1>0, <1>11, <2>1, <2>2 DEF MoveOld, scanVars, radio, reader
<1>12. CASE NextChannel
  <2>1. channel' \in Channels
    <3>1. channel' = IF grouped /\ channel = LastChannel THEN 0
                     ELSE IF grouped THEN channel + 1 ELSE channel
      BY <1>0, <1>12, NextOf DEF NextChannel
    <3> QED
      BY <1>0, <3>1, NumberFacts DEF Channels
  <2>2. /\ driver' \in {"idle", "scanning"} /\ found' \in Seq(Rssi)
        /\ events' = events /\ scanning' \in BOOLEAN
    BY <1>0, <1>12, FoundFacts DEF NextChannel, DriverStarts, radio
  <2> QED
    BY <1>0, <1>12, <2>1, <2>2 DEF NextChannel, lists, reader
<1> QED
  BY <1>1, <1>2, <1>3, <1>4, <1>5, <1>6, <1>7, <1>8, <1>9, <1>10, <1>11, <1>12
  DEF Next, Handler

-----------------------------------------------------------------------------
(* The merge.                                                              *)

\* A new record takes the next place: the old ones still to come are stronger.
LEMMA NewPlaced ==
  ASSUME TypeOK, TypeOK', ChannelFollows, MergeInv, handler = "merge", rc > 0,
         \A i \in Places : i <= is => old[i] # Null /\ Level(old[i], aps) >= New[rc],
         sorted' = [sorted EXCEPT ![is + rc] = <<channel, rc>>],
         rc' = rc - 1,
         UNCHANGED <<state, scanning, grouped, channel, aps, old, is, handler>>
  PROVE  MergeInv'
<1> DEFINE w == is + rc
           e == <<channel, rc>>
<1>0. Underway /\ Unwritten /\ RearIsMerged /\ RearInOrder /\ RearIsWeaker
  BY DEF MergeInv
<1>1. /\ w \in Places /\ w \in Int /\ w > is /\ rc \in 1..MaxResults
      /\ rc \in 1..Len(New) /\ is \in Int /\ rc \in Int
  BY PlaceFacts, NumberFacts
<1>2. /\ e \in Pointers /\ e # Null /\ e[1] = channel /\ e[2] = rc
      /\ There(e, aps) /\ Level(e, aps) = New[rc] /\ New[rc] \in Int
  <2>1. e \in Pointers /\ e[1] = channel /\ e[2] = rc
    BY <1>1, ListFacts DEF Pointers
  <2> QED
    BY <2>1, <1>1, ListFacts, PointerFacts, RecordFacts DEF There, Level, New
<1>3. /\ New' = New /\ Room' = Room /\ Len(New) \in Nat /\ DOMAIN New = 1..Len(New)
  BY ListFacts, RecordFacts DEF New, Room
<1>4. /\ \A j \in Places : j \in Rear' <=> j \in Rear \/ j = w
      /\ w \notin Rear /\ Rear \subseteq Places /\ Rear' \subseteq Places
      /\ \A j \in Rear : j > w
  BY <1>1, NumberFacts DEF Rear
<1>5. sorted'[w] = e /\ \A j \in Rear : sorted'[j] = sorted[j]
  BY <1>1, <1>4, ListFacts
<1> HIDE DEF e
<1>6. Underway'
  <2>1. rc' <= Len(New)
    BY <1>1, <1>3
  <2>2. InOrder(old, aps)' /\ FromScanned(old)'
    BY <1>0 DEF Underway, FromScanned, Scanned
  <2>3. Descending(New)'
    BY <1>0, <1>3 DEF Underway
  <2> QED
    BY <1>0, <1>3, <2>1, <2>2, <2>3 DEF Underway
<1>7. Unwritten'
  <2> SUFFICES ASSUME NEW j \in Places, j <= is' + rc'
               PROVE  sorted'[j] = old'[j]
    BY DEF Unwritten
  <2>1. j <= w /\ j # w
    BY <1>1, NumberFacts
  <2> QED
    BY <1>0, <2>1, ListFacts DEF Unwritten
<1>8. RearIsMerged'
  <2>1. ASSUME NEW j \in Rear', sorted'[j] # Null
        PROVE  \/ \E k \in (rc' + 1)..Len(New) : sorted'[j] = <<channel, k>>
               \/ \E i \in Places : is < i /\ i <= Room /\ sorted'[j] = old[i]
    <3>1. CASE j = w
      <4>1. rc \in (rc' + 1)..Len(New)
        BY <1>1, <1>3
      <4> QED
        BY <3>1, <4>1, <1>5 DEF e
    <3>2. CASE j \in Rear
      <4>1. \A k \in (rc + 1)..Len(New) : k \in (rc' + 1)..Len(New)
        BY <1>1, <1>3
      <4> QED
        BY <3>2, <4>1, <2>1, <1>0, <1>5 DEF RearIsMerged
    <3> QED
      BY <3>1, <3>2, <1>4
  <2>2. ASSUME NEW k \in (rc' + 1)..Len(New)
        PROVE  \E j \in Rear' : sorted'[j] = <<channel, k>>
    <3>1. k = rc \/ k \in (rc + 1)..Len(New)
      BY <1>1, <1>3
    <3>2. CASE k = rc
      BY <3>2, <1>1, <1>4, <1>5 DEF e
    <3>3. CASE k \in (rc + 1)..Len(New)
      <4>1. PICK j \in Rear : sorted[j] = <<channel, k>>
        BY <3>3, <1>0 DEF RearIsMerged
      <4> QED
        BY <4>1, <1>4, <1>5
    <3> QED
      BY <3>1, <3>2, <3>3
  <2>3. ASSUME NEW i \in Places, is < i, i <= Room, old[i] # Null
        PROVE  \E j \in Rear' : sorted'[j] = old[i]
    <3>1. PICK j \in Rear : sorted[j] = old[i]
      BY <2>3, <1>0 DEF RearIsMerged
    <3> QED
      BY <3>1, <1>4, <1>5
  <2>4. UNCHANGED <<is, channel, old, New, Room>>
    BY <1>3
  <2>5. \A j \in Rear' : sorted'[j] # Null =>
          \/ \E k \in (rc' + 1)..Len(New') : sorted'[j] = <<channel', k>>
          \/ \E i \in Places : is' < i /\ i <= Room' /\ sorted'[j] = old'[i]
    BY <2>1, <2>4
  <2>6. \A k \in (rc' + 1)..Len(New') : \E j \in Rear' : sorted'[j] = <<channel', k>>
    BY <2>2, <2>4
  <2>7. \A i \in Places : is' < i /\ i <= Room' /\ old'[i] # Null =>
          \E j \in Rear' : sorted'[j] = old'[i]
    BY <2>3, <2>4
  <2> QED
    BY <2>5, <2>6, <2>7 DEF RearIsMerged
<1>9. \A j \in Rear : sorted[j] # Null =>
        /\ e # sorted[j] /\ Level(e, aps) >= Level(sorted[j], aps)
  <2> SUFFICES ASSUME NEW j \in Rear, sorted[j] # Null
               PROVE  e # sorted[j] /\ Level(e, aps) >= Level(sorted[j], aps)
    OBVIOUS
  <2>1. New[rc] >= Level(sorted[j], aps)
    BY <1>0, <1>1 DEF RearIsWeaker
  <2>2. CASE \E k \in (rc + 1)..Len(New) : sorted[j] = <<channel, k>>
    <3>1. PICK k \in (rc + 1)..Len(New) : sorted[j] = <<channel, k>>
      BY <2>2
    <3>2. k # rc
      BY <1>1, <1>3
    <3> QED
      BY <2>1, <3>1, <3>2, <1>2 DEF e
  <2>3. CASE \E i \in Places : is < i /\ i <= Room /\ sorted[j] = old[i]
    <3>1. PICK i \in Places : sorted[j] = old[i]
      BY <2>3
    <3>2. i \in Filled(old) /\ old[i][1] \in Scanned
      BY <1>0, <3>1 DEF Filled, Underway, FromScanned
    <3>3. old[i][1] # channel
      BY <1>0, <3>2, OtherChannels DEF Underway
    <3> QED
      BY <2>1, <3>1, <3>3, <1>2
  <2> QED
    BY <2>2, <2>3, <1>0 DEF RearIsMerged
<1>10. RearInOrder'
  <2> SUFFICES ASSUME NEW i \in Rear', NEW j \in Rear', i < j, sorted'[j] # Null
               PROVE  /\ sorted'[i] # Null /\ sorted'[i] # sorted'[j]
                      /\ Level(sorted'[i], aps) >= Level(sorted'[j], aps)
    BY DEF RearInOrder
  <2>1. CASE i = w
    <3>1. j \in Rear
      BY <2>1, <1>4, <1>1
    <3> QED
      BY <2>1, <3>1, <1>2, <1>5, <1>9
  <2>2. CASE i \in Rear
    <3>1. j \in Rear
      BY <2>2, <1>4, <1>1, NumberFacts
    <3> QED
      BY <2>2, <3>1, <1>0, <1>5 DEF RearInOrder
  <2> QED
    BY <2>1, <2>2, <1>4
<1>11. RearIsWeaker'
  <2> SUFFICES ASSUME NEW j \in Rear', sorted'[j] # Null
               PROVE  /\ \A k \in 1..rc' : New[k] >= Level(sorted'[j], aps)
                      /\ \A i \in Places : i <= is =>
                           old[i] # Null /\ Level(old[i], aps) >= Level(sorted'[j], aps)
    BY <1>3 DEF RearIsWeaker
  <2>1. \A k \in 1..rc' : k \in 1..rc /\ k \in DOMAIN New /\ rc \in DOMAIN New /\ k < rc
    BY <1>1, <1>3
  <2>2. CASE j = w
    <3>1. \A k \in 1..rc' : New[k] >= New[rc]
      BY <2>1, <1>0 DEF Underway, Descending
    <3> QED
      BY <2>2, <3>1, <1>2, <1>5
  <2>3. CASE j \in Rear
    BY <2>1, <2>3, <1>0, <1>5 DEF RearIsWeaker
  <2> QED
    BY <2>2, <2>3, <1>4
<1> QED
  BY <1>6, <1>7, <1>8, <1>10, <1>11 DEF MergeInv

\* The strongest old record that is left moves to the next place: no new one
\* still to come is weaker.
LEMMA OldMoved ==
  ASSUME TypeOK, TypeOK', ChannelFollows, MergeInv, handler = "merge", rc > 0,
         is >= 0, old[is] # Null, ~(Level(old[is], aps) > New[rc]),
         sorted' = [sorted EXCEPT ![is + rc] = old[is]],
         is' = is - 1,
         UNCHANGED <<state, scanning, grouped, channel, aps, old, rc, handler>>
  PROVE  MergeInv'
<1> DEFINE w == is + rc
           e == old[is]
<1>0. Underway /\ Unwritten /\ RearIsMerged /\ RearInOrder /\ RearIsWeaker
  BY DEF MergeInv
<1>1. /\ w \in Places /\ w \in Int /\ w > is /\ rc \in 1..MaxResults
      /\ rc \in 1..Len(New) /\ is \in Int /\ rc \in Int /\ is \in Places
  BY PlaceFacts, NumberFacts
<1>2. /\ is \in Filled(old) /\ e \in Pointers /\ e # Null
      /\ e[1] \in Scanned /\ e[1] # channel
      /\ There(e, aps) /\ Level(e, aps) \in Int
      /\ New[rc] \in Int /\ Level(e, aps) <= New[rc]
  <2>1. is \in Filled(old)
    BY <1>1 DEF Filled
  <2>2. e \in Pointers /\ e[1] \in Scanned /\ There(e, aps)
    BY <1>0, <2>1, ListFacts DEF Underway, FromScanned, InOrder
  <2>3. e[1] # channel
    BY <1>0, <2>2, OtherChannels DEF Underway
  <2>4. Level(e, aps) \in Int /\ New[rc] \in Int
    BY <1>1, <2>2, LevelFacts, ListFacts, RecordFacts DEF New
  <2>5. Level(e, aps) <= New[rc]
    BY <2>4
  <2> QED
    BY <2>1, <2>2, <2>3, <2>4, <2>5
<1>3. /\ New' = New /\ Room' = Room /\ Len(New) \in Nat /\ DOMAIN New = 1..Len(New)
      /\ Room \in Int /\ is <= Room
  BY <1>0, ListFacts, NumberFacts, RecordFacts DEF New, Room, Underway
<1>4. /\ \A j \in Places : j \in Rear' <=> j \in Rear \/ j = w
      /\ w \notin Rear /\ Rear \subseteq Places /\ Rear' \subseteq Places
      /\ \A j \in Rear : j > w
  <2>1. is' + rc' = w - 1 /\ w \in Int /\ \A j \in Places : j \in Int
    BY <1>1, LoopFacts
  <2>2. \A j \in Places : j > w - 1 <=> j > w \/ j = w
    BY <2>1
  <2>3. /\ \A j \in Places : j \in Rear <=> j > w
        /\ \A j \in Places : j \in Rear' <=> j > w - 1
        /\ Rear \subseteq Places /\ Rear' \subseteq Places
    BY <2>1 DEF Rear
  <2>4. ~(w > w)
    BY <2>1
  <2> QED
    BY <2>2, <2>3, <2>4
<1>5. sorted'[w] = e /\ \A j \in Rear : sorted'[j] = sorted[j]
  BY <1>1, <1>4, ListFacts
<1>6. \A i \in Places : i < is => /\ old[i] # Null /\ old[i] # e
                                   /\ Level(old[i], aps) >= Level(e, aps)
  <2> SUFFICES ASSUME NEW i \in Places, i < is
               PROVE  old[i] # Null /\ old[i] # e /\ Level(old[i], aps) >= Level(e, aps)
    OBVIOUS
  <2>1. old[i] # Null
    BY <1>0, <1>2 DEF Underway, InOrder
  <2>2. i \in Filled(old)
    BY <2>1 DEF Filled
  <2> QED
    BY <1>0, <1>2, <2>1, <2>2 DEF Underway, InOrder
<1> HIDE DEF e
<1>7. Underway'
  <2>1. is' <= Room
    BY <1>1, <1>3
  <2>2. InOrder(old, aps)' /\ FromScanned(old)'
    BY <1>0 DEF Underway, FromScanned, Scanned
  <2>3. Descending(New)'
    BY <1>0, <1>3 DEF Underway
  <2> QED
    BY <1>0, <1>3, <2>1, <2>2, <2>3 DEF Underway
<1>8. Unwritten'
  <2> SUFFICES ASSUME NEW j \in Places, j <= is' + rc'
               PROVE  sorted'[j] = old'[j]
    BY DEF Unwritten
  <2>1. j <= w /\ j # w
    BY <1>1, NumberFacts
  <2> QED
    BY <1>0, <2>1, ListFacts DEF Unwritten
<1>9. RearIsMerged'
  <2>1. ASSUME NEW j \in Rear', sorted'[j] # Null
        PROVE  \/ \E k \in (rc + 1)..Len(New) : sorted'[j] = <<channel, k>>
               \/ \E i \in Places : is' < i /\ i <= Room /\ sorted'[j] = old[i]
    <3>1. CASE j = w
      <4>1. is' < is /\ is <= Room
        BY <1>1, <1>3
      <4> QED
        BY <3>1, <4>1, <1>1, <1>5 DEF e
    <3>2. CASE j \in Rear
      <4>1. \A i \in Places : is < i => is' < i
        BY <1>1, NumberFacts
      <4> QED
        BY <3>2, <4>1, <2>1, <1>0, <1>5 DEF RearIsMerged
    <3> QED
      BY <3>1, <3>2, <1>4
  <2>2. ASSUME NEW k \in (rc + 1)..Len(New)
        PROVE  \E j \in Rear' : sorted'[j] = <<channel, k>>
    <3>1. PICK j \in Rear : sorted[j] = <<channel, k>>
      BY <1>0 DEF RearIsMerged
    <3> QED
      BY <3>1, <1>4, <1>5
  <2>3. ASSUME NEW i \in Places, is' < i, i <= Room, old[i] # Null
        PROVE  \E j \in Rear' : sorted'[j] = old[i]
    <3>1. i = is \/ is < i
      BY <2>3, <1>1, NumberFacts
    <3>2. CASE i = is
      BY <3>2, <1>1, <1>4, <1>5 DEF e
    <3>3. CASE is < i
      <4>1. PICK j \in Rear : sorted[j] = old[i]
        BY <2>3, <3>3, <1>0 DEF RearIsMerged
      <4> QED
        BY <4>1, <1>4, <1>5
    <3> QED
      BY <3>1, <3>2, <3>3
  <2>4. UNCHANGED <<rc, channel, old, New, Room>>
    BY <1>3
  <2>5. \A j \in Rear' : sorted'[j] # Null =>
          \/ \E k \in (rc' + 1)..Len(New') : sorted'[j] = <<channel', k>>
          \/ \E i \in Places : is' < i /\ i <= Room' /\ sorted'[j] = old'[i]
    BY <2>1, <2>4
  <2>6. \A k \in (rc' + 1)..Len(New') : \E j \in Rear' : sorted'[j] = <<channel', k>>
    BY <2>2, <2>4
  <2>7. \A i \in Places : is' < i /\ i <= Room' /\ old'[i] # Null =>
          \E j \in Rear' : sorted'[j] = old'[i]
    BY <2>3, <2>4
  <2> QED
    BY <2>5, <2>6, <2>7 DEF RearIsMerged
<1>10. \A j \in Rear : sorted[j] # Null =>
         /\ e # sorted[j] /\ Level(e, aps) >= Level(sorted[j], aps)
  <2> SUFFICES ASSUME NEW j \in Rear, sorted[j] # Null
               PROVE  e # sorted[j] /\ Level(e, aps) >= Level(sorted[j], aps)
    OBVIOUS
  <2>1. Level(e, aps) >= Level(sorted[j], aps)
    BY <1>0, <1>1 DEF RearIsWeaker, e
  <2>2. CASE \E k \in (rc + 1)..Len(New) : sorted[j] = <<channel, k>>
    BY <2>1, <2>2, <1>2
  <2>3. CASE \E i \in Places : is < i /\ i <= Room /\ sorted[j] = old[i]
    <3>1. PICK i \in Places : is < i /\ sorted[j] = old[i]
      BY <2>3
    <3>2. i \in Filled(old)
      BY <3>1 DEF Filled
    <3>3. old[is] # old[i]
      BY <1>0, <1>2, <3>1, <3>2 DEF Underway, InOrder
    <3> QED
      BY <2>1, <3>1, <3>3 DEF e
  <2> QED
    BY <2>2, <2>3, <1>0 DEF RearIsMerged
<1>11. RearInOrder'
  <2> SUFFICES ASSUME NEW i \in Rear', NEW j \in Rear', i < j, sorted'[j] # Null
               PROVE  /\ sorted'[i] # Null /\ sorted'[i] # sorted'[j]
                      /\ Level(sorted'[i], aps) >= Level(sorted'[j], aps)
    BY DEF RearInOrder
  <2>1. CASE i = w
    <3>1. j \in Rear
      BY <2>1, <1>4, <1>1
    <3> QED
      BY <2>1, <3>1, <1>2, <1>5, <1>10
  <2>2. CASE i \in Rear
    <3>1. j \in Rear
      BY <2>2, <1>4, <1>1, NumberFacts
    <3> QED
      BY <2>2, <3>1, <1>0, <1>5 DEF RearInOrder
  <2> QED
    BY <2>1, <2>2, <1>4
<1>12. RearIsWeaker'
  <2> SUFFICES ASSUME NEW j \in Rear', sorted'[j] # Null
               PROVE  /\ \A k \in 1..rc : New[k] >= Level(sorted'[j], aps)
                      /\ \A i \in Places : i <= is' =>
                           old[i] # Null /\ Level(old[i], aps) >= Level(sorted'[j], aps)
    BY <1>3 DEF RearIsWeaker
  <2>1. \A i \in Places : i <= is' => i < is /\ i <= is
    <3>1. is' = is - 1 /\ is \in Int /\ \A i \in Places : i \in Int
      BY <1>1, LoopFacts
    <3> QED
      BY <3>1
  <2>2. CASE j = w
    <3>1. \A k \in 1..rc : New[k] >= Level(e, aps)
      <4> SUFFICES ASSUME NEW k \in 1..rc
                   PROVE  New[k] >= Level(e, aps)
        OBVIOUS
      <4>1. k \in DOMAIN New /\ rc \in DOMAIN New /\ (k = rc \/ k < rc)
        BY <1>1, <1>3
      <4>2. New[k] >= New[rc] \/ k = rc
        BY <1>0, <4>1 DEF Underway, Descending
      <4>3. New[k] \in Int
        BY <4>1, <1>3, ListFacts, RecordFacts DEF New
      <4> QED
        BY <4>2, <4>3, <1>2
    <3> QED
      BY <2>1, <2>2, <3>1, <1>5, <1>6
  <2>3. CASE j \in Rear
    BY <2>1, <2>3, <1>0, <1>5 DEF RearIsWeaker
  <2> QED
    BY <2>2, <2>3, <1>4
<1> QED
  BY <1>7, <1>8, <1>9, <1>11, <1>12 DEF MergeInv

\* Where the old list has nothing there is nothing to move, and the tail is
\* still empty.
LEMMA NothingMoved ==
  ASSUME TypeOK, TypeOK', MergeInv, handler = "merge", rc > 0,
         is >= 0, old[is] = Null,
         is' = is - 1,
         UNCHANGED <<state, scanning, grouped, channel, aps, sorted, old, rc, handler>>
  PROVE  MergeInv'
<1> DEFINE w == is + rc
<1>0. Underway /\ Unwritten /\ RearIsMerged /\ RearInOrder /\ RearIsWeaker
  BY DEF MergeInv
<1>1. /\ w \in Places /\ w \in Int /\ w > is
      /\ is \in Int /\ rc \in Int /\ is \in Places
  BY PlaceFacts, NumberFacts
<1>2. sorted[w] = Null
  <2>1. sorted[w] = old[w]
    BY <1>0, <1>1 DEF Unwritten
  <2>2. w \notin Filled(old)
    BY <1>0, <1>1 DEF Underway, InOrder
  <2> QED
    BY <1>1, <2>1, <2>2 DEF Filled
<1>3. \A j \in Rear : sorted[j] = Null
  BY <1>0, <1>1 DEF RearIsWeaker
<1>4. Rear \subseteq Rear' /\ \A j \in Rear' : sorted'[j] = Null
  <2>1. is' + rc' = w - 1 /\ w \in Int /\ \A j \in Places : j \in Int
    BY <1>1, LoopFacts
  <2>2. \A j \in Places : j > w - 1 <=> j > w \/ j = w
    BY <2>1
  <2>3. /\ \A j \in Places : j \in Rear <=> j > w
        /\ \A j \in Places : j \in Rear' <=> j > w - 1
        /\ Rear \subseteq Places /\ Rear' \subseteq Places
    BY <2>1 DEF Rear
  <2> QED
    BY <1>2, <1>3, <2>2, <2>3
<1>6. New' = New /\ Room' = Room /\ Room \in Int
  BY ListFacts, NumberFacts, RecordFacts DEF New, Room
<1>7. Underway'
  <2>1. is' <= Room
    BY <1>0, <1>1, <1>6 DEF Underway
  <2>2. InOrder(old, aps)' /\ FromScanned(old)'
    BY <1>0 DEF Underway, FromScanned, Scanned
  <2>3. Descending(New)'
    BY <1>0, <1>6 DEF Underway
  <2> QED
    BY <1>0, <1>6, <2>1, <2>2, <2>3 DEF Underway
<1>8. Unwritten'
  <2>1. \A j \in Places : j <= is' + rc' => j <= w
    BY <1>1, NumberFacts
  <2> QED
    BY <1>0, <2>1 DEF Unwritten
<1>9. RearIsMerged'
  <2>1. \A k \in (rc' + 1)..Len(New') : \E j \in Rear' : sorted'[j] = <<channel', k>>
    BY <1>0, <1>4, <1>6 DEF RearIsMerged
  <2>2. ASSUME NEW i \in Places, is' < i, i <= Room', old'[i] # Null
        PROVE  \E j \in Rear' : sorted'[j] = old'[i]
    <3>1. i # is /\ is < i
      BY <2>2, <1>1, NumberFacts
    <3> QED
      BY <2>2, <3>1, <1>0, <1>4, <1>6 DEF RearIsMerged
  <2> QED
    BY <2>1, <2>2, <1>4 DEF RearIsMerged
<1>10. RearInOrder' /\ RearIsWeaker'
  BY <1>4 DEF RearInOrder, RearIsWeaker
<1> QED
  BY <1>7, <1>8, <1>9, <1>10 DEF MergeInv

\* When every new record has its place the whole list is in order.
LEMMA MergedInOrder ==
  ASSUME TypeOK, ChannelFollows, MergeInv, handler = "merge", rc = 0
  PROVE  /\ InOrder(sorted, aps)
         /\ \A i \in Filled(sorted) : sorted[i][1] \in Scanned \cup {channel}
<1>0. Underway /\ Unwritten /\ RearIsMerged /\ RearInOrder /\ RearIsWeaker
  BY DEF MergeInv
<1>1. \A i \in Places : IF i <= is THEN i \notin Rear /\ sorted[i] = old[i]
                                   ELSE i \in Rear
  <2>1. is + rc = is /\ is \in Int /\ \A i \in Places : i \in Int
    BY LoopFacts
  <2>2. \A i \in Places : i \in Rear <=> i > is
    BY <2>1 DEF Rear
  <2>3. \A i \in Places : i <= is => sorted[i] = old[i]
    BY <1>0, <2>1 DEF Unwritten
  <2>4. \A i \in Places : i <= is <=> ~(i > is)
    BY <2>1
  <2> QED
    BY <2>2, <2>3, <2>4
<1>2. \A j \in Rear : sorted[j] # Null =>
        \/ sorted[j][1] = channel /\ There(sorted[j], aps)
        \/ \E i \in Filled(old) : is < i /\ sorted[j] = old[i]
  <2> SUFFICES ASSUME NEW j \in Rear, sorted[j] # Null
               PROVE  \/ sorted[j][1] = channel /\ There(sorted[j], aps)
                      \/ \E i \in Filled(old) : is < i /\ sorted[j] = old[i]
    OBVIOUS
  <2>1. CASE \E k \in (rc + 1)..Len(New) : sorted[j] = <<channel, k>>
    <3>1. PICK k \in 1..Len(New) : sorted[j] = <<channel, k>>
      BY <2>1
    <3>2. k \in DOMAIN New
      BY <3>1, ListFacts, RecordFacts DEF New
    <3> QED
      BY <3>1, <3>2 DEF There, New
  <2>2. CASE \E i \in Places : is < i /\ i <= Room /\ sorted[j] = old[i]
    BY <2>2 DEF Filled
  <2> QED
    BY <2>1, <2>2, <1>0 DEF RearIsMerged
<1>3. ASSUME NEW i \in Filled(old)
      PROVE  There(old[i], aps) /\ old[i][1] \in Scanned /\ old[i][1] # channel
  BY <1>0, <1>3, OtherChannels DEF Underway, InOrder, FromScanned
<1>4. \A i \in Filled(sorted) : /\ i \in Places /\ sorted[i] # Null
                                /\ i <= is => i \in Filled(old)
  BY <1>1 DEF Filled
<1>5. ASSUME NEW i \in Filled(sorted)
      PROVE  There(sorted[i], aps) /\ sorted[i][1] \in Scanned \cup {channel}
  BY <1>1, <1>2, <1>3, <1>4
<1>6. ASSUME NEW i \in Filled(sorted), NEW j \in Filled(sorted), i < j
      PROVE  sorted[i] # sorted[j] /\ Level(sorted[i], aps) >= Level(sorted[j], aps)
  <2>0. is \in Int /\ i \in Int /\ j \in Int
    BY <1>4, LoopFacts
  <2>1. CASE j <= is
    <3>1. i <= is
      BY <2>0, <2>1, <1>6
    <3>2. i \in Filled(old) /\ j \in Filled(old) /\ sorted[i] = old[i] /\ sorted[j] = old[j]
      BY <2>1, <3>1, <1>1, <1>4
    <3> QED
      BY <3>2, <1>0, <1>6 DEF Underway, InOrder
  <2>2. CASE i <= is /\ ~(j <= is)
    <3>1. i \in Filled(old) /\ sorted[i] = old[i] /\ j \in Rear /\ sorted[j] # Null
      BY <2>2, <1>1, <1>4
    <3>2. Level(sorted[i], aps) >= Level(sorted[j], aps)
      BY <1>0, <1>4, <2>2, <3>1 DEF RearIsWeaker
    <3>3. sorted[i] # sorted[j]
      <4>1. CASE sorted[j][1] = channel
        BY <4>1, <3>1, <1>3
      <4>2. CASE \E n \in Filled(old) : is < n /\ sorted[j] = old[n]
        <5>1. PICK n \in Filled(old) : is < n /\ sorted[j] = old[n]
          BY <4>2
        <5>2. i < n
          BY <2>0, <2>2, <5>1, LoopFacts DEF Filled
        <5> QED
          BY <5>1, <5>2, <3>1, <1>0 DEF Underway, InOrder
      <4> QED
        BY <4>1, <4>2, <3>1, <1>2
    <3> QED
      BY <3>2, <3>3
  <2>3. CASE ~(i <= is)
    <3>1. ~(j <= is)
      BY <2>0, <2>3, <1>6
    <3>2. i \in Rear /\ j \in Rear /\ sorted[j] # Null
      BY <2>3, <3>1, <1>1, <1>4
    <3> QED
      BY <3>2, <1>0, <1>6 DEF RearInOrder
  <2> QED
    BY <2>1, <2>2, <2>3
<1>7. ASSUME NEW i \in Filled(sorted), NEW j \in Places, j < i
      PROVE  sorted[j] # Null
  <2>0. is \in Int /\ i \in Int /\ j \in Int
    BY <1>4, LoopFacts
  <2>1. CASE i <= is
    <3>1. j <= is
      BY <2>0, <2>1, <1>7
    <3>2. i \in Filled(old) /\ sorted[j] = old[j]
      BY <2>1, <3>1, <1>1, <1>4
    <3> QED
      BY <3>2, <1>0, <1>7 DEF Underway, InOrder
  <2>2. CASE ~(i <= is) /\ j <= is
    <3>1. i \in Rear /\ sorted[i] # Null /\ sorted[j] = old[j]
      BY <2>2, <1>1, <1>4
    <3> QED
      BY <2>2, <3>1, <1>0 DEF RearIsWeaker
  <2>3. CASE ~(i <= is) /\ ~(j <= is)
    <3>1. i \in Rear /\ j \in Rear /\ sorted[i] # Null
      BY <2>3, <1>1, <1>4
    <3> QED
      BY <3>1, <1>0, <1>7 DEF RearInOrder
  <2> QED
    BY <2>1, <2>2, <2>3
<1> QED
  BY <1>5, <1>6, <1>7 DEF InOrder

-----------------------------------------------------------------------------
(* The steps preserve the rest of the invariant.                           *)

Rest == FoundInOrder /\ ChannelFollows /\ ListIsSorted /\ ReaderFollows /\ MergeInv

\* Steps that leave the scan and the lists alone.
LEMMA LeftAlone ==
  ASSUME ScanInv, UNCHANGED <<scanVars, lists, merging>>,
         handler = "merge" => UNCHANGED state,
         FoundInOrder', ReaderFollows'
  PROVE  Rest'
<1>1. ChannelFollows' /\ ListIsSorted'
  BY DEF ScanInv, scanVars, lists, merging, ChannelFollows, ListIsSorted,
         Unlocked, FromScanned, Scanned
<1>2. MergeInv'
  <2> SUFFICES ASSUME handler = "merge"
               PROVE  /\ Underway' /\ Unwritten' /\ RearIsMerged' /\ RearInOrder'
                      /\ RearIsWeaker'
    BY DEF MergeInv, merging
  <2>1. Underway /\ Unwritten /\ RearIsMerged /\ RearInOrder /\ RearIsWeaker
    BY DEF ScanInv, MergeInv
  <2>2. /\ UNCHANGED <<state, scanning, grouped, channel, aps, sorted, rc, is, old>>
        /\ UNCHANGED <<Rear, New, Room, Scanned>>
    BY DEF scanVars, lists, merging, Rear, New, Room, Scanned
  <2>3. Underway' /\ Unwritten'
    BY <2>1, <2>2 DEF Underway, Unwritten, FromScanned
  <2>4. RearIsMerged'
    BY <2>1, <2>2 DEF RearIsMerged
  <2>5. RearInOrder' /\ RearIsWeaker'
    BY <2>1, <2>2 DEF RearInOrder, RearIsWeaker
  <2> QED
    BY <2>3, <2>4, <2>5
<1> QED
  BY <1>1, <1>2 DEF Rest

LEMMA QuietSteps ==
  ASSUME ScanInv,
         CoreScan \/ ScanDone \/ ServiceUp \/ Credentials \/ ResetState \/
         ServiceDown \/ ResultRequest \/ ScanWaited \/ CopyRecord \/ EventIgnored
  PROVE  Rest'
<1>0. FoundInOrder /\ ReaderFollows /\ ListIsSorted
  BY DEF ScanInv
<1>1. CASE CoreScan \/ ScanDone
  <2>1. FoundInOrder'
    BY <1>1, FoundFacts DEF CoreScan, ScanDone, DriverStarts, FoundInOrder
  <2>2. UNCHANGED <<state, scanVars, lists, merging, reader>>
    BY <1>1 DEF CoreScan, ScanDone
  <2>3. ReaderFollows'
    BY <1>0, <2>2 DEF ReaderFollows, scanVars, lists, reader, Scanned
  <2> QED
    BY <2>1, <2>2, <2>3, LeftAlone
<1>2. CASE ServiceUp \/ Credentials \/ ResetState \/ ServiceDown
  <2>1. /\ UNCHANGED <<scanVars, lists, radio, merging, reader>>
        /\ handler # "merge"
    BY <1>2 DEF ServiceUp, Credentials, ResetState, ServiceDown, Unlocked
  <2>2. client = "copy" => state # "STOPPING"
    BY <1>2 DEF ServiceUp, Credentials, ResetState, ServiceDown
  <2>3. FoundInOrder' /\ ReaderFollows'
    BY <1>0, <2>1, <2>2
    DEF FoundInOrder, ReaderFollows, scanVars, lists, radio, reader, Scanned
  <2> QED
    BY <2>1, <2>3, LeftAlone
<1>3. CASE ResultRequest
  <2>1. PICK i \in Places : ScanResult(i)
    BY <1>3 DEF ResultRequest
  <2>2. /\ UNCHANGED <<state, scanVars, lists, radio, merging>>
        /\ Unlocked /\ sorted[i] # Null /\ ptr' = sorted[i]
    BY <2>1 DEF ScanResult, Served
  <2>3. i \in Filled(sorted)
    BY <2>2 DEF Filled
  <2>4. ptr' \in Pointers /\ There(ptr', aps) /\ (scanning => ptr'[1] \in Scanned)
    BY <1>0, <2>2, <2>3, ListFacts DEF ScanInv, ListIsSorted, InOrder, FromScanned
  <2>5. FoundInOrder' /\ ReaderFollows'
    BY <1>0, <2>2, <2>4
    DEF FoundInOrder, ReaderFollows, scanVars, lists, radio, Scanned
  <2> QED
    BY <2>2, <2>5, LeftAlone
<1>4. CASE ScanWaited \/ CopyRecord
  <2>1. UNCHANGED <<state, scanVars, lists, radio, merging>> /\ client' = "idle"
    BY <1>4 DEF ScanWaited, CopyRecord
  <2>2. FoundInOrder' /\ ReaderFollows'
    BY <1>0, <2>1 DEF FoundInOrder, ReaderFollows, radio
  <2> QED
    BY <2>1, <2>2, LeftAlone
<1>5. CASE EventIgnored
  <2>1. UNCHANGED <<state, scanVars, lists, found, merging, reader>>
    BY <1>5 DEF EventIgnored
  <2>2. FoundInOrder' /\ ReaderFollows'
    BY <1>0, <2>1 DEF FoundInOrder, ReaderFollows, scanVars, lists, reader, Scanned
  <2> QED
    BY <2>1, <2>2, LeftAlone
<1> QED
  BY <1>1, <1>2, <1>3, <1>4, <1>5

\* The list is cleared before a scan, and when the service is stopped.
LEMMA ClearingSteps ==
  ASSUME ScanInv, StopService \/ StartRequest
  PROVE  Rest'
<1>0. FoundInOrder /\ ReaderFollows /\ ChannelFollows
  BY DEF ScanInv
<1>1. CASE StopService
  <2>1. /\ UNCHANGED <<grouped, channel, radio, merging, reader>>
        /\ ~scanning' /\ state' = "STOPPING" /\ handler = "idle"
        /\ sorted' = [i \in Places |-> Null]
    BY <1>1 DEF StopService, ClearSorted, Unlocked
  <2>2. Filled(sorted') = {} /\ InOrder(sorted', aps')
    BY <2>1, EmptyInOrder
  <2>3. FoundInOrder' /\ ChannelFollows' /\ ReaderFollows'
    BY <1>0, <2>1 DEF FoundInOrder, ChannelFollows, ReaderFollows, radio, reader
  <2>4. ListIsSorted' /\ MergeInv'
    BY <2>1, <2>2 DEF ListIsSorted, MergeInv, merging
  <2> QED
    BY <2>3, <2>4 DEF Rest
<1>2. CASE StartRequest
  <2>1. PICK blocking \in BOOLEAN, group \in BOOLEAN : ScanStart(blocking, group)
    BY <1>2 DEF StartRequest
  <2>2. /\ UNCHANGED <<state, aps, merging>> /\ client' \in {"idle", "wait"}
        /\ handler = "idle" /\ sorted' = [i \in Places |-> Null]
        /\ ~scanning /\ grouped' = group
    BY <2>1 DEF ScanStart, ClearSorted, Served, Unlocked
  <2>3. \/ scanning' /\ channel' = IF group THEN 1 ELSE 0
        \/ ~scanning'
    BY <2>1, <2>2 DEF ScanStart
  <2>4. FoundInOrder'
    BY <1>0, <2>1, FoundFacts DEF ScanStart, DriverStarts, FoundInOrder, radio
  <2>5. Filled(sorted') = {} /\ InOrder(sorted', aps')
    BY <2>2, EmptyInOrder
  <2>6. ChannelFollows'
    BY <2>2, <2>3, NumberFacts DEF ChannelFollows
  <2>7. ListIsSorted'
    BY <2>5 DEF ListIsSorted, FromScanned
  <2>8. MergeInv' /\ ReaderFollows'
    BY <2>2 DEF MergeInv, ReaderFollows, merging
  <2> QED
    BY <2>4, <2>6, <2>7, <2>8 DEF Rest
<1> QED
  BY <1>1, <1>2

\* The records of a channel are replaced: no list points to them.
LEMMA OthersStay ==
  ASSUME TypeOK, ChannelFollows, scanning, NEW new,
         aps' = [aps EXCEPT ![channel] = new]
  PROVE  \A c \in Channels \cap Scanned : aps'[c] = aps[c]
BY OtherChannels DEF TypeOK

LEMMA ResultsStep ==
  ASSUME ScanInv, ResultsTaken
  PROVE  Rest'
<1>0. /\ TypeOK /\ FoundInOrder /\ ReaderFollows /\ ChannelFollows /\ ListIsSorted
      /\ Descending(found)
  BY DEF ScanInv, FoundInOrder
<1>1. /\ scanning /\ state = "STARTED" /\ Unlocked
      /\ rc' = IF Len(found) < MaxResults THEN Len(found) ELSE MaxResults
      /\ aps' = [aps EXCEPT ![channel] = SubSeq(found, 1, rc')]
      /\ found' = <<>> /\ is' = MaxResults - rc' - 1 /\ old' = sorted
      /\ handler' = "merge"
      /\ UNCHANGED <<state, scanVars, sorted, reader>>
  BY DEF ResultsTaken, Expected
<1>2. found \in Seq(Rssi) /\ Len(found) \in Nat
  BY <1>0, LenProperties DEF TypeOK
<1>3. rc' \in 0..Len(found) /\ rc' <= MaxResults /\ rc' \in Nat
  BY <1>1, <1>2, NumberFacts
<1>4. /\ Len(SubSeq(found, 1, rc')) = rc' /\ Descending(SubSeq(found, 1, rc'))
  BY <1>0, <1>2, <1>3, TakenFacts
<1>5. New' = SubSeq(found, 1, rc')
  BY <1>0, <1>1, ListFacts DEF New, scanVars, TypeOK
<1> DEFINE new == SubSeq(found, 1, rc')
<1> HIDE DEF new
<1>5b. Len(New') = rc' /\ Descending(New')
  <2>1. New' = new /\ Len(new) = rc' /\ Descending(new)
    BY <1>4, <1>5 DEF new
  <2> QED
    BY <2>1
<1>6. \A c \in Channels \cap Scanned : aps'[c] = aps[c]
  BY <1>0, <1>1, OthersStay
<1>7. InOrder(sorted, aps') /\ FromScanned(sorted)
  <2>1. InOrder(sorted, aps) /\ FromScanned(sorted)
    BY <1>0, <1>1 DEF ListIsSorted
  <2>2. \A i \in Filled(sorted) : aps'[sorted[i][1]] = aps[sorted[i][1]]
    BY <1>0, <1>6, <2>1, ListFacts, PointerFacts DEF FromScanned
  <2> QED
    BY <2>1, <2>2, StillInOrder
<1>8. is' + rc' = MaxResults - 1 /\ is' \in Int /\ rc' \in Int /\ Room' = is'
  BY <1>1, <1>3, <1>4, <1>5, NumberFacts DEF Room
<1>9. Rear' = {} /\ \A j \in Places : j <= is' + rc'
  <2>1. \A j \in Places : j <= MaxResults - 1 /\ ~(j > MaxResults - 1)
    BY NumberFacts DEF Places
  <2> QED
    BY <1>8, <2>1 DEF Rear
<1>10. Underway'
  <2>1. InOrder(old, aps)' /\ FromScanned(old)'
    BY <1>1, <1>7 DEF FromScanned, Scanned, scanVars
  <2>2. Descending(New)' /\ Len(New') <= MaxResults /\ rc' <= Len(New')
    BY <1>3, <1>5b
  <2> QED
    BY <1>1, <1>8, <2>1, <2>2 DEF Underway, scanVars
<1>11. Unwritten'
  BY <1>1 DEF Unwritten
<1>12. RearIsMerged'
  <2>1. \A k \in (rc' + 1)..Len(New') : FALSE
    <3>1. Len(New') = rc' /\ rc' \in Nat
      BY <1>3, <1>5b
    <3>2. \A n \in Nat : (n + 1)..n = {}
      OBVIOUS
    <3>3. (rc' + 1)..Len(New') = {}
      BY <3>1, <3>2
    <3> QED
      BY <3>3
  <2>2. \A i \in Places : ~(is' < i /\ i <= Room')
    BY <1>8, LoopFacts, <1>0
  <2> QED
    BY <1>9, <2>1, <2>2 DEF RearIsMerged
<1>13. RearInOrder' /\ RearIsWeaker'
  BY <1>9 DEF RearInOrder, RearIsWeaker
<1>14. MergeInv'
  BY <1>10, <1>11, <1>12, <1>13 DEF MergeInv
<1>15. FoundInOrder' /\ ChannelFollows' /\ ListIsSorted'
  BY <1>0, <1>1, FoundFacts
  DEF FoundInOrder, ChannelFollows, ListIsSorted, Unlocked, scanVars
<1>16. ReaderFollows'
  <2> SUFFICES ASSUME client' = "copy"
               PROVE  ptr' \in Pointers /\ ptr'[1] \in Scanned' /\ There(ptr', aps')
    BY DEF ReaderFollows
  <2>1. ptr' = ptr /\ client = "copy" /\ Scanned' = Scanned
    BY <1>1 DEF reader, Scanned, scanVars
  <2>2. ptr \in Pointers /\ ptr[1] \in Scanned /\ There(ptr, aps)
    BY <1>0, <1>1, <2>1 DEF ReaderFollows
  <2>3. aps'[ptr[1]] = aps[ptr[1]]
    BY <1>6, <2>2, PointerFacts
  <2> QED
    BY <2>1, <2>2, <2>3 DEF There
<1> QED
  BY <1>14, <1>15, <1>16 DEF Rest

LEMMA FailedStep ==
  ASSUME ScanInv, ResultsFailed
  PROVE  Rest'
<1>0. /\ TypeOK /\ FoundInOrder /\ ReaderFollows /\ ChannelFollows /\ ListIsSorted
  BY DEF ScanInv
<1>1. /\ scanning /\ state = "STARTED" /\ Unlocked /\ ~scanning'
      /\ aps' = [aps EXCEPT ![channel] = <<>>]
      /\ found' \in {found, <<>>}
      /\ UNCHANGED <<state, grouped, sorted, merging, reader>>
  BY DEF ResultsFailed, Expected
<1>2. \A c \in Channels \cap Scanned : aps'[c] = aps[c]
  BY <1>0, <1>1, OthersStay
<1>3. InOrder(sorted, aps')
  <2>1. InOrder(sorted, aps) /\ FromScanned(sorted)
    BY <1>0, <1>1 DEF ListIsSorted
  <2>2. \A i \in Filled(sorted) : aps'[sorted[i][1]] = aps[sorted[i][1]]
    BY <1>0, <1>2, <2>1, ListFacts, PointerFacts DEF FromScanned
  <2> QED
    BY <2>1, <2>2, StillInOrder
<1>4. FoundInOrder' /\ ChannelFollows' /\ ListIsSorted'
  BY <1>0, <1>1, <1>3, FoundFacts DEF FoundInOrder, ChannelFollows, ListIsSorted
<1>5. MergeInv'
  BY <1>1 DEF MergeInv, Unlocked, merging
<1>6. ReaderFollows'
  <2> SUFFICES ASSUME client' = "copy"
               PROVE  ptr' \in Pointers /\ There(ptr', aps')
    BY <1>1 DEF ReaderFollows
  <2>1. ptr' = ptr /\ client = "copy"
    BY <1>1 DEF reader
  <2>2. ptr \in Pointers /\ ptr[1] \in Scanned /\ There(ptr, aps)
    BY <1>0, <1>1, <2>1 DEF ReaderFollows
  <2>3. aps'[ptr[1]] = aps[ptr[1]]
    BY <1>2, <2>2, PointerFacts
  <2> QED
    BY <2>1, <2>2, <2>3 DEF There
<1> QED
  BY <1>4, <1>5, <1>6 DEF Rest

\* The strength the merge looks at, in place is, is still the old record's.
LEMMA AtIs ==
  ASSUME TypeOK, MergeInv, handler = "merge", rc > 0, is >= 0
  PROVE  /\ sorted[is] = old[is]
         /\ NewIsWeaker <=> old[is] # Null /\ Level(old[is], aps) > New[rc]
<1>1. is \in Places /\ is <= is + rc
  BY PlaceFacts
<1>2. sorted[is] = old[is]
  BY <1>1 DEF MergeInv, Unwritten
<1> QED
  BY <1>2 DEF NewIsWeaker, Strength, Level, New

LEMMA MergeSteps ==
  ASSUME ScanInv, TypeOK', PlaceNew \/ MoveOld \/ PlaceRest
  PROVE  Rest'
<1>0. /\ TypeOK /\ FoundInOrder /\ ReaderFollows /\ ChannelFollows /\ MergeInv
  BY DEF ScanInv
<1>1. /\ handler = "merge" /\ rc > 0
      /\ UNCHANGED <<state, scanVars, aps, radio, handler, old, reader>>
  BY DEF PlaceNew, MoveOld, PlaceRest
<1>2. FoundInOrder' /\ ChannelFollows' /\ ListIsSorted' /\ ReaderFollows'
  BY <1>0, <1>1
  DEF FoundInOrder, ChannelFollows, ListIsSorted, ReaderFollows, Unlocked,
      Scanned, scanVars, radio, reader
<1>3. UNCHANGED <<state, scanning, grouped, channel, aps, old, handler>>
  BY <1>1 DEF scanVars
<1>4. CASE PlaceNew
  <2>1. /\ is >= 0 /\ NewIsWeaker /\ rc' = rc - 1 /\ UNCHANGED is
        /\ sorted' = [sorted EXCEPT ![is + rc] = <<channel, rc>>]
    BY <1>4 DEF PlaceNew
  <2>2. old[is] # Null /\ Level(old[is], aps) > New[rc] /\ is \in Places
    BY <1>0, <1>1, <2>1, AtIs, PlaceFacts
  <2>3. is \in Filled(old) /\ InOrder(old, aps)
    BY <1>0, <1>1, <2>2 DEF Filled, MergeInv, Underway
  <2>4. ASSUME NEW i \in Places, i <= is
        PROVE  old[i] # Null /\ Level(old[i], aps) >= New[rc]
    <3>1. New[rc] \in Int /\ Level(old[is], aps) \in Int
      <4>1. rc \in 1..Len(New)
        BY <1>0, <1>1, PlaceFacts
      <4>2. old[is] \in Pointers /\ There(old[is], aps)
        BY <1>0, <2>3, ListFacts DEF InOrder
      <4> QED
        BY <1>0, <4>1, <4>2, ListFacts, RecordFacts, LevelFacts DEF New
    <3>2. CASE i = is
      BY <3>1, <3>2, <2>2
    <3>3. CASE i # is
      <4>1. i < is
        BY <1>0, <2>4, <3>3, LoopFacts
      <4>2. old[i] # Null
        BY <2>3, <4>1 DEF InOrder
      <4>3. i \in Filled(old)
        BY <4>2 DEF Filled
      <4>4. Level(old[i], aps) >= Level(old[is], aps)
        BY <2>3, <4>1, <4>3 DEF InOrder
      <4>5. Level(old[i], aps) \in Int
        <5>1. old[i] \in Pointers /\ There(old[i], aps)
          BY <1>0, <2>3, <4>3, ListFacts DEF InOrder
        <5> QED
          BY <1>0, <5>1, LevelFacts
      <4> QED
        BY <2>2, <3>1, <4>2, <4>4, <4>5
    <3> QED
      BY <3>2, <3>3
  <2>5. MergeInv'
    BY <1>0, <1>1, <1>3, <2>1, <2>4, NewPlaced
  <2> QED
    BY <1>2, <2>5 DEF Rest
<1>5. CASE PlaceRest
  <2>1. /\ is < 0 /\ rc' = rc - 1 /\ UNCHANGED is
        /\ sorted' = [sorted EXCEPT ![rc - 1] = <<channel, rc>>]
    BY <1>5 DEF PlaceRest
  <2>2. is + rc = rc - 1 /\ \A i \in Places : ~(i <= is)
    <3>1. is = -1 /\ rc \in Int
      BY <1>0, <1>1, <2>1, PlaceFacts
    <3>2. \A i \in Places : i \in Nat
      BY NumberFacts
    <3> QED
      BY <3>1, <3>2
  <2>3. MergeInv'
    BY <1>0, <1>1, <1>3, <2>1, <2>2, NewPlaced
  <2> QED
    BY <1>2, <2>3 DEF Rest
<1>6. CASE MoveOld
  <2>1. /\ is >= 0 /\ ~NewIsWeaker /\ is' = is - 1 /\ UNCHANGED rc
        /\ sorted' = IF sorted[is] = Null THEN sorted
                     ELSE [sorted EXCEPT ![is + rc] = sorted[is]]
    BY <1>6 DEF MoveOld
  <2>2. /\ sorted[is] = old[is]
        /\ old[is] # Null => ~(Level(old[is], aps) > New[rc])
    BY <1>0, <1>1, <2>1, AtIs
  <2>3. MergeInv'
    <3>1. CASE old[is] = Null
      BY <1>0, <1>1, <1>3, <2>1, <2>2, <3>1, NothingMoved
    <3>2. CASE old[is] # Null
      BY <1>0, <1>1, <1>3, <2>1, <2>2, <3>2, OldMoved
    <3> QED
      BY <3>1, <3>2
  <2> QED
    BY <1>2, <2>3 DEF Rest
<1> QED
  BY <1>4, <1>5, <1>6

LEMMA EndStep ==
  ASSUME ScanInv, NextChannel
  PROVE  Rest'
<1>0. /\ TypeOK /\ FoundInOrder /\ ReaderFollows /\ ChannelFollows /\ MergeInv
  BY DEF ScanInv
<1>1. /\ handler = "merge" /\ rc = 0 /\ handler' = "idle"
      /\ UNCHANGED <<state, grouped, aps, sorted, reader>>
      /\ scanning' => /\ grouped /\ channel' # 0
                      /\ channel' = (channel + 1) % (LastChannel + 1)
  BY DEF NextChannel, lists
<1>2. scanning /\ channel \in Channels
  BY <1>0, <1>1, ListFacts DEF MergeInv, Underway
<1>3. scanning' => /\ grouped /\ channel' = channel + 1
                   /\ channel \in 1..LastChannel /\ channel' \in 1..LastChannel
  <2> SUFFICES ASSUME scanning'
               PROVE  /\ grouped /\ channel' = channel + 1
                      /\ channel \in 1..LastChannel /\ channel' \in 1..LastChannel
    OBVIOUS
  <2>1. channel' = IF channel = LastChannel THEN 0 ELSE channel + 1
    BY <1>1, <1>2, NextOf
  <2>2. channel # LastChannel /\ channel' = channel + 1 /\ channel \in 1..LastChannel
    BY <1>0, <1>1, <1>2, <2>1 DEF ChannelFollows
  <2> QED
    BY <1>1, <2>2, NumberFacts
<1>4. scanning' => Scanned \cup {channel} \subseteq Scanned'
  <2> SUFFICES ASSUME scanning'
               PROVE  Scanned \cup {channel} \subseteq Scanned'
    OBVIOUS
  <2>1. Scanned = 1..(channel - 1) /\ Scanned' = 1..(channel' - 1)
    BY <1>1, <1>3 DEF Scanned
  <2> QED
    BY <1>3, <2>1, NumberFacts
<1>5. /\ InOrder(sorted, aps)
      /\ \A i \in Filled(sorted) : sorted[i][1] \in Scanned \cup {channel}
  BY <1>0, <1>1, MergedInOrder
<1>6. ListIsSorted'
  BY <1>1, <1>4, <1>5 DEF ListIsSorted, FromScanned
<1>7. ChannelFollows'
  BY <1>1, <1>3 DEF ChannelFollows
<1>8. ReaderFollows'
  BY <1>0, <1>1, <1>2, <1>4 DEF ReaderFollows, reader
<1>9. FoundInOrder'
  BY <1>0, FoundFacts DEF NextChannel, DriverStarts, radio, FoundInOrder
<1> QED
  BY <1>1, <1>6, <1>7, <1>8, <1>9 DEF Rest, MergeInv

LEMMA ScanInvHolds == Spec => []ScanInv
<1>1. Init => ScanInv
  <2> SUFFICES ASSUME Init PROVE ScanInv
    OBVIOUS
  <2>1. TypeOK
    <3>1. aps \in [Channels -> Seq(Rssi)] /\ 0 \in Channels /\ 0 \in 0..MaxEvents
      BY FoundFacts, NumberFacts DEF Init
    <3>2. 0 \in 0..MaxResults /\ -1 \in -1..(MaxResults - 1)
      BY NumberFacts
    <3>3. found \in Seq(Rssi)
      BY FoundFacts DEF Init
    <3> QED
      BY <3>1, <3>2, <3>3 DEF Init, TypeOK
  <2>2. InOrder(sorted, aps)
    BY EmptyInOrder DEF Init
  <2>3. FoundInOrder
    BY FoundFacts DEF Init, FoundInOrder
  <2> QED
    BY <2>1, <2>2, <2>3
    DEF Init, ScanInv, ChannelFollows, ListIsSorted, ReaderFollows, MergeInv
<1>2. ScanInv /\ [Next]_vars => ScanInv'
  <2> SUFFICES ASSUME ScanInv, [Next]_vars PROVE ScanInv'
    OBVIOUS
  <2>1. TypeOK'
    BY StepType
  <2>2. Rest'
    <3>1. CASE UNCHANGED vars
      <4>1. UNCHANGED <<state, scanVars, lists, radio, merging, reader>>
        BY <3>1 DEF vars
      <4>2. FoundInOrder' /\ ReaderFollows'
        BY <4>1 DEF ScanInv, FoundInOrder, ReaderFollows, scanVars, lists, radio,
                    reader, Scanned
      <4> QED
        BY <4>1, <4>2, LeftAlone
    <3>2. CASE CoreScan \/ ScanDone \/ ServiceUp \/ Credentials \/ ResetState \/
               ServiceDown \/ ResultRequest \/ ScanWaited \/ CopyRecord \/ EventIgnored
      BY <3>2, QuietSteps
    <3>3. CASE StopService \/ StartRequest
      BY <3>3, ClearingSteps
    <3>4. CASE ResultsTaken
      BY <3>4, ResultsStep
    <3>5. CASE ResultsFailed
      BY <3>5, FailedStep
    <3>6. CASE PlaceNew \/ MoveOld \/ PlaceRest
      BY <3>6, <2>1, MergeSteps
    <3>7. CASE NextChannel
      BY <3>7, EndStep
    <3> QED
      BY <3>1, <3>2, <3>3, <3>4, <3>5, <3>6, <3>7 DEF Next, Handler, Request
  <2> QED
    BY <2>1, <2>2 DEF ScanInv, Rest
<1> QED
  BY <1>1, <1>2, PTL DEF Spec

-----------------------------------------------------------------------------
(* The theorems.                                                           *)

\* The variables of the scan have their types.
THEOREM ScanTypeCorrect == Spec => []TypeOK
<1>1. ScanInv => TypeOK
  BY DEF ScanInv
<1> QED
  BY <1>1, ScanInvHolds, PTL

\* The list a client reads has no gap, is in order and points to records that
\* are there: what update_wifi_scan_results frees belongs to the one channel no
\* entry points to yet.
THEOREM ListStaysSorted == Spec => []SortedList
<1>1. ScanInv => SortedList
  BY DEF ScanInv, ListIsSorted, SortedList, InOrder, There, Level, Valid, Strength
<1> QED
  BY <1>1, ScanInvHolds, PTL

\* The merge of a channel's records loses none that has room in the list.
THEOREM NoRecordIsLost == Spec => []MergeKeeps
<1>1. ASSUME ScanInv, handler = "merge", rc = 0
      PROVE  Range(sorted) \ {Null} =
               {<<channel, k>> : k \in DOMAIN aps[channel]}
                 \cup ({old[i] : i \in 0..(MaxResults - Len(aps[channel]) - 1)} \ {Null})
  <2>0. /\ TypeOK /\ Underway /\ Unwritten /\ RearIsMerged
    BY <1>1 DEF ScanInv, MergeInv
  <2>1. /\ Len(New) \in Nat /\ DOMAIN New = 1..Len(New) /\ is \in Int
        /\ Room \in Int /\ is <= Room /\ Room <= MaxResults - 1
    <3>1. Len(New) \in Nat /\ DOMAIN New = 1..Len(New)
      BY <2>0, ListFacts, RecordFacts DEF New
    <3> QED
      BY <2>0, <3>1, LoopFacts, NumberFacts DEF Room, Underway
  <2> DEFINE added == {<<channel, k>> : k \in 1..Len(New)}
             kept == {old[i] : i \in 0..Room} \ {Null}
  <2>2. 0..Room \subseteq Places /\ \A i \in Places : i <= Room => i \in 0..Room
    BY <2>1, NumberFacts DEF Places
  <2>3. \A k \in 1..Len(New) : <<channel, k>> # Null
    BY NumberFacts
  <2>4. /\ \A j \in Places : j \in Rear <=> ~(j <= is)
        /\ \A j \in Places : j <= is => sorted[j] = old[j] /\ j <= Room
        /\ (rc + 1)..Len(New) = 1..Len(New)
    <3>1. is + rc = is /\ is \in Int /\ \A j \in Places : j \in Int
      BY <1>1, <2>0, LoopFacts
    <3>2. \A j \in Places : j \in Rear <=> ~(j <= is)
      BY <3>1 DEF Rear
    <3>3. \A j \in Places : j <= is => sorted[j] = old[j]
      BY <2>0, <3>1 DEF Unwritten
    <3>4. \A j \in Places : j <= is => j <= Room
      BY <2>1, <3>1
    <3> QED
      BY <1>1, <3>2, <3>3, <3>4
  <2>5. ASSUME NEW j \in Places, sorted[j] # Null
        PROVE  sorted[j] \in added \cup kept
    <3>1. CASE j <= is
      BY <2>5, <3>1, <2>2, <2>4
    <3>2. CASE j \in Rear
      <4>1. CASE \E k \in (rc + 1)..Len(New) : sorted[j] = <<channel, k>>
        BY <4>1, <2>4
      <4>2. CASE \E i \in Places : is < i /\ i <= Room /\ sorted[j] = old[i]
        BY <4>2, <2>2, <2>5
      <4> QED
        BY <4>1, <4>2, <3>2, <2>0, <2>5 DEF RearIsMerged
    <3> QED
      BY <3>1, <3>2, <2>4
  <2>6. ASSUME NEW k \in 1..Len(New)
        PROVE  \E j \in Places : sorted[j] = <<channel, k>>
    BY <2>0, <2>4 DEF RearIsMerged, Rear
  <2>7. ASSUME NEW i \in 0..Room, old[i] # Null
        PROVE  \E j \in Places : sorted[j] = old[i]
    <3>1. i \in Places /\ i <= Room /\ (i <= is \/ is < i)
      BY <2>1, <2>2
    <3>2. CASE i <= is
      BY <3>1, <3>2, <2>4
    <3>3. CASE is < i
      BY <3>1, <3>3, <2>0, <2>7 DEF RearIsMerged, Rear
    <3> QED
      BY <3>1, <3>2, <3>3
  <2>8. DOMAIN sorted = Places /\ Range(sorted) = {sorted[j] : j \in Places}
    BY <2>0, ListFacts DEF Range
  <2>9. Range(sorted) \ {Null} = added \cup kept
    <3>1. Range(sorted) \ {Null} \subseteq added \cup kept
      BY <2>5, <2>8
    <3>2. added \subseteq Range(sorted) \ {Null}
      BY <2>3, <2>6, <2>8
    <3>3. kept \subseteq Range(sorted) \ {Null}
      BY <2>7, <2>8
    <3> QED
      BY <3>1, <3>2, <3>3
  <2> QED
    BY <2>1, <2>9 DEF New, Room
<1>2. ScanInv => MergeKeeps
  BY <1>1 DEF MergeKeeps
<1> QED
  BY <1>2, ScanInvHolds, PTL

\* A record handed over to a client that reads results during a scan is freed
\* under its hands only when the service is stopped.
THEOREM ReadingIsSafe == Spec => []ReadIsSafe
<1>1. ScanInv => ReadIsSafe
  BY DEF ScanInv, ReaderFollows, ReadIsSafe, There, Valid
<1> QED
  BY <1>1, ScanInvHolds, PTL
=============================================================================
