--------------------------- MODULE NodeList_proofs ---------------------------
(***************************************************************************)
(* Proofs about the node list, for any number of nodes, any interval, any  *)
(* set of readers, with or without failing allocations.                    *)
(***************************************************************************)
EXTENDS NodeList, SequenceTheorems, TLAPS

-----------------------------------------------------------------------------
(* Sequences.                                                              *)

\* Removing the k-th element moves the later ones one place to the front.
LEMMA RemoveAtSeq ==
  ASSUME NEW S, NEW s \in Seq(S), NEW k \in 1..Len(s)
  PROVE  /\ RemoveAt(s, k) \in Seq(S)
         /\ Len(RemoveAt(s, k)) = Len(s) - 1
         /\ \A j \in 1..Len(RemoveAt(s, k)) :
              RemoveAt(s, k)[j] = IF j < k THEN s[j] ELSE s[j + 1]
<1> DEFINE p == SubSeq(s, 1, k - 1)
           q == SubSeq(s, k + 1, Len(s))
           r == RemoveAt(s, k)
<1>1. /\ p \in Seq(S) /\ Len(p) = k - 1
      /\ \A j \in 1..Len(p) : p[j] = s[j]
  BY SubSeqProperties
<1>2. /\ q \in Seq(S) /\ Len(q) = Len(s) - k
      /\ \A j \in 1..Len(q) : q[j] = s[j + k]
  BY SubSeqProperties
<1>3. r = p \o q
  BY DEF RemoveAt
<1> HIDE DEF p, q, r
<1>4. Len(s) \in Nat
  BY LenProperties
<1>5. /\ r \in Seq(S)
      /\ Len(r) = Len(p) + Len(q)
      /\ \A j \in 1..(Len(p) + Len(q)) :
           r[j] = IF j <= Len(p) THEN p[j] ELSE q[j - Len(p)]
  <2>1. p \in Seq(S) /\ q \in Seq(S)
    BY <1>1, <1>2
  <2> QED
    BY <2>1, <1>3, ConcatProperties
<1>6. Len(r) = Len(s) - 1
  BY <1>1, <1>2, <1>4, <1>5
<1>7. ASSUME NEW j \in 1..Len(r)
      PROVE  r[j] = IF j < k THEN s[j] ELSE s[j + 1]
  <2>1. r[j] = IF j <= k - 1 THEN p[j] ELSE q[j - (k - 1)]
    BY <1>1, <1>5
  <2>2. CASE j < k
    <3>1. j \in 1..Len(p) /\ j <= k - 1
      BY <1>1, <2>2
    <3> QED
      BY <2>1, <2>2, <3>1, <1>1
  <2>3. CASE ~(j < k)
    <3>1. /\ j - (k - 1) \in 1..Len(q) /\ ~(j <= k - 1)
          /\ (j - (k - 1)) + k = j + 1
      BY <1>2, <1>4, <1>6, <2>3
    <3>2. q[j - (k - 1)] = s[j + 1]
      BY <1>2, <3>1
    <3> QED
      BY <2>1, <2>3, <3>1, <3>2
  <2> QED
    BY <2>2, <2>3
<1> QED
  BY <1>5, <1>6, <1>7 DEF r

-----------------------------------------------------------------------------
(* What the three kinds of change do to the nodes of the list.             *)

Unique(s) == \A i, j \in DOMAIN s : s[i].mac = s[j].mac => i = j
MacsOf(s) == {s[i].mac : i \in DOMAIN s}

\* Entries that keep their places and their MACs (Refresh, Mark, Keep).
LEMMA SameNodes ==
  ASSUME NEW s \in Seq(Entry), NEW r \in Seq(Entry), Len(r) = Len(s),
         \A j \in 1..Len(s) : r[j].mac = s[j].mac
  PROVE  MacsOf(r) = MacsOf(s) /\ (Unique(s) => Unique(r))
BY LenProperties DEF MacsOf, Unique

\* A new entry at the head.
LEMMA OneMore ==
  ASSUME NEW s \in Seq(Entry), NEW e \in Entry, NEW r, r = Cons(e, s)
  PROVE  /\ r \in Seq(Entry)
         /\ Len(r) = Len(s) + 1
         /\ MacsOf(r) = MacsOf(s) \cup {e.mac}
         /\ Unique(s) /\ e.mac \notin MacsOf(s) => Unique(r)
<1>1. <<e>> \in Seq(Entry) /\ Len(<<e>>) = 1 /\ <<e>>[1] = e
  OBVIOUS
<1>2. /\ r \in Seq(Entry) /\ Len(r) = Len(s) + 1
      /\ \A i \in 1..Len(r) : r[i] = IF i <= 1 THEN e ELSE s[i - 1]
  BY <1>1, ConcatProperties DEF Cons
<1>3. DOMAIN s = 1..Len(s) /\ DOMAIN r = 1..Len(r) /\ Len(s) \in Nat
  BY <1>2, LenProperties
<1>4. r[1] = e /\ \A i \in 1..Len(s) : r[i + 1] = s[i]
  BY <1>2, <1>3
<1>5. MacsOf(r) = MacsOf(s) \cup {e.mac}
  <2>1. \A i \in 1..Len(r) : i = 1 \/ (i - 1 \in 1..Len(s) /\ r[i] = s[i - 1])
    BY <1>2, <1>3
  <2>2. \A i \in 1..Len(s) : i + 1 \in 1..Len(r)
    BY <1>2, <1>3
  <2>3. 1 \in 1..Len(r)
    BY <1>2, <1>3
  <2>4. MacsOf(r) \subseteq MacsOf(s) \cup {e.mac}
    <3> SUFFICES ASSUME NEW i \in 1..Len(r)
                 PROVE  r[i].mac \in MacsOf(s) \cup {e.mac}
      BY <1>3 DEF MacsOf
    <3>1. CASE i = 1
      BY <3>1, <1>4
    <3>2. CASE i - 1 \in 1..Len(s) /\ r[i] = s[i - 1]
      BY <3>2, <1>3 DEF MacsOf
    <3> QED
      BY <2>1, <3>1, <3>2
  <2>5. \A i \in 1..Len(s) : s[i].mac \in MacsOf(r)
    BY <2>2, <1>3, <1>4 DEF MacsOf
  <2>6. e.mac \in MacsOf(r)
    BY <2>3, <1>3, <1>4 DEF MacsOf
  <2> QED
    BY <2>4, <2>5, <2>6, <1>3 DEF MacsOf
<1>6. ASSUME Unique(s), e.mac \notin MacsOf(s)
      PROVE  Unique(r)
  <2> SUFFICES ASSUME NEW i \in 1..Len(r), NEW j \in 1..Len(r),
                      r[i].mac = r[j].mac
               PROVE  i = j
    BY <1>3 DEF Unique
  <2>1. \A n \in 1..Len(r) :
          n = 1 \/ (n - 1 \in 1..Len(s) /\ r[n] = s[n - 1] /\ r[n].mac # e.mac)
    <3>1. \A n \in 1..Len(s) : s[n].mac # e.mac
      BY <1>3, <1>6 DEF MacsOf
    <3>2. \A n \in 1..Len(r) : n = 1 \/ (n - 1 \in 1..Len(s) /\ r[n] = s[n - 1])
      BY <1>2, <1>3
    <3> QED
      BY <3>1, <3>2
  <2>2. CASE i = 1 \/ j = 1
    BY <2>1, <2>2, <1>4
  <2>3. CASE i # 1 /\ j # 1
    <3>1. i - 1 \in 1..Len(s) /\ j - 1 \in 1..Len(s) /\ s[i - 1].mac = s[j - 1].mac
      BY <2>1, <2>3
    <3>2. i - 1 = j - 1
      BY <3>1, <1>3, <1>6 DEF Unique
    <3> QED
      BY <3>2
  <2> QED
    BY <2>2, <2>3
<1> QED
  BY <1>2, <1>5, <1>6

\* An entry is unlinked.
LEMMA OneLess ==
  ASSUME NEW s \in Seq(Entry), NEW k \in 1..Len(s), Unique(s),
         NEW r, r = RemoveAt(s, k)
  PROVE  /\ r \in Seq(Entry)
         /\ Len(r) = Len(s) - 1
         /\ MacsOf(r) = MacsOf(s) \ {s[k].mac}
         /\ Unique(r)
<1>1. /\ r \in Seq(Entry) /\ Len(r) = Len(s) - 1
      /\ \A j \in 1..Len(r) : r[j] = IF j < k THEN s[j] ELSE s[j + 1]
  BY RemoveAtSeq
<1>2. DOMAIN s = 1..Len(s) /\ DOMAIN r = 1..Len(r) /\ Len(s) \in Nat
  BY <1>1, LenProperties
<1>3. \A j \in 1..Len(s) : j < k => j \in 1..Len(r) /\ r[j] = s[j]
  BY <1>1, <1>2
<1>4. \A j \in 1..Len(s) : j > k => j - 1 \in 1..Len(r) /\ r[j - 1] = s[j]
  BY <1>1, <1>2
<1>5. MacsOf(r) \subseteq MacsOf(s) \ {s[k].mac}
  BY <1>1, <1>2 DEF MacsOf, Unique
<1>6. MacsOf(s) \ {s[k].mac} \subseteq MacsOf(r)
  <2> SUFFICES ASSUME NEW j \in 1..Len(s), s[j].mac # s[k].mac
               PROVE  s[j].mac \in MacsOf(r)
    BY <1>2 DEF MacsOf
  <2>1. j < k \/ j > k
    BY <1>2
  <2> QED
    BY <2>1, <1>2, <1>3, <1>4 DEF MacsOf
<1>7. Unique(r)
  <2> SUFFICES ASSUME NEW i \in 1..Len(r), NEW j \in 1..Len(r),
                      r[i].mac = r[j].mac
               PROVE  i = j
    BY <1>2 DEF Unique
  <2> DEFINE old(n) == IF n < k THEN n ELSE n + 1
  <2>1. \A n \in 1..Len(r) : old(n) \in 1..Len(s) /\ r[n] = s[old(n)]
    BY <1>1, <1>2
  <2>2. old(i) = old(j)
    BY <2>1, <1>2 DEF Unique
  <2> QED
    BY <2>2
<1> QED
  BY <1>1, <1>5, <1>6, <1>7
-----------------------------------------------------------------------------
(* The ways in which a step changes the list.                              *)

Renewed ==
  /\ list' \in Seq(Entry) /\ Len(list') = Len(list)
  /\ \A j \in 1..Len(list) : list'[j].mac = list[j].mac
Entered(e) ==
  /\ e.mac \notin ListMacs
  /\ list' = Cons(e, list)
Left ==
  /\ at \in 1..Len(list)
  /\ list' = RemoveAt(list, at)

LEMMA UpdateFacts ==
  ASSUME NEW f \in Update, NEW m \in DOMAIN f
  PROVE  m \in Macs /\ f[m] \in Infos /\ Restrict(f, DOMAIN f \ {m}) \in Update
<1>1. PICK S \in SUBSET Macs : f \in [S -> Infos]
  BY DEF Update
<1>2. DOMAIN f = S
  BY <1>1
<1>3. Restrict(f, DOMAIN f \ {m}) \in [S \ {m} -> Infos]
  BY <1>1, <1>2 DEF Restrict
<1>4. S \ {m} \in SUBSET Macs
  OBVIOUS
<1> QED
  BY <1>1, <1>2, <1>3, <1>4 DEF Update

\* One node is an update, and so is none.
LEMMA OneUpdate ==
  /\ \A m \in Macs, i \in Infos : [x \in {m} |-> i] \in Update
  /\ None \in Update
<1>1. ASSUME NEW m \in Macs, NEW i \in Infos
      PROVE  [x \in {m} |-> i] \in Update
  <2>1. {m} \in SUBSET Macs /\ [x \in {m} |-> i] \in [{m} -> Infos]
    OBVIOUS
  <2> QED
    BY <2>1 DEF Update
<1>2. None \in Update
  <2>1. {} \in SUBSET Macs /\ None \in [{} -> Infos]
    BY DEF None
  <2> QED
    BY <2>1 DEF Update
<1> QED
  BY <1>1, <1>2

LEMMA TtlFacts ==
  /\ Full \in Nat /\ Buffer \in 0..Full /\ Full \in 0..Full
BY TtlAssumption DEF Full

\* What a task does outside the sweeps and the two cases of an update.
LEMMA QuietSteps ==
  ASSUME NEW t \in Tasks,
         CountUp(t) \/ CountDown(t) \/ AddFails(t) \/ PostEvent(t) \/
         GetSize(t) \/ GetHead(t) \/ ReadNode(t) \/ ReadEnd(t) \/ UseAfterFree(t)
  PROVE  UNCHANGED <<list, at>>
BY DEF CountUp, CountDown, AddFails, PostEvent, GetSize, GetHead, ReadNode, ReadEnd, UseAfterFree,
       shared

LEMMA ListFacts ==
  ASSUME TypeOK
  PROVE  /\ list \in Seq(Entry) /\ at \in Nat \ {0} /\ num \in Nat
         /\ Len(list) \in Nat
         /\ DOMAIN list = 1..Len(list)
         /\ \A j \in 1..Len(list) : list[j] \in Entry /\ list[j].mac \in Macs
         /\ \A t \in Tasks : /\ todo[t] \in Update /\ ptr[t] \in Pointer
                             /\ size[t] \in Nat
<1>1. \A j \in 1..Len(list) : list[j] \in Entry
  BY ElementOfSeq DEF TypeOK, ListTypeOK
<1> QED
  BY <1>1, LenProperties DEF TypeOK, ListTypeOK, TaskTypeOK, Entry

LEMMA MarkRenews ==
  ASSUME TypeOK, Mark
  PROVE  Renewed
<1> DEFINE r == [i \in DOMAIN list |-> [list[i] EXCEPT !.ttl = Buffer]]
<1>1. \A i \in 1..Len(list) :
        /\ [list[i] EXCEPT !.ttl = Buffer] \in Entry
        /\ [list[i] EXCEPT !.ttl = Buffer].mac = list[i].mac
  BY ListFacts, TtlFacts DEF Entry
<1>2. r \in Seq(Entry) /\ Len(r) = Len(list)
  BY ListFacts, <1>1
<1> QED
  BY ListFacts, <1>1, <1>2 DEF Mark, Renewed

LEMMA RefreshRenews ==
  ASSUME TypeOK, NEW t \in Tasks, Refresh(t)
  PROVE  Renewed
<1>1. PICK i \in DOMAIN list :
        /\ list[i].mac \in DOMAIN todo[t]
        /\ list' = [list EXCEPT ![i].ttl = Full,
                                ![i].info = todo[t][list[i].mac]]
  BY DEF Refresh
<1> DEFINE e == [list[i] EXCEPT !.ttl = Full, !.info = todo[t][list[i].mac]]
<1>2. e \in Entry /\ e.mac = list[i].mac
  BY <1>1, ListFacts, UpdateFacts, TtlFacts DEF Entry
<1>3. list' = [list EXCEPT ![i] = e]
  BY <1>1, ListFacts
<1> HIDE DEF e
<1>4. list' \in Seq(Entry) /\ Len(list') = Len(list)
  BY <1>2, <1>3, ListFacts, ExceptSeq
<1>5. \A j \in 1..Len(list) : list'[j].mac = list[j].mac
  BY <1>2, <1>3, ListFacts
<1> QED
  BY <1>4, <1>5 DEF Refresh, Renewed

LEMMA AddEnters ==
  ASSUME TypeOK, NEW t \in Tasks, Add(t)
  PROVE  \E e \in Entry : /\ Entered(e)
                          /\ pc' = [pc EXCEPT ![t] = "linked"]
                          /\ ptr' = [ptr EXCEPT ![t] = e.mac]
<1>1. PICK m \in DOMAIN todo[t] \ ListMacs :
        /\ list' = Cons([mac |-> m, info |-> todo[t][m], ttl |-> Full], list)
        /\ pc' = [pc EXCEPT ![t] = "linked"]
        /\ ptr' = [ptr EXCEPT ![t] = m]
  BY DEF Add, Goto
<1>2. [mac |-> m, info |-> todo[t][m], ttl |-> Full] \in Entry
  BY ListFacts, UpdateFacts, TtlFacts DEF Entry
<1>3. Entered([mac |-> m, info |-> todo[t][m], ttl |-> Full])
  BY <1>1 DEF Entered
<1> QED
  BY <1>1, <1>2, <1>3

\* A step of a sweep removes an entry or lets it stay where it is.
LEMMA SweepChanges ==
  ASSUME TypeOK, SweepListStep \/ SweepRootStep
  PROVE  /\ at' \in Nat \ {0}
         /\ \/ Renewed /\ UNCHANGED <<ptr, known, pc>>
            \/ Left /\ \E t \in Tasks : pc[t] = "sweeping" /\ Unlink(t)
         /\ \E t \in Tasks : pc[t] = "sweeping" /\ (UNCHANGED pc \/ Unlink(t))
<1>1. at \in 1..Len(list) /\ list[at] \in Entry
  BY ListFacts DEF SweepListStep, SweepRootStep, Sweeping
<1>2. PICK t \in Tasks, e \in Entry : /\ e.mac = list[at].mac
                                      /\ pc[t] = "sweeping"
                                      /\ Unlink(t) \/ Keep(e)
  <2>0. "mesh" \in Tasks /\ "timer" \in Tasks
    BY DEF Tasks
  <2>1. CASE SweepListStep
    BY <2>0, <2>1, <1>1 DEF SweepListStep, Sweeping, Running
  <2>2. CASE SweepRootStep
    <3>1. CASE list[at].ttl = 0
      BY <2>0, <3>1, <2>2, <1>1 DEF SweepRootStep, Sweeping, Running
    <3>2. CASE list[at].ttl # 0
      <4>1. /\ [list[at] EXCEPT !.ttl = @ - 1] \in Entry
            /\ [list[at] EXCEPT !.ttl = @ - 1].mac = list[at].mac
        BY <3>2, <1>1, TtlFacts DEF Entry
      <4> QED
        BY <2>0, <4>1, <3>2, <2>2 DEF SweepRootStep, Sweeping, Running
    <3> QED
      BY <3>1, <3>2
  <2> QED
    BY <2>1, <2>2
<1>3. CASE Keep(e)
  <2>1. list' \in Seq(Entry) /\ Len(list') = Len(list)
    BY <1>1, <1>3, ListFacts, ExceptSeq DEF Keep
  <2>2. \A j \in 1..Len(list) : list'[j].mac = list[j].mac
    BY <1>1, <1>2, <1>3, ListFacts DEF Keep
  <2> QED
    BY <2>1, <2>2, <1>2, <1>3, ListFacts DEF Keep, Renewed
<1>4. CASE Unlink(t)
  BY <1>4, <1>1, <1>2, ListFacts DEF Unlink, Left
<1> QED
  BY <1>2, <1>3, <1>4

LEMMA StepList ==
  ASSUME TypeOK, [Next]_vars
  PROVE  /\ at' \in Nat \ {0}
         /\ \/ UNCHANGED list
            \/ Renewed
            \/ \E e \in Entry : Entered(e)
            \/ Left
<1> DEFINE Goal == /\ at' \in Nat \ {0}
                   /\ \/ UNCHANGED list
                      \/ Renewed
                      \/ \E e \in Entry : Entered(e)
                      \/ Left
<1>1. CASE UNCHANGED vars
  BY <1>1, ListFacts DEF vars, shared
<1>2. CASE RecvReport \/ RecvList \/ ReportTimer \/ GotIp \/ Show
  BY <1>2, ListFacts
  DEF RecvReport, RecvList, ReportTimer, GotIp, Show, Begin, shared
<1>3. CASE Recheck \/ Relay \/ ChangeLevel
  BY <1>3, ListFacts DEF Recheck, Relay, ChangeLevel, shared
<1>4. CASE RootTimer \/ SweepMarked
  BY <1>4, ListFacts DEF RootTimer, SweepMarked, TakeMutex
<1>5. CASE Mark
  BY <1>5, ListFacts, MarkRenews DEF Mark
<1>6. CASE SweepListStep \/ SweepRootStep
  BY <1>6, SweepChanges
<1>7. ASSUME NEW t \in Tasks, TaskStep(t)
      PROVE  Goal
  <2>1. CASE Refresh(t)
    BY <2>1, ListFacts, RefreshRenews DEF Refresh
  <2>2. CASE Add(t)
    BY <2>2, ListFacts, AddEnters DEF Add
  <2>3. CASE SweepEnd(t)
    BY <2>3 DEF SweepEnd
  <2> QED
    BY <2>1, <2>2, <2>3, <1>7, ListFacts, QuietSteps DEF TaskStep
<1> QED
  BY <1>1, <1>2, <1>3, <1>4, <1>5, <1>6, <1>7 DEF Next

\* What these changes make of the list.
LEMMA StepShape ==
  ASSUME TypeOK, OneEntryPerMac, [Next]_vars
  PROVE  list' \in Seq(Entry) /\ at' \in Nat \ {0} /\ OneEntryPerMac'
<1>0. list \in Seq(Entry) /\ Len(list) \in Nat
  BY LenProperties DEF TypeOK, ListTypeOK
<1>1. Unique(list)
  BY DEF OneEntryPerMac, Unique
<1>2. list' \in Seq(Entry) /\ Unique(list')
  <2>1. CASE UNCHANGED list
    BY <2>1, <1>0, <1>1
  <2>2. CASE Renewed
    BY <2>2, <1>0, <1>1, SameNodes DEF Renewed
  <2>3. CASE \E e \in Entry : Entered(e)
    BY <2>3, <1>0, <1>1, OneMore DEF Entered, ListMacs, MacsOf
  <2>4. CASE Left
    BY <2>4, <1>0, <1>1, OneLess DEF Left
  <2> QED
    BY <2>1, <2>2, <2>3, <2>4, StepList
<1> QED
  BY <1>2, StepList DEF OneEntryPerMac, Unique

-----------------------------------------------------------------------------
(* The tasks.                                                              *)

ResultLabels == {"recheck", "update", "sweep", "walk", "idle"}

LEMMA ResultTyped ==
  ASSUME NEW t, NEW ret, NEW left
  PROVE  Result(t, ret, left) \in ResultLabels
BY DEF Result, ResultLabels

RestTypeOK ==
  /\ TaskTypeOK
  /\ level \in Levels
  /\ mutex \in {"free"} \cup Tasks
  /\ reported \subseteq Macs
  /\ known \subseteq Macs
  /\ fault \in {"none", "use_after_free"}

\* An event that is still to be posted has its entry in the list, unless the
\* entry was freed.
PtrInv ==
  \A t \in Tasks :
    /\ pc[t] \in {"linked", "post_JOIN", "post_CHANGE"} => ptr[t] # "null"
    /\ pc[t] \in {"linked", "post_JOIN", "post_CHANGE"} /\ ptr[t] # "dangling" =>
         ptr[t] \in ListMacs

LEMMA StepRest ==
  ASSUME TypeOK, PtrInv, [Next]_vars
  PROVE  RestTypeOK'
<1> USE DEF TypeOK, TaskTypeOK, RestTypeOK
<1>0. /\ Macs \subseteq Pointer /\ "null" \in Pointer /\ "dangling" \in Pointer
      /\ \A j \in DOMAIN list : list[j].mac \in Macs
      /\ \A t \in Tasks : todo[t] \in Update /\ ptr[t] \in Pointer /\ size[t] \in Nat
      /\ DOMAIN list = 1..Len(list) /\ num \in Nat
  BY ListFacts DEF Pointer
<1>1. CASE UNCHANGED vars
  BY <1>1 DEF vars, shared, own
<1>2. CASE RecvReport \/ ReportTimer \/ GotIp \/ Show
  <2>1. PICK t \in Tasks, l \in {"update", "recheck", "walk"}, new \in Update :
          Begin(t, l, new)
    BY <1>2, OneUpdate, MacsAssumption
    DEF RecvReport, ReportTimer, GotIp, Show, Tasks
  <2>2. UNCHANGED reported
    BY <1>2 DEF RecvReport, ReportTimer, GotIp, Show
  <2> QED
    BY <2>1, <2>2 DEF Begin, Goto, shared
<1>3. CASE RecvList
  <2>1. PICK new \in Update : Begin("mesh", "mark", new) /\ reported' = DOMAIN new
    BY <1>3 DEF RecvList
  <2>2. DOMAIN new \subseteq Macs
    BY DEF Update
  <2> QED
    BY <2>1, <2>2 DEF Begin, Goto, shared, Tasks
<1>4. CASE Recheck \/ Relay
  BY <1>4 DEF Recheck, Relay, Goto, shared, own, Tasks
<1>5. CASE ChangeLevel
  BY <1>5 DEF ChangeLevel, shared, own
<1>6. CASE Mark
  BY <1>6 DEF Mark, Goto, Tasks
<1>7. CASE RootTimer \/ SweepMarked
  BY <1>7 DEF RootTimer, SweepMarked, TakeMutex, Goto, Tasks
<1>8. CASE SweepListStep \/ SweepRootStep
  <2>1. UNCHANGED <<level, mutex, todo, size, reported, fault>>
    BY <1>8 DEF SweepListStep, SweepRootStep
  <2>2. /\ ptr' \in [Tasks -> Pointer] /\ known' \subseteq Macs
        /\ \/ UNCHANGED pc
           \/ \E t \in Tasks : pc' = [pc EXCEPT ![t] = "unlinked"]
    BY <1>8, <1>0 DEF SweepListStep, SweepRootStep, Unlink, Keep, Goto, Tasks
  <2> QED
    BY <2>1, <2>2
<1>9. ASSUME NEW t \in Tasks, TaskStep(t)
      PROVE  RestTypeOK'
  <2>1. CASE Refresh(t)
    <3>1. PICK i \in 1..Len(list) :
            /\ list[i].mac \in DOMAIN todo[t]
            /\ todo' = [todo EXCEPT ![t] = Restrict(todo[t], DOMAIN todo[t] \ {list[i].mac})]
            /\ \/ /\ Goto(t, Result(t, "dup", DOMAIN todo[t] \ {list[i].mac}))
                  /\ UNCHANGED ptr
               \/ Goto(t, "post_CHANGE") /\ ptr' = [ptr EXCEPT ![t] = list[i].mac]
      BY <2>1, <1>0 DEF Refresh
    <3>2. todo' \in [Tasks -> Update]
      BY <3>1, <1>0, UpdateFacts
    <3>3. ptr' \in [Tasks -> Pointer]
      BY <3>1, <1>0
    <3>4. pc'[t] \in ResultLabels \cup {"post_CHANGE"} /\ pc' = [pc EXCEPT ![t] = pc'[t]]
      BY <3>1, ResultTyped DEF Goto
    <3> QED
      BY <3>2, <3>3, <3>4, <2>1 DEF Refresh, ResultLabels
  <2>2. CASE Add(t)
    <3>1. PICK m \in DOMAIN todo[t] \ ListMacs :
            /\ todo' = [todo EXCEPT ![t] = Restrict(todo[t], DOMAIN todo[t] \ {m})]
            /\ ptr' = [ptr EXCEPT ![t] = m]
      BY <2>2 DEF Add
    <3>2. todo' \in [Tasks -> Update] /\ ptr' \in [Tasks -> Pointer]
      BY <3>1, <1>0, UpdateFacts
    <3> QED
      BY <3>2, <2>2 DEF Add, Goto
  <2>3. CASE AddFails(t)
    <3>1. todo' \in [Tasks -> Update]
      BY <2>3, OneUpdate DEF AddFails
    <3>2. pc'[t] \in ResultLabels /\ pc' = [pc EXCEPT ![t] = pc'[t]]
      BY <2>3, ResultTyped DEF AddFails, Goto
    <3> QED
      BY <3>1, <3>2, <2>3 DEF AddFails, ResultLabels, shared
  <2>4. CASE PostEvent(t)
    <3>1. ptr[t] \in Macs /\ ptr' \in [Tasks -> Pointer]
      BY <2>4, <1>0 DEF PostEvent, PtrInv, Pointer
    <3>2. pc'[t] \in ResultLabels /\ pc' = [pc EXCEPT ![t] = pc'[t]]
      BY <2>4, ResultTyped DEF PostEvent, Goto
    <3>3. known' \subseteq Macs
      BY <2>4, <3>1 DEF PostEvent
    <3> QED
      BY <3>1, <3>2, <3>3, <2>4 DEF PostEvent, ResultLabels
  <2>5. CASE SweepEnd(t)
    BY <2>5 DEF SweepEnd, Goto
  <2>6. CASE GetSize(t) \/ GetHead(t)
    <3>1. list # <<>> => Head(list) \in Entry
      BY ListFacts, HeadTailProperties
    <3> QED
      BY <3>1, <2>6, <1>0 DEF GetSize, GetHead, Goto, shared, Entry
  <2>7. CASE ReadNode(t)
    <3>1. PICK i \in 1..Len(list) :
            ptr' = [ptr EXCEPT ![t] = IF i = Len(list) THEN "null"
                                      ELSE list[i + 1].mac]
      BY <2>7, <1>0 DEF ReadNode
    <3>2. i # Len(list) => i + 1 \in 1..Len(list)
      <4>1. Len(list) \in Nat
        BY ListFacts
      <4> QED
        BY <4>1
    <3>3. ptr' \in [Tasks -> Pointer]
      BY <3>1, <3>2, <1>0
    <3>4. size' \in [Tasks -> Nat]
      BY <2>7, <1>0 DEF ReadNode
    <3>5. UNCHANGED <<level, mutex, known, pc, todo, reported, fault>>
      BY <2>7 DEF ReadNode, shared
    <3>6. TaskTypeOK'
      BY <3>3, <3>4, <3>5
    <3> QED
      BY <3>5, <3>6
  <2>8. CASE ReadEnd(t)
    BY <2>8, <1>0 DEF ReadEnd, Goto, shared
  <2>9. CASE UseAfterFree(t)
    BY <2>9 DEF UseAfterFree, shared, own
  <2>10. CASE CountUp(t) \/ CountDown(t)
    BY <2>10 DEF CountUp, CountDown, Goto
  <2> QED
    BY <1>9, <2>1, <2>2, <2>3, <2>4, <2>5, <2>6, <2>7, <2>8, <2>9, <2>10
    DEF TaskStep
<1> QED
  BY <1>1, <1>2, <1>3, <1>4, <1>5, <1>6, <1>7, <1>8, <1>9 DEF Next

-----------------------------------------------------------------------------
(* The mutex and the count.                                                *)

\* Who is between two steps of one critical section has the mutex.
Locked == {"linked", "sweeping", "unlinked"}
MutexInv == \A t \in Tasks : pc[t] \in Locked <=> mutex = t

\* What nodes_num must be when the holder of the mutex is at l.
Due(l, n) == CASE l = "linked" -> n - 1 [] l = "unlinked" -> n + 1 [] OTHER -> n
CountInv ==
  /\ mutex = "free" => num = Len(list)
  /\ \A t \in Tasks : mutex = t => num = Due(pc[t], Len(list))

LEMMA CountFacts ==
  ASSUME TypeOK, MutexInv, CountInv
  PROVE  CountMatchesList
<1> USE DEF TypeOK, MutexInv, CountInv, Locked, Due
<1>0. "free" \notin Tasks
  BY DEF Tasks
<1>1. ASSUME NEW t \in Tasks, pc[t] = "linked"
      PROVE  CountMatchesList
  BY <1>0, <1>1 DEF CountMatchesList, At
<1>2. ASSUME NEW t \in Tasks, pc[t] = "unlinked"
      PROVE  CountMatchesList
  <2>1. mutex = t /\ num = Len(list) + 1
    BY <1>2
  <2>2. ~At("linked")
    BY <1>2, <2>1 DEF At
  <2> QED
    BY <1>0, <1>2, <2>1, <2>2 DEF CountMatchesList, At
<1>3. ASSUME ~At("linked"), ~At("unlinked")
      PROVE  CountMatchesList
  <2>1. num = Len(list)
    BY <1>3 DEF At
  <2> QED
    BY <1>3, <2>1 DEF CountMatchesList
<1> QED
  BY <1>1, <1>2, <1>3 DEF At

\* A step by which no task enters or leaves a critical section.
LEMMA OutsideStep ==
  ASSUME TypeOK, MutexInv, CountInv, NEW t \in Tasks, NEW l,
         pc[t] \notin Locked, l \notin Locked,
         pc' = [pc EXCEPT ![t] = l],
         Len(list') = Len(list), UNCHANGED <<num, mutex>>
  PROVE  MutexInv' /\ CountInv'
<1> USE DEF TypeOK, TaskTypeOK, MutexInv
<1>1. pc'[t] = l /\ \A u \in Tasks \ {t} : pc'[u] = pc[u]
  OBVIOUS
<1>2. MutexInv'
  BY <1>1
<1>3. \A u \in Tasks : mutex = u => pc'[u] = pc[u]
  BY <1>1
<1> QED
  BY <1>2, <1>3 DEF CountInv

\* A step of the task that has, takes or gives back the mutex.
LEMMA HolderStep ==
  ASSUME TypeOK, MutexInv, NEW t \in Tasks, NEW l,
         mutex = "free" \/ mutex = t,
         mutex' = IF l \in Locked THEN t ELSE "free",
         pc' = [pc EXCEPT ![t] = l],
         num' = Due(l, Len(list'))
  PROVE  MutexInv' /\ CountInv'
<1> USE DEF TypeOK, TaskTypeOK
<1>0. "free" \notin Tasks
  BY DEF Tasks
<1>1. pc'[t] = l /\ \A u \in Tasks \ {t} : pc'[u] = pc[u]
  OBVIOUS
<1>2. \A u \in Tasks \ {t} : pc[u] \notin Locked /\ mutex' # u
  BY <1>0 DEF MutexInv
<1>3. MutexInv'
  <2>1. ASSUME l \in Locked
        PROVE  pc'[t] \in Locked /\ mutex' = t
    BY <1>1, <2>1
  <2>2. ASSUME l \notin Locked
        PROVE  pc'[t] \notin Locked /\ mutex' # t
    BY <1>0, <1>1, <2>2
  <2>3. \A u \in Tasks \ {t} : pc'[u] \notin Locked /\ mutex' # u
    BY <1>1, <1>2
  <2> QED
    BY <2>1, <2>2, <2>3 DEF MutexInv
<1>4. l \notin Locked => num' = Len(list')
  BY DEF Due, Locked
<1> QED
  BY <1>0, <1>1, <1>2, <1>3, <1>4 DEF CountInv

LEMMA StepCount ==
  ASSUME TypeOK, OneEntryPerMac, MutexInv, CountInv, [Next]_vars
  PROVE  MutexInv' /\ CountInv' /\ num' \in Nat
<1> USE DEF TypeOK, TaskTypeOK, Locked
<1>0. /\ num \in Nat /\ Len(list) \in Nat /\ Len(list') \in Nat
      /\ "mesh" \in Tasks /\ "timer" \in Tasks
  BY ListFacts, StepShape, LenProperties DEF Tasks
<1> SUFFICES MutexInv' /\ CountInv'
  <2>1. ASSUME MutexInv', CountInv'
        PROVE  num' \in Nat
    <3>1. CASE UNCHANGED num
      BY <3>1, <1>0
    <3>2. CASE \E t \in Tasks : CountUp(t)
      BY <3>2, <1>0 DEF CountUp
    <3>3. CASE \E t \in Tasks : CountDown(t)
      <4>1. PICK t \in Tasks : CountDown(t)
        BY <3>3
      <4>2. num = Len(list) + 1 /\ num' = num - 1
        BY <4>1, <1>0 DEF CountDown, Running, MutexInv, CountInv, Due
      <4> QED
        BY <4>2, <1>0
    <3>4. UNCHANGED num \/ (\E t \in Tasks : CountUp(t) \/ CountDown(t))
      BY DEF Next, vars, shared, RecvReport, RecvList, ReportTimer, RootTimer,
             GotIp, Show, Begin, Recheck, Mark, SweepMarked, TakeMutex,
             SweepListStep, SweepRootStep, Relay, ChangeLevel, TaskStep, Refresh,
             Add, AddFails, PostEvent, SweepEnd, GetSize, GetHead, ReadNode,
             ReadEnd, UseAfterFree
    <3> QED
      BY <3>1, <3>2, <3>3, <3>4
  <2> QED
    BY <2>1
<1>1. CASE UNCHANGED vars
  BY <1>1 DEF vars, shared, own, MutexInv, CountInv
<1>2. CASE RecvReport \/ RecvList \/ ReportTimer \/ GotIp \/ Show
  <2>1. PICK t \in Tasks, l \in {"update", "mark", "recheck", "walk"} :
          /\ pc' = [pc EXCEPT ![t] = l] /\ pc[t] = "idle"
          /\ UNCHANGED <<list, num, mutex>>
    BY <1>2 DEF RecvReport, RecvList, ReportTimer, GotIp, Show, Begin, Running,
                Goto, shared, Tasks
  <2> QED
    BY <2>1, OutsideStep
<1>3. CASE Recheck \/ Relay
  <2>1. PICK t \in Tasks, l \in {"walk", "idle"} :
          /\ pc' = [pc EXCEPT ![t] = l] /\ pc[t] \in {"recheck", "relay"}
          /\ UNCHANGED <<list, num, mutex>>
    BY <1>3 DEF Recheck, Relay, Running, Goto, shared, Tasks
  <2> QED
    BY <2>1, OutsideStep
<1>4. CASE ChangeLevel
  BY <1>4 DEF ChangeLevel, shared, own, MutexInv, CountInv
<1>5. CASE RootTimer \/ SweepMarked
  <2>1. PICK t \in Tasks : TakeMutex(t)
    BY <1>5, <1>0 DEF RootTimer, SweepMarked
  <2>2. num = Len(list) /\ mutex = "free" /\ mutex' = t
    BY <2>1 DEF TakeMutex, CountInv
  <2>3. num' = Due("sweeping", Len(list')) /\ pc' = [pc EXCEPT ![t] = "sweeping"]
    BY <2>1, <2>2 DEF TakeMutex, Due, Goto
  <2> QED
    BY <2>2, <2>3, HolderStep
<1>6. CASE Mark
  <2>1. Len(list') = Len(list)
    BY <1>6, MarkRenews DEF Renewed
  <2> QED
    BY <1>6, <1>0, <2>1, OutsideStep DEF Mark, Running, Goto
<1>7. CASE SweepListStep \/ SweepRootStep
  <2>1. PICK t \in Tasks :
          /\ pc[t] = "sweeping" /\ UNCHANGED <<num, mutex>>
          /\ \/ UNCHANGED pc /\ Renewed
             \/ pc' = [pc EXCEPT ![t] = "unlinked"] /\ Left
    <3>1. UNCHANGED <<num, mutex>>
      BY <1>7 DEF SweepListStep, SweepRootStep
    <3>2. CASE Renewed /\ UNCHANGED <<ptr, known, pc>>
      BY <1>7, <3>1, <3>2, SweepChanges
    <3>3. ASSUME Left, NEW t \in Tasks, pc[t] = "sweeping", Unlink(t)
          PROVE  pc' = [pc EXCEPT ![t] = "unlinked"] /\ pc' # pc
      BY <3>3 DEF Unlink, Goto
    <3> QED
      BY <1>7, <3>1, <3>2, <3>3, SweepChanges
  <2>2. mutex = t /\ num = Len(list)
    BY <2>1 DEF MutexInv, CountInv, Due
  <2>3. CASE UNCHANGED pc /\ Renewed
    <3>1. Len(list') = Len(list)
      BY <2>1, <2>3 DEF Renewed
    <3> QED
      BY <2>1, <2>3, <3>1 DEF MutexInv, CountInv
  <2>4. CASE pc' = [pc EXCEPT ![t] = "unlinked"] /\ Left
    <3>1. Len(list') = Len(list) - 1
      BY <2>4, ListFacts, RemoveAtSeq DEF Left
    <3>2. num' = Due("unlinked", Len(list'))
      BY <2>1, <2>2, <3>1, <1>0 DEF Due
    <3> QED
      BY <2>1, <2>2, <2>4, <3>2, HolderStep
  <2> QED
    BY <2>1, <2>3, <2>4
<1>8. ASSUME NEW t \in Tasks, TaskStep(t)
      PROVE  MutexInv' /\ CountInv'
  <2>1. CASE Refresh(t)
    <3>1. Len(list') = Len(list)
      BY <2>1, RefreshRenews DEF Renewed
    <3>2. PICK l \in ResultLabels \cup {"post_CHANGE"} : pc' = [pc EXCEPT ![t] = l]
      BY <2>1, ResultTyped DEF Refresh, Goto
    <3>3. pc[t] = "update" /\ UNCHANGED <<num, mutex>>
      BY <2>1 DEF Refresh, Running
    <3> QED
      BY <3>1, <3>2, <3>3, OutsideStep DEF ResultLabels
  <2>2. CASE Add(t)
    <3>1. PICK e \in Entry : Entered(e) /\ pc' = [pc EXCEPT ![t] = "linked"]
      BY <2>2, AddEnters
    <3>2. Len(list') = Len(list) + 1
      <4>1. list \in Seq(Entry) /\ list' = Cons(e, list)
        BY <3>1, ListFacts DEF Entered
      <4> QED
        BY <4>1, OneMore
    <3>3. mutex = "free" /\ mutex' = t /\ num' = Len(list)
      BY <2>2 DEF Add, CountInv
    <3>4. num' = Due("linked", Len(list'))
      BY <3>2, <3>3, <1>0 DEF Due
    <3> QED
      BY <3>1, <3>3, <3>4, HolderStep
  <2>3. CASE CountUp(t)
    <3>1. pc[t] = "linked" /\ mutex = t /\ num = Len(list) - 1
      BY <2>3 DEF CountUp, Running, MutexInv, CountInv, Due
    <3>2. num' = Due("post_JOIN", Len(list')) /\ mutex' = "free"
      BY <2>3, <3>1, <1>0 DEF CountUp, Due
    <3>3. "free" # t
      BY DEF Tasks
    <3> QED
      BY <2>3, <3>1, <3>2, <3>3, HolderStep DEF CountUp, Goto
  <2>4. CASE CountDown(t)
    <3>1. pc[t] = "unlinked" /\ mutex = t /\ num = Len(list) + 1
      BY <2>4 DEF CountDown, Running, MutexInv, CountInv, Due
    <3>2. num' = Due("sweeping", Len(list')) /\ mutex' = t
      BY <2>4, <3>1, <1>0 DEF CountDown, Due
    <3> QED
      BY <2>4, <3>1, <3>2, HolderStep DEF CountDown, Goto
  <2>5. CASE SweepEnd(t)
    <3>1. pc[t] = "sweeping" /\ mutex = t /\ num = Len(list)
      BY <2>5 DEF SweepEnd, Running, MutexInv, CountInv, Due
    <3>2. PICK l \in {"relay", "idle"} : pc' = [pc EXCEPT ![t] = l]
      BY <2>5 DEF SweepEnd, Goto
    <3>3. num' = Due(l, Len(list')) /\ mutex' = "free"
      BY <2>5, <3>1 DEF SweepEnd, Due
    <3>4. "free" # t
      BY DEF Tasks
    <3> QED
      BY <3>1, <3>2, <3>3, <3>4, HolderStep
  <2>6. CASE AddFails(t) \/ PostEvent(t) \/ GetSize(t) \/ GetHead(t) \/ ReadEnd(t)
    <3>1. PICK l \in ResultLabels \cup {"head", "read"} : pc' = [pc EXCEPT ![t] = l]
      BY <2>6, ResultTyped
      DEF AddFails, PostEvent, GetSize, GetHead, ReadEnd, Goto, ResultLabels
    <3>2. /\ pc[t] \in {"update", "post_JOIN", "post_CHANGE", "walk", "head", "read"}
          /\ UNCHANGED <<list, num, mutex>>
      BY <2>6 DEF AddFails, PostEvent, GetSize, GetHead, ReadEnd, Running, shared
    <3> QED
      BY <3>1, <3>2, OutsideStep DEF ResultLabels
  <2>7. CASE ReadNode(t) \/ UseAfterFree(t)
    BY <2>7 DEF ReadNode, UseAfterFree, shared, own, MutexInv, CountInv
  <2> QED
    BY <1>8, <2>1, <2>2, <2>3, <2>4, <2>5, <2>6, <2>7 DEF TaskStep
<1> QED
  BY <1>1, <1>2, <1>3, <1>4, <1>5, <1>6, <1>7, <1>8 DEF Next

-----------------------------------------------------------------------------
(* The entries that events are posted from.                                *)

\* The nodes of the list before and after a step of a sweep.
LEMMA SweepMacs ==
  ASSUME TypeOK, OneEntryPerMac, SweepListStep \/ SweepRootStep
  PROVE  \/ ListMacs' = ListMacs /\ UNCHANGED <<ptr, known, pc>>
         \/ \E m \in Macs, t \in Tasks :
              /\ pc[t] = "sweeping" /\ pc' = [pc EXCEPT ![t] = "unlinked"]
              /\ ListMacs' = ListMacs \ {m}
              /\ ptr' = [u \in Tasks |-> IF ptr[u] = m THEN "dangling" ELSE ptr[u]]
              /\ known' = known \ {m} \/ (PostMayDrop /\ UNCHANGED known)
<1>1. Unique(list) /\ ListMacs = MacsOf(list) /\ ListMacs' = MacsOf(list')
  BY DEF OneEntryPerMac, Unique, ListMacs, MacsOf
<1>2. CASE Renewed /\ UNCHANGED <<ptr, known, pc>>
  BY <1>1, <1>2, ListFacts, SameNodes DEF Renewed
<1>3. CASE Left /\ \E t \in Tasks : pc[t] = "sweeping" /\ Unlink(t)
  <2>1. at \in 1..Len(list) /\ list' = RemoveAt(list, at) /\ list[at].mac \in Macs
    BY <1>3, ListFacts DEF Left
  <2>2. MacsOf(list') = MacsOf(list) \ {list[at].mac}
    BY <1>1, <2>1, ListFacts, OneLess
  <2>3. PICK t \in Tasks : pc[t] = "sweeping" /\ Unlink(t)
    BY <1>3
  <2> QED
    BY <1>1, <2>1, <2>2, <2>3 DEF Unlink, Goto
<1> QED
  BY <1>2, <1>3, SweepChanges

LEMMA RefreshMacs ==
  ASSUME TypeOK, OneEntryPerMac, Mark \/ (\E t \in Tasks : Refresh(t))
  PROVE  ListMacs' = ListMacs
<1>1. Renewed
  BY MarkRenews, RefreshRenews
<1> QED
  BY <1>1, ListFacts, SameNodes DEF Renewed, ListMacs, MacsOf

LEMMA AddMacs ==
  ASSUME TypeOK, NEW e \in Entry, Entered(e)
  PROVE  ListMacs' = ListMacs \cup {e.mac}
<1>1. list \in Seq(Entry) /\ list' = Cons(e, list)
  BY ListFacts DEF Entered
<1>2. MacsOf(list') = MacsOf(list) \cup {e.mac}
  BY <1>1, OneMore
<1> QED
  BY <1>2 DEF ListMacs, MacsOf

\* The steps that leave the nodes of the list and what is to be posted alone.
LEMMA StartSteps ==
  ASSUME TypeOK, NEW t \in Tasks, NEW l,
         l \notin {"linked", "post_JOIN", "post_CHANGE"},
         UNCHANGED ListMacs,
         pc' = [pc EXCEPT ![t] = l],
         \A u \in Tasks \ {t} : ptr'[u] = ptr[u]
  PROVE  /\ PtrInv => PtrInv'
         /\ pc[t] \notin {"linked", "post_JOIN"} => UNCHANGED Joining
<1> USE DEF TypeOK, TaskTypeOK
<1>1. pc'[t] = l /\ \A u \in Tasks \ {t} : pc'[u] = pc[u]
  OBVIOUS
<1>2. PtrInv => PtrInv'
  BY <1>1 DEF PtrInv
<1>3. ASSUME pc[t] \notin {"linked", "post_JOIN"}
      PROVE  Joining' = Joining
  <2>1. {u \in Tasks : pc'[u] \in {"linked", "post_JOIN"}} =
        {u \in Tasks : pc[u] \in {"linked", "post_JOIN"}}
    BY <1>1, <1>3
  <2>2. t \notin {u \in Tasks : pc[u] \in {"linked", "post_JOIN"}}
    BY <1>3
  <2> QED
    BY <2>1, <2>2 DEF Joining
<1> QED
  BY <1>2, <1>3

LEMMA StepPtr ==
  ASSUME TypeOK, OneEntryPerMac, PtrInv, [Next]_vars
  PROVE  PtrInv'
<1> USE DEF TypeOK, TaskTypeOK
<1>0. "null" \notin Macs /\ "dangling" \notin Macs
  BY MacsAssumption
<1>1. CASE UNCHANGED vars
  BY <1>1 DEF vars, shared, own, PtrInv, ListMacs
<1>2. CASE RecvReport \/ RecvList \/ ReportTimer \/ GotIp \/ Show
  <2>1. PICK t \in Tasks, l \in {"update", "mark", "recheck", "walk"} :
          /\ pc' = [pc EXCEPT ![t] = l]
          /\ UNCHANGED <<list, ptr>>
    BY <1>2 DEF RecvReport, RecvList, ReportTimer, GotIp, Show, Begin, Goto,
                shared, Tasks
  <2> QED
    BY <2>1, StartSteps DEF ListMacs
<1>3. CASE Recheck \/ Relay
  <2>1. PICK t \in Tasks, l \in {"walk", "idle"} :
          /\ pc' = [pc EXCEPT ![t] = l]
          /\ UNCHANGED <<list, ptr>>
    BY <1>3 DEF Recheck, Relay, Goto, shared, Tasks
  <2> QED
    BY <2>1, StartSteps DEF ListMacs
<1>4. CASE ChangeLevel
  BY <1>4 DEF ChangeLevel, shared, own, PtrInv, ListMacs
<1>5. CASE RootTimer \/ SweepMarked
  <2>1. PICK t \in Tasks : /\ pc' = [pc EXCEPT ![t] = "sweeping"]
                           /\ UNCHANGED <<list, ptr>>
    BY <1>5 DEF RootTimer, SweepMarked, TakeMutex, Goto, Tasks
  <2> QED
    BY <2>1, StartSteps DEF ListMacs
<1>6. CASE Mark
  <2>1. "mesh" \in Tasks /\ pc' = [pc EXCEPT !["mesh"] = "update"] /\ UNCHANGED ptr
    BY <1>6 DEF Mark, Goto, Tasks
  <2> QED
    BY <1>6, <2>1, RefreshMacs, StartSteps
<1>7. CASE SweepListStep \/ SweepRootStep
  <2>1. CASE ListMacs' = ListMacs /\ UNCHANGED <<ptr, known, pc>>
    BY <2>1 DEF PtrInv
  <2>2. ASSUME NEW m \in Macs, NEW t \in Tasks, ListMacs' = ListMacs \ {m},
               pc' = [pc EXCEPT ![t] = "unlinked"],
               ptr' = [u \in Tasks |-> IF ptr[u] = m THEN "dangling" ELSE ptr[u]]
        PROVE  PtrInv'
    BY <2>2 DEF PtrInv
  <2> QED
    BY <1>7, <2>1, <2>2, SweepMacs
<1>8. ASSUME NEW t \in Tasks, TaskStep(t)
      PROVE  PtrInv'
  <2>1. CASE Refresh(t)
    <3>1. ListMacs' = ListMacs
      BY <2>1, RefreshMacs
    <3>2. \/ \E l \in ResultLabels : pc' = [pc EXCEPT ![t] = l] /\ UNCHANGED ptr
          \/ \E m \in ListMacs : /\ pc' = [pc EXCEPT ![t] = "post_CHANGE"]
                                 /\ ptr' = [ptr EXCEPT ![t] = m]
      BY <2>1, ResultTyped DEF Refresh, Goto, ListMacs
    <3>3. CASE \E l \in ResultLabels : pc' = [pc EXCEPT ![t] = l] /\ UNCHANGED ptr
      BY <3>1, <3>3, StartSteps DEF ResultLabels
    <3>4. CASE \E m \in ListMacs : /\ pc' = [pc EXCEPT ![t] = "post_CHANGE"]
                                   /\ ptr' = [ptr EXCEPT ![t] = m]
      <4>1. ListMacs \subseteq Macs
        BY ListFacts DEF ListMacs
      <4> QED
        BY <3>1, <3>4, <4>1, <1>0 DEF PtrInv
    <3> QED
      BY <3>2, <3>3, <3>4
  <2>2. CASE Add(t)
    <3>1. PICK e \in Entry : /\ Entered(e)
                             /\ pc' = [pc EXCEPT ![t] = "linked"]
                             /\ ptr' = [ptr EXCEPT ![t] = e.mac]
      BY <2>2, AddEnters
    <3>2. ListMacs' = ListMacs \cup {e.mac} /\ e.mac \in Macs
      BY <3>1, AddMacs DEF Entry
    <3> QED
      BY <3>1, <3>2, <1>0 DEF PtrInv
  <2>3. CASE AddFails(t) \/ PostEvent(t) \/ CountDown(t) \/ SweepEnd(t)
             \/ GetSize(t) \/ GetHead(t) \/ ReadEnd(t)
    <3>1. PICK l \in ResultLabels \cup {"sweeping", "relay", "head", "read"} :
            pc' = [pc EXCEPT ![t] = l]
      BY <2>3, ResultTyped
      DEF AddFails, PostEvent, CountDown, SweepEnd, GetSize, GetHead, ReadEnd,
          Goto, ResultLabels
    <3>2. UNCHANGED list /\ \A u \in Tasks \ {t} : ptr'[u] = ptr[u]
      BY <2>3 DEF AddFails, PostEvent, CountDown, SweepEnd, GetSize, GetHead,
                  ReadEnd, shared
    <3> QED
      BY <3>1, <3>2, StartSteps DEF ListMacs, ResultLabels
  <2>4. CASE ReadNode(t)
    <3>1. UNCHANGED <<list, pc>> /\ pc[t] = "read"
      BY <2>4 DEF ReadNode, Running, shared
    <3>2. \A u \in Tasks \ {t} : ptr'[u] = ptr[u]
      BY <2>4 DEF ReadNode
    <3> QED
      BY <3>1, <3>2 DEF PtrInv, ListMacs
  <2>5. CASE UseAfterFree(t)
    BY <2>5 DEF UseAfterFree, shared, own, PtrInv, ListMacs
  <2>6. CASE CountUp(t)
    <3>1. /\ pc[t] = "linked" /\ pc' = [pc EXCEPT ![t] = "post_JOIN"]
          /\ UNCHANGED <<list, ptr>>
      BY <2>6 DEF CountUp, Running, Goto
    <3> QED
      BY <3>1 DEF PtrInv, ListMacs
  <2> QED
    BY <1>8, <2>1, <2>2, <2>3, <2>4, <2>5, <2>6 DEF TaskStep
<1> QED
  BY <1>1, <1>2, <1>3, <1>4, <1>5, <1>6, <1>7, <1>8 DEF Next

-----------------------------------------------------------------------------
(* The theorems.                                                           *)

\* Counting the list right needs the mutex to be held from linking to counting
\* and the entry that is removed to be there; that nothing is entered twice needs
\* the MAC to be compared with the whole list; and the events need the entries
\* they are posted from.
ListInv == TypeOK /\ MutexInv /\ CountInv /\ OneEntryPerMac /\ PtrInv

LEMMA ListInvHolds == Spec => []ListInv
<1>1. Init => ListInv
  <2> SUFFICES ASSUME Init PROVE ListInv
    OBVIOUS
  <2>1. \A i \in Infos : [m \in {Self} |-> i] \in Update
    BY OneUpdate, MacsAssumption
  <2>2. todo \in [Tasks -> Update]
    BY <2>1, OneUpdate DEF Init
  <2>3. list = <<>> /\ num = 0 /\ at = 1 /\ list \in Seq(Entry) /\ Len(list) = 0
    BY EmptySeq DEF Init
  <2>4. MutexInv /\ CountInv /\ OneEntryPerMac /\ ListTypeOK
    BY <2>3 DEF Init, MutexInv, CountInv, Locked, Tasks, OneEntryPerMac, ListTypeOK
  <2>5. TaskTypeOK
    BY <2>2 DEF Init, TaskTypeOK, Pointer
  <2>6. PtrInv
    BY DEF Init, PtrInv
  <2> QED
    BY <2>4, <2>5, <2>6 DEF ListInv, TypeOK, Init
<1>2. ListInv /\ [Next]_vars => ListInv'
  <2> SUFFICES ASSUME ListInv, [Next]_vars PROVE ListInv'
    OBVIOUS
  <2>1. ListTypeOK' /\ MutexInv' /\ CountInv' /\ OneEntryPerMac'
    BY StepShape, StepCount DEF ListInv, ListTypeOK
  <2>2. RestTypeOK'
    BY StepRest DEF ListInv
  <2>3. PtrInv'
    BY StepPtr DEF ListInv
  <2> QED
    BY <2>1, <2>2, <2>3 DEF ListInv, TypeOK, RestTypeOK
<1> QED
  BY <1>1, <1>2, PTL DEF Spec

\* The variables of the node list have their types.
THEOREM ListTypeCorrect == Spec => []TypeOK
<1>1. ListInv => TypeOK
  BY DEF ListInv
<1> QED
  BY <1>1, ListInvHolds, PTL

\* nodes_num is the length of the list whenever the mutex is free, and never
\* off by more than one for a reader that does not take it.
THEOREM CountIsRight == Spec => []CountMatchesList
<1>1. ListInv => CountMatchesList
  BY CountFacts DEF ListInv
<1> QED
  BY <1>1, ListInvHolds, PTL

\* A node has one entry, however many tasks report it.
THEOREM EntriesAreUnique == Spec => []OneEntryPerMac
<1>1. ListInv => OneEntryPerMac
  BY DEF ListInv
<1> QED
  BY <1>1, ListInvHolds, PTL

\* When no post is dropped, the events alone tell the application which nodes
\* are in the list: the posts made after the mutex is given back are not
\* overtaken by those of the sweeps unless freed memory is read.
LEMMA StepEvents ==
  ASSUME ListInv, EventsTellList, [Next]_vars, ~PostMayDrop
  PROVE  EventsTellList'
<1> USE DEF ListInv, TypeOK, TaskTypeOK
<1> SUFFICES ASSUME fault' = "none"
             PROVE  /\ known' \subseteq ListMacs'
                    /\ ListMacs' \subseteq known' \cup Joining'
  BY DEF EventsTellList
<1> DEFINE Goal == /\ known' \subseteq ListMacs'
                   /\ ListMacs' \subseteq known' \cup Joining'
<1>0. "null" \notin Macs /\ "dangling" \notin Macs /\ ListMacs \subseteq Macs
  BY MacsAssumption, ListFacts DEF ListMacs
<1>1. CASE UNCHANGED vars
  BY <1>1 DEF vars, shared, own, EventsTellList, ListMacs, Joining
<1>2. CASE RecvReport \/ RecvList \/ ReportTimer \/ GotIp \/ Show
  <2>1. PICK t \in Tasks, l \in {"update", "mark", "recheck", "walk"} :
          /\ pc' = [pc EXCEPT ![t] = l]
          /\ UNCHANGED <<list, ptr, known, fault>> /\ pc[t] = "idle"
    BY <1>2 DEF RecvReport, RecvList, ReportTimer, GotIp, Show, Begin, Running,
                Goto, shared, Tasks
  <2>2. UNCHANGED <<ListMacs, Joining>>
    BY <2>1, StartSteps DEF ListMacs
  <2> QED
    BY <2>1, <2>2 DEF EventsTellList
<1>3. CASE Recheck \/ Relay
  <2>1. PICK t \in Tasks, l \in {"walk", "idle"} :
          /\ pc' = [pc EXCEPT ![t] = l]
          /\ UNCHANGED <<list, ptr, known, fault>>
          /\ pc[t] \notin {"linked", "post_JOIN"}
    BY <1>3 DEF Recheck, Relay, Running, Goto, shared, Tasks
  <2>2. UNCHANGED <<ListMacs, Joining>>
    BY <2>1, StartSteps DEF ListMacs
  <2> QED
    BY <2>1, <2>2 DEF EventsTellList
<1>4. CASE ChangeLevel
  BY <1>4 DEF ChangeLevel, shared, own, EventsTellList, ListMacs, Joining
<1>5. CASE RootTimer \/ SweepMarked
  <2>1. PICK t \in Tasks : /\ pc' = [pc EXCEPT ![t] = "sweeping"]
                           /\ UNCHANGED <<list, ptr, known, fault>>
                           /\ pc[t] \notin {"linked", "post_JOIN"}
    BY <1>5 DEF RootTimer, SweepMarked, TakeMutex, Running, Goto, Tasks
  <2>2. UNCHANGED <<ListMacs, Joining>>
    BY <2>1, StartSteps DEF ListMacs
  <2> QED
    BY <2>1, <2>2 DEF EventsTellList
<1>6. CASE Mark
  <2>1. /\ "mesh" \in Tasks /\ pc["mesh"] \notin {"linked", "post_JOIN"}
        /\ pc' = [pc EXCEPT !["mesh"] = "update"]
        /\ UNCHANGED <<ptr, known, fault>>
    BY <1>6 DEF Mark, Running, Goto, Tasks
  <2>2. UNCHANGED <<ListMacs, Joining>>
    BY <1>6, <2>1, RefreshMacs, StartSteps
  <2> QED
    BY <2>1, <2>2 DEF EventsTellList
<1>7. CASE SweepListStep \/ SweepRootStep
  <2>1. UNCHANGED fault
    BY <1>7 DEF SweepListStep, SweepRootStep
  <2>2. CASE ListMacs' = ListMacs /\ UNCHANGED <<ptr, known, pc>>
    BY <2>1, <2>2 DEF EventsTellList, Joining
  <2>3. ASSUME NEW m \in Macs, NEW t \in Tasks, ListMacs' = ListMacs \ {m},
               pc[t] = "sweeping", pc' = [pc EXCEPT ![t] = "unlinked"],
               ptr' = [u \in Tasks |-> IF ptr[u] = m THEN "dangling" ELSE ptr[u]],
               known' = known \ {m}
        PROVE  Goal
    <3>1. \A u \in Tasks : pc[u] \in {"linked", "post_JOIN"} => pc'[u] = pc[u]
      BY <2>3
    <3>2. Joining \ {m} \subseteq Joining'
      BY <2>3, <3>1 DEF Joining
    <3> QED
      BY <2>1, <2>3, <3>2 DEF EventsTellList
  <2> QED
    BY <1>7, <2>2, <2>3, SweepMacs
<1>8. ASSUME NEW t \in Tasks, TaskStep(t)
      PROVE  Goal
  <2>1. CASE Refresh(t)
    <3>1. ListMacs' = ListMacs
      BY <2>1, RefreshMacs
    <3>2. PICK l \in ResultLabels \cup {"post_CHANGE"} : pc' = [pc EXCEPT ![t] = l]
      BY <2>1, ResultTyped DEF Refresh, Goto
    <3>3. /\ pc[t] = "update" /\ UNCHANGED <<known, fault>>
          /\ \A u \in Tasks \ {t} : ptr'[u] = ptr[u]
      BY <2>1 DEF Refresh, Running
    <3>4. Joining \subseteq Joining'
      BY <3>2, <3>3 DEF Joining
    <3> QED
      BY <3>1, <3>3, <3>4 DEF EventsTellList
  <2>2. CASE Add(t)
    <3>1. PICK e \in Entry : /\ Entered(e)
                             /\ pc' = [pc EXCEPT ![t] = "linked"]
                             /\ ptr' = [ptr EXCEPT ![t] = e.mac]
      BY <2>2, AddEnters
    <3>2. ListMacs' = ListMacs \cup {e.mac}
      BY <3>1, AddMacs
    <3>3. pc[t] = "update" /\ UNCHANGED <<known, fault>>
      BY <2>2 DEF Add, Running
    <3>4. Joining \cup {e.mac} \subseteq Joining'
      <4>1. e.mac \in Joining'
        BY <3>1 DEF Joining
      <4>2. \A u \in Tasks : pc[u] \in {"linked", "post_JOIN"} =>
                              pc'[u] = pc[u] /\ ptr'[u] = ptr[u]
        BY <3>1, <3>3
      <4>3. Joining \subseteq Joining'
        BY <4>2 DEF Joining
      <4> QED
        BY <4>1, <4>3
    <3> QED
      BY <3>2, <3>3, <3>4 DEF EventsTellList
  <2>3. CASE AddFails(t) \/ CountDown(t) \/ SweepEnd(t) \/ GetSize(t)
             \/ GetHead(t) \/ ReadEnd(t)
    <3>1. PICK l \in ResultLabels \cup {"sweeping", "relay", "head", "read"} :
            pc' = [pc EXCEPT ![t] = l]
      BY <2>3, ResultTyped
      DEF AddFails, CountDown, SweepEnd, GetSize, GetHead, ReadEnd, Goto,
          ResultLabels
    <3>2. /\ UNCHANGED <<list, known, fault>>
          /\ pc[t] \notin {"linked", "post_JOIN"}
          /\ \A u \in Tasks \ {t} : ptr'[u] = ptr[u]
      BY <2>3 DEF AddFails, CountDown, SweepEnd, GetSize, GetHead, ReadEnd, Running, shared
    <3>3. UNCHANGED <<ListMacs, Joining>>
      BY <3>1, <3>2, StartSteps DEF ListMacs, ResultLabels
    <3> QED
      BY <3>2, <3>3 DEF EventsTellList
  <2>4. CASE PostEvent(t)
    <3>1. /\ UNCHANGED <<list, fault>> /\ ptr[t] \in ListMacs
          /\ pc[t] \in {"post_JOIN", "post_CHANGE"}
      BY <2>4 DEF PostEvent, PtrInv
    <3>2. PICK l \in ResultLabels : pc' = [pc EXCEPT ![t] = l]
      BY <2>4, ResultTyped DEF PostEvent, Goto
    <3>3. \A u \in Tasks \ {t} : pc'[u] = pc[u] /\ ptr'[u] = ptr[u]
      BY <2>4, <3>2 DEF PostEvent
    <3>4. CASE pc[t] = "post_JOIN"
      <4>1. known' = known \cup {ptr[t]}
        BY <2>4, <3>4 DEF PostEvent
      <4>2. Joining \subseteq Joining' \cup {ptr[t]}
        BY <3>3 DEF Joining
      <4> QED
        BY <3>1, <4>1, <4>2 DEF EventsTellList, ListMacs
    <3>5. CASE pc[t] = "post_CHANGE"
      <4>1. known' = known
        BY <2>4, <3>5 DEF PostEvent
      <4>2. Joining \subseteq Joining'
        BY <3>3, <3>5 DEF Joining
      <4> QED
        BY <3>1, <4>1, <4>2 DEF EventsTellList, ListMacs
    <3> QED
      BY <3>1, <3>4, <3>5
  <2>5. CASE ReadNode(t)
    <3>1. /\ UNCHANGED <<list, pc, known, fault>> /\ pc[t] = "read"
          /\ \A u \in Tasks \ {t} : ptr'[u] = ptr[u]
      BY <2>5 DEF ReadNode, Running, shared
    <3>2. Joining \subseteq Joining'
      BY <3>1 DEF Joining
    <3> QED
      BY <3>1, <3>2 DEF EventsTellList, ListMacs
  <2>6. CASE UseAfterFree(t)
    BY <2>6 DEF UseAfterFree
  <2>7. CASE CountUp(t)
    <3>1. /\ pc[t] = "linked" /\ pc' = [pc EXCEPT ![t] = "post_JOIN"]
          /\ UNCHANGED <<list, ptr, known, fault>>
      BY <2>7 DEF CountUp, Running, Goto
    <3>2. \A u \in Tasks : pc[u] \in {"linked", "post_JOIN"} =>
                            pc'[u] \in {"linked", "post_JOIN"}
      BY <3>1
    <3>3. Joining \subseteq Joining'
      BY <3>1, <3>2 DEF Joining
    <3> QED
      BY <3>1, <3>3 DEF EventsTellList, ListMacs
  <2> QED
    BY <1>8, <2>1, <2>2, <2>3, <2>4, <2>5, <2>6, <2>7 DEF TaskStep
<1> QED
  BY <1>1, <1>2, <1>3, <1>4, <1>5, <1>6, <1>7, <1>8 DEF Next

\* While no event is dropped, those posted tell which nodes are in the list.
THEOREM EventsAreComplete ==
  ASSUME ~PostMayDrop
  PROVE  Spec => []EventsTellList
<1>1. Init => EventsTellList
  <2> SUFFICES ASSUME Init PROVE EventsTellList
    OBVIOUS
  <2>1. ListMacs = {}
    BY EmptySeq DEF Init, ListMacs
  <2> QED
    BY <2>1 DEF Init, EventsTellList
<1>2. ListInv /\ EventsTellList /\ [Next]_vars => EventsTellList'
  BY StepEvents
<1> QED
  BY <1>1, <1>2, ListInvHolds, PTL DEF Spec

-----------------------------------------------------------------------------
(* A child and its root's list. A child is a device that stays below the   *)
(* root, whose allocations succeed: the root ages its list instead, and    *)
(* after a failed allocation what is left of the message is dropped.       *)

Child == (\A l \in Levels : l > ROOT) /\ ~NoMem

\* The nodes with a lease of their own: what the mark leaves, a list just
\* entered does not have.
FreshOf(s) == {s[i].mac : i \in {j \in DOMAIN s : s[j].ttl > Buffer}}
Fresh == FreshOf(list)

Updating == {"update", "linked", "post_JOIN", "post_CHANGE"}
InSweep == {"sweeping", "unlinked"}
Applying == {"mark", "sweep", "relay"} \cup InSweep

\* Below the root two tasks write: the main task, once, its own entry, and the
\* mesh task.
Writers ==
  /\ \A t \in Tasks \ {"mesh"} : pc[t] \notin Applying
  /\ \A t \in Tasks \ {"mesh", "main"} : pc[t] \notin Updating
  /\ DOMAIN todo["main"] \subseteq {Self}
  /\ pc["mesh"] \notin InSweep => at = 1

\* How far the mesh task is with the list it was sent.
Progress ==
  /\ pc["mesh"] \in Applying \cup Updating => reported # {}
  /\ pc["mesh"] = "mark" => DOMAIN todo["mesh"] = reported
  /\ pc["mesh"] \in Updating =>
       /\ DOMAIN todo["mesh"] \subseteq reported
       /\ Fresh \subseteq reported \cup {Self}
       /\ reported \subseteq Fresh \cup DOMAIN todo["mesh"]
  /\ pc["mesh"] \in {"sweep"} \cup InSweep =>
       Fresh \subseteq reported \cup {Self} /\ reported \subseteq Fresh
  /\ pc["mesh"] \in InSweep =>
       \A i \in DOMAIN list : i < at => list[i].ttl > Buffer

ChildInv == Writers /\ Progress /\ MirrorsRoot
\* The three changes that matter to the leases, and the one that does not.
LEMMA AddedIsFresh ==
  ASSUME NEW s \in Seq(Entry), NEW e \in Entry, e.ttl > Buffer
  PROVE  FreshOf(Cons(e, s)) = FreshOf(s) \cup {e.mac}
<1> DEFINE r == Cons(e, s)
<1>1. <<e>> \in Seq(Entry) /\ Len(<<e>>) = 1 /\ <<e>>[1] = e
  OBVIOUS
<1>2. /\ r \in Seq(Entry) /\ Len(r) = Len(s) + 1
      /\ \A i \in 1..Len(r) : r[i] = IF i <= 1 THEN e ELSE s[i - 1]
  BY <1>1, ConcatProperties DEF Cons
<1>3. DOMAIN s = 1..Len(s) /\ DOMAIN r = 1..Len(r) /\ Len(s) \in Nat
  BY <1>2, LenProperties
<1> HIDE DEF r
<1>4. 1 \in DOMAIN r /\ r[1] = e
  BY <1>2, <1>3
<1>5. \A i \in DOMAIN s : i + 1 \in DOMAIN r /\ r[i + 1] = s[i]
  BY <1>2, <1>3
<1>6. \A i \in DOMAIN r : i = 1 \/ (i - 1 \in DOMAIN s /\ r[i] = s[i - 1])
  BY <1>2, <1>3
<1>7. FreshOf(s) \cup {e.mac} \subseteq FreshOf(r)
  BY <1>4, <1>5 DEF FreshOf
<1>8. FreshOf(r) \subseteq FreshOf(s) \cup {e.mac}
  BY <1>4, <1>6 DEF FreshOf
<1> QED
  BY <1>7, <1>8 DEF r

LEMMA RefreshedIsFresh ==
  ASSUME TypeOK, NEW t \in Tasks, Refresh(t)
  PROVE  \E m \in DOMAIN todo[t] :
           /\ Fresh' = Fresh \cup {m}
           /\ todo' = [todo EXCEPT ![t] = Restrict(todo[t], DOMAIN todo[t] \ {m})]
           /\ \/ Goto(t, Result(t, "dup", DOMAIN todo[t] \ {m}))
              \/ Goto(t, "post_CHANGE")
<1>1. PICK i \in DOMAIN list :
        /\ list[i].mac \in DOMAIN todo[t]
        /\ list' = [list EXCEPT ![i].ttl = Full,
                                ![i].info = todo[t][list[i].mac]]
        /\ todo' = [todo EXCEPT ![t] = Restrict(todo[t], DOMAIN todo[t] \ {list[i].mac})]
        /\ \/ Goto(t, Result(t, "dup", DOMAIN todo[t] \ {list[i].mac}))
           \/ Goto(t, "post_CHANGE")
  BY DEF Refresh
<1>2. DOMAIN list' = DOMAIN list /\ list[i] \in Entry
  BY <1>1, ListFacts
<1>3. list'[i].ttl > Buffer /\ list'[i].mac = list[i].mac
  BY <1>1, <1>2, TtlAssumption DEF Entry, Full
<1>4. \A j \in DOMAIN list : j # i => list'[j] = list[j]
  BY <1>1
<1>5. Fresh' = Fresh \cup {list[i].mac}
  BY <1>2, <1>3, <1>4 DEF Fresh, FreshOf
<1> QED
  BY <1>1, <1>5

LEMMA AddedByTask ==
  ASSUME TypeOK, NEW t \in Tasks, Add(t)
  PROVE  \E m \in DOMAIN todo[t] :
           /\ Fresh' = Fresh \cup {m} /\ ListMacs' = ListMacs \cup {m}
           /\ todo' = [todo EXCEPT ![t] = Restrict(todo[t], DOMAIN todo[t] \ {m})]
           /\ Goto(t, "linked")
<1>1. PICK m \in DOMAIN todo[t] \ ListMacs :
        /\ list' = Cons([mac |-> m, info |-> todo[t][m], ttl |-> Full], list)
        /\ todo' = [todo EXCEPT ![t] = Restrict(todo[t], DOMAIN todo[t] \ {m})]
        /\ Goto(t, "linked")
  BY DEF Add
<1> DEFINE e == [mac |-> m, info |-> todo[t][m], ttl |-> Full]
<1>2. e \in Entry /\ e.mac = m /\ e.ttl = Full
  BY ListFacts, UpdateFacts, TtlFacts DEF Entry
<1>3. e.ttl > Buffer
  BY <1>2, TtlAssumption DEF Full
<1>4. list' = Cons(e, list) /\ Entered(e)
  BY <1>1 DEF Entered
<1> HIDE DEF e
<1>5. Fresh' = Fresh \cup {m}
  BY <1>2, <1>3, <1>4, ListFacts, AddedIsFresh DEF Fresh
<1>6. ListMacs' = ListMacs \cup {m}
  BY <1>2, <1>4, AddMacs
<1> QED
  BY <1>1, <1>5, <1>6

LEMMA MarkedIsStale ==
  ASSUME TypeOK, Mark
  PROVE  Fresh' = {}
<1>1. /\ DOMAIN list' = DOMAIN list
      /\ \A i \in DOMAIN list : list'[i].ttl = Buffer
  BY ListFacts DEF Mark, Entry
<1>2. ~(Buffer > Buffer)
  BY TtlAssumption
<1> QED
  BY <1>1, <1>2 DEF Fresh, FreshOf

LEMMA UnlinkedWasStale ==
  ASSUME NEW s \in Seq(Entry), NEW k \in 1..Len(s), ~(s[k].ttl > Buffer)
  PROVE  FreshOf(RemoveAt(s, k)) = FreshOf(s)
<1> DEFINE r == RemoveAt(s, k)
<1>1. /\ r \in Seq(Entry) /\ Len(r) = Len(s) - 1
      /\ \A j \in 1..Len(r) : r[j] = IF j < k THEN s[j] ELSE s[j + 1]
  BY RemoveAtSeq
<1>2. DOMAIN s = 1..Len(s) /\ DOMAIN r = 1..Len(r) /\ Len(s) \in Nat
  BY <1>1, LenProperties
<1> HIDE DEF r
<1>3. \A j \in DOMAIN s : j < k => j \in DOMAIN r /\ r[j] = s[j]
  BY <1>1, <1>2
<1>4. \A j \in DOMAIN s : j > k => j - 1 \in DOMAIN r /\ r[j - 1] = s[j]
  BY <1>1, <1>2
<1>5. \A j \in DOMAIN r : j \in DOMAIN s /\ j + 1 \in DOMAIN s
  BY <1>1, <1>2
<1>6. \A j \in DOMAIN s : j < k \/ j > k \/ j = k
  BY <1>2
<1>7. FreshOf(r) \subseteq FreshOf(s)
  BY <1>1, <1>2, <1>5 DEF FreshOf
<1>8. FreshOf(s) \subseteq FreshOf(r)
  BY <1>3, <1>4, <1>6 DEF FreshOf
<1> QED
  BY <1>7, <1>8 DEF r

-----------------------------------------------------------------------------
(* How the steps of a child preserve this.                                 *)

\* A task goes where nothing is written, or waits to begin.
LEMMA AsideStep ==
  ASSUME TypeOK, ChildInv, NEW t \in Tasks, NEW l,
         l \notin Applying \cup Updating,
         pc[t] \notin {"relay"} \cup InSweep \/ t # "mesh",
         pc' = [pc EXCEPT ![t] = l],
         UNCHANGED <<list, at, reported>>,
         todo'["mesh"] = todo["mesh"] \/ t = "mesh",
         todo'["main"] = todo["main"]
  PROVE  ChildInv'
<1> USE DEF TypeOK, TaskTypeOK
<1>1. "mesh" \in Tasks /\ "main" \in Tasks
  BY DEF Tasks
<1>2. pc'[t] = l /\ \A u \in Tasks \ {t} : pc'[u] = pc[u]
  OBVIOUS
<1>3. Writers'
  BY <1>1, <1>2 DEF ChildInv, Writers, Applying, Updating, InSweep
<1>4. UNCHANGED <<Fresh, ListMacs>>
  BY DEF Fresh, ListMacs
<1>5. Progress' /\ MirrorsRoot'
  <2>1. CASE t = "mesh"
    BY <2>1, <1>1, <1>2 DEF Progress, MirrorsRoot, Applying, Updating, InSweep
  <2>2. CASE t # "mesh"
    <3>1. pc'["mesh"] = pc["mesh"] /\ todo'["mesh"] = todo["mesh"]
      BY <2>2, <1>1, <1>2
    <3> QED
      BY <3>1, <1>4 DEF ChildInv, Progress, MirrorsRoot
  <2> QED
    BY <2>1, <2>2
<1> QED
  BY <1>3, <1>5 DEF ChildInv

\* The main task enters its own node.
LEMMA MainWrites ==
  ASSUME TypeOK, MutexInv, ChildInv, Refresh("main") \/ Add("main")
  PROVE  ChildInv'
<1> USE DEF TypeOK, TaskTypeOK
<1>0. "mesh" \in Tasks /\ "main" \in Tasks
  BY DEF Tasks
<1>1. PICK m \in DOMAIN todo["main"] :
        /\ Fresh' = Fresh \cup {m}
        /\ todo' = [todo EXCEPT !["main"] = Restrict(todo["main"], DOMAIN todo["main"] \ {m})]
        /\ \E l \in {"idle", "linked", "post_CHANGE"} : pc' = [pc EXCEPT !["main"] = l]
        /\ ListMacs \subseteq ListMacs' /\ ListMacs' \subseteq ListMacs \cup {m}
  <2>1. CASE Refresh("main")
    <3>1. \A left : Result("main", "dup", left) = "idle"
      BY DEF Result
    <3>2. ListMacs' = ListMacs
      <4>1. Renewed
        BY <2>1, <1>0, RefreshRenews
      <4>2. DOMAIN list' = DOMAIN list /\ \A j \in DOMAIN list : list'[j].mac = list[j].mac
        BY <4>1, ListFacts, LenProperties DEF Renewed
      <4> QED
        BY <4>2 DEF ListMacs
    <3>3. PICK m \in DOMAIN todo["main"] :
            /\ Fresh' = Fresh \cup {m}
            /\ todo' = [todo EXCEPT !["main"] = Restrict(todo["main"], DOMAIN todo["main"] \ {m})]
            /\ \/ Goto("main", Result("main", "dup", DOMAIN todo["main"] \ {m}))
               \/ Goto("main", "post_CHANGE")
      BY <2>1, <1>0, RefreshedIsFresh
    <3>4. \E l \in {"idle", "linked", "post_CHANGE"} : pc' = [pc EXCEPT !["main"] = l]
      BY <3>1, <3>3 DEF Goto
    <3> QED
      BY <3>2, <3>3, <3>4
  <2>2. CASE Add("main")
    BY <2>2, <1>0, AddedByTask DEF Goto
  <2> QED
    BY <2>1, <2>2
<1>2. UNCHANGED <<at, reported>>
  BY DEF Refresh, Add
<1>3. m = Self /\ DOMAIN todo'["main"] \subseteq {Self}
  BY <1>0, <1>1 DEF ChildInv, Writers, Restrict
<1>4. pc'["mesh"] = pc["mesh"] /\ todo'["mesh"] = todo["mesh"]
  BY <1>0, <1>1
<1>8. pc["mesh"] \notin InSweep
  <2>1. mutex = "free"
    BY DEF Refresh, Add
  <2>2. "free" # "mesh"
    OBVIOUS
  <2> QED
    BY <1>0, <2>1, <2>2 DEF MutexInv, Locked, InSweep
<1>5. Writers'
  BY <1>0, <1>1, <1>2, <1>3, <1>4 DEF ChildInv, Writers, Applying, Updating, InSweep
<1>6. Progress'
  BY <1>0, <1>1, <1>2, <1>3, <1>4, <1>8 DEF ChildInv, Progress, Updating, Applying, InSweep
<1>7. MirrorsRoot'
  BY <1>1, <1>2, <1>3, <1>4 DEF ChildInv, MirrorsRoot
<1> QED
  BY <1>5, <1>6, <1>7 DEF ChildInv

\* The mesh task enters a node of the message.
LEMMA MeshWrites ==
  ASSUME TypeOK, ChildInv, Refresh("mesh") \/ Add("mesh")
  PROVE  ChildInv'
<1> USE DEF TypeOK, TaskTypeOK
<1>0. "mesh" \in Tasks /\ "main" \in Tasks
  BY DEF Tasks
<1>1. /\ pc["mesh"] = "update" /\ UNCHANGED <<at, reported>>
      /\ reported # {} /\ at = 1
  BY DEF Refresh, Add, Running, ChildInv, Writers, Progress, Updating, InSweep
<1>2. PICK m \in DOMAIN todo["mesh"] :
        /\ Fresh' = Fresh \cup {m}
        /\ todo' = [todo EXCEPT !["mesh"] = Restrict(todo["mesh"], DOMAIN todo["mesh"] \ {m})]
        /\ \/ pc' = [pc EXCEPT !["mesh"] = IF DOMAIN todo["mesh"] \ {m} # {}
                                             THEN "update" ELSE "sweep"]
           \/ \E l \in {"linked", "post_CHANGE"} : pc' = [pc EXCEPT !["mesh"] = l]
  <2>1. CASE Refresh("mesh")
    <3>1. \A left : Result("mesh", "dup", left) = IF left # {} THEN "update" ELSE "sweep"
      BY <1>1 DEF Result
    <3>2. PICK m \in DOMAIN todo["mesh"] :
            /\ Fresh' = Fresh \cup {m}
            /\ todo' = [todo EXCEPT !["mesh"] = Restrict(todo["mesh"], DOMAIN todo["mesh"] \ {m})]
            /\ \/ Goto("mesh", Result("mesh", "dup", DOMAIN todo["mesh"] \ {m}))
               \/ Goto("mesh", "post_CHANGE")
      BY <2>1, <1>0, RefreshedIsFresh
    <3>3. \/ pc' = [pc EXCEPT !["mesh"] = IF DOMAIN todo["mesh"] \ {m} # {}
                                             THEN "update" ELSE "sweep"]
          \/ \E l \in {"linked", "post_CHANGE"} : pc' = [pc EXCEPT !["mesh"] = l]
      BY <3>1, <3>2 DEF Goto
    <3> QED
      BY <3>2, <3>3
  <2>2. CASE Add("mesh")
    BY <2>2, <1>0, AddedByTask DEF Goto
  <2> QED
    BY <2>1, <2>2
<1>3. /\ DOMAIN todo'["mesh"] = DOMAIN todo["mesh"] \ {m}
      /\ todo'["main"] = todo["main"]
  BY <1>0, <1>2 DEF Restrict
<1>4. /\ pc'["mesh"] \in Updating \cup {"sweep"}
      /\ pc'["mesh"] = "sweep" => DOMAIN todo'["mesh"] = {}
      /\ \A u \in Tasks \ {"mesh"} : pc'[u] = pc[u]
  BY <1>0, <1>2, <1>3 DEF Updating
<1>5. /\ DOMAIN todo["mesh"] \subseteq reported
      /\ Fresh \subseteq reported \cup {Self}
      /\ reported \subseteq Fresh \cup DOMAIN todo["mesh"]
  BY <1>1 DEF ChildInv, Progress, Updating
<1>6. Writers'
  BY <1>0, <1>1, <1>3, <1>4 DEF ChildInv, Writers, Updating, InSweep
<1>7. /\ DOMAIN todo'["mesh"] \subseteq reported'
      /\ Fresh' \subseteq reported' \cup {Self}
      /\ reported' \subseteq Fresh' \cup DOMAIN todo'["mesh"]
  BY <1>1, <1>2, <1>3, <1>5
<1>8. Progress' /\ MirrorsRoot'
  BY <1>1, <1>4, <1>7 DEF Progress, MirrorsRoot, Updating, Applying, InSweep
<1> QED
  BY <1>6, <1>8 DEF ChildInv

\* A writer counts its entry.
LEMMA ChildCounts ==
  ASSUME TypeOK, ChildInv, NEW t \in Tasks, CountUp(t)
  PROVE  ChildInv'
<1> USE DEF TypeOK, TaskTypeOK
<1>0. "mesh" \in Tasks /\ "main" \in Tasks
  BY DEF Tasks
<1>1. /\ pc[t] = "linked" /\ UNCHANGED <<list, todo, at, reported>>
      /\ pc' = [pc EXCEPT ![t] = "post_JOIN"]
  BY DEF CountUp, Running, Goto
<1>2. pc'[t] = "post_JOIN" /\ \A u \in Tasks \ {t} : pc'[u] = pc[u]
  BY <1>1
<1>3. UNCHANGED <<Fresh, ListMacs>>
  BY <1>1 DEF Fresh, ListMacs
<1>4. Writers'
  BY <1>0, <1>1, <1>2 DEF ChildInv, Writers, Applying, Updating, InSweep
<1>5. Progress' /\ MirrorsRoot'
  BY <1>0, <1>1, <1>2, <1>3
  DEF ChildInv, Progress, MirrorsRoot, Applying, Updating, InSweep
<1> QED
  BY <1>4, <1>5 DEF ChildInv

\* A writer posts its event, and goes on.
LEMMA ChildPosts ==
  ASSUME TypeOK, ChildInv, NEW t \in Tasks, PostEvent(t)
  PROVE  ChildInv'
<1> USE DEF TypeOK, TaskTypeOK
<1>0. "mesh" \in Tasks /\ "main" \in Tasks
  BY DEF Tasks
<1>1. /\ pc[t] \in Updating /\ UNCHANGED <<list, todo, at, reported>>
      /\ pc' = [pc EXCEPT ![t] = Result(t, "ok", DOMAIN todo[t])]
  BY DEF PostEvent, Updating, Goto
<1>2. t \in {"mesh", "main"}
  BY <1>1 DEF ChildInv, Writers
<1>3. UNCHANGED <<Fresh, ListMacs>>
  BY <1>1 DEF Fresh, ListMacs
<1>4. CASE t = "main"
  <2>1. Result("main", "ok", DOMAIN todo[t]) = "idle"
    BY DEF Result
  <2> QED
    BY <1>0, <1>1, <1>4, <2>1, AsideStep DEF Applying, Updating, InSweep
<1>5. CASE t = "mesh"
  <2>1. reported # {} /\ at = 1
    BY <1>1, <1>5 DEF ChildInv, Writers, Progress, Updating, InSweep
  <2>2. pc'["mesh"] = IF DOMAIN todo["mesh"] # {} THEN "update" ELSE "sweep"
    BY <1>0, <1>1, <1>5, <2>1 DEF Result
  <2>3. Writers'
    BY <1>0, <1>1, <1>5, <2>1, <2>2 DEF ChildInv, Writers, Updating, InSweep
  <2>4. Progress' /\ MirrorsRoot'
    BY <1>1, <1>3, <1>5, <2>1, <2>2 DEF ChildInv, Progress, MirrorsRoot, Updating, Applying, InSweep
  <2> QED
    BY <2>3, <2>4 DEF ChildInv
<1> QED
  BY <1>2, <1>4, <1>5

\* A list message is marked, swept and relayed.
LEMMA MarkChild ==
  ASSUME TypeOK, ChildInv, Mark
  PROVE  ChildInv'
<1> USE DEF TypeOK, TaskTypeOK
<1>1. /\ "mesh" \in Tasks /\ pc["mesh"] = "mark" /\ at = 1
      /\ UNCHANGED <<at, todo, reported>>
      /\ pc' = [pc EXCEPT !["mesh"] = "update"]
  BY DEF Mark, Running, Goto, Tasks, ChildInv, Writers, InSweep
<1>2. Fresh' = {}
  BY MarkedIsStale
<1>3. pc'["mesh"] = "update" /\ \A u \in Tasks \ {"mesh"} : pc'[u] = pc[u]
  BY <1>1
<1>4. Writers'
  BY <1>1, <1>3 DEF ChildInv, Writers, Updating, Applying, InSweep
<1>5. Progress' /\ MirrorsRoot'
  BY <1>1, <1>2, <1>3 DEF ChildInv, Progress, MirrorsRoot, Updating, Applying, InSweep
<1> QED
  BY <1>4, <1>5 DEF ChildInv

LEMMA SweepChild ==
  ASSUME TypeOK, ChildInv, SweepListStep
  PROVE  ChildInv'
<1> USE DEF TypeOK, TaskTypeOK
<1>1. /\ pc["mesh"] = "sweeping" /\ at \in DOMAIN list
      /\ UNCHANGED <<todo, reported>>
      /\ "mesh" \in Tasks /\ "main" \in Tasks
      /\ \E l \in InSweep : pc' = [pc EXCEPT !["mesh"] = l]
      /\ IF list[at].ttl <= Buffer THEN Unlink("mesh") ELSE Keep(list[at])
  BY ListFacts DEF SweepListStep, Sweeping, Running, Unlink, Keep, Goto, InSweep,
                   Tasks
<1>2. Writers'
  BY <1>1 DEF ChildInv, Writers, Applying, InSweep
<1>3. /\ Fresh \subseteq reported \cup {Self} /\ reported \subseteq Fresh
      /\ reported # {}
      /\ \A i \in DOMAIN list : i < at => list[i].ttl > Buffer
  BY <1>1 DEF ChildInv, Progress, Applying, InSweep
<1>4. Fresh' = Fresh /\ \A i \in DOMAIN list' : i < at' => list'[i].ttl > Buffer
  <2>1. CASE list[at].ttl <= Buffer
    <3>1. at \in 1..Len(list) /\ list' = RemoveAt(list, at) /\ at' = at
      BY <1>1, <2>1, ListFacts DEF Unlink
    <3>2. ~(list[at].ttl > Buffer)
      <4>1. list[at] \in Entry
        BY <3>1, ListFacts
      <4> QED
        BY <4>1, <2>1, TtlFacts DEF Entry
    <3>3. Fresh' = Fresh
      BY <3>1, <3>2, ListFacts, UnlinkedWasStale DEF Fresh
    <3>4. /\ list' \in Seq(Entry) /\ Len(list') = Len(list) - 1
          /\ \A j \in 1..Len(list') : j < at => list'[j] = list[j]
      BY <3>1, ListFacts, RemoveAtSeq
    <3>5. DOMAIN list' = 1..Len(list')
      BY <3>4, LenProperties
    <3>6. \A j \in DOMAIN list' : j \in DOMAIN list
      BY <3>4, <3>5, ListFacts
    <3> QED
      BY <3>1, <3>3, <3>4, <3>5, <3>6, <1>3
  <2>2. CASE ~(list[at].ttl <= Buffer)
    <3>1. list' = list /\ at' = at + 1
      BY <1>1, <2>2, ListFacts DEF Keep
    <3>2. list[at].ttl > Buffer
      <4>1. list[at] \in Entry
        BY <1>1, ListFacts
      <4> QED
        BY <4>1, <2>2, TtlFacts DEF Entry
    <3>3. \A i \in DOMAIN list : i < at + 1 => i < at \/ i = at
      BY ListFacts
    <3> QED
      BY <3>1, <3>2, <3>3, <1>3 DEF Fresh
  <2> QED
    BY <2>1, <2>2
<1>5. Progress' /\ MirrorsRoot'
  BY <1>1, <1>3, <1>4 DEF Progress, MirrorsRoot, Updating, InSweep
<1> QED
  BY <1>2, <1>5 DEF ChildInv

\* At the end of the sweep every entry left is fresh.
LEMMA SweptChild ==
  ASSUME TypeOK, ChildInv, NEW t \in Tasks, SweepEnd(t)
  PROVE  ChildInv'
<1> USE DEF TypeOK, TaskTypeOK
<1>1. /\ t = "mesh" /\ pc["mesh"] = "sweeping" /\ at > Len(list)
      /\ UNCHANGED <<list, todo, reported>> /\ at' = 1
      /\ pc' = [pc EXCEPT !["mesh"] = "relay"]
  BY DEF SweepEnd, Running, Goto, ChildInv, Writers, Applying, InSweep
<1>2. "mesh" \in Tasks /\ pc'["mesh"] = "relay" /\ \A u \in Tasks \ {"mesh"} : pc'[u] = pc[u]
  BY <1>1 DEF Tasks
<1>3. /\ Fresh \subseteq reported \cup {Self} /\ reported \subseteq Fresh
      /\ reported # {}
      /\ \A i \in DOMAIN list : i < at => list[i].ttl > Buffer
  BY <1>1 DEF ChildInv, Progress, Applying, InSweep
<1>4. \A i \in DOMAIN list : i < at
  BY <1>1, ListFacts
<1>5. ListMacs = Fresh
  BY <1>3, <1>4 DEF ListMacs, Fresh, FreshOf
<1>6. Writers'
  BY <1>1, <1>2 DEF ChildInv, Writers, Applying, InSweep
<1>7. ListMacs' = ListMacs
  BY <1>1 DEF ListMacs
<1>8. Progress' /\ MirrorsRoot'
  BY <1>1, <1>2, <1>3, <1>5, <1>7 DEF Progress, MirrorsRoot, Updating, InSweep
<1> QED
  BY <1>6, <1>8 DEF ChildInv

\* The mesh task counts out the entry it has unlinked.
LEMMA UnlinkedChild ==
  ASSUME TypeOK, ChildInv, NEW t \in Tasks, CountDown(t)
  PROVE  ChildInv'
<1> USE DEF TypeOK, TaskTypeOK
<1>1. /\ t = "mesh" /\ pc["mesh"] = "unlinked" /\ "main" \in Tasks
      /\ UNCHANGED <<list, at, todo, reported>>
      /\ pc' = [pc EXCEPT !["mesh"] = "sweeping"]
  BY DEF CountDown, Running, Goto, ChildInv, Writers, Applying, InSweep, Tasks
<1>2. pc'["mesh"] = "sweeping" /\ \A u \in Tasks \ {"mesh"} : pc'[u] = pc[u]
  BY <1>1
<1>3. UNCHANGED <<Fresh, ListMacs>>
  BY <1>1 DEF Fresh, ListMacs
<1>4. Writers'
  BY <1>1, <1>2 DEF ChildInv, Writers, Applying, InSweep
<1>5. Progress' /\ MirrorsRoot'
  BY <1>1, <1>2, <1>3
  DEF ChildInv, Progress, MirrorsRoot, Applying, Updating, InSweep
<1> QED
  BY <1>4, <1>5 DEF ChildInv

LEMMA StepChild ==
  ASSUME Child, TypeOK, MutexInv, ChildInv, [Next]_vars
  PROVE  ChildInv'
<1> USE DEF TypeOK, TaskTypeOK
<1>0. /\ level > ROOT /\ level # ROOT /\ ~(level <= ROOT)
      /\ "mesh" \in Tasks /\ "main" \in Tasks
  BY LevelsAssumption DEF Child, ROOT, Tasks
<1>1. CASE UNCHANGED vars \/ ChangeLevel
  BY <1>1 DEF vars, shared, own, ChangeLevel, ChildInv, Writers, Progress,
              MirrorsRoot, Fresh, ListMacs
<1>2. CASE RecvReport \/ GotIp \/ RootTimer
  BY <1>2, <1>0 DEF RecvReport, GotIp, RootTimer
<1>3. CASE RecvList
  <2>1. PICK new \in Update :
          /\ new # None
          /\ Begin("mesh", "mark", new)
          /\ reported' = DOMAIN new
    BY <1>3 DEF RecvList
  <2>2. DOMAIN new # {}
    BY <2>1 DEF Update, None
  <2>3. /\ pc'["mesh"] = "mark" /\ todo'["mesh"] = new /\ pc["mesh"] = "idle"
        /\ todo'["main"] = todo["main"]
        /\ \A u \in Tasks \ {"mesh"} : pc'[u] = pc[u]
        /\ UNCHANGED at
    BY <1>0, <2>1 DEF Begin, Running, Goto, shared
  <2>4. Writers'
    BY <1>0, <2>3 DEF ChildInv, Writers, Applying, Updating, InSweep
  <2>5. Progress' /\ MirrorsRoot'
    BY <2>1, <2>2, <2>3 DEF Progress, MirrorsRoot, Updating, InSweep
  <2> QED
    BY <2>4, <2>5 DEF ChildInv
<1>4. CASE ReportTimer \/ Show \/ Recheck
  <2>1. PICK t \in Tasks \ {"mesh", "main"}, l \in {"recheck", "walk", "idle"} :
          /\ pc' = [pc EXCEPT ![t] = l]
          /\ UNCHANGED <<list, at, reported>>
          /\ todo'["mesh"] = todo["mesh"] /\ todo'["main"] = todo["main"]
    BY <1>4, <1>0 DEF ReportTimer, Show, Recheck, Begin, Goto, shared, Tasks
  <2> QED
    BY <2>1, AsideStep DEF Applying, Updating, InSweep
<1>5. CASE Mark
  BY <1>5, MarkChild
<1>6. CASE SweepMarked
  <2>1. /\ pc["mesh"] = "sweep" /\ pc' = [pc EXCEPT !["mesh"] = "sweeping"]
        /\ UNCHANGED <<list, at, todo, reported>>
    BY <1>6 DEF SweepMarked, TakeMutex, Running, Goto
  <2>2. pc'["mesh"] = "sweeping" /\ \A u \in Tasks \ {"mesh"} : pc'[u] = pc[u]
    BY <1>0, <2>1
  <2>3. Writers' /\ at = 1
    BY <1>0, <2>1, <2>2 DEF ChildInv, Writers, Applying, Updating, InSweep
  <2>4. Fresh' = Fresh /\ \A i \in DOMAIN list' : ~(i < at')
    BY <2>1, <2>3, ListFacts DEF Fresh
  <2>5. Progress' /\ MirrorsRoot'
    BY <2>1, <2>2, <2>4 DEF ChildInv, Progress, MirrorsRoot, Updating, Applying,
                            InSweep
  <2> QED
    BY <2>3, <2>5 DEF ChildInv
<1>7. CASE SweepListStep
  BY <1>7, SweepChild
<1>8. CASE SweepRootStep
  <2>1. "timer" \in Tasks \ {"mesh"} /\ pc["timer"] = "sweeping"
    BY <1>8 DEF SweepRootStep, Sweeping, Running, Tasks
  <2> QED
    BY <2>1 DEF ChildInv, Writers, Applying, InSweep
<1>9. CASE Relay
  <2>1. /\ pc["mesh"] = "relay" /\ pc' = [pc EXCEPT !["mesh"] = "idle"]
        /\ UNCHANGED <<list, at, todo>>
    BY <1>9 DEF Relay, Running, Goto, shared
  <2>2. pc'["mesh"] = "idle" /\ \A u \in Tasks \ {"mesh"} : pc'[u] = pc[u]
    BY <1>0, <2>1
  <2>3. Writers'
    BY <1>0, <2>1, <2>2 DEF ChildInv, Writers, Applying, Updating, InSweep
  <2>4. Progress' /\ MirrorsRoot'
    BY <2>2 DEF Progress, MirrorsRoot, Updating, Applying, InSweep
  <2> QED
    BY <2>3, <2>4 DEF ChildInv
<1>10. ASSUME NEW t \in Tasks, TaskStep(t)
       PROVE  ChildInv'
  <2>1. CASE Refresh(t) \/ Add(t)
    <3>1. t \in {"mesh", "main"}
      BY <2>1 DEF Refresh, Add, Running, ChildInv, Writers, Updating
    <3> QED
      BY <2>1, <3>1, MeshWrites, MainWrites
  <2>2. CASE AddFails(t)
    BY <2>2 DEF AddFails, Child
  <2>3. CASE PostEvent(t)
    BY <2>3, ChildPosts
  <2>4. CASE SweepEnd(t)
    BY <2>4, SweptChild
  <2>5. CASE GetSize(t) \/ GetHead(t) \/ ReadEnd(t)
    <3>1. PICK l \in {"head", "read", "idle"} :
            /\ pc' = [pc EXCEPT ![t] = l] /\ pc[t] \in {"walk", "head", "read"}
            /\ UNCHANGED <<list, at, reported, todo>>
      BY <2>5 DEF GetSize, GetHead, ReadEnd, Running, Goto, shared
    <3> QED
      BY <3>1, AsideStep DEF Applying, Updating, InSweep
  <2>6. CASE ReadNode(t) \/ UseAfterFree(t)
    <3>1. UNCHANGED <<list, at, reported, todo, pc>>
      BY <2>6 DEF ReadNode, UseAfterFree, shared, own
    <3> QED
      BY <3>1 DEF ChildInv, Writers, Progress, MirrorsRoot, Fresh, ListMacs
  <2>7. CASE CountUp(t) \/ CountDown(t)
    BY <2>7, ChildCounts, UnlinkedChild
  <2> QED
    BY <1>10, <2>1, <2>2, <2>3, <2>4, <2>5, <2>6, <2>7 DEF TaskStep
<1> QED
  BY <1>1, <1>2, <1>3, <1>4, <1>5, <1>6, <1>7, <1>8, <1>9, <1>10 DEF Next

\* When a child has applied its root's list it has every node of it, and none
\* that the root no longer has, but for itself: the marks, the entries made
\* meanwhile and the sweep fit together, however many nodes there are.
THEOREM ChildMirrorsRoot ==
  ASSUME Child
  PROVE  Spec => []MirrorsRoot
<1>1. Init => ChildInv
  <2> SUFFICES ASSUME Init PROVE ChildInv
    OBVIOUS
  <2>1. /\ "mesh" \in Tasks /\ "main" \in Tasks /\ pc["mesh"] = "idle"
        /\ DOMAIN todo["main"] \subseteq {Self}
    BY DEF Init, Tasks
  <2> QED
    BY <2>1 DEF Init, ChildInv, Writers, Progress, MirrorsRoot, Applying, Updating,
                InSweep
<1>2. ListInv /\ ChildInv /\ [Next]_vars => ChildInv'
  BY StepChild DEF ListInv
<1>3. ChildInv => MirrorsRoot
  BY DEF ChildInv
<1> QED
  BY <1>1, <1>2, <1>3, ListInvHolds, PTL DEF Spec
=============================================================================
