-------------------------- MODULE DashboardProofs --------------------------
(***************************************************************************)
(* Proofs about Dashboard: types, that no row is announced twice, and that *)
(* without a filter no alert is passed over.                               *)
(***************************************************************************)
EXTENDS Dashboard, FiniteSetTheorems, TLAPS

\* An answer that holds everything there was is a list without gaps.
Complete == \A l \in Loads :
  (l \in answered /\ filter[l] = NoFilter /\ Len(events) <= Limit) =>
    \A i \in answer[l] : \A j \in 1 .. i : j \in answer[l]

\* A row has one toast at most, and none before newestId has reached it.
ToldOnce ==
  /\ \A i \in 1 .. MaxRows : told[i] \in {0, 1} /\ (told[i] = 1 => i <= newestId)
  /\ ~initialized => newestId = 0

-----------------------------------------------------------------------------
\* The page as it is opened is well typed.
LEMMA InitTypes == DashboardInit => DashboardTypeOK
<1> SUFFICES ASSUME DashboardInit PROVE DashboardTypeOK
  OBVIOUS
<1>1. ServerOK
  BY DashboardAssumption DEF DashboardInit, ServerOK, Filters
<1>2. LoadsOK
  BY DEF DashboardInit, LoadsOK, Filters
<1>3. PanelOK
  <2>1. Len(events) = 0 /\ Rows = {}
    BY DEF DashboardInit, Rows
  <2>2. newestId = 0 /\ baseline = 0 /\ shown = {} /\ told \in [1 .. MaxRows -> Nat]
    BY DEF DashboardInit
  <2>3. initialized = FALSE /\ narrowed = FALSE /\ banner = "none"
    BY DEF DashboardInit
  <2>4. shown \subseteq Rows /\ newestId \in 0 .. Len(events) /\ baseline \in 0 .. newestId
    BY <2>1, <2>2
  <2>5. initialized \in BOOLEAN /\ narrowed \in BOOLEAN /\ banner \in {"none", "partial", "failed"}
    BY <2>3
  <2> QED BY <2>2, <2>4, <2>5 DEF PanelOK
<1> QED BY <1>1, <1>2, <1>3 DEF DashboardTypeOK

\* A load that asks.
LEMMA AskTypes ==
  ASSUME LoadsOK, NEW l \in Loads, NEW f \in Filters, Ask(l, f),
         UNCHANGED <<events, answered, answer, size>>
  PROVE  LoadsOK'
  BY DEF LoadsOK, Ask, Idle, Rows

\* A load that is over.
LEMMA LeaveTypes ==
  ASSUME LoadsOK, NEW l \in Loads, LeaveLoad(l), UNCHANGED events
  PROVE  LoadsOK'
  BY DEF LoadsOK, LeaveLoad, Idle, Rows, Filters

\* Type correctness is kept by every step.
LEMMA NextTypes == DashboardTypeOK /\ [DashboardNext]_dashboardVars => DashboardTypeOK'
<1> SUFFICES ASSUME ServerOK, LoadsOK, PanelOK, [DashboardNext]_dashboardVars
             PROVE  ServerOK' /\ LoadsOK' /\ PanelOK'
  BY DEF DashboardTypeOK
<1> USE DashboardAssumption
<1>1. ASSUME NEW s \in Severities, NEW t \in 1 .. MaxTime, AddEvent(s, t)
      PROVE  ServerOK' /\ LoadsOK' /\ PanelOK'
  <2>1. ServerOK' /\ Len(events') = Len(events) + 1
    BY <1>1 DEF AddEvent, ServerOK, Filters
  <2>2. Rows \subseteq Rows'
    BY <2>1 DEF Rows, ServerOK
  <2>3. LoadsOK'
    BY <1>1, <2>2 DEF AddEvent, LoadsOK, loadVars, Filters, Idle
  <2>4. PanelOK'
    BY <1>1, <2>1, <2>2 DEF AddEvent, PanelOK, panelVars, ServerOK
  <2> QED BY <2>1, <2>3, <2>4
<1>2. ASSUME NEW k \in Collectors, CollectorFails(k) \/ CollectorWorks(k)
      PROVE  ServerOK' /\ LoadsOK' /\ PanelOK'
  <2>1. ServerOK'
    BY <1>2 DEF CollectorFails, CollectorWorks, ServerOK, Filters
  <2>2. LoadsOK'
    BY <1>2 DEF CollectorFails, CollectorWorks, LoadsOK, loadVars, Filters, Idle, Rows
  <2>3. PanelOK'
    BY <1>2 DEF CollectorFails, CollectorWorks, PanelOK, panelVars, Rows
  <2> QED BY <2>1, <2>2, <2>3
<1>3. ASSUME NEW l \in Loads, StartLoad(l) PROVE ServerOK' /\ LoadsOK' /\ PanelOK'
  <2>1. ServerOK' /\ PanelOK'
    BY <1>3 DEF StartLoad, ServerOK, PanelOK, serverVars, panelVars, Filters, Rows
  <2>2. LoadsOK'
    BY <1>3, AskTypes DEF StartLoad, ServerOK, serverVars
  <2> QED BY <2>1, <2>2
<1>4. ASSUME NEW l \in Loads, NEW f \in Filters, SelectSeverity(l, f)
      PROVE  ServerOK' /\ LoadsOK' /\ PanelOK'
  <2>1. ServerOK' /\ PanelOK'
    BY <1>4 DEF SelectSeverity, ServerOK, PanelOK, serverVars, panelVars, Filters, Rows
  <2>2. LoadsOK'
    BY <1>4, AskTypes DEF SelectSeverity, serverVars
  <2> QED BY <2>1, <2>2
<1>5. ASSUME NEW l \in Loads, AnswerEvents(l) \/ HealthBegins(l) \/ HealthAnswers(l)
      PROVE  ServerOK' /\ LoadsOK' /\ PanelOK'
  <2>1. ServerOK'
    BY <1>5 DEF AnswerEvents, HealthBegins, HealthAnswers, ServerOK, serverVars, Filters
  <2>2. PanelOK'
    BY <1>5 DEF AnswerEvents, HealthBegins, HealthAnswers, PanelOK, serverVars, panelVars, Rows
  <2>3. CASE AnswerEvents(l)
    <3>1. \E S \in SUBSET Rows : answer' = [answer EXCEPT ![l] = S]
      BY <2>3 DEF AnswerEvents, Listings, Matching
    <3> QED BY <2>1, <2>2, <2>3, <3>1 DEF AnswerEvents, LoadsOK, serverVars, Filters, Idle, Rows
  <2>4. CASE HealthBegins(l)
    <3>1. Cardinality(errors) \in Nat
      BY FS_Subset, FS_CardinalityType DEF ServerOK
    <3> QED BY <2>1, <2>2, <2>4, <3>1 DEF HealthBegins, LoadsOK, serverVars, Filters, Idle, Rows
  <2>5. CASE HealthAnswers(l)
    BY <2>1, <2>2, <2>5 DEF HealthAnswers, LoadsOK, serverVars, Filters, Idle, Rows
  <2> QED BY <1>5, <2>3, <2>4, <2>5
<1>6. ASSUME NEW l \in Loads, HealthRaises(l) \/ FetchFails(l)
      PROVE  ServerOK' /\ LoadsOK' /\ PanelOK'
  <2>1. LoadFails(l) /\ trouble' \in 0 .. MaxTrouble
    BY <1>6 DEF HealthRaises, FetchFails, ServerOK
  <2>2. LoadsOK'
    BY <2>1, LeaveTypes DEF LoadFails, serverVars
  <2> QED BY <2>1, <2>2 DEF LoadFails, ServerOK, PanelOK, serverVars, Filters, Rows
<1>7. ASSUME NEW l \in Loads, CompleteLoad(l) PROVE ServerOK' /\ LoadsOK' /\ PanelOK'
  <2>1. PICK n \in answer[l] \cup {0} : announce(answer[l], n)
    BY <1>7 DEF CompleteLoad
  <2>2. answer[l] \subseteq Rows /\ n \in 0 .. Len(events) /\ Len(events) \in Nat
    BY <2>1 DEF LoadsOK, ServerOK, Rows
  <2>3. /\ newestId' \in 0 .. Len(events) /\ baseline' \in 0 .. newestId'
        /\ told' \in [1 .. MaxRows -> Nat] /\ initialized' \in BOOLEAN
    <3>1. newestId \in 0 .. Len(events) /\ baseline \in 0 .. newestId
          /\ told \in [1 .. MaxRows -> Nat] /\ initialized \in BOOLEAN
      BY DEF PanelOK
    <3>2. CASE initialized
      <4>1. Toast(answer[l]) /\ newestId' = Larger(newestId, n)
            /\ initialized' = initialized /\ baseline' = baseline
        BY <2>1, <3>2 DEF announce
      <4>2. told' \in [1 .. MaxRows -> Nat]
        BY <4>1, <3>1 DEF Toast
      <4>3. newestId' \in 0 .. Len(events) /\ baseline' \in 0 .. newestId'
        BY <4>1, <3>1, <2>2 DEF Larger
      <4> QED BY <4>1, <4>2, <4>3, <3>1
    <3>3. CASE ~initialized
      <4>1. initialized' = TRUE /\ newestId' = n /\ baseline' = n /\ told' = told
        BY <2>1, <3>3 DEF announce
      <4> QED BY <4>1, <3>1, <2>2
    <3> QED BY <3>2, <3>3
  <2>4. narrowed' \in BOOLEAN /\ banner' \in {"none", "partial", "failed"}
    BY <1>7 DEF CompleteLoad, PanelOK
  <2>5. ServerOK'
    BY <1>7 DEF CompleteLoad, ServerOK, serverVars, Filters
  <2>6. LoadsOK'
    BY <1>7, LeaveTypes DEF CompleteLoad, serverVars
  <2>7. PanelOK'
    BY <1>7, <2>2, <2>3, <2>4 DEF CompleteLoad, PanelOK, serverVars, Rows
  <2> QED BY <2>5, <2>6, <2>7
<1>8. CASE UNCHANGED dashboardVars
  BY <1>8 DEF dashboardVars, serverVars, loadVars, panelVars, ServerOK, LoadsOK, PanelOK,
              Filters, Idle, Rows
<1> QED
  BY <1>1, <1>2, <1>3, <1>4, <1>5, <1>6, <1>7, <1>8 DEF DashboardNext, LoadGoesOn

\* What the page and the table hold is well typed, however many loads there are
\* and whatever fails.
THEOREM DashboardTypes == DashboardSpec => []DashboardTypeOK
  BY InitTypes, NextTypes, PTL DEF DashboardSpec

-----------------------------------------------------------------------------
\* A list that completes a load is announced with its largest id.
LEMMA Completes ==
  ASSUME DashboardTypeOK, NEW l \in Loads, CompleteLoad(l)
  PROVE  \E n \in 0 .. Len(events) :
           /\ \A i \in answer[l] : i <= n
           /\ n > 0 => n \in answer[l]
           /\ announce(answer[l], n)
<1>1. PICK n \in answer[l] \cup {0} : Newest(n, answer[l]) /\ announce(answer[l], n)
  BY DEF CompleteLoad
<1>2. answer[l] \subseteq Rows /\ Len(events) \in Nat
  BY DEF DashboardTypeOK, LoadsOK, ServerOK
<1>3. n \in 0 .. Len(events)
  BY <1>1, <1>2 DEF Rows
<1>4. n > 0 => n \in answer[l]
  BY <1>1
<1> QED BY <1>1, <1>3, <1>4 DEF Newest

\* Only a load that completes touches what was announced.
LEMMA PanelRests ==
  ASSUME [DashboardNext]_dashboardVars, ~\E l \in Loads : CompleteLoad(l)
  PROVE  UNCHANGED <<initialized, newestId, told, baseline, narrowed>>
  BY DEF DashboardNext, AddEvent, CollectorFails, CollectorWorks, StartLoad, LoadGoesOn,
         AnswerEvents, HealthBegins, HealthAnswers, HealthRaises, FetchFails, LoadFails,
         SelectSeverity, panelVars, dashboardVars

\* A toast is only for rows that newestId has not reached, and it then does.
LEMMA ToldOnceKept ==
  DashboardTypeOK /\ ToldOnce /\ [DashboardNext]_dashboardVars => ToldOnce'
<1> SUFFICES ASSUME DashboardTypeOK, ToldOnce, [DashboardNext]_dashboardVars PROVE ToldOnce'
  OBVIOUS
<1>1. ASSUME NEW l \in Loads, CompleteLoad(l) PROVE ToldOnce'
  <2>1. PICK n \in 0 .. Len(events) : /\ \A i \in answer[l] : i <= n
                                      /\ announce(answer[l], n)
    BY <1>1, Completes
  <2>2. newestId \in Nat /\ Len(events) \in Nat /\ n \in Nat /\ MaxRows \in Nat
    BY DashboardAssumption DEF DashboardTypeOK, PanelOK, ServerOK
  <2>3. CASE initialized
    <3>1. Toast(answer[l]) /\ newestId' = Larger(newestId, n) /\ initialized'
      BY <2>1, <2>3 DEF announce
    <3>2. newestId <= newestId' /\ n <= newestId' /\ newestId' \in Nat
      BY <3>1, <2>2 DEF Larger
    <3>3. ASSUME NEW i \in 1 .. MaxRows
          PROVE  told'[i] \in {0, 1} /\ (told'[i] = 1 => i <= newestId')
      <4>1. told[i] \in {0, 1} /\ (told[i] = 1 => i <= newestId)
        BY DEF ToldOnce
      <4>2. CASE i \in answer[l] /\ i > newestId
        <5>1. told[i] = 0 /\ i <= n
          BY <4>1, <4>2, <2>1, <2>2
        <5>2. told'[i] \in {told[i], told[i] + 1}
          BY <3>1 DEF Toast
        <5> QED BY <5>1, <5>2, <3>2, <2>2
      <4>3. CASE ~(i \in answer[l] /\ i > newestId)
        <5>1. told'[i] = told[i]
          BY <3>1, <4>3 DEF Toast
        <5> QED BY <5>1, <4>1, <3>2, <2>2
      <4> QED BY <4>2, <4>3
    <3> QED BY <3>1, <3>3 DEF ToldOnce
  <2>4. CASE ~initialized
    <3>1. initialized' /\ told' = told /\ newestId = 0
      BY <2>1, <2>4 DEF announce, ToldOnce
    <3>2. \A i \in 1 .. MaxRows : told[i] = 0
      BY <3>1, <2>2 DEF ToldOnce
    <3> QED BY <3>1, <3>2 DEF ToldOnce
  <2> QED BY <2>3, <2>4
<1>2. CASE ~\E l \in Loads : CompleteLoad(l)
  BY <1>2, PanelRests DEF ToldOnce
<1> QED BY <1>1, <1>2

\* However loads overtake each other, whatever filters they ask under and whatever
\* fails, no row is announced twice, in a table of any size.
THEOREM NothingAnnouncedTwice == DashboardSpec => []AnnouncedOnce
<1>1. DashboardInit => ToldOnce
  BY DEF DashboardInit, ToldOnce
<1>2. ToldOnce => AnnouncedOnce
  BY DEF ToldOnce, AnnouncedOnce
<1> QED BY <1>1, <1>2, ToldOnceKept, DashboardTypes, PTL DEF DashboardSpec

-----------------------------------------------------------------------------
\* Without a filter, a table that fits into an answer is listed as a whole.
LEMMA WholeTable ==
  ASSUME DashboardTypeOK, Len(events) <= Limit, NEW S \in Listings(NoFilter)
  PROVE  S = Rows
<1>1. Matching(NoFilter) = Rows
  BY DEF Matching
<1>2. /\ S \subseteq Rows /\ Cardinality(S) <= Limit
      /\ Cardinality(S) < Limit => S = Rows
  BY <1>1 DEF Listings
<1>3. Len(events) \in Nat /\ Limit \in Nat
  BY DashboardAssumption DEF DashboardTypeOK, ServerOK
<1>4. IsFiniteSet(Rows) /\ Cardinality(Rows) = Len(events)
  <2>1. ASSUME NEW m \in Nat PROVE IsFiniteSet(1 .. m) /\ Cardinality(1 .. m) = m
    <3>1. /\ IsFiniteSet(1 .. m)
          /\ Cardinality(1 .. m) = IF 1 > m THEN 0 ELSE m - 1 + 1
      BY FS_Interval
    <3> QED BY <3>1
  <2> QED BY <2>1, <1>3 DEF Rows
<1>5. IsFiniteSet(S) /\ Cardinality(S) \in Nat
  BY <1>2, <1>4, FS_Subset, FS_CardinalityType
<1>6. CASE Cardinality(S) = Limit
  <2>1. Cardinality(S) = Cardinality(Rows)
    BY <1>2, <1>3, <1>4, <1>5, <1>6, FS_Subset
  <2> QED BY <2>1, <1>2, <1>4, FS_Subset
<1> QED BY <1>2, <1>3, <1>5, <1>6

\* Answers that hold everything stay so until they are used.
LEMMA CompleteKept ==
  DashboardTypeOK /\ Complete /\ [DashboardNext]_dashboardVars => Complete'
<1> SUFFICES ASSUME DashboardTypeOK, Complete, [DashboardNext]_dashboardVars,
                    NEW k \in Loads, k \in answered', filter'[k] = NoFilter,
                    Len(events') <= Limit
             PROVE  \A i \in answer'[k] : \A j \in 1 .. i : j \in answer'[k]
  BY DEF Complete
<1> DEFINE Same == /\ k \in answered /\ filter[k] = NoFilter /\ answer'[k] = answer[k]
                   /\ Len(events) <= Limit
<1>1. Same => \A i \in answer'[k] : \A j \in 1 .. i : j \in answer'[k]
  BY DEF Complete
<1>2. Len(events) \in Nat /\ Limit \in Nat
  BY DashboardAssumption DEF DashboardTypeOK, ServerOK
<1>3. ASSUME NEW l \in Loads, AnswerEvents(l)
      PROVE  \A i \in answer'[k] : \A j \in 1 .. i : j \in answer'[k]
  <2>1. PICK S \in Listings(filter[l]) : answer' = [answer EXCEPT ![l] = S]
    BY <1>3 DEF AnswerEvents
  <2>2. filter' = filter /\ events' = events /\ answered' = answered \cup {l}
    BY <1>3 DEF AnswerEvents, serverVars
  <2>3. CASE k # l
    BY <2>1, <2>2, <2>3, <1>1 DEF DashboardTypeOK, LoadsOK
  <2>4. CASE k = l
    <3>1. answer'[k] = Rows
      BY <2>1, <2>2, <2>4, WholeTable DEF DashboardTypeOK, LoadsOK
    <3> QED BY <3>1, <1>2 DEF Rows
  <2> QED BY <2>3, <2>4
<1>4. ASSUME NEW l \in Loads, LeaveLoad(l), UNCHANGED events PROVE Same
  <2>1. k # l /\ k \in answered
    BY <1>4 DEF LeaveLoad
  <2> QED BY <2>1, <1>4 DEF LeaveLoad, DashboardTypeOK, LoadsOK
<1>5. ASSUME NEW l \in Loads, NEW f, Ask(l, f), UNCHANGED <<events, answered, answer>>
      PROVE  Same
  <2>1. k # l
    BY <1>5 DEF Ask, DashboardTypeOK, LoadsOK
  <2> QED BY <2>1, <1>5 DEF Ask, DashboardTypeOK, LoadsOK
<1>6. ASSUME NEW s \in Severities, NEW t \in 1 .. MaxTime, AddEvent(s, t) PROVE Same
  <2>1. Len(events') = Len(events) + 1
    BY <1>6 DEF AddEvent, DashboardTypeOK, ServerOK
  <2> QED BY <2>1, <1>2, <1>6 DEF AddEvent, loadVars
<1>7. ASSUME UNCHANGED <<events, filter, answered, answer>> PROVE Same
  BY <1>7
<1>8. ASSUME NEW l \in Loads, HealthRaises(l) \/ FetchFails(l) \/ CompleteLoad(l) PROVE Same
  BY <1>4, <1>8 DEF HealthRaises, FetchFails, LoadFails, CompleteLoad, serverVars
<1>9. ASSUME NEW l \in Loads, StartLoad(l) \/ \E f \in Filters : SelectSeverity(l, f)
      PROVE  Same
  <2>1. PICK f : Ask(l, f) /\ UNCHANGED <<events, answered, answer>>
    BY <1>9 DEF StartLoad, SelectSeverity, serverVars
  <2> QED BY <2>1, <1>5
<1>10. ASSUME NEW l \in Loads, HealthBegins(l) \/ HealthAnswers(l) PROVE Same
  BY <1>7, <1>10 DEF HealthBegins, HealthAnswers, serverVars
<1>11. ASSUME NEW c \in Collectors, CollectorFails(c) \/ CollectorWorks(c) PROVE Same
  BY <1>7, <1>11 DEF CollectorFails, CollectorWorks, loadVars
<1>12. CASE UNCHANGED dashboardVars
  BY <1>1, <1>7, <1>12 DEF dashboardVars, serverVars, loadVars
<1> QED
  BY <1>1, <1>3, <1>6, <1>8, <1>9, <1>10, <1>11, <1>12 DEF DashboardNext, LoadGoesOn

\* The first list is taken for known; after that newestId moves on over toasts.
LEMMA PassedOverKept ==
  DashboardTypeOK /\ Complete /\ ToldOnce /\ NoAlertPassedOver /\ [DashboardNext]_dashboardVars
    => NoAlertPassedOver'
<1> SUFFICES ASSUME DashboardTypeOK, Complete, ToldOnce, NoAlertPassedOver,
                    [DashboardNext]_dashboardVars,
                    ~narrowed', Len(events') <= Limit,
                    NEW i \in 1 .. newestId', events'[i].severity \in Alarming
             PROVE  told'[i] > 0 \/ i <= baseline'
  BY DEF NoAlertPassedOver
<1>1. /\ newestId \in 0 .. Len(events) /\ newestId \in Nat
      /\ Len(events) \in 0 .. MaxRows /\ Limit \in Nat /\ MaxRows \in Nat
      /\ told \in [1 .. MaxRows -> Nat]
  BY DashboardAssumption DEF DashboardTypeOK, PanelOK, ServerOK
<1>2. ASSUME NEW l \in Loads, CompleteLoad(l) PROVE told'[i] > 0 \/ i <= baseline'
  <2>1. PICK n \in 0 .. Len(events) : /\ n > 0 => n \in answer[l]
                                      /\ announce(answer[l], n)
    BY <1>2, Completes
  <2>2. ~narrowed /\ filter[l] = NoFilter /\ events' = events /\ l \in answered
    BY <1>2 DEF CompleteLoad, serverVars
  <2>3. CASE initialized
    <3>1. Toast(answer[l]) /\ newestId' = Larger(newestId, n) /\ baseline' = baseline
      BY <2>1, <2>3 DEF announce
    <3>2. i \in 1 .. MaxRows /\ (i <= newestId \/ i <= n) /\ n \in Nat
      BY <3>1, <1>1 DEF Larger
    <3>3. told'[i] \in {told[i], told[i] + 1}
      BY <3>1, <3>2 DEF Toast
    <3>4. CASE i <= newestId
      BY <3>1, <3>2, <3>3, <3>4, <2>2, <1>1 DEF NoAlertPassedOver
    <3>5. CASE i > newestId
      <4>1. i \in answer[l]
        BY <3>2, <3>5, <2>1, <2>2, <1>1 DEF Complete
      <4>2. told'[i] = told[i] + 1
        BY <4>1, <3>1, <3>2, <3>5, <2>2 DEF Toast
      <4> QED BY <4>2, <3>2, <1>1
    <3> QED BY <3>4, <3>5, <3>2, <1>1
  <2>4. CASE ~initialized
    <3>1. newestId' = n /\ baseline' = n
      BY <2>1, <2>4 DEF announce
    <3> QED BY <3>1
  <2> QED BY <2>3, <2>4
<1>3. CASE ~\E l \in Loads : CompleteLoad(l)
  <2>1. UNCHANGED <<newestId, told, baseline, narrowed>>
    BY <1>3, PanelRests
  <2>2. Len(events) <= Limit /\ events'[i] = events[i]
    <3>1. CASE \E s \in Severities, t \in 1 .. MaxTime : AddEvent(s, t)
      <4>1. PICK s \in Severities, t \in 1 .. MaxTime :
              events' = Append(events, [severity |-> s, observed |-> t])
        BY <3>1 DEF AddEvent
      <4>2. Len(events') = Len(events) + 1 /\ i \in 1 .. Len(events)
        BY <4>1, <2>1, <1>1 DEF DashboardTypeOK, ServerOK
      <4> QED BY <4>1, <4>2, <1>1 DEF DashboardTypeOK, ServerOK
    <3>2. CASE ~\E s \in Severities, t \in 1 .. MaxTime : AddEvent(s, t)
      <4>1. events' = events
        BY <3>2 DEF DashboardNext, CollectorFails, CollectorWorks, StartLoad, LoadGoesOn,
                    AnswerEvents, HealthBegins, HealthAnswers, HealthRaises, FetchFails,
                    LoadFails, SelectSeverity, CompleteLoad, serverVars, dashboardVars
      <4> QED BY <4>1
    <3> QED BY <3>1, <3>2
  <2> QED BY <2>1, <2>2 DEF NoAlertPassedOver
<1> QED BY <1>2, <1>3

\* Without a filter and with a table that fits into one answer, newestId passes no
\* alert over: it was announced, or there when the page was opened.
THEOREM AlertsAnnounced == DashboardSpec => []NoAlertPassedOver
<1>1. DashboardInit => ToldOnce /\ Complete /\ NoAlertPassedOver
  <2> SUFFICES ASSUME DashboardInit PROVE ToldOnce /\ Complete /\ NoAlertPassedOver
    OBVIOUS
  <2>1. newestId = 0 /\ answered = {} /\ \A i \in 1 .. MaxRows : told[i] = 0
    BY DEF DashboardInit
  <2>2. ToldOnce
    BY <2>1 DEF ToldOnce
  <2>3. Complete
    BY <2>1 DEF Complete
  <2>4. NoAlertPassedOver
    BY <2>1 DEF NoAlertPassedOver
  <2> QED BY <2>2, <2>3, <2>4
<1> QED
  BY <1>1, ToldOnceKept, CompleteKept, PassedOverKept, DashboardTypes, PTL DEF DashboardSpec

=============================================================================
