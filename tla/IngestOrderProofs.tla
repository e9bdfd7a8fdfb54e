------------------------- MODULE IngestOrderProofs -------------------------
(***************************************************************************)
(* What the alarms of the journals mean where passes do not overlap, for   *)
(* any workers, records, thresholds, windows and bounds: the service loop, *)
(* POST /api/collect and jevguard collect-once may take turns, each with   *)
(* faults and restarts.  Two passes at a time refute it (the runs          *)
(* burst_missed and failures_after_success), so the theorems assume        *)
(* []OneAtATime.                                                           *)
(*                                                                         *)
(* The argument: the journals are in the order of time (Clocked); a pass   *)
(* begins at the stored cursor and takes the records up in their order, so *)
(* that a row never lies beyond what is still to be ingested (InOrder);    *)
(* hence a rule that looks at all rows looks at the rows up to its event,  *)
(* now and for good (ImpliedKept), every incident is one that such a rule  *)
(* raises (Founded), and, as long as nothing is dropped, the other way     *)
(* round (Drawn).                                                          *)
(***************************************************************************)
EXTENDS IngestProofs, WellFoundedInduction

-----------------------------------------------------------------------------
\* Natural numbers.
LEMMA Least ==
  ASSUME NEW S, S \subseteq Nat, S # {}
  PROVE  \E m \in S : \A k \in S : m <= k
<1> DEFINE Below == OpToRel(<, Nat)
<1>1. IsWellFoundedOn(Below, Nat)
  BY NatLessThanWellFounded
<1>2. \A k, m \in Nat : k < m => <<k, m>> \in Below
  BY DEF OpToRel
<1> HIDE DEF Below
<1>3. PICK m \in S : \A k \in S : ~ (<<k, m>> \in Below)
  BY <1>1, WFMin
<1>4. \A k \in S : ~ (k < m)
  BY <1>2, <1>3
<1> QED
  BY <1>4

\* The numbers P from g to e are all in F, and g is the first of P or has one
\* before it that is not.
Begins(g, P, F, e) ==
  /\ g <= e
  /\ \A h \in P : h \in g .. e => h \in F
  /\ \/ \A h \in P : g <= h
     \/ \E h \in P : h < g /\ h \notin F /\ \A k \in P : k < g => k <= h

\* Where P meets F at e, a stretch of P within F ends at e, and it begins somewhere.
LEMMA Stretch ==
  ASSUME NEW P, P \subseteq Nat, NEW F, NEW e \in P, e \in F
  PROVE  \E g \in P : Begins(g, P, F, e)
<1> DEFINE Gaps == {h \in P : h < e /\ h \notin F}
<1>1. CASE Gaps = {}
  <2>1. PICK g \in P : \A h \in P : g <= h
    BY Least
  <2>2. \A h \in P : h \in g .. e => h \in F
    BY <1>1
  <2> QED
    BY <2>1, <2>2 DEF Begins
<1>2. CASE Gaps # {}
  <2>1. PICK b \in Gaps : \A h \in Gaps : h <= b
    <3> DEFINE distances == {d \in Nat : e - d \in Gaps}
    <3>1. \A h \in Gaps : e - h \in distances
      <4> SUFFICES ASSUME NEW h \in Gaps PROVE e - h \in distances
        OBVIOUS
      <4>1. h \in Nat /\ h < e /\ e \in Nat
        OBVIOUS
      <4>2. e - h \in Nat /\ e - (e - h) = h
        BY <4>1
      <4> QED
        BY <4>2
    <3>2. PICK d \in distances : \A k \in distances : d <= k
      <4>1. distances # {}
        BY <1>2, <3>1
      <4> HIDE DEF distances, Gaps
      <4>2. distances \subseteq Nat
        BY DEF distances
      <4> QED
        BY <4>1, <4>2, Least
    <3>3. \A h \in Gaps : h <= e - d
      <4> SUFFICES ASSUME NEW h \in Gaps PROVE h <= e - d
        OBVIOUS
      <4>1. d <= e - h
        BY <3>1, <3>2
      <4>2. h \in Nat /\ e \in Nat /\ d \in Nat
        OBVIOUS
      <4> QED
        BY <4>1, <4>2
    <3> QED
      BY <3>2, <3>3
  <2> DEFINE Later == {k \in P : b < k}
  <2>2. e \in Later /\ Later \subseteq Nat
    BY <2>1
  <2>3. PICK g \in Later : \A k \in Later : g <= k
    BY <2>2, Least
  <2>4. \A h \in P : h \in g .. e => h \in F
    BY <2>1, <2>3
  <2>5. \A k \in P : k < g => k <= b
    BY <2>1, <2>3
  <2> QED
    BY <2>1, <2>2, <2>3, <2>4, <2>5 DEF Begins
<1> QED
  BY <1>1, <1>2

-----------------------------------------------------------------------------
\* What the journals give and what the rules yield.
IsRecord(e) == e.event_type \notin IncidentTypes

RecordTypes == SshTypes \cup PrivilegeTypes \cup {"other", "firewall_packet_blocked"}

\* A record has one of the types the collectors parse.
LEMMA TypesOfRecords ==
  ASSUME NEW e \in Event, IsRecord(e)
  PROVE  e.event_type \in RecordTypes
<1>1. \A r \in Records : r.event_type \in RecordTypes
  BY IngestAssumption DEF RecordTypes
<1> QED
  BY <1>1 DEF Event, IsRecord

\* A record that came from a journal is found there again at its position.
LEMMA Placed ==
  ASSUME ShapeInv, Sourced, NEW e, Genuine(e), IsRecord(e)
  PROVE  /\ StreamOf(e.event_type) \in Streams
         /\ Position(e) \in 1 .. Len(journal[StreamOf(e.event_type)])
         /\ Position(e) \in Nat
         /\ journal[StreamOf(e.event_type)][Position(e)] = e
         /\ e.evidence = {Position(e)}
         /\ e \in Event
<1> DEFINE s == StreamOf(e.event_type)
<1>1. s \in Streams
  BY DEF StreamOf, Streams
<1> HIDE DEF s
<1>2. PICK p \in DOMAIN journal[s] : journal[s][p] = e
  BY DEF Genuine, IsRecord, s
<1>3. e.evidence = {p}
  BY <1>1, <1>2 DEF Sourced
<1>4. Position(e) = p
  BY <1>3 DEF Position
<1>5. /\ DOMAIN journal[s] = 1 .. Len(journal[s]) /\ Len(journal[s]) \in Nat
      /\ journal[s] \in Seq(Event)
  BY <1>1, Lengths, IngestAssumption
<1>6. e \in Event /\ p \in Nat
  BY <1>2, <1>5
<1> QED
  BY <1>1, <1>2, <1>3, <1>4, <1>5, <1>6 DEF s

\* The record at a position of a journal is one of that journal, at that position.
LEMMA PositionInJournal ==
  ASSUME ShapeInv, Sourced, NEW s \in Streams, NEW p \in DOMAIN journal[s]
  PROVE  /\ IsRecord(journal[s][p]) /\ Genuine(journal[s][p])
         /\ Position(journal[s][p]) = p
         /\ StreamOf(journal[s][p].event_type) = s
<1>1. /\ StreamOf(journal[s][p].event_type) = s
      /\ journal[s][p].event_type \notin IncidentTypes
      /\ journal[s][p].evidence = {p}
  BY DEF Sourced
<1>2. Genuine(journal[s][p])
  BY <1>1 DEF Genuine
<1> QED
  BY <1>1, <1>2 DEF IsRecord, Position

\* A rule looks at records of the journal its event comes from and at no others.
LEMMA RulesAreLocal ==
  ASSUME NEW e, e.event_type \in RecordTypes, NEW Q, NEW R,
         \A r : IsRecord(r) /\ StreamOf(r.event_type) = StreamOf(e.event_type) =>
                  (r \in Q <=> r \in R)
  PROVE  correlate(e, Q) = correlate(e, R)
<1>1. CASE e.event_type \in SshTypes
  <2>1. \A r : r.event_type = "ssh_login_failed" => (r \in Q <=> r \in R)
    BY <1>1 DEF SshTypes, IsRecord, IncidentTypes, StreamOf
  <2>2. SshFailures(e, Q) = SshFailures(e, R)
    BY <2>1 DEF SshFailures, recent_events
  <2> QED
    BY <1>1, <2>2 DEF correlate, correlate_ssh, SshTypes, PersistenceTypes
<1>2. CASE e.event_type = "firewall_packet_blocked"
  <2>1. \A r : r.event_type = "firewall_packet_blocked" => (r \in Q <=> r \in R)
    BY <1>2 DEF IsRecord, IncidentTypes, StreamOf
  <2>2. Blocked(e, Q) = Blocked(e, R)
    BY <2>1 DEF Blocked, recent_events
  <2>3. correlate_firewall(e, Q) = correlate_firewall(e, R)
    BY <2>2, Zenon DEF correlate_firewall
  <2>4. \A S : correlate(e, S) = correlate_firewall(e, S)
    BY <1>2 DEF correlate, PersistenceTypes, SshTypes
  <2> QED
    BY <2>3, <2>4
<1>3. CASE e.event_type \in PrivilegeTypes \cup {"other"}
  BY <1>3 DEF correlate, PrivilegeTypes, SshTypes, PersistenceTypes
<1> QED
  BY <1>1, <1>2, <1>3 DEF RecordTypes

\* A rule raises one incident at most on a record.
LEMMA OneIncident ==
  ASSUME NEW e, NEW rows, NEW i \in correlate(e, rows), NEW k \in correlate(e, rows)
  PROVE  i = k
<1> DEFINE AtMostOne(S) == \A x, y \in S : x = y
<1>1. AtMostOne(correlate_persistence(e, rows))
  BY DEF correlate_persistence
<1>2. AtMostOne(correlate_firewall(e, rows))
  BY DEF correlate_firewall
<1>3. AtMostOne(correlate_ssh(e, rows))
  BY DEF correlate_ssh
<1>4. AtMostOne({})
  OBVIOUS
<1>5. AtMostOne(correlate(e, rows))
  <2> HIDE DEF AtMostOne
  <2> QED
    BY <1>1, <1>2, <1>3, <1>4, Zenon DEF correlate
<1> QED
  BY <1>5

\* An incident is ingested with correlate=False.
LEMMA IncidentsRaiseNothing ==
  ASSUME NEW e, ~IsRecord(e), NEW rows
  PROVE  correlate(e, rows) = {}
BY DEF IsRecord, correlate, IncidentTypes, PersistenceTypes, SshTypes

-----------------------------------------------------------------------------
\* The journals are in the order of time.
Clocked ==
  \A s \in Streams : \A p \in DOMAIN journal[s] :
    /\ journal[s][p].observed_at <= clock
    /\ \A q \in 1 .. p : journal[s][q].observed_at <= journal[s][p].observed_at

\* The clock never goes back, and a record is logged at the present time.
LEMMA ClockedStep == ShapeInv /\ Clocked /\ [Next]_vars => Clocked'
<1> SUFFICES ASSUME ShapeInv, Clocked, [Next]_vars PROVE Clocked'
  OBVIOUS
<1>1. /\ clock \in Int
      /\ \A s \in Streams : /\ journal[s] \in Seq(Event)
                            /\ Len(journal[s]) \in Nat
                            /\ DOMAIN journal[s] = 1 .. Len(journal[s])
                            /\ \A p \in DOMAIN journal[s] : journal[s][p].observed_at \in Int
  <2>1. \A s \in Streams : /\ journal[s] \in Seq(Event)
                           /\ Len(journal[s]) \in Nat
                           /\ DOMAIN journal[s] = 1 .. Len(journal[s])
    BY Lengths, IngestAssumption
  <2>2. \A e \in Event : e.observed_at \in Int
    BY IngestAssumption DEF Event, Times
  <2> QED
    BY <2>1, <2>2, IngestAssumption DEF ShapeInv, TypeOK
<1>2. ASSUME NEW r \in Records, Log(r) PROVE Clocked'
  <2> DEFINE t == StreamOf(r.event_type)
             record == [event_type |-> r.event_type, subject |-> r.subject,
                        port |-> r.port, observed_at |-> clock,
                        evidence |-> {Len(journal[t]) + 1}]
  <2>1. /\ t \in Streams
        /\ journal' = [journal EXCEPT ![t] = Append(@, record)]
        /\ record.observed_at = clock
        /\ clock' = clock
        /\ journal \in [Streams -> Seq(Event)]
    BY <1>2 DEF Log, StreamOf, Streams, ShapeInv, TypeOK
  <2> HIDE DEF t, record
  <2>2. ASSUME NEW s \in Streams, NEW p \in DOMAIN journal'[s]
        PROVE  /\ journal'[s][p].observed_at <= clock
               /\ \A q \in 1 .. p : journal'[s][q].observed_at <= journal'[s][p].observed_at
    <3>1. CASE s # t
      <4>1. journal'[s] = journal[s]
        BY <2>1, <3>1
      <4> QED
        BY <2>2, <4>1 DEF Clocked
    <3>2. CASE s = t
      <4>1. /\ journal'[s] = Append(journal[s], record)
            /\ DOMAIN journal'[s] = 1 .. Len(journal[s]) + 1
            /\ \A q \in 1 .. Len(journal[s]) : journal'[s][q] = journal[s][q]
            /\ journal'[s][Len(journal[s]) + 1] = record
        BY <1>1, <2>1, <3>2
      <4>2. \A q \in 1 .. Len(journal[s]) : /\ journal'[s][q].observed_at <= clock
                                            /\ journal'[s][q].observed_at \in Int
        BY <1>1, <4>1 DEF Clocked
      <4>3. CASE p = Len(journal[s]) + 1
        <5>1. \A q \in 1 .. p : q \in 1 .. Len(journal[s]) \/ q = p
          BY <1>1, <4>3
        <5> QED
          BY <1>1, <2>1, <4>1, <4>2, <4>3, <5>1
      <4>4. CASE p \in 1 .. Len(journal[s])
        <5>1. \A q \in 1 .. p : q \in 1 .. Len(journal[s])
          BY <4>4
        <5>2. \A q \in 1 .. p : journal[s][q].observed_at <= journal[s][p].observed_at
          BY <1>1, <4>4 DEF Clocked
        <5> QED
          BY <4>1, <4>2, <4>4, <5>1, <5>2
      <4> QED
        BY <1>1, <2>2, <4>1, <4>3, <4>4
    <3> QED
      BY <3>1, <3>2
  <2> QED
    BY <2>1, <2>2 DEF Clocked
<1>3. CASE UNCHANGED journal /\ clock' >= clock /\ clock' \in Int
  BY <1>1, <1>3 DEF Clocked
<1>4. \/ Tick
      \/ UNCHANGED <<journal, clock>>
      \/ \E r \in Records : Log(r)
  BY DEF Next, Step, Begin, NextStream, Turn, Finish, Fetch, FetchFails,
         Checkpoint, add_event, add_decision, Correlate, Abort, Restart, vars
<1>5. Tick => UNCHANGED journal /\ clock' = clock + 1
  BY DEF Tick
<1> QED
  BY <1>1, <1>2, <1>3, <1>4, <1>5

-----------------------------------------------------------------------------
\* A batch is in the order of the journal, but for an incident at its head.
Ordered(q) ==
  \A i, k \in DOMAIN q : i < k =>
    /\ IsRecord(q[k])
    /\ IsRecord(q[i]) => Position(q[i]) < Position(q[k])

\* What follows the head of an ordered batch are records, behind it.
LEMMA OrderedTail ==
  ASSUME NEW q \in Seq(Event), q # <<>>, Ordered(q)
  PROVE  /\ Ordered(Tail(q))
         /\ \A x \in Range(Tail(q)) :
              IsRecord(x) /\ (IsRecord(Head(q)) => Position(Head(q)) < Position(x))
<1>1. /\ Len(q) \in Nat /\ Len(q) >= 1 /\ Head(q) = q[1]
      /\ Tail(q) \in Seq(Event) /\ Len(Tail(q)) = Len(q) - 1
      /\ \A i \in 1 .. Len(Tail(q)) : Tail(q)[i] = q[i + 1]
      /\ DOMAIN q = 1 .. Len(q) /\ DOMAIN Tail(q) = 1 .. Len(Tail(q))
  BY HeadTailProperties, EmptySeq, LenProperties
<1>2. \A i \in DOMAIN Tail(q) : Tail(q)[i] = q[i + 1] /\ i + 1 \in DOMAIN q
  BY <1>1
<1>3. Ordered(Tail(q))
  <2> SUFFICES ASSUME NEW i \in DOMAIN Tail(q), NEW k \in DOMAIN Tail(q), i < k
               PROVE  /\ IsRecord(Tail(q)[k])
                      /\ IsRecord(Tail(q)[i]) => Position(Tail(q)[i]) < Position(Tail(q)[k])
    BY DEF Ordered
  <2>1. i + 1 < k + 1
    BY <1>1
  <2> QED
    BY <1>2, <2>1 DEF Ordered
<1>4. ASSUME NEW x \in Range(Tail(q))
      PROVE  IsRecord(x) /\ (IsRecord(Head(q)) => Position(Head(q)) < Position(x))
  <2>1. PICK i \in DOMAIN Tail(q) : x = Tail(q)[i]
    BY DEF Range
  <2>2. 1 \in DOMAIN q /\ i + 1 \in DOMAIN q /\ 1 < i + 1 /\ x = q[i + 1]
    BY <1>1, <1>2, <2>1
  <2> QED
    BY <1>1, <2>2 DEF Ordered
<1> QED
  BY <1>3, <1>4

\* An incident may be put before an ordered batch.
LEMMA OrderedWithIncident ==
  ASSUME NEW q \in Seq(Event), Ordered(q), \A x \in Range(q) : IsRecord(x),
         NEW i \in Event, ~IsRecord(i)
  PROVE  Ordered(<<i>> \o q)
<1> DEFINE c == <<i>> \o q
<1>1. /\ Len(q) \in Nat /\ DOMAIN q = 1 .. Len(q)
      /\ DOMAIN c = 1 .. Len(q) + 1 /\ c[1] = i
      /\ \A n \in 1 .. Len(q) : c[n + 1] = q[n]
  BY ConcatProperties, LenProperties
<1> HIDE DEF c
<1>2. \A n \in DOMAIN c : n # 1 => n - 1 \in DOMAIN q /\ c[n] = q[n - 1]
  BY <1>1
<1>3. ASSUME NEW n \in DOMAIN c, NEW k \in DOMAIN c, n < k
      PROVE  /\ IsRecord(c[k])
             /\ IsRecord(c[n]) => Position(c[n]) < Position(c[k])
  <2>1. k - 1 \in DOMAIN q /\ c[k] = q[k - 1]
    BY <1>1, <1>2, <1>3
  <2>2. IsRecord(c[k])
    BY <2>1 DEF Range
  <2>3. CASE n = 1
    BY <1>1, <2>2, <2>3
  <2>4. CASE n # 1
    <3>1. n - 1 \in DOMAIN q /\ c[n] = q[n - 1] /\ n - 1 < k - 1
      BY <1>1, <1>2, <1>3, <2>4
    <3> QED
      BY <2>1, <2>2, <3>1 DEF Ordered
  <2> QED
    BY <2>3, <2>4
<1> QED
  BY <1>3 DEF Ordered, c

\* What is fetched is in the order of the journal.
LEMMA FetchOrdered ==
  ASSUME ShapeInv, Sourced, NEW w \in Workers, Fetch(w)
  PROVE  Ordered(todo'[w])
<1> DEFINE j == journal[stream[w]]
           first == FirstRecord(w)
           lines == SubSeq(j, first, Len(j))
           kept == {k \in DOMAIN lines : IsEvent(lines[k])}
           n == Cardinality(kept)
<1>1. /\ stream[w] \in Streams
      /\ Len(j) \in Nat /\ first \in Nat /\ first >= 1
      /\ DOMAIN j = 1 .. Len(j)
      /\ \A p \in 1 .. Len(j) : j[p] \in Event
  BY Lengths, FirstRecordBounds DEF ShapeInv, TypeOK
<1>2. \A p \in DOMAIN j : IsRecord(j[p]) /\ Position(j[p]) = p
  BY <1>1, PositionInJournal
<1>3. PICK batch \in EventsOf(lines) : todo' = [todo EXCEPT ![w] = batch]
  BY DEF Fetch
<1>4. todo'[w] = batch
  BY <1>3 DEF ShapeInv, TypeOK
<1>5. PICK at \in [1 .. n -> kept] :
        /\ \A i, k \in 1 .. n : i < k => at[i] < at[k]
        /\ batch = [i \in 1 .. n |-> lines[at[i]]]
  BY <1>3 DEF EventsOf
<1> HIDE DEF j, first, n
<1>6. /\ Len(lines) = IF first <= Len(j) THEN Len(j) - first + 1 ELSE 0
      /\ \A i \in 1 .. Len(j) - first + 1 : lines[i] = j[first + i - 1]
      /\ DOMAIN lines = 1 .. Len(lines)
  BY <1>1, SubSeqProperties
<1> HIDE DEF lines
<1>7. \A k \in kept : /\ k \in Nat /\ first + k - 1 \in DOMAIN j
                      /\ lines[k] = j[first + k - 1]
  BY <1>1, <1>6
<1>8. \A k \in kept : /\ k \in Nat
                      /\ IsRecord(lines[k]) /\ Position(lines[k]) = first + k - 1
  BY <1>2, <1>7
<1>9. ASSUME NEW i \in 1 .. n, NEW k \in 1 .. n, i < k
      PROVE  /\ IsRecord(batch[k])
             /\ IsRecord(batch[i]) => Position(batch[i]) < Position(batch[k])
  <2> HIDE DEF kept
  <2>1. at[i] \in kept /\ at[k] \in kept /\ at[i] < at[k]
    BY <1>5, <1>9
  <2>2. batch[i] = lines[at[i]] /\ batch[k] = lines[at[k]]
    BY <1>5
  <2>3. first + at[i] - 1 < first + at[k] - 1
    BY <1>1, <1>8, <2>1
  <2> QED
    BY <1>8, <2>1, <2>2, <2>3
<1>10. DOMAIN batch = 1 .. n
  BY <1>5
<1> QED
  BY <1>4, <1>9, <1>10 DEF Ordered

-----------------------------------------------------------------------------
\* Passes do not overlap: one worker at most is in collect_once.
OneAtATime == \A v, w \in Workers : v # w => pc[v] = "idle" \/ pc[w] = "idle"

\* A host with the service loop and nothing else is a case of it.
LEMMA LoopIsAlone ==
  ASSUME NEW u, Workers = {u}
  PROVE  OneAtATime
BY DEF OneAtATime

Alone(u) == \A v \in Workers : v # u => pc[v] = "idle"

\* If a worker does anything in this step, it is u; the others are idle before and after.
Only(u) ==
  /\ Alone(u) /\ Alone(u)'
  /\ \A w \in Workers : Step(w) \/ Abort(w) => w = u

\* A step changes where its own worker is, and a restart makes workers idle.
LEMMA StepsElsewhere ==
  ASSUME ShapeInv, [Next]_vars, NEW v \in Workers
  PROVE  /\ ~(Step(v) \/ Abort(v)) => pc'[v] \in {pc[v], "idle"}
         /\ \A w \in Workers : (Step(w) \/ Abort(w)) /\ w # v => pc'[v] = pc[v]
         /\ (Step(v) \/ Abort(v)) /\ pc[v] = "idle" => pc'[v] = "fetch"
<1>1. pc \in [Workers -> {"idle", "fetch", "save", "add", "decide", "correlate"}]
  BY DEF ShapeInv, TypeOK
<1>2. ASSUME NEW w \in Workers, Step(w) \/ Abort(w)
      PROVE  \E p : pc' = [pc EXCEPT ![w] = p]
  <2>1. CASE add_event(w) /\ Known(Head(todo[w]))
    <3>1. pc' = [pc EXCEPT ![w] = pc[w]]
      BY <1>1, <2>1 DEF add_event
    <3> QED
      BY <3>1
  <2>2. CASE ~(add_event(w) /\ Known(Head(todo[w])))
    BY <1>2, <2>2 DEF Step, Begin, NextStream, Turn, Finish, Fetch, FetchFails, Checkpoint,
       add_event, add_decision, Correlate, Abort, Leave
  <2> QED
    BY <2>1, <2>2
<1>3. \A w \in Workers : (Step(w) \/ Abort(w)) /\ w # v => pc'[v] = pc[v]
  BY <1>1, <1>2
<1>4. ASSUME Step(v) \/ Abort(v), pc[v] = "idle" PROVE pc'[v] = "fetch"
  <2>1. Begin(v)
    BY <1>4 DEF Step, NextStream, Finish, Fetch, FetchFails, Checkpoint, add_event,
       add_decision, Correlate, Abort
  <2> QED
    BY <1>1, <2>1 DEF Begin, Turn
<1>5. ASSUME ~\E w \in Workers : Step(w) \/ Abort(w) PROVE pc'[v] \in {pc[v], "idle"}
  <2>1. pc' = pc \/ \E x \in Services : Restart(x)
    BY <1>5 DEF Next, Tick, Log, vars, local
  <2> QED
    BY <2>1 DEF Restart
<1> QED
  BY <1>3, <1>4, <1>5

\* Where passes do not overlap, there is a worker whose step it is.
LEMMA SomeTurn ==
  ASSUME ShapeInv, OneAtATime, OneAtATime', [Next]_vars
  PROVE  \E u \in Workers : Only(u)
<1>1. ASSUME NEW u \in Workers, Step(u) \/ Abort(u) PROVE Only(u)
  <2>1. \A v \in Workers : v # u => pc'[v] = pc[v]
    BY <1>1, StepsElsewhere
  <2>2. pc[u] # "idle" \/ pc'[u] # "idle"
    BY <1>1, StepsElsewhere
  <2>3. Alone(u) /\ Alone(u)'
    BY <2>1, <2>2 DEF OneAtATime, Alone
  <2>4. ASSUME NEW w \in Workers, Step(w) \/ Abort(w), w # u PROVE FALSE
    <3>1. pc'[w] = pc[w] /\ pc[w] = "idle"
      BY <2>1, <2>3, <2>4 DEF Alone
    <3> QED
      BY <2>4, <3>1, StepsElsewhere
  <2> QED
    BY <2>3, <2>4 DEF Only
<1>2. ASSUME ~\E w \in Workers : Step(w) \/ Abort(w) PROVE \E u \in Workers : Only(u)
  <2>1. PICK u \in Workers : Alone(u)
    BY LoopAssumption DEF OneAtATime, Alone
  <2>2. Alone(u)'
    BY <1>2, <2>1, StepsElsewhere DEF Alone
  <2> QED
    BY <1>2, <2>1, <2>2 DEF Only
<1> QED
  BY <1>1, <1>2

\* The other workers have nothing in hand.
LEMMA Others ==
  ASSUME ShapeInv, [Next]_vars, NEW u \in Workers, Only(u), NEW v \in Workers, v # u
  PROVE  /\ pc[v] = "idle" /\ todo[v] = <<>> /\ Range(todo[v]) = {}
         /\ pc'[v] = "idle" /\ todo'[v] = <<>> /\ Range(todo'[v]) = {}
<1>1. pc[v] = "idle" /\ pc'[v] = "idle"
  BY DEF Only, Alone
<1>2. todo[v] = <<>> /\ todo'[v] = <<>>
  BY <1>1, ShapeStep DEF ShapeInv, Hands
<1> QED
  BY <1>1, <1>2 DEF Range

\* The steps of the one worker, but for the five that change its batch, a row
\* or a cursor, leave all that or end with an empty batch; and no batch that is
\* not empty is let go without a fault.
LEMMA StepsOfOne ==
  ASSUME NEW u \in Workers, ShapeInv, [Next]_vars, Only(u),
         ~(Fetch(u) \/ Checkpoint(u) \/ add_event(u) \/ add_decision(u) \/ Correlate(u))
  PROVE  /\ UNCHANGED <<events, cursor>>
         /\ \/ UNCHANGED <<pc[u], stream[u], after[u], found[u], todo[u]>>
            \/ /\ todo'[u] = <<>> /\ pc'[u] \in {"idle", "fetch", "add"}
               /\ pc'[u] = "fetch" => after'[u] = cursor[stream'[u]]
               /\ faults' = 0 => todo[u] = <<>>
         /\ faults \in Nat /\ faults' \in Nat /\ faults <= faults'
<1> DEFINE Still == UNCHANGED <<pc[u], stream[u], after[u], found[u], todo[u]>>
           Empty == /\ todo'[u] = <<>> /\ pc'[u] \in {"idle", "fetch", "add"}
                    /\ pc'[u] = "fetch" => after'[u] = cursor[stream'[u]]
                    /\ faults' = 0 => todo[u] = <<>>
<1>1. /\ pc \in [Workers -> {"idle", "fetch", "save", "add", "decide", "correlate"}]
      /\ stream \in [Workers -> Streams] /\ after \in [Workers -> 0 .. MaxRecords]
      /\ found \in [Workers -> 0 .. MaxRecords] /\ todo \in [Workers -> Seq(Event)]
      /\ faults \in Nat
      /\ pc[u] \in {"idle", "fetch"} => todo[u] = <<>>
  BY IngestAssumption DEF ShapeInv, TypeOK, Hands
<1>2. CASE Tick \/ (\E r \in Records : Log(r)) \/ UNCHANGED vars
  <2>1. UNCHANGED <<events, cursor, pc, stream, after, found, todo, faults>>
    BY <1>2 DEF Tick, Log, vars, stored, failed, local
  <2> QED
    BY <1>1, <2>1
<1>3. CASE Begin(u) \/ NextStream(u)
  <2>1. PICK s \in Streams : Turn(u, s)
    BY <1>3 DEF Begin, NextStream, Streams
  <2>2. todo[u] = <<>>
    BY <1>1, <1>3 DEF Begin, NextStream
  <2>3. Empty
    BY <1>1, <2>1, <2>2 DEF Turn
  <2> QED
    BY <1>1, <2>1, <2>3 DEF Turn, stored, failed
<1>4. CASE Finish(u)
  BY <1>1, <1>4 DEF Finish, Leave, stored, failed
<1>5. CASE FetchFails(u)
  BY <1>1, <1>5 DEF FetchFails, stored, failed
<1>6. CASE Abort(u)
  BY <1>1, <1>6 DEF Abort, Leave, stored
<1>7. ASSUME NEW v \in Services, Restart(v)
      PROVE  /\ UNCHANGED <<events, cursor>>
             /\ Still \/ Empty
             /\ faults' \in Nat /\ faults <= faults'
  <2> DEFINE mine == {w \in Workers : ServiceOf[w] = v}
             busy == {w \in mine : pc[w] # "idle"}
  <2>1. /\ UNCHANGED <<events, cursor>>
        /\ faults' = faults + Cardinality(busy)
        /\ pc' = [w \in Workers |-> IF w \in mine THEN "idle" ELSE pc[w]]
        /\ stream' = [w \in Workers |-> IF w \in mine THEN "auth" ELSE stream[w]]
        /\ after' = [w \in Workers |-> IF w \in mine THEN 0 ELSE after[w]]
        /\ found' = [w \in Workers |-> IF w \in mine THEN 0 ELSE found[w]]
        /\ todo' = [w \in Workers |-> IF w \in mine THEN <<>> ELSE todo[w]]
    BY <1>7 DEF Restart, stored
  <2>2. busy = {} \/ busy = {u}
    BY DEF Only, Alone
  <2>3. Cardinality(busy) = IF busy = {} THEN 0 ELSE 1
    <3> HIDE DEF busy
    <3> QED
      BY <2>2, FS_EmptySet, FS_Singleton
  <2>4. CASE u \notin mine
    <3>1. Still
      BY <1>1, <2>1, <2>4
    <3> QED
      BY <1>1, <2>1, <2>3, <3>1
  <2>5. CASE u \in mine
    <3>1. pc[u] # "idle" => busy # {}
      BY <2>5
    <3> HIDE DEF busy
    <3>2. faults' = 0 => pc[u] = "idle"
      BY <1>1, <2>1, <2>3, <3>1
    <3>3. Empty
      BY <1>1, <2>1, <2>5, <3>2
    <3> QED
      BY <1>1, <2>1, <2>3, <3>3
  <2> QED
    BY <2>4, <2>5
<1> HIDE DEF Still, Empty
<1>8. \/ Tick \/ (\E r \in Records : Log(r)) \/ UNCHANGED vars
      \/ Begin(u) \/ NextStream(u) \/ Finish(u) \/ FetchFails(u) \/ Abort(u)
      \/ \E v \in Services : Restart(v)
  BY DEF Next, Only, Step
<1> QED
  BY <1>1, <1>2, <1>3, <1>4, <1>5, <1>6, <1>7, <1>8 DEF Still, Empty

\* The batch of a worker next to the cursor it read and to the rows.
Batched(w) ==
  /\ Ordered(todo[w])
  /\ \A x \in Range(todo[w]) : IsRecord(x) => StreamOf(x.event_type) = stream[w]
  /\ pc[w] \in {"fetch", "save"} => after[w] = cursor[stream[w]]
  /\ pc[w] = "save" =>
       /\ after[w] <= found[w]
       /\ \A x \in Range(todo[w]) :
            IsRecord(x) /\ after[w] < Position(x) /\ Position(x) <= found[w]
  /\ pc[w] # "save" =>
       \A x \in Range(todo[w]) : IsRecord(x) => Position(x) <= cursor[stream[w]]
  /\ \A r \in events, x \in Range(todo[w]) :
       IsRecord(r) /\ IsRecord(x) /\ StreamOf(r.event_type) = stream[w] =>
         \/ Position(r) < Position(x)
         \/ r = x /\ Judging(w) /\ x = Head(todo[w])

\* No row lies beyond the stored cursor, and none behind what a batch still holds.
InOrder ==
  /\ \A r \in events : IsRecord(r) => Position(r) <= cursor[StreamOf(r.event_type)]
  /\ \A w \in Workers : Batched(w)

\* An idle worker has an empty batch.
LEMMA OthersBatched ==
  ASSUME ShapeInv, [Next]_vars, NEW u \in Workers, Only(u)
  PROVE  \A v \in Workers : v # u => Batched(v)'
<1> SUFFICES ASSUME NEW v \in Workers, v # u PROVE Batched(v)'
  OBVIOUS
<1>1. pc'[v] = "idle" /\ todo'[v] = <<>> /\ Range(todo'[v]) = {}
  BY Others
<1>2. Ordered(todo'[v])
  BY <1>1 DEF Ordered
<1> QED
  BY <1>1, <1>2 DEF Batched

\* A fetch takes up what lies beyond the stored cursor, in its order.
LEMMA InOrderFetch ==
  ASSUME NEW u \in Workers, ShapeInv, Sourced, InOrder, [Next]_vars, Only(u), Fetch(u)
  PROVE  InOrder'
<1> DEFINE s == stream[u]
           j == journal[s]
<1>1. /\ s \in Streams /\ after[u] \in Nat
      /\ Len(j) \in Nat /\ DOMAIN j = 1 .. Len(j) /\ after[u] <= Len(j)
      /\ FirstRecord(u) \in 1 .. Len(j) + 1
      /\ after[u] > 0 => FirstRecord(u) = after[u] + 1
  <2>1. s \in Streams /\ after[u] \in Nat /\ after[u] <= Len(j)
    BY IngestAssumption DEF ShapeInv, TypeOK, Extents
  <2>2. Len(j) \in Nat /\ DOMAIN j = 1 .. Len(j)
    BY <2>1, Lengths, IngestAssumption
  <2>3. u \in Workers
    OBVIOUS
  <2> QED
    BY <2>1, <2>2, <2>3, FirstRecordBounds, Zenon
<1>2. /\ UNCHANGED <<events, cursor, stream, after>>
      /\ pc[u] = "fetch" /\ pc'[u] = "save"
      /\ found'[u] = IF SubSeq(j, FirstRecord(u), Len(j)) = <<>> THEN after[u] ELSE Len(j)
      /\ after[u] = cursor[s]
  BY DEF Fetch, ShapeInv, TypeOK, stored, InOrder, Batched
<1>3. Ordered(todo'[u])
  BY FetchOrdered
<1>4. ASSUME NEW x \in Range(todo'[u])
      PROVE  /\ IsRecord(x) /\ StreamOf(x.event_type) = s
             /\ Position(x) \in Nat /\ after[u] < Position(x) /\ Position(x) <= found'[u]
  <2>1. PICK p \in FirstRecord(u) .. Len(j) : x = j[p]
    BY FetchedBatch
  <2> HIDE DEF j, s
  <2>2. p \in DOMAIN j /\ after[u] < p
    BY <1>1
  <2>3. IsRecord(x) /\ Position(x) = p /\ StreamOf(x.event_type) = s
    BY <1>1, <2>1, <2>2, PositionInJournal DEF j
  <2>4. SubSeq(j, FirstRecord(u), Len(j)) # <<>>
    <3>1. j \in Seq(Event)
      BY <1>1, Lengths DEF j
    <3>2. Len(SubSeq(j, FirstRecord(u), Len(j))) = Len(j) - FirstRecord(u) + 1
      BY <1>1, <3>1, SubSeqProperties
    <3>3. Len(j) - FirstRecord(u) + 1 # 0
      BY <1>1
    <3> QED
      BY <3>2, <3>3
  <2>5. found'[u] = Len(j)
    BY <1>2, <2>4
  <2> QED
    BY <1>1, <2>2, <2>3, <2>5
<1>5. after[u] <= found'[u]
  BY <1>1, <1>2
<1>6. ASSUME NEW r \in events, IsRecord(r), StreamOf(r.event_type) = s,
             NEW x \in Range(todo'[u])
      PROVE  Position(r) < Position(x)
  <2>1. Position(r) \in Nat
    BY <1>6, Placed DEF Sourced
  <2>2. Position(r) <= after[u]
    BY <1>2, <1>6 DEF InOrder
  <2> QED
    BY <1>1, <1>4, <2>1, <2>2
<1>7. Batched(u)'
  BY <1>2, <1>3, <1>4, <1>5, <1>6 DEF Batched
<1> QED
  BY <1>2, <1>7, OthersBatched DEF InOrder

\* The stored cursor moves beyond the batch before any of it is a row.
LEMMA InOrderCheckpoint ==
  ASSUME NEW u \in Workers, ShapeInv, Sourced, InOrder, [Next]_vars, Only(u), Checkpoint(u)
  PROVE  InOrder'
<1> DEFINE s == stream[u]
<1>1. /\ s \in Streams /\ cursor \in [Streams -> 0 .. MaxRecords]
      /\ after[u] \in Nat /\ found[u] \in Nat
      /\ \A t \in Streams : cursor[t] \in Nat
  BY IngestAssumption DEF ShapeInv, TypeOK
<1>2. /\ UNCHANGED <<events, todo, stream, after, found>>
      /\ pc[u] = "save" /\ pc'[u] = "add"
      /\ cursor' = IF found[u] = 0 THEN cursor ELSE [cursor EXCEPT ![s] = found[u]]
  BY DEF Checkpoint, ShapeInv, TypeOK, stored
<1>3. /\ Ordered(todo[u])
      /\ after[u] = cursor[s] /\ after[u] <= found[u]
      /\ \A x \in Range(todo[u]) : /\ IsRecord(x) /\ StreamOf(x.event_type) = s
                                   /\ after[u] < Position(x) /\ Position(x) <= found[u]
      /\ \A r \in events, x \in Range(todo[u]) :
           IsRecord(r) /\ StreamOf(r.event_type) = s => Position(r) < Position(x)
  BY <1>2 DEF InOrder, Batched, Judging
<1>4. /\ cursor'[s] = found[u]
      /\ \A t \in Streams : cursor'[t] \in Nat /\ cursor[t] <= cursor'[t]
  <2> HIDE DEF s
  <2>1. CASE found[u] = 0
    BY <1>1, <1>2, <1>3, <2>1
  <2>2. CASE found[u] # 0
    BY <1>1, <1>2, <1>3, <2>2
  <2> QED
    BY <2>1, <2>2
<1>5. Batched(u)'
  BY <1>2, <1>3, <1>4 DEF Batched
<1>6. ASSUME NEW r \in events, IsRecord(r)
      PROVE  Position(r) <= cursor'[StreamOf(r.event_type)]
  <2>1. StreamOf(r.event_type) \in Streams /\ Position(r) \in Nat
    BY <1>6, Placed DEF Sourced
  <2>2. Position(r) <= cursor[StreamOf(r.event_type)]
    BY <1>6 DEF InOrder
  <2> QED
    BY <1>1, <1>4, <2>1, <2>2
<1> QED
  BY <1>2, <1>5, <1>6, OthersBatched DEF InOrder

\* The row that is added lies before the rest of the batch.
LEMMA InOrderAddEvent ==
  ASSUME NEW u \in Workers, ShapeInv, Sourced, InOrder, [Next]_vars, Only(u), add_event(u)
  PROVE  InOrder'
<1> DEFINE e == Head(todo[u])
<1>1. /\ todo[u] \in Seq(Event) /\ todo[u] # <<>>
      /\ e \in Range(todo[u])
      /\ Range(todo[u]) = {e} \cup Range(Tail(todo[u]))
  BY HeadAndTail DEF ShapeInv, TypeOK, add_event
<1>2. /\ UNCHANGED <<cursor, stream, after, found>>
      /\ pc[u] = "add"
  BY DEF add_event
<1>3. Batched(u)
  BY DEF InOrder
<1>4. /\ Ordered(Tail(todo[u]))
      /\ \A x \in Range(Tail(todo[u])) :
           IsRecord(x) /\ (IsRecord(e) => Position(e) < Position(x))
  BY <1>1, <1>3, OrderedTail DEF Batched
<1>5. CASE Known(e)
  <2>1. todo'[u] = Tail(todo[u]) /\ UNCHANGED <<events, pc>>
    BY <1>5 DEF add_event, ShapeInv, TypeOK
  <2>2. Batched(u)'
    BY <1>1, <1>2, <1>3, <1>4, <2>1 DEF Batched, Judging
  <2> QED
    BY <1>2, <2>1, <2>2, OthersBatched DEF InOrder
<1>6. CASE ~Known(e)
  <2>1. events' = events \cup {e} /\ pc'[u] = "decide" /\ todo' = todo
    BY <1>6 DEF add_event, ShapeInv, TypeOK
  <2>2. ASSUME NEW r \in events', NEW x \in Range(todo[u]),
               IsRecord(r), IsRecord(x), StreamOf(r.event_type) = stream[u]
        PROVE  Position(r) < Position(x) \/ (r = x /\ x = e)
    <3>1. CASE r \in events
      BY <1>2, <1>3, <2>2, <3>1 DEF Batched, Judging
    <3>2. CASE r = e
      BY <1>1, <1>4, <2>2, <3>2
    <3> QED
      BY <2>1, <3>1, <3>2
  <2>3. Batched(u)'
    BY <1>2, <1>3, <2>1, <2>2 DEF Batched, Judging
  <2>4. ASSUME NEW r \in events', IsRecord(r)
        PROVE  Position(r) <= cursor[StreamOf(r.event_type)]
    <3>1. CASE r \in events
      BY <2>4, <3>1 DEF InOrder
    <3>2. CASE r = e
      BY <1>1, <1>2, <1>3, <2>4, <3>2 DEF Batched
    <3> QED
      BY <2>1, <3>1, <3>2
  <2> QED
    BY <1>2, <2>3, <2>4, OthersBatched DEF InOrder
<1> QED
  BY <1>5, <1>6

\* Correlation leaves the rest of the batch, behind an incident at most.
LEMMA InOrderCorrelate ==
  ASSUME NEW u \in Workers, ShapeInv, Sourced, InOrder, [Next]_vars, Only(u), Correlate(u)
  PROVE  InOrder'
<1> DEFINE e == Head(todo[u])
           rest == Tail(todo[u])
<1>1. /\ todo[u] \in Seq(Event) /\ todo[u] # <<>>
      /\ e \in Event /\ rest \in Seq(Event)
      /\ Range(todo[u]) = {e} \cup Range(rest)
  BY HeadAndTail DEF ShapeInv, TypeOK, Correlate
<1>2. /\ UNCHANGED <<events, cursor, stream, after, found>>
      /\ pc[u] = "correlate" /\ pc'[u] = "add"
  BY DEF Correlate, ShapeInv, TypeOK, stored
<1>3. Batched(u)
  BY DEF InOrder
<1>4. /\ Ordered(rest)
      /\ \A x \in Range(rest) : IsRecord(x) /\ (IsRecord(e) => Position(e) < Position(x))
  BY <1>1, <1>3, OrderedTail DEF Batched
<1>5. /\ Ordered(todo'[u])
      /\ \A x \in Range(todo'[u]) : x \in Range(rest) \/ ~IsRecord(x)
  <2>1. CASE todo' = [todo EXCEPT ![u] = Tail(@)]
    BY <1>4, <2>1 DEF ShapeInv, TypeOK
  <2>2. ASSUME NEW i \in correlate(e, events), todo' = [todo EXCEPT ![u] = <<i>> \o Tail(@)]
        PROVE  /\ Ordered(todo'[u])
               /\ \A x \in Range(todo'[u]) : x \in Range(rest) \/ ~IsRecord(x)
    <3>1. i \in Event /\ ~IsRecord(i)
      BY <1>1, IncidentRaised DEF ShapeInv, TypeOK, IsRecord
    <3>2. todo'[u] = <<i>> \o rest
      BY <2>2 DEF ShapeInv, TypeOK
    <3>3. Ordered(<<i>> \o rest)
      BY <1>1, <1>4, <3>1, OrderedWithIncident
    <3>4. Range(<<i>> \o rest) = {i} \cup Range(rest)
      <4>1. rest \in Seq(Event) /\ i \in Event
        BY <1>1, <3>1
      <4> HIDE DEF rest
      <4> QED
        BY <4>1, PutFirst
    <3>5. Ordered(todo'[u]) /\ Range(todo'[u]) = {i} \cup Range(rest)
      BY <3>2, <3>3, <3>4, Zenon
    <3> QED
      BY <3>1, <3>5
  <2> QED
    BY <2>1, <2>2 DEF Correlate
<1>6. ASSUME NEW r \in events, NEW x \in Range(rest), IsRecord(r),
             StreamOf(r.event_type) = stream[u]
      PROVE  Position(r) < Position(x)
  <2>1. CASE r = x /\ x = e
    <3>1. IsRecord(e) /\ Position(e) < Position(e)
      BY <1>4, <1>6, <2>1
    <3>2. Position(e) \in Nat
      BY <1>6, <2>1, Placed DEF Sourced
    <3> QED
      BY <3>1, <3>2
  <2>2. CASE ~(r = x /\ x = e)
    BY <1>1, <1>3, <1>4, <1>6, <2>2 DEF Batched
  <2> QED
    BY <2>1, <2>2
<1>7. Batched(u)'
  BY <1>1, <1>2, <1>3, <1>5, <1>6 DEF Batched
<1> QED
  BY <1>2, <1>7, OthersBatched DEF InOrder

\* InOrder is kept by every step: the others add no row and put nothing into a batch.
LEMMA InOrderStep ==
  ASSUME NEW u \in Workers, ShapeInv, Sourced, InOrder, [Next]_vars, Only(u)
  PROVE  InOrder'
<1>1. CASE add_decision(u)
  <2>1. /\ UNCHANGED <<events, cursor, stream, after, found, todo>>
        /\ pc[u] = "decide" /\ pc'[u] = "correlate"
    BY <1>1 DEF add_decision, ShapeInv, TypeOK
  <2>2. Batched(u)'
    BY <2>1 DEF InOrder, Batched, Judging
  <2> QED
    BY <2>1, <2>2, OthersBatched DEF InOrder
<1>2. CASE ~(Fetch(u) \/ Checkpoint(u) \/ add_event(u) \/ add_decision(u) \/ Correlate(u))
  <2>1. UNCHANGED <<events, cursor>>
    BY <1>2, StepsOfOne
  <2>2. CASE UNCHANGED <<pc[u], stream[u], after[u], found[u], todo[u]>>
    <3>1. Batched(u)'
      BY <2>1, <2>2 DEF InOrder, Batched, Judging
    <3> QED
      BY <2>1, <3>1, OthersBatched DEF InOrder
  <2>3. CASE /\ todo'[u] = <<>> /\ pc'[u] \in {"idle", "fetch", "add"}
             /\ pc'[u] = "fetch" => after'[u] = cursor[stream'[u]]
    <3>1. Range(todo'[u]) = {} /\ Ordered(todo'[u])
      BY <2>3 DEF Range, Ordered
    <3>2. Batched(u)'
      BY <2>1, <2>3, <3>1 DEF Batched
    <3> QED
      BY <2>1, <3>2, OthersBatched DEF InOrder
  <2> QED
    BY <1>2, <2>2, <2>3, StepsOfOne
<1> QED
  BY <1>1, <1>2, InOrderFetch, InOrderCheckpoint, InOrderAddEvent, InOrderCorrelate

-----------------------------------------------------------------------------
\* What the rules raise on e next to the records up to it.
UpToRow(e) == {r \in events : IsRecord(r) /\ Position(r) <= Position(e)}

Implied(e) == correlate(e, UpToRow(e))

\* A row that is added lies behind the ones that are there.
LEMMA ImpliedKept ==
  ASSUME NEW u \in Workers, ShapeInv, Sourced, InOrder, [Next]_vars, Only(u),
         NEW e \in events, IsRecord(e)
  PROVE  Implied(e)' = Implied(e)
<1>1. e \in Event /\ e.event_type \in RecordTypes /\ Position(e) \in Nat
  BY TypesOfRecords, Placed DEF Sourced
<1>2. ASSUME NEW r, IsRecord(r), StreamOf(r.event_type) = StreamOf(e.event_type)
      PROVE  r \in UpToRow(e) <=> r \in UpToRow(e)'
  <2>1. CASE r \in events
    <3>1. events \subseteq events'
      BY DEF Next, Step, Tick, Log, Begin, NextStream, Turn, Finish, Fetch, FetchFails,
             Checkpoint, add_event, add_decision, Correlate, Abort, Restart, vars, stored
    <3> QED
      BY <2>1, <3>1 DEF UpToRow
  <2>2. CASE r \notin events /\ r \in events'
    <3>1. r \in Range(todo[u]) /\ ~Known(r)
      BY <2>2, RowStep, Others
    <3>2. Position(r) \in Nat
      BY <1>2, <3>1, Placed DEF Sourced
    <3>3. Batched(u)
      BY DEF InOrder
    <3>4. StreamOf(r.event_type) = stream[u]
      BY <1>2, <3>1, <3>3 DEF Batched
    <3>5. Position(e) < Position(r) \/ e = r
      BY <1>2, <3>1, <3>3, <3>4 DEF Batched
    <3>6. ~(Position(r) <= Position(e))
      BY <1>1, <2>2, <3>2, <3>5
    <3> QED
      BY <2>2, <3>6 DEF UpToRow
  <2>3. CASE r \notin events /\ r \notin events'
    BY <2>3 DEF UpToRow
  <2> QED
    BY <2>1, <2>2, <2>3
<1>3. correlate(e, UpToRow(e)) = correlate(e, UpToRow(e)')
  BY <1>1, <1>2, RulesAreLocal
<1> QED
  BY <1>3 DEF Implied

\* The query over all rows finds those up to the event.
LEMMA CorrelateImplied ==
  ASSUME NEW u \in Workers, ShapeInv, Sourced, InOrder, Correlate(u),
         IsRecord(Head(todo[u]))
  PROVE  correlate(Head(todo[u]), events) = Implied(Head(todo[u]))
<1> DEFINE e == Head(todo[u])
<1>1. /\ e \in Range(todo[u]) /\ e \in Event
      /\ Genuine(e)
  BY HeadAndTail DEF Sourced, Correlate, ShapeInv, TypeOK
<1>2. Batched(u)
  BY DEF InOrder
<1>3. StreamOf(e.event_type) = stream[u]
  BY <1>1, <1>2 DEF Batched
<1> HIDE DEF e
<1>4. e.event_type \in RecordTypes /\ Position(e) \in Nat
  BY <1>1, TypesOfRecords, Placed DEF e
<1>5. ASSUME NEW r, IsRecord(r), StreamOf(r.event_type) = StreamOf(e.event_type)
      PROVE  r \in events <=> r \in UpToRow(e)
  <2>1. ASSUME r \in events PROVE Position(r) <= Position(e)
    <3>1. Position(r) < Position(e) \/ r = e
      BY <1>1, <1>2, <1>3, <1>5, <2>1 DEF Batched, e
    <3>2. Position(r) \in Nat
      BY <1>5, <2>1, Placed DEF Sourced
    <3> QED
      BY <1>4, <3>1, <3>2
  <2> QED
    BY <1>5, <2>1 DEF UpToRow
<1>6. correlate(e, events) = correlate(e, UpToRow(e))
  BY <1>4, <1>5, RulesAreLocal
<1> QED
  BY <1>6 DEF Implied, e

\* Every incident, stored or on its way, is one that the rules raise on a row.
Founded ==
  \A i : ~IsRecord(i) /\ (i \in events \/ \E w \in Workers : i \in Range(todo[w])) =>
    \E e \in events : IsRecord(e) /\ i \in Implied(e)

\* Correlate looks at all rows, which end at its event: what it raises is implied.
LEMMA FoundedStep ==
  ASSUME NEW u \in Workers, ShapeInv, Sourced, InOrder, Founded, [Next]_vars, Only(u)
  PROVE  Founded'
<1> SUFFICES ASSUME NEW i, ~IsRecord(i), i \in events' \/ i \in Range(todo'[u])
             PROVE  \E e \in events' : IsRecord(e) /\ i \in Implied(e)'
  BY Others DEF Founded
<1>1. events \subseteq events'
  BY DEF Next, Step, Tick, Log, Begin, NextStream, Turn, Finish, Fetch, FetchFails,
         Checkpoint, add_event, add_decision, Correlate, Abort, Restart, vars, stored
<1>2. ASSUME NEW e \in events, IsRecord(e), i \in Implied(e)
      PROVE  \E r \in events' : IsRecord(r) /\ i \in Implied(r)'
  BY <1>1, <1>2, ImpliedKept
<1>3. CASE i \in events \/ i \in Range(todo[u])
  BY <1>2, <1>3 DEF Founded
<1>4. CASE i \in events' /\ i \notin events
  <2>1. i \in Range(todo[u])
    BY <1>4, RowStep, Others
  <2> QED
    BY <1>3, <2>1
<1>5. CASE i \in Range(todo'[u]) /\ i \notin Range(todo[u])
  <2>1. CASE Fetch(u)
    <3>1. PICK p \in FirstRecord(u) .. Len(journal[stream[u]]) : i = journal[stream[u]][p]
      BY <1>5, <2>1, FetchedBatch
    <3>2. stream[u] \in Streams /\ p \in DOMAIN journal[stream[u]]
      <4>1. /\ stream[u] \in Streams
            /\ FirstRecord(u) \in 1 .. Len(journal[stream[u]]) + 1
        BY FirstRecordBounds DEF ShapeInv, TypeOK
      <4>2. /\ Len(journal[stream[u]]) \in 0 .. MaxRecords
            /\ DOMAIN journal[stream[u]] = 1 .. Len(journal[stream[u]])
        BY <4>1, Lengths
      <4> QED
        BY <4>1, <4>2, IngestAssumption
    <3>3. IsRecord(i)
      BY <3>1, <3>2, PositionInJournal
    <3> QED
      BY <3>3
  <2>2. CASE Correlate(u)
    <3> DEFINE e == Head(todo[u])
    <3>1. /\ todo[u] \in Seq(Event) /\ todo[u] # <<>>
          /\ e \in Event /\ Tail(todo[u]) \in Seq(Event)
          /\ Range(todo[u]) = {e} \cup Range(Tail(todo[u]))
          /\ e \in events
      BY <2>2, HeadAndTail DEF ShapeInv, TypeOK, Correlate, Hands, Judging
    <3>2. i \in correlate(e, events)
      <4>1. CASE todo' = [todo EXCEPT ![u] = Tail(@)]
        BY <1>5, <3>1, <4>1 DEF ShapeInv, TypeOK
      <4>2. ASSUME NEW k \in correlate(e, events),
                   todo' = [todo EXCEPT ![u] = <<k>> \o Tail(@)]
            PROVE  i \in correlate(e, events)
        <5> DEFINE rest == Tail(todo[u])
        <5>1. todo'[u] = <<k>> \o rest
          BY <4>2 DEF ShapeInv, TypeOK
        <5>2. k \in Event /\ rest \in Seq(Event)
          BY <3>1, IncidentRaised DEF ShapeInv, TypeOK
        <5> HIDE DEF rest
        <5>3. Range(<<k>> \o rest) = {k} \cup Range(rest)
          BY <5>2, PutFirst
        <5>4. i = k
          BY <1>5, <3>1, <5>1, <5>3 DEF rest
        <5> QED
          BY <5>4
      <4> QED
        BY <2>2, <4>1, <4>2 DEF Correlate
    <3>3. IsRecord(e)
      BY <3>2, IncidentsRaiseNothing
    <3>4. i \in Implied(e)
      BY <2>2, <3>2, <3>3, CorrelateImplied
    <3> QED
      BY <1>2, <3>1, <3>3, <3>4
  <2>3. CASE add_event(u) \/ add_decision(u) \/ Checkpoint(u)
    <3>1. todo'[u] = todo[u] \/ (todo[u] # <<>> /\ todo'[u] = Tail(todo[u]))
      BY <2>3 DEF add_event, add_decision, Checkpoint, ShapeInv, TypeOK
    <3> QED
      BY <1>5, <3>1, HeadAndTail DEF ShapeInv, TypeOK
  <2>4. CASE ~(Fetch(u) \/ Checkpoint(u) \/ add_event(u) \/ add_decision(u) \/ Correlate(u))
    <3>1. todo'[u] = todo[u] \/ todo'[u] = <<>>
      BY <2>4, StepsOfOne
    <3> QED
      BY <1>5, <3>1 DEF Range
  <2> QED
    BY <2>1, <2>2, <2>3, <2>4
<1> QED
  BY <1>3, <1>4, <1>5

\* While nothing was dropped, whatever the rules raise on a row that was correlated
\* is a row or on its way.
Drawn ==
  faults = 0 =>
    \A e \in events : IsRecord(e) =>
      \/ \E w \in Workers : Judging(w) /\ Head(todo[w]) = e
      \/ \A i \in Implied(e) : Known(i) \/ \E w \in Workers : i \in Range(todo[w])

\* An event is judged and then correlated, and what that raises waits before the rest.
LEMMA DrawnStep ==
  ASSUME NEW u \in Workers, ShapeInv, Sourced, InOrder, Drawn, [Next]_vars, Only(u)
  PROVE  Drawn'
<1> DEFINE Other == ~(Fetch(u) \/ Checkpoint(u) \/ add_event(u) \/ add_decision(u)
                        \/ Correlate(u))
<1> SUFFICES ASSUME faults' = 0, NEW e \in events', IsRecord(e),
                    ~(Judging(u)' /\ Head(todo'[u]) = e), NEW i \in Implied(e)'
             PROVE  Known(i)' \/ i \in Range(todo'[u])
  BY DEF Drawn
<1>1. /\ events \subseteq events'
      /\ Known(i) => Known(i)'
  <2>1. events \subseteq events'
    BY DEF Next, Step, Tick, Log, Begin, NextStream, Turn, Finish, Fetch, FetchFails,
           Checkpoint, add_event, add_decision, Correlate, Abort, Restart, vars, stored
  <2> QED
    BY <2>1 DEF Known
<1>2. faults = 0
  <2>1. CASE Other
    <3>1. faults \in Nat /\ faults' \in Nat /\ faults <= faults'
      BY <2>1, StepsOfOne
    <3> QED
      BY <3>1
  <2>2. CASE ~Other
    <3>1. faults' = faults
      BY <2>2 DEF Fetch, Checkpoint, add_event, add_decision, Correlate, failed
    <3> QED
      BY <3>1
  <2> QED
    BY <2>1, <2>2
<1>3. /\ todo[u] \in Seq(Event)
      /\ todo[u] # <<>> => /\ Head(todo[u]) \in Range(todo[u])
                           /\ Tail(todo[u]) \in Seq(Event)
                           /\ Range(todo[u]) = {Head(todo[u])} \cup Range(Tail(todo[u]))
      /\ Range(<<>>) = {}
  <2>1. Range(<<>>) = {}
    BY DEF Range
  <2> QED
    BY <2>1, HeadAndTail DEF ShapeInv, TypeOK
<1>4. CASE e \notin events
  <2>1. add_event(u)
    BY <1>4 DEF Next, Only, Step, Tick, Log, Begin, NextStream, Turn, Finish, Fetch, FetchFails,
           Checkpoint, add_decision, Correlate, Abort, Restart, vars, stored
  <2>2. e = Head(todo[u]) /\ pc'[u] = "decide" /\ todo' = todo
    BY <1>4, <2>1 DEF add_event, ShapeInv, TypeOK
  <2> QED
    BY <2>2 DEF Judging
<1>5. CASE e \in events
  <2>1. i \in Implied(e)
    BY <1>5, ImpliedKept
  <2>2. CASE Judging(u) /\ Head(todo[u]) = e
    <3>1. CASE add_decision(u)
      BY <2>2, <3>1 DEF add_decision, Judging, ShapeInv, TypeOK
    <3>2. CASE Correlate(u)
      <4>1. i \in correlate(e, events)
        BY <2>1, <2>2, <3>2, CorrelateImplied
      <4>2. PICK k \in correlate(e, events) :
              todo' = [todo EXCEPT ![u] = <<k>> \o Tail(@)]
        BY <2>2, <3>2, <4>1 DEF Correlate
      <4>3. k = i
        BY <4>1, <4>2, OneIncident
      <4> DEFINE rest == Tail(todo[u])
      <4>4. i \in Event /\ rest \in Seq(Event)
        <5>1. e \in Event /\ events \in SUBSET Event
          BY <1>5 DEF ShapeInv, TypeOK
        <5>2. todo[u] # <<>>
          BY <3>2 DEF Correlate, ShapeInv, TypeOK
        <5> QED
          BY <1>3, <4>1, <5>1, <5>2, IncidentRaised
      <4>5. todo'[u] = <<i>> \o rest
        BY <4>2, <4>3 DEF ShapeInv, TypeOK
      <4> HIDE DEF rest
      <4>6. Range(<<i>> \o rest) = {i} \cup Range(rest)
        BY <4>4, PutFirst
      <4> QED
        BY <4>5, <4>6
    <3>3. CASE Other
      <4>1. todo[u] # <<>>
        BY <2>2 DEF Judging, ShapeInv, TypeOK
      <4>2. UNCHANGED <<pc[u], todo[u]>>
        BY <3>3, <4>1, StepsOfOne
      <4> QED
        BY <2>2, <4>2 DEF Judging
    <3> QED
      BY <2>2, <3>1, <3>2, <3>3 DEF Fetch, Checkpoint, add_event, Judging
  <2>3. CASE i \in Range(todo[u])
    <3>0. todo[u] # <<>>
      BY <1>3, <2>3
    <3>1. CASE Fetch(u)
      BY <3>0, <3>1 DEF Fetch, ShapeInv, Hands
    <3>2. CASE Checkpoint(u) \/ add_decision(u)
      BY <2>3, <3>2 DEF Checkpoint, add_decision
    <3>3. CASE add_event(u)
      <4>1. CASE i = Head(todo[u])
        BY <3>3, <4>1 DEF add_event, Known
      <4>2. CASE i # Head(todo[u])
        <5>1. todo'[u] = todo[u] \/ todo'[u] = Tail(todo[u])
          BY <3>3 DEF add_event, ShapeInv, TypeOK
        <5> QED
          BY <1>3, <2>3, <3>0, <4>2, <5>1
      <4> QED
        BY <4>1, <4>2
    <3>4. CASE Correlate(u)
      <4>1. CASE i = Head(todo[u])
        <5>1. i \in events
          BY <3>4, <4>1 DEF Correlate, Judging, ShapeInv, Hands
        <5> QED
          BY <1>1, <5>1 DEF Known
      <4>2. CASE i # Head(todo[u])
        <5> DEFINE rest == Tail(todo[u])
        <5>1. i \in Range(rest) /\ rest \in Seq(Event)
          BY <1>3, <2>3, <3>0, <4>2
        <5>2. ASSUME NEW k \in correlate(Head(todo[u]), events)
              PROVE  i \in Range(<<k>> \o rest)
          <6>1. Head(todo[u]) \in Event
            BY <1>3, <3>0, HeadAndTail
          <6>2. k \in Event
            BY <6>1, IncidentRaised DEF ShapeInv, TypeOK
          <6> HIDE DEF rest
          <6>3. Range(<<k>> \o rest) = {k} \cup Range(rest)
            BY <5>1, <6>2, PutFirst
          <6> QED
            BY <5>1, <6>3
        <5>3. \/ todo'[u] = rest
              \/ \E k \in correlate(Head(todo[u]), events) : todo'[u] = <<k>> \o rest
          BY <3>4 DEF Correlate, ShapeInv, TypeOK
        <5> QED
          BY <5>1, <5>2, <5>3, Zenon
      <4> QED
        BY <4>1, <4>2
    <3>5. CASE Other
      BY <2>3, <3>0, <3>5, StepsOfOne
    <3> QED
      BY <3>1, <3>2, <3>3, <3>4, <3>5
  <2>4. \A v \in Workers : v # u => ~Judging(v) /\ Range(todo[v]) = {}
    BY Others DEF Judging
  <2> QED
    BY <1>1, <1>2, <1>5, <2>1, <2>2, <2>3, <2>4 DEF Drawn
<1> QED
  BY <1>4, <1>5

-----------------------------------------------------------------------------
OrderInv == ShapeInv /\ Sourced /\ Clocked /\ InOrder /\ Founded /\ Drawn

\* OrderInv holds at the start.
LEMMA OrderInit == Init => OrderInv
<1> SUFFICES ASSUME Init PROVE OrderInv
  OBVIOUS
<1>1. Range(<<>>) = {} /\ Ordered(<<>>)
  BY DEF Range, Ordered
<1>2. Sourced /\ Clocked /\ Founded /\ Drawn
  BY <1>1 DEF Init, Sourced, Clocked, Founded, Drawn
<1>3. InOrder
  BY <1>1 DEF Init, InOrder, Batched
<1> QED
  BY <1>2, <1>3, ShapeInit DEF OrderInv

\* OrderInv is kept by every step that leaves one worker busy at most.
LEMMA OrderStep ==
  ASSUME OrderInv, OneAtATime, OneAtATime', [Next]_vars
  PROVE  OrderInv'
<1>1. PICK u \in Workers : Only(u)
  BY SomeTurn DEF OrderInv
<1> QED
  BY <1>1, ShapeStep, SourcedStep, ClockedStep, InOrderStep, FoundedStep, DrawnStep
     DEF OrderInv

-----------------------------------------------------------------------------
\* The rows are the records of a journal, one at a position.
LEMMA RowsPlaced ==
  ASSUME OrderInv, NEW r \in events, IsRecord(r)
  PROVE  /\ r \in Event /\ r.evidence = {Position(r)} /\ Position(r) \in Nat
         /\ StreamOf(r.event_type) \in Streams
         /\ Position(r) \in 1 .. Len(journal[StreamOf(r.event_type)])
         /\ journal[StreamOf(r.event_type)][Position(r)] = r
BY Placed DEF OrderInv, Sourced

\* Rows of a journal are as late as their positions say.
LEMMA RowTimes ==
  ASSUME OrderInv, NEW e \in events, NEW r \in events, IsRecord(e), IsRecord(r),
         StreamOf(e.event_type) = StreamOf(r.event_type), Position(r) <= Position(e)
  PROVE  /\ r.observed_at \in Int /\ e.observed_at \in Int
         /\ r.observed_at <= e.observed_at
<1> DEFINE s == StreamOf(e.event_type)
<1>1. /\ s \in Streams /\ Position(e) \in DOMAIN journal[s]
      /\ journal[s][Position(e)] = e /\ journal[s][Position(r)] = r
      /\ Position(r) \in 1 .. Position(e)
  <2>1. /\ s \in Streams /\ Position(e) \in 1 .. Len(journal[s])
        /\ journal[s][Position(e)] = e /\ journal[s][Position(r)] = r
        /\ Position(r) \in 1 .. Len(journal[s])
    BY RowsPlaced
  <2>2. DOMAIN journal[s] = 1 .. Len(journal[s]) /\ Len(journal[s]) \in Nat
    BY <2>1, Lengths, IngestAssumption DEF OrderInv
  <2> QED
    BY <2>1, <2>2
<1>2. r.observed_at <= e.observed_at
  BY <1>1 DEF OrderInv, Clocked
<1>3. e \in Event /\ r \in Event
  BY RowsPlaced
<1> QED
  BY <1>2, <1>3, IngestAssumption DEF Event, Times

\* The window of a rule, in the words of UpTo.
LEMMA Windows ==
  ASSUME OrderInv, NEW e \in events, IsRecord(e)
  PROVE  /\ e.event_type \in SshTypes =>
              SshFailures(e, UpToRow(e)) = UpTo("ssh_login_failed", e)
         /\ e.event_type = "firewall_packet_blocked" =>
              Blocked(e, UpToRow(e)) = UpTo("firewall_packet_blocked", e)
<1>1. \A r \in Event : r.observed_at \in Int
  BY IngestAssumption DEF Event, Times
<1>2. \A r \in events : r.observed_at \in Int
  BY <1>1 DEF OrderInv, ShapeInv, TypeOK
<1>3. \A r \in events :
        (r.observed_at >= e.observed_at - SshWindow)
          <=> (e.observed_at - r.observed_at <= SshWindow)
  BY <1>2, RulesAssumption
<1>4. \A r \in events : r.event_type \in {"ssh_login_failed", "firewall_packet_blocked"}
                          => IsRecord(r)
  BY DEF IsRecord, IncidentTypes
<1> QED
  BY <1>3, <1>4 DEF SshFailures, Blocked, recent_events, UpToRow, UpTo, Rows

\* The evidence of an alarm is where its rows are.
LEMMA EvidenceIsPositions ==
  ASSUME OrderInv, NEW R, R \subseteq events, \A r \in R : IsRecord(r)
  PROVE  UNION {r.evidence : r \in R} = Positions(R)
<1>1. \A r \in R : r.evidence = {Position(r)}
  BY RowsPlaced
<1> QED
  BY <1>1 DEF Positions

\* An incident of a rule has its row once everything is ingested.
LEMMA AlarmRaised ==
  ASSUME OrderInv, Settled, NEW e \in events, IsRecord(e),
         NEW i \in Implied(e)
  PROVE  Known(i)
<1>1. faults = 0 /\ \A w \in Workers : todo[w] = <<>>
  BY DEF Settled
<1>2. \A w \in Workers : ~Judging(w)
  BY <1>1 DEF Judging, OrderInv, ShapeInv, TypeOK
<1>3. \A w \in Workers : Range(todo[w]) = {}
  BY <1>1 DEF Range
<1> QED
  BY <1>1, <1>2, <1>3 DEF OrderInv, Drawn

\* What a rule raises on a row has an alarm once nothing is under way.
LEMMA AlarmOf ==
  ASSUME OrderInv, Settled, NEW e \in events, IsRecord(e),
         NEW type, NEW R, R \subseteq events, \A r \in R : IsRecord(r),
         Incident(type, e.subject, e, R) \in Implied(e)
  PROVE  Alarm(type, e.subject, R)
<1> DEFINE i == Incident(type, e.subject, e, R)
<1>1. i.event_type = type /\ i.subject = e.subject /\ i.evidence = Positions(R)
  BY EvidenceIsPositions DEF Incident
<1>2. i \in Implied(e)
  OBVIOUS
<1> HIDE DEF i
<1>3. PICK r \in events : fingerprint(r) = fingerprint(i)
  BY <1>2, AlarmRaised DEF Known
<1>4. r.event_type = type /\ r.subject = e.subject /\ r.evidence = Positions(R)
  BY <1>1, <1>3 DEF fingerprint
<1> QED
  BY <1>4 DEF Alarm, Rows

\* Where passes do not overlap, ssh_failures_then_success never rests on a failure that
\* came after the login, although the query has no upper end.
THEOREM FailuresAreFirst ==
  Spec /\ []OneAtATime => []FailuresComeFirst
<1>1. OrderInv /\ OneAtATime /\ OneAtATime' /\ [Next]_vars => OrderInv'
  BY OrderStep
<1>2. OrderInv => FailuresComeFirst
  <2> SUFFICES ASSUME OrderInv, NEW i \in events,
                      i.event_type = "ssh_failures_then_success", NEW p \in i.evidence
               PROVE  journal["auth"][p].observed_at <= i.observed_at
    BY DEF FailuresComeFirst
  <2>1. PICK e \in events : IsRecord(e) /\ i \in Implied(e)
    BY DEF OrderInv, Founded, IsRecord, IncidentTypes
  <2>2. e.event_type \in RecordTypes
    BY <2>1, RowsPlaced, TypesOfRecords
  <2>3. /\ e.event_type = "ssh_login_succeeded"
        /\ i = Incident("ssh_failures_then_success", e.subject, e,
                        SshFailures(e, UpToRow(e)))
    <3>1. \A R : i \in correlate_firewall(e, R) => i.event_type = "port_scan"
      BY DEF correlate_firewall, Incident
    <3>2. i \in correlate_ssh(e, UpToRow(e))
      <4>1. e.event_type \notin PersistenceTypes
        BY <2>2 DEF RecordTypes, PersistenceTypes, SshTypes, PrivilegeTypes
      <4>2. i \in correlate(e, UpToRow(e))
        BY <2>1 DEF Implied
      <4>3. e.event_type # "firewall_packet_blocked"
        <5>1. ASSUME e.event_type = "firewall_packet_blocked"
              PROVE  i \in correlate_firewall(e, UpToRow(e))
          BY <4>1, <4>2, <5>1 DEF correlate, SshTypes
        <5> QED
          BY <3>1, <5>1
      <4> QED
        BY <4>1, <4>2, <4>3 DEF correlate
    <3>3. /\ ~(e.event_type = "ssh_login_failed"
                 /\ Cardinality(SshFailures(e, UpToRow(e))) = BruteForce)
          /\ i \in {Incident("ssh_failures_then_success", e.subject, e,
                             SshFailures(e, UpToRow(e)))}
          /\ e.event_type = "ssh_login_succeeded"
      BY <3>2 DEF correlate_ssh, Incident
    <3> QED
      BY <3>3
  <2>4. SshFailures(e, UpToRow(e)) = UpTo("ssh_login_failed", e)
    BY <2>1, <2>3, Windows DEF SshTypes
  <2>5. PICK r \in UpTo("ssh_login_failed", e) : p \in r.evidence
    BY <2>3, <2>4 DEF Incident
  <2>6. /\ r \in events /\ r.event_type = "ssh_login_failed" /\ IsRecord(r)
        /\ Position(r) <= Position(e)
    BY <2>5 DEF UpTo, Rows, IsRecord, IncidentTypes
  <2>7. p = Position(r) /\ journal["auth"][p] = r
    BY <2>5, <2>6, RowsPlaced DEF StreamOf
  <2>8. r.observed_at <= e.observed_at
    BY <2>1, <2>3, <2>6, RowTimes DEF StreamOf
  <2> QED
    BY <2>3, <2>7, <2>8 DEF Incident
<1> QED
  BY <1>1, <1>2, OrderInit, PTL DEF Spec

\* Where passes do not overlap, it makes no difference how they cut the journals: the
\* alarms are those the stored records yield one at a time in the order of the journals.
THEOREM PollingIsIrrelevant ==
  Spec /\ []OneAtATime => []PollingIrrelevant
<1>1. OrderInv /\ OneAtATime /\ OneAtATime' /\ [Next]_vars => OrderInv'
  BY OrderStep
<1>2. OrderInv => PollingIrrelevant
  <2> SUFFICES ASSUME OrderInv, Settled PROVE PollingIrrelevant
    BY DEF PollingIrrelevant
  <2> DEFINE records == {e \in events : e.event_type \notin IncidentTypes}
             before(e) == {r \in records : Position(r) <= Position(e)}
             implied == UNION {correlate(e, before(e)) : e \in records}
  <2>1. \A e \in records : before(e) = UpToRow(e) /\ correlate(e, before(e)) = Implied(e)
    <3> SUFFICES ASSUME NEW e \in records PROVE before(e) = UpToRow(e)
      BY DEF Implied
    <3> QED
      BY DEF UpToRow, IsRecord
  <2> HIDE DEF before
  <2>2. ASSUME NEW i \in events \ records
        PROVE  fingerprint(i) \in {fingerprint(k) : k \in implied}
    <3>1. PICK e \in events : IsRecord(e) /\ i \in Implied(e)
      BY <2>2 DEF OrderInv, Founded, IsRecord
    <3>2. e \in records /\ i \in correlate(e, before(e))
      BY <2>1, <3>1 DEF IsRecord
    <3> QED
      BY <3>2
  <2>3. ASSUME NEW i \in implied
        PROVE  fingerprint(i) \in {fingerprint(k) : k \in events \ records}
    <3>1. PICK e \in records : i \in Implied(e)
      BY <2>1
    <3>2. e \in events /\ IsRecord(e)
      BY DEF IsRecord
    <3>3. PICK r \in events : fingerprint(r) = fingerprint(i)
      BY <3>1, <3>2, AlarmRaised DEF Known
    <3>4. i.event_type \in IncidentTypes
      <4>1. e \in Event /\ UpToRow(e) \in SUBSET Event
        BY <3>2 DEF OrderInv, ShapeInv, TypeOK, UpToRow
      <4> QED
        BY <3>1, <4>1, IncidentRaised DEF Implied
    <3>5. r.event_type = i.event_type
      BY <3>3 DEF fingerprint
    <3> QED
      BY <3>3, <3>4, <3>5
  <2>4. {fingerprint(i) : i \in events \ records} = {fingerprint(i) : i \in implied}
    <3> HIDE DEF implied, records
    <3> QED
      BY <2>2, <2>3
  <2> QED
    BY <2>4 DEF PollingIrrelevant, before
<1> QED
  BY <1>1, <1>2, OrderInit, PTL DEF Spec

\* Where passes do not overlap and nothing is dropped, every login that fell into the window of
\* failures has its alarm.
THEOREM BreakInsAreReported ==
  Spec /\ []OneAtATime => []BreakInsReported
<1>1. OrderInv /\ OneAtATime /\ OneAtATime' /\ [Next]_vars => OrderInv'
  BY OrderStep
<1>2. OrderInv => BreakInsReported
  <2> SUFFICES ASSUME OrderInv, Settled, NEW e \in events,
                      e.event_type = "ssh_login_succeeded",
                      UpTo("ssh_login_failed", e) # {}
               PROVE  Alarm("ssh_failures_then_success", e.subject,
                            UpTo("ssh_login_failed", e))
    BY DEF BreakInsReported
  <2> DEFINE F == UpTo("ssh_login_failed", e)
             i == Incident("ssh_failures_then_success", e.subject, e, F)
  <2>1. IsRecord(e)
    BY DEF IsRecord, IncidentTypes
  <2>2. SshFailures(e, UpToRow(e)) = F
    BY <2>1, Windows DEF SshTypes
  <2>3. i \in Implied(e)
    <3>1. Implied(e) = correlate_ssh(e, UpToRow(e))
      BY DEF Implied, correlate, PersistenceTypes, SshTypes
    <3> HIDE DEF F
    <3>2. correlate_ssh(e, UpToRow(e)) = {i}
      BY <2>2 DEF correlate_ssh, F
    <3> QED
      BY <3>1, <3>2
  <2>4. F \subseteq events /\ \A r \in F : IsRecord(r)
    BY DEF UpTo, Rows, IsRecord, IncidentTypes
  <2> HIDE DEF F
  <2>5. Alarm("ssh_failures_then_success", e.subject, F)
    BY <2>1, <2>3, <2>4, AlarmOf
  <2> QED
    BY <2>5 DEF F
<1> QED
  BY <1>1, <1>2, OrderInit, PTL DEF Spec

-----------------------------------------------------------------------------
\* A count over a window that slides from row to row grows by one at most, so a
\* rule that compares for equality does not miss the threshold.
Windowed == {"ssh_login_failed", "firewall_packet_blocked"}

\* The rows a windowed rule counts are records at their positions.
LEMMA RowsWindowed ==
  ASSUME OrderInv, NEW t \in Windowed, NEW x, NEW r \in Rows(t, x)
  PROVE  /\ r \in events /\ r.event_type = t /\ r.subject = x /\ IsRecord(r)
         /\ Position(r) \in Nat
         /\ StreamOf(t) \in Streams
         /\ Position(r) \in DOMAIN journal[StreamOf(t)]
         /\ journal[StreamOf(t)][Position(r)] = r
<1>1. r \in events /\ r.event_type = t /\ r.subject = x /\ IsRecord(r)
  BY DEF Rows, Windowed, IsRecord, IncidentTypes
<1>2. /\ StreamOf(t) \in Streams /\ Position(r) \in Nat
      /\ Position(r) \in 1 .. Len(journal[StreamOf(t)])
      /\ journal[StreamOf(t)][Position(r)] = r
  BY <1>1, RowsPlaced
<1>3. DOMAIN journal[StreamOf(t)] = 1 .. Len(journal[StreamOf(t)])
  BY <1>2, Lengths DEF OrderInv
<1> QED
  BY <1>1, <1>2, <1>3

\* A window holds finitely many rows.
LEMMA WindowFinite ==
  ASSUME OrderInv, NEW t \in Windowed, NEW e
  PROVE  IsFiniteSet(UpTo(t, e))
<1> DEFINE j == journal[StreamOf(t)]
           S == {j[p] : p \in DOMAIN j}
<1>1. StreamOf(t) \in Streams
  BY DEF StreamOf, Streams
<1>2. j \in Seq(Event) /\ DOMAIN j = 1 .. Len(j) /\ Len(j) \in Nat
  BY <1>1, Lengths, IngestAssumption DEF OrderInv
<1>3. IsFiniteSet(DOMAIN j)
  BY <1>2, FS_Interval
<1>4. IsFiniteSet(S)
  <2>1. j \in Surjection(DOMAIN j, S)
    BY <1>2 DEF Surjection
  <2> HIDE DEF j, S
  <2> QED
    BY <1>3, <2>1, FS_Surjection
<1>5. UpTo(t, e) \subseteq S
  <2> SUFFICES ASSUME NEW r \in UpTo(t, e) PROVE r \in S
    OBVIOUS
  <2>1. r \in Rows(t, e.subject)
    BY DEF UpTo
  <2>2. Position(r) \in DOMAIN j /\ j[Position(r)] = r
    BY <2>1, RowsWindowed
  <2> QED
    BY <2>2
<1> HIDE DEF S
<1> QED
  BY <1>4, <1>5, FS_Subset

\* From one row to the next a window gains one row at most.
LEMMA WindowSlides ==
  ASSUME OrderInv, NEW t \in Windowed, NEW x, NEW g \in Rows(t, x)
  PROVE  /\ (\A h \in Rows(t, x) : Position(g) <= Position(h)) => UpTo(t, g) \subseteq {g}
         /\ \A h \in Rows(t, x) :
              /\ Position(h) < Position(g)
              /\ \A k \in Rows(t, x) : Position(k) < Position(g) => Position(k) <= Position(h)
              => UpTo(t, g) \subseteq UpTo(t, h) \cup {g}
<1>1. \A r \in UpTo(t, g) : /\ r \in Rows(t, x) /\ Position(r) <= Position(g)
                            /\ g.observed_at - r.observed_at <= SshWindow
  BY RowsWindowed DEF UpTo
<1>2. \A r \in Rows(t, x) : Position(r) \in Nat
  BY RowsWindowed
<1>3. \A r \in Rows(t, x) : Position(r) = Position(g) => r = g
  BY RowsWindowed
<1>4. ASSUME \A h \in Rows(t, x) : Position(g) <= Position(h)
      PROVE  UpTo(t, g) \subseteq {g}
  BY <1>1, <1>2, <1>3, <1>4
<1>5. ASSUME NEW h \in Rows(t, x), Position(h) < Position(g),
             \A k \in Rows(t, x) : Position(k) < Position(g) => Position(k) <= Position(h),
             NEW r \in UpTo(t, g), r # g
      PROVE  r \in UpTo(t, h)
  <2>1. r \in Rows(t, x) /\ Position(r) <= Position(h)
    BY <1>1, <1>2, <1>3, <1>5
  <2>2. /\ h.observed_at \in Int /\ g.observed_at \in Int
        /\ h.observed_at <= g.observed_at
    <3>1. /\ g \in events /\ h \in events /\ IsRecord(g) /\ IsRecord(h)
          /\ g.event_type = t /\ h.event_type = t /\ Position(h) <= Position(g)
      BY <1>2, <1>5, RowsWindowed
    <3> QED
      BY <3>1, RowTimes
  <2>3. r.observed_at \in Int
    <3>1. r \in events /\ IsRecord(r)
      BY <2>1, RowsWindowed
    <3>2. r \in Event
      BY <3>1, RowsPlaced
    <3> QED
      BY <3>2, IngestAssumption DEF Event, Times
  <2>4. h.observed_at - r.observed_at <= SshWindow
    BY <1>1, <1>5, <2>2, <2>3, RulesAssumption
  <2>5. h.subject = x
    BY RowsWindowed
  <2> QED
    BY <2>1, <2>4, <2>5 DEF UpTo
<1> QED
  BY <1>4, <1>5

\* Full rows up to e begin at a row whose window has one row more than that of a
\* row that is not full, or none but itself.
LEMMA FirstFull ==
  ASSUME OrderInv, NEW t \in Windowed, NEW x, NEW Fulls, NEW e \in Rows(t, x), e \in Fulls
  PROVE  \E g \in Rows(t, x) :
           /\ g \in Fulls /\ Position(g) <= Position(e)
           /\ \A h \in Rows(t, x) : Position(h) \in Position(g) .. Position(e) => h \in Fulls
           /\ \/ UpTo(t, g) \subseteq {g}
              \/ \E h \in Rows(t, x) : h \notin Fulls /\ UpTo(t, g) \subseteq UpTo(t, h) \cup {g}
<1> DEFINE P == {Position(h) : h \in Rows(t, x)}
           F == {Position(h) : h \in {h \in Rows(t, x) : h \in Fulls}}
<1>1. \A h \in Rows(t, x) : Position(h) \in Nat
  BY RowsWindowed
<1>2. \A h, k \in Rows(t, x) : Position(h) = Position(k) => h = k
  BY RowsWindowed
<1>3. P \subseteq Nat /\ Position(e) \in P /\ Position(e) \in F
  BY <1>1
<1>4. \A h \in Rows(t, x) : Position(h) \in P /\ (Position(h) \in F <=> h \in Fulls)
  BY <1>2
<1>5. \A p \in P : \E h \in Rows(t, x) : p = Position(h)
  OBVIOUS
<1> DEFINE n == Position(e)
<1> HIDE DEF P, F, n
<1>6. PICK p \in P : Begins(p, P, F, n)
  <2>1. P \subseteq Nat /\ n \in P /\ n \in F
    BY <1>3 DEF n
  <2> QED
    BY <2>1, Stretch
<1>7. PICK g \in Rows(t, x) : p = Position(g)
  BY <1>5
<1>8. \A h \in Rows(t, x) : Position(h) \in Position(g) .. Position(e) => h \in Fulls
  BY <1>4, <1>6, <1>7 DEF n, Begins
<1>9. g \in Fulls /\ Position(g) <= Position(e)
  <2>1. Position(g) \in Position(g) .. Position(e)
    BY <1>1, <1>6, <1>7 DEF n, Begins
  <2> QED
    BY <1>6, <1>7, <1>8, <2>1 DEF n, Begins
<1>10. CASE \A h \in P : p <= h
  <2>1. UpTo(t, g) \subseteq {g}
    BY <1>4, <1>7, <1>10, WindowSlides
  <2> QED
    BY <1>8, <1>9, <2>1
<1>11. CASE \E h \in P : h < p /\ h \notin F /\ \A k \in P : k < p => k <= h
  <2>1. PICK q \in P : q < p /\ q \notin F /\ \A k \in P : k < p => k <= q
    BY <1>11
  <2>2. PICK h \in Rows(t, x) : q = Position(h)
    BY <1>5
  <2>3. h \notin Fulls /\ UpTo(t, g) \subseteq UpTo(t, h) \cup {g}
    BY <1>4, <1>7, <2>1, <2>2, WindowSlides
  <2> QED
    BY <1>8, <1>9, <2>3
<1> QED
  BY <1>6, <1>10, <1>11 DEF Begins

\* Nor is a threshold of at least one passed over.
LEMMA OneMore ==
  ASSUME NEW A, NEW B, NEW c, IsFiniteSet(B), A \subseteq B \cup {c},
         NEW n \in Nat, Cardinality(A) >= n,
         Cardinality(B) < n
  PROVE  Cardinality(A) = n
<1>1. /\ IsFiniteSet(B \cup {c})
      /\ Cardinality(B) \in Nat
      /\ Cardinality(B \cup {c}) <= Cardinality(B) + 1
  BY FS_AddElement, FS_CardinalityType
<1>2. /\ IsFiniteSet(A) /\ Cardinality(A) <= Cardinality(B \cup {c})
  BY <1>1, FS_Subset
<1>3. Cardinality(A) \in Nat /\ Cardinality(B \cup {c}) \in Nat
  BY <1>1, <1>2, FS_CardinalityType
<1> QED
  BY <1>1, <1>2, <1>3

\* Where passes do not overlap and nothing is dropped, no attack goes unnoticed: a burst
\* of failures that reaches the threshold has its alarm, although the rule asks for exactly as many.
THEOREM BurstsAreReported ==
  Spec /\ []OneAtATime => []BurstsReported
<1>1. OrderInv /\ OneAtATime /\ OneAtATime' /\ [Next]_vars => OrderInv'
  BY OrderStep
<1>2. OrderInv => BurstsReported
  <2> DEFINE t == "ssh_login_failed"
             Full(h) == Cardinality(UpTo(t, h)) >= BruteForce
  <2> SUFFICES ASSUME OrderInv, Settled, NEW e \in events, e.event_type = t, Full(e)
               PROVE  \E g \in Rows(t, e.subject) :
                        /\ Unbroken(t, g, e, Full)
                        /\ Alarm("ssh_bruteforce", e.subject, UpTo(t, g))
    BY DEF BurstsReported
  <2> DEFINE Fulls == {h \in Rows(t, e.subject) : Full(h)}
  <2>1. e \in Rows(t, e.subject) /\ e \in Fulls /\ t \in Windowed
    BY DEF Rows, Windowed
  <2>2. PICK g \in Rows(t, e.subject) :
          /\ g \in Fulls /\ Position(g) <= Position(e)
          /\ \A h \in Rows(t, e.subject) :
               Position(h) \in Position(g) .. Position(e) => h \in Fulls
          /\ \/ UpTo(t, g) \subseteq {g}
             \/ \E h \in Rows(t, e.subject) :
                  h \notin Fulls /\ UpTo(t, g) \subseteq UpTo(t, h) \cup {g}
    <3> HIDE DEF Fulls
    <3> QED
      BY <2>1, FirstFull
  <2>3. Unbroken(t, g, e, Full)
    BY <2>2 DEF Unbroken
  <2>4. Cardinality(UpTo(t, g)) = BruteForce
    <3>1. CASE UpTo(t, g) \subseteq {g}
      <4>1. UpTo(t, g) \subseteq {} \cup {g}
        BY <3>1
      <4>2. IsFiniteSet({}) /\ Cardinality({}) < BruteForce
        BY FS_EmptySet, RulesAssumption
      <4>3. BruteForce \in Nat /\ Cardinality(UpTo(t, g)) >= BruteForce
        BY <2>2, RulesAssumption
      <4> HIDE DEF t
      <4> QED
        BY <4>1, <4>2, <4>3, OneMore
    <3>2. ASSUME NEW h \in Rows(t, e.subject), h \notin Fulls,
                 UpTo(t, g) \subseteq UpTo(t, h) \cup {g}
          PROVE  Cardinality(UpTo(t, g)) = BruteForce
      <4>1. IsFiniteSet(UpTo(t, h))
        BY <2>1, WindowFinite
      <4>2. Cardinality(UpTo(t, h)) < BruteForce
        BY <3>2, <4>1, FS_CardinalityType, RulesAssumption
      <4> QED
        BY <2>2, <3>2, <4>1, <4>2, OneMore, RulesAssumption
    <3> QED
      BY <2>2, <3>1, <3>2
  <2>5. Alarm("ssh_bruteforce", e.subject, UpTo(t, g))
    <3> DEFINE W == UpTo(t, g)
               i == Incident("ssh_bruteforce", g.subject, g, W)
    <3>1. g \in events /\ g.event_type = t /\ g.subject = e.subject /\ IsRecord(g)
      BY <2>1, RowsWindowed
    <3>2. SshFailures(g, UpToRow(g)) = W
      BY <3>1, Windows DEF SshTypes
    <3>3. i \in Implied(g)
      <4>1. Implied(g) = correlate_ssh(g, UpToRow(g))
        BY <3>1 DEF Implied, correlate, PersistenceTypes, SshTypes
      <4> HIDE DEF W
      <4>2. correlate_ssh(g, UpToRow(g)) = {i}
        BY <2>4, <3>1, <3>2 DEF correlate_ssh, W
      <4> QED
        BY <4>1, <4>2
    <3>4. W \subseteq events /\ \A r \in W : IsRecord(r)
      BY DEF UpTo, Rows, IsRecord, IncidentTypes
    <3> HIDE DEF W
    <3>5. Alarm("ssh_bruteforce", g.subject, W)
      BY <3>1, <3>3, <3>4, AlarmOf
    <3> QED
      BY <3>1, <3>5 DEF W
  <2> QED
    BY <2>3, <2>5
<1> QED
  BY <1>1, <1>2, OrderInit, PTL DEF Spec

\* Finitely many rows name finitely many ports.
LEMMA PortsFinite ==
  ASSUME NEW S, IsFiniteSet(S)
  PROVE  IsFiniteSet(PortsOf(S))
<1> DEFINE port == [r \in S |-> r.port]
           T == {r.port : r \in S}
<1>1. port \in Surjection(S, T)
  BY DEF Surjection
<1> HIDE DEF port
<1>2. IsFiniteSet(T)
  BY <1>1, FS_Surjection
<1> QED
  BY <1>2, FS_Subset DEF PortsOf

\* Nor does a port scan: one whose ports reach the threshold within a window has
\* its alarm.
THEOREM ScansAreReported ==
  Spec /\ []OneAtATime => []ScansReported
<1>1. OrderInv /\ OneAtATime /\ OneAtATime' /\ [Next]_vars => OrderInv'
  BY OrderStep
<1>2. OrderInv => ScansReported
  <2> DEFINE t == "firewall_packet_blocked"
             Full(h) == Cardinality(PortsOf(UpTo(t, h))) >= ScanPorts
  <2> SUFFICES ASSUME OrderInv, Settled, NEW e \in events, e.event_type = t,
                      e.subject # NoSource, Full(e)
               PROVE  \E g \in Rows(t, e.subject) :
                        /\ Unbroken(t, g, e, Full)
                        /\ Alarm("port_scan", e.subject, UpTo(t, g))
    BY DEF ScansReported
  <2> DEFINE Fulls == {h \in Rows(t, e.subject) : Full(h)}
  <2>1. e \in Rows(t, e.subject) /\ e \in Fulls /\ t \in Windowed
    BY DEF Rows, Windowed
  <2>2. PICK g \in Rows(t, e.subject) :
          /\ g \in Fulls /\ Position(g) <= Position(e)
          /\ \A h \in Rows(t, e.subject) :
               Position(h) \in Position(g) .. Position(e) => h \in Fulls
          /\ \/ UpTo(t, g) \subseteq {g}
             \/ \E h \in Rows(t, e.subject) :
                  h \notin Fulls /\ UpTo(t, g) \subseteq UpTo(t, h) \cup {g}
    <3> HIDE DEF Fulls
    <3> QED
      BY <2>1, FirstFull
  <2>3. Unbroken(t, g, e, Full)
    BY <2>2 DEF Unbroken
  <2>4. Cardinality(PortsOf(UpTo(t, g))) = ScanPorts
    <3>0. ScanPorts \in Nat /\ Cardinality(PortsOf(UpTo(t, g))) >= ScanPorts
      BY <2>2, RulesAssumption
    <3>1. CASE UpTo(t, g) \subseteq {g}
      <4>1. PortsOf(UpTo(t, g)) \subseteq {} \cup {g.port}
        BY <3>1 DEF PortsOf
      <4>2. IsFiniteSet({}) /\ Cardinality({}) < ScanPorts
        BY FS_EmptySet, RulesAssumption
      <4> HIDE DEF t
      <4> QED
        BY <3>0, <4>1, <4>2, OneMore
    <3>2. ASSUME NEW h \in Rows(t, e.subject), h \notin Fulls,
                 UpTo(t, g) \subseteq UpTo(t, h) \cup {g}
          PROVE  Cardinality(PortsOf(UpTo(t, g))) = ScanPorts
      <4>1. IsFiniteSet(PortsOf(UpTo(t, h)))
        BY <2>1, WindowFinite, PortsFinite
      <4>2. Cardinality(PortsOf(UpTo(t, h))) < ScanPorts
        BY <3>2, <4>1, FS_CardinalityType, RulesAssumption
      <4>3. PortsOf(UpTo(t, g)) \subseteq PortsOf(UpTo(t, h)) \cup {g.port}
        BY <3>2 DEF PortsOf
      <4> HIDE DEF t
      <4> QED
        BY <3>0, <4>1, <4>2, <4>3, OneMore
    <3> QED
      BY <2>2, <3>1, <3>2
  <2>5. Alarm("port_scan", e.subject, UpTo(t, g))
    <3> DEFINE W == UpTo(t, g)
               i == Incident("port_scan", g.subject, g, W)
    <3>1. g \in events /\ g.event_type = t /\ g.subject = e.subject /\ IsRecord(g)
      BY <2>1, RowsWindowed
    <3>2. Blocked(g, UpToRow(g)) = W
      BY <3>1, Windows
    <3>3. i \in Implied(g)
      <4>1. Implied(g) = correlate_firewall(g, UpToRow(g))
        BY <3>1 DEF Implied, correlate, PersistenceTypes, SshTypes
      <4>2. Cardinality(PortsOf(W)) = ScanPorts
        BY <2>4
      <4> HIDE DEF W
      <4>3. correlate_firewall(g, UpToRow(g)) = {i}
        BY <3>1, <3>2, <4>2 DEF correlate_firewall
      <4> QED
        BY <4>1, <4>3
    <3>4. W \subseteq events /\ \A r \in W : IsRecord(r)
      BY DEF UpTo, Rows, IsRecord, IncidentTypes
    <3> HIDE DEF W
    <3>5. Alarm("port_scan", g.subject, W)
      BY <3>1, <3>3, <3>4, AlarmOf
    <3> QED
      BY <3>1, <3>5 DEF W
  <2> QED
    BY <2>3, <2>5
<1> QED
  BY <1>1, <1>2, OrderInit, PTL DEF Spec
=============================================================================
