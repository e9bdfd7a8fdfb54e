---------------------------- MODULE IngestProofs ----------------------------
(***************************************************************************)
(* Safety of the journal collection, for any finite number of workers and  *)
(* services, any records and any bounds.  ShapeInv is the typing and what  *)
(* is in a worker's hands when; the other invariants are inductive next to *)
(* it.  OneJudge and UndecidedInFlight are inductive themselves.  For      *)
(* AlarmsDistinct one has to know that an event in a batch is a line of    *)
(* the journal or an incident of a rule (Sourced), for CursorAccounted     *)
(* that every position a worker may still store is accounted for           *)
(* (CursorsAccounted), since a slow worker sets the cursor back.           *)
(***************************************************************************)
EXTENDS Ingest, FiniteSetTheorems, SequenceTheorems, TLAPS

-----------------------------------------------------------------------------
\* The sequences and operators the actions are built from.
LEMMA HeadAndTail ==
  ASSUME NEW S, NEW s \in Seq(S), s # <<>>
  PROVE  /\ Head(s) \in S /\ Head(s) \in Range(s)
         /\ Tail(s) \in Seq(S)
         /\ Range(s) = {Head(s)} \cup Range(Tail(s))
<1>1. /\ Head(s) \in S /\ Tail(s) \in Seq(S)
      /\ Head(s) = s[1]
      /\ Len(s) \in Nat /\ Len(s) >= 1 /\ Len(Tail(s)) = Len(s) - 1
      /\ \A i \in 1 .. Len(Tail(s)) : Tail(s)[i] = s[i + 1]
  BY HeadTailProperties, EmptySeq
<1>2. /\ Range(s) = {s[i] : i \in 1 .. Len(s)}
      /\ Range(Tail(s)) = {Tail(s)[i] : i \in 1 .. Len(Tail(s))}
  BY <1>1, RangeEquality
<1>3. \A x \in Range(s) : x = Head(s) \/ x \in Range(Tail(s))
  <2> TAKE x \in Range(s)
  <2>1. PICK i \in 1 .. Len(s) : x = s[i]
    BY <1>2
  <2>2. CASE i = 1
    BY <2>1, <2>2, <1>1
  <2>3. CASE i # 1
    <3>1. i - 1 \in 1 .. Len(Tail(s)) /\ Tail(s)[i - 1] = s[i]
      BY <1>1, <2>3
    <3> QED
      BY <3>1, <2>1, <1>2
  <2> QED
    BY <2>2, <2>3
<1>4. \A x \in Range(Tail(s)) : x \in Range(s)
  BY <1>1, <1>2
<1>5. Head(s) \in Range(s)
  BY <1>1, <1>2
<1> QED
  BY <1>1, <1>3, <1>4, <1>5

LEMMA PutFirst ==
  ASSUME NEW S, NEW x \in S, NEW s \in Seq(S)
  PROVE  /\ <<x>> \o s \in Seq(S) /\ <<x>> \o s # <<>>
         /\ Range(<<x>> \o s) = {x} \cup Range(s)
<1>1. /\ <<x>> \in Seq(S) /\ Len(<<x>>) = 1 /\ <<x>>[1] = x
      /\ <<x>> \o s \in Seq(S)
      /\ Len(<<x>> \o s) = 1 + Len(s)
  BY ConcatProperties
<1>2. Range(<<x>>) = {x}
  <2>1. Range(<<x>>) = {<<x>>[i] : i \in 1 .. 1}
    BY <1>1, RangeEquality
  <2>2. \A i \in 1 .. 1 : i = 1
    OBVIOUS
  <2> QED
    BY <1>1, <2>1, <2>2
<1>3. <<x>> \o s # <<>>
  BY <1>1, EmptySeq, LenProperties
<1>4. Range(<<x>> \o s) = Range(<<x>>) \cup Range(s)
  BY <1>1, RangeConcatenation
<1> QED
  BY <1>1, <1>2, <1>3, <1>4

LEMMA EventsOfLines ==
  ASSUME NEW lines \in Seq(Event), NEW batch \in EventsOf(lines)
  PROVE  /\ batch \in Seq(Event)
         /\ Range(batch) = {lines[k] : k \in {k \in DOMAIN lines : IsEvent(lines[k])}}
<1> DEFINE kept == {k \in DOMAIN lines : IsEvent(lines[k])}
           n == Cardinality(kept)
<1>1. n \in Nat
  <2>1. IsFiniteSet(1 .. Len(lines))
    BY FS_Interval
  <2>2. kept \subseteq 1 .. Len(lines)
    OBVIOUS
  <2> QED
    BY <2>1, <2>2, FS_Subset, FS_CardinalityType
<1>2. PICK at \in [1 .. n -> kept] :
        /\ Range(at) = kept
        /\ batch = [i \in 1 .. n |-> lines[at[i]]]
  BY DEF EventsOf
<1> HIDE DEF n
<1>3. \A i \in 1 .. n : lines[at[i]] \in Event
  BY <1>2
<1>4. batch \in Seq(Event)
  BY <1>1, <1>2, <1>3, IsASeq
<1>5. Range(batch) = {lines[k] : k \in Range(at)}
  BY <1>2 DEF Range
<1> QED
  BY <1>2, <1>4, <1>5

LEMMA IncidentRaised ==
  ASSUME NEW e \in Event, NEW rows \in SUBSET Event, NEW i \in correlate(e, rows)
  PROVE  i \in Event /\ i.event_type \in IncidentTypes /\ i.port = NoPort
<1> DEFINE raised == {Incident(type, e.subject, e, related) :
                        type \in IncidentTypes, related \in SUBSET rows}
<1>3. correlate_persistence(e, rows) \subseteq raised
  BY DEF correlate_persistence, recent_event_types, IncidentTypes
<1>4. correlate_firewall(e, rows) \subseteq raised
  BY DEF correlate_firewall, Blocked, recent_events, IncidentTypes
<1>5. correlate_ssh(e, rows) \subseteq raised
  <2>1. SshFailures(e, rows) \in SUBSET rows
    BY DEF SshFailures, recent_events
  <2>2. /\ {Incident("ssh_bruteforce", e.subject, e, SshFailures(e, rows))}
             \subseteq raised
        /\ {Incident("ssh_failures_then_success", e.subject, e, SshFailures(e, rows))}
             \subseteq raised
        /\ {} \subseteq raised
    BY <2>1 DEF IncidentTypes
  <2> HIDE DEF raised
  <2> QED
    BY <2>2, Zenon DEF correlate_ssh
<1>6. correlate(e, rows) \subseteq raised
  <2>1. {} \subseteq raised
    OBVIOUS
  <2> HIDE DEF raised
  <2> QED
    BY <1>3, <1>4, <1>5, <2>1, Zenon DEF correlate
<1>1. PICK type \in IncidentTypes, related \in SUBSET rows :
        i = Incident(type, e.subject, e, related)
  BY <1>6
<1>2. UNION {r.evidence : r \in related} \in SUBSET (1 .. MaxRecords)
  BY <1>1 DEF Event
<1> QED
  BY <1>1, <1>2 DEF Incident, Event

-----------------------------------------------------------------------------
\* Cursors point into the journal.
Extents ==
  /\ Len(journal["auth"]) + Len(journal["kernel"]) <= MaxRecords
  /\ \A s \in Streams : cursor[s] <= Len(journal[s])
  /\ \A w \in Workers : /\ after[w] <= Len(journal[stream[w]])
                         /\ found[w] <= Len(journal[stream[w]])

\* What a worker has in hand when.
Hands ==
  \A w \in Workers :
    /\ pc[w] \in {"idle", "fetch"} => todo[w] = <<>>
    /\ Judging(w) => Head(todo[w]) \in events

ShapeInv == TypeOK /\ Extents /\ Hands

LEMMA ShapeInit == Init => ShapeInv
<1> SUFFICES ASSUME Init PROVE ShapeInv
  OBVIOUS
<1>1. <<>> \in Seq(Event) /\ Len(<<>>) = 0
  OBVIOUS
<1>2. TypeOK
  BY <1>1, IngestAssumption DEF Init, TypeOK, Streams, Times
<1>3. Extents /\ Hands
  BY <1>1, IngestAssumption DEF Init, Extents, Hands, Judging, Streams
<1> QED
  BY <1>2, <1>3 DEF ShapeInv

LEMMA ShapeLog ==
  ASSUME ShapeInv, NEW r \in Records, Log(r)
  PROVE  ShapeInv'
<1> DEFINE s == StreamOf(r.event_type)
           record == [event_type |-> r.event_type, subject |-> r.subject,
                      port |-> r.port, observed_at |-> clock,
                      evidence |-> {Len(journal[s]) + 1}]
<1>1. s \in Streams
  BY DEF StreamOf, Streams
<1>2. /\ journal \in [Streams -> Seq(Event)]
      /\ Len(journal["auth"]) \in Nat /\ Len(journal["kernel"]) \in Nat
      /\ Len(journal["auth"]) + Len(journal["kernel"]) < MaxRecords
      /\ clock \in Times
  BY IngestAssumption DEF ShapeInv, TypeOK, Log, Streams, Times
<1>3. record \in Event
  <2>1. Len(journal[s]) + 1 \in 1 .. MaxRecords
    BY <1>1, <1>2, IngestAssumption DEF Streams
  <2>2. /\ r.event_type \in {q.event_type : q \in Records}
        /\ r.subject \in Subjects \cup {NoSource}
        /\ r.port \in Ports \cup {NoPort}
    BY IngestAssumption
  <2> QED
    BY <1>2, <2>1, <2>2 DEF Event
<1> HIDE DEF s, record
<1>4. journal' = [journal EXCEPT ![s] = Append(@, record)]
  BY DEF Log, s, record
<1>5. /\ journal' \in [Streams -> Seq(Event)]
      /\ \A t \in Streams : Len(journal'[t]) = Len(journal[t]) + IF t = s THEN 1 ELSE 0
  BY <1>1, <1>2, <1>3, <1>4, AppendProperties
<1>6. TypeOK'
  BY <1>5 DEF ShapeInv, TypeOK, Log, stored, failed, local
<1>7. Extents'
  <2>1. \A t \in Streams : Len(journal[t]) \in Nat /\ Len(journal'[t]) >= Len(journal[t])
    BY <1>2, <1>5
  <2>2. Len(journal'["auth"]) + Len(journal'["kernel"]) <= MaxRecords
    BY <1>1, <1>2, <1>5, IngestAssumption DEF Streams
  <2>3. /\ cursor \in [Streams -> 0 .. MaxRecords] /\ stream \in [Workers -> Streams]
        /\ after \in [Workers -> 0 .. MaxRecords]
        /\ found \in [Workers -> 0 .. MaxRecords]
        /\ UNCHANGED <<cursor, stream, after, found>>
    BY DEF ShapeInv, TypeOK, Log, local
  <2>4. \A t \in Streams, n \in 0 .. MaxRecords :
          n <= Len(journal[t]) => n <= Len(journal'[t])
    BY <1>5, <2>1, SMT
  <2> QED
    BY <2>2, <2>3, <2>4 DEF ShapeInv, Extents
<1>8. Hands'
  BY DEF ShapeInv, Hands, Judging, Log, stored, local
<1> QED
  BY <1>6, <1>7, <1>8 DEF ShapeInv

LEMMA Lengths ==
  ASSUME ShapeInv, NEW s \in Streams
  PROVE  /\ journal[s] \in Seq(Event)
         /\ Len(journal[s]) \in 0 .. MaxRecords
         /\ DOMAIN journal[s] = 1 .. Len(journal[s])
<1>1. \A t \in Streams : journal[t] \in Seq(Event)
  BY DEF ShapeInv, TypeOK
<1>2. \A t \in Streams : /\ Len(journal[t]) \in Nat
                          /\ DOMAIN journal[t] = 1 .. Len(journal[t])
  BY <1>1, LenProperties
<1>3. Len(journal["auth"]) + Len(journal["kernel"]) <= MaxRecords
  BY DEF ShapeInv, Extents
<1>4. Len(journal[s]) \in 0 .. MaxRecords
  <2>1. Len(journal["auth"]) \in Nat /\ Len(journal["kernel"]) \in Nat
    BY <1>2 DEF Streams
  <2>2. s = "auth" \/ s = "kernel"
    BY DEF Streams
  <2>3. Len(journal["auth"]) <= MaxRecords /\ Len(journal["kernel"]) <= MaxRecords
    <3>1. \A a, b, m \in Nat : a + b <= m => a <= m /\ b <= m
      OBVIOUS
    <3> QED
      BY <2>1, <3>1, <1>3, IngestAssumption
  <2>4. Len(journal[s]) <= MaxRecords
    BY <2>2, <2>3
  <2> QED
    BY <1>2, <2>4, IngestAssumption
<1> QED
  BY <1>1, <1>2, <1>4

LEMMA ShapeTurn ==
  ASSUME ShapeInv, NEW w \in Workers, Begin(w) \/ NextStream(w)
  PROVE  ShapeInv'
<1>1. PICK s \in Streams : Turn(w, s)
  BY DEF Begin, NextStream, Streams
<1>2. todo[w] = <<>>
  BY DEF ShapeInv, Hands, Begin, NextStream
<1>3. TypeOK'
  BY <1>1, <1>2, IngestAssumption DEF ShapeInv, TypeOK, Turn, stored, failed
<1>4. Extents'
  <2>1. cursor[s] <= Len(journal[s]) /\ 0 <= Len(journal[s])
    BY <1>1, Lengths DEF ShapeInv, Extents
  <2> QED
    BY <1>1, <2>1 DEF ShapeInv, TypeOK, Extents, Turn
<1>5. Hands'
  BY <1>1, <1>2 DEF ShapeInv, TypeOK, Hands, Judging, Turn, stored
<1> QED
  BY <1>3, <1>4, <1>5 DEF ShapeInv

\* Leaving collect_once, in order or not.
LEMMA ShapeLeave ==
  ASSUME ShapeInv, NEW w \in Workers, Leave(w),
         UNCHANGED <<clock, journal, cursor, stored>>,
         last_auth_check' \in [Services -> Times],
         faults' \in 0 .. MaxFaults, lost' \subseteq Event
  PROVE  ShapeInv'
<1>1. <<>> \in Seq(Event) /\ "auth" \in Streams
  BY DEF Streams
<1>2. TypeOK'
  <2>1. /\ clock' \in Start .. Horizon /\ journal' \in [Streams -> Seq(Event)]
        /\ cursor' \in [Streams -> 0 .. MaxRecords]
        /\ decided' \subseteq events' /\ events' \subseteq Event
    BY DEF ShapeInv, TypeOK, stored
  <2>2. /\ pc' \in [Workers -> {"idle", "fetch", "save", "add", "decide", "correlate"}]
        /\ stream' \in [Workers -> Streams] /\ todo' \in [Workers -> Seq(Event)]
        /\ \A v \in Workers : pc'[v] \in {"decide", "correlate"} => todo'[v] # <<>>
    BY <1>1 DEF ShapeInv, TypeOK, Leave
  <2>3. after' \in [Workers -> 0 .. MaxRecords] /\ found' \in [Workers -> 0 .. MaxRecords]
    BY IngestAssumption DEF ShapeInv, TypeOK, Leave
  <2> QED
    BY <2>1, <2>2, <2>3 DEF TypeOK
<1>3. Extents'
  <2>1. \A s \in Streams : Len(journal[s]) \in Nat
    BY Lengths
  <2>2. ASSUME NEW v \in Workers
        PROVE  after'[v] <= Len(journal[stream'[v]]) /\ found'[v] <= Len(journal[stream'[v]])
    <3>1. CASE v = w
      BY <1>1, <2>1, <3>1 DEF ShapeInv, TypeOK, Leave
    <3>2. CASE v # w
      BY <3>2 DEF ShapeInv, TypeOK, Extents, Leave
    <3> QED
      BY <3>1, <3>2
  <2> QED
    BY <2>2 DEF ShapeInv, Extents
<1>4. Hands'
  BY <1>1 DEF ShapeInv, TypeOK, Hands, Judging, Leave, stored
<1> QED
  BY <1>2, <1>3, <1>4 DEF ShapeInv

\* journalctl starts somewhere in the journal or right behind its end.
LEMMA FirstRecordBounds ==
  ASSUME ShapeInv, NEW w \in Workers
  PROVE  /\ FirstRecord(w) \in 1 .. Len(journal[stream[w]]) + 1
         /\ after[w] > 0 => FirstRecord(w) = after[w] + 1
<1> DEFINE j == journal[stream[w]]
           early == {p \in 1 .. Len(j) : j[p].observed_at < Since(w)}
<1>1. /\ Len(j) \in Nat
      /\ after[w] \in Nat /\ after[w] <= Len(j)
  BY Lengths DEF ShapeInv, TypeOK, Extents
<1>2. /\ IsFiniteSet(1 .. Len(j))
      /\ Cardinality(1 .. Len(j)) = IF 1 > Len(j) THEN 0 ELSE Len(j) - 1 + 1
  <2>1. 1 \in Int /\ Len(j) \in Int
    BY <1>1
  <2> QED
    BY <2>1, FS_Interval, Zenon
<1>3. Cardinality(early) \in Nat /\ Cardinality(early) <= Len(j)
  <2>1. /\ IsFiniteSet(early)
        /\ Cardinality(early) <= Cardinality(1 .. Len(j))
    <3>1. early \subseteq 1 .. Len(j)
      OBVIOUS
    <3> HIDE DEF early
    <3> QED
      BY <1>2, <3>1, FS_Subset
  <2>2. Cardinality(early) \in Nat
    BY <2>1, FS_CardinalityType
  <2> HIDE DEF early
  <2> QED
    BY <1>1, <1>2, <2>1, <2>2
<1>4. FirstRecord(w) = 1 + IF after[w] > 0 THEN after[w] ELSE Cardinality(early)
  BY DEF FirstRecord
<1> HIDE DEF early, j
<1>5. FirstRecord(w) \in 1 .. Len(j) + 1 /\ (after[w] > 0 => FirstRecord(w) = after[w] + 1)
  BY <1>1, <1>3, <1>4
<1> QED
  BY <1>5 DEF j

\* The batch holds the events of the journal from there on.
LEMMA FetchedBatch ==
  ASSUME ShapeInv, NEW w \in Workers, Fetch(w)
  PROVE  /\ todo'[w] \in Seq(Event) /\ todo' = [todo EXCEPT ![w] = todo'[w]]
         /\ Range(todo'[w]) =
              {journal[stream[w]][p] :
                 p \in {p \in FirstRecord(w) .. Len(journal[stream[w]]) :
                          IsEvent(journal[stream[w]][p])}}
<1> DEFINE j == journal[stream[w]]
           first == FirstRecord(w)
           lines == SubSeq(j, first, Len(j))
<1>1. /\ Len(j) \in Nat /\ first \in Nat /\ first >= 1
      /\ \A p \in 1 .. Len(j) : j[p] \in Event
  BY Lengths, FirstRecordBounds DEF ShapeInv, TypeOK
<1>2. PICK batch \in EventsOf(lines) : todo' = [todo EXCEPT ![w] = batch]
  BY DEF Fetch
<1> HIDE DEF j, first
<1>3. /\ lines \in Seq(Event)
      /\ Len(lines) = IF first <= Len(j) THEN Len(j) - first + 1 ELSE 0
      /\ \A i \in 1 .. Len(j) - first + 1 : lines[i] = j[first + i - 1]
      /\ DOMAIN lines = 1 .. Len(lines)
  BY <1>1, SubSeqProperties
<1>4. /\ batch \in Seq(Event)
      /\ Range(batch) = {lines[k] : k \in {k \in DOMAIN lines : IsEvent(lines[k])}}
  BY <1>2, <1>3, EventsOfLines
<1> HIDE DEF lines
<1>5. ASSUME NEW k \in DOMAIN lines, IsEvent(lines[k])
      PROVE  lines[k] \in {j[p] : p \in {p \in first .. Len(j) : IsEvent(j[p])}}
  <2>1. k \in 1 .. Len(j) - first + 1
    BY <1>1, <1>3
  <2>2. first + k - 1 \in first .. Len(j)
    BY <1>1, <2>1
  <2>3. lines[k] = j[first + k - 1]
    BY <1>3, <2>1
  <2> QED
    BY <1>5, <2>2, <2>3
<1>6. ASSUME NEW p \in first .. Len(j), IsEvent(j[p])
      PROVE  j[p] \in {lines[k] : k \in {k \in DOMAIN lines : IsEvent(lines[k])}}
  <2>1. p - first + 1 \in DOMAIN lines /\ lines[p - first + 1] = j[p]
    BY <1>1, <1>3
  <2> QED
    BY <1>6, <2>1
<1>7. Range(batch) = {j[p] : p \in {p \in first .. Len(j) : IsEvent(j[p])}}
  BY <1>4, <1>5, <1>6
<1>8. todo'[w] = batch
  BY <1>2 DEF ShapeInv, TypeOK
<1> QED
  BY <1>2, <1>4, <1>7, <1>8 DEF j, first

LEMMA ShapeFetch ==
  ASSUME ShapeInv, NEW w \in Workers, Fetch(w)
  PROVE  ShapeInv'
<1> DEFINE j == journal[stream[w]]
           lines == SubSeq(j, FirstRecord(w), Len(j))
<1>1. /\ j \in Seq(Event) /\ Len(j) \in 0 .. MaxRecords
      /\ after[w] \in 0 .. MaxRecords
      /\ stream[w] \in Streams
      /\ after[w] <= Len(j)
  BY Lengths DEF ShapeInv, TypeOK, Extents
<1>2. /\ todo'[w] \in Seq(Event)
      /\ todo' = [todo EXCEPT ![w] = todo'[w]]
  BY FetchedBatch
<1>3. lost' \subseteq Event
  <2>1. \A p \in 1 .. FirstRecord(w) - 1 : j[p] \in Event
    BY <1>1, FirstRecordBounds
  <2> QED
    BY <2>1 DEF Fetch, ShapeInv, TypeOK
<1>4. /\ UNCHANGED <<clock, journal, cursor, last_auth_check, stored, faults, stream, after>>
      /\ pc' = [pc EXCEPT ![w] = "save"] /\ pc[w] = "fetch"
      /\ found' = [found EXCEPT ![w] = IF lines = <<>> THEN after[w] ELSE Len(j)]
  BY DEF Fetch
<1> HIDE DEF lines, j
<1>5. TypeOK'
  BY <1>1, <1>2, <1>3, <1>4 DEF ShapeInv, TypeOK, stored
<1>6. Extents'
  <2>1. found'[w] <= Len(j)
    BY <1>1, <1>4 DEF ShapeInv, TypeOK
  <2>2. \A v \in Workers : v # w => found'[v] = found[v]
    BY <1>4 DEF ShapeInv, TypeOK
  <2> QED
    BY <1>4, <2>1, <2>2 DEF ShapeInv, Extents, j
<1>7. Hands'
  BY <1>2, <1>4 DEF ShapeInv, TypeOK, Hands, Judging, stored
<1> QED
  BY <1>5, <1>6, <1>7 DEF ShapeInv

LEMMA ShapeFetchFails ==
  ASSUME ShapeInv, NEW w \in Workers, FetchFails(w)
  PROVE  ShapeInv'
<1>1. TypeOK'
  <2>1. clock \in Times
    BY IngestAssumption DEF ShapeInv, TypeOK, Times
  <2> QED
    BY <2>1 DEF ShapeInv, TypeOK, FetchFails, Checked, stored, failed
<1>2. Extents' /\ Hands'
  BY DEF ShapeInv, TypeOK, Extents, Hands, Judging, FetchFails, stored
<1> QED
  BY <1>1, <1>2 DEF ShapeInv

LEMMA ShapeCheckpoint ==
  ASSUME ShapeInv, NEW w \in Workers, Checkpoint(w)
  PROVE  ShapeInv'
<1>1. TypeOK'
  <2>1. clock \in Times
    BY IngestAssumption DEF ShapeInv, TypeOK, Times
  <2> QED
    BY <2>1 DEF ShapeInv, TypeOK, Checkpoint, Checked, stored, failed
<1>2. Extents' /\ Hands'
  BY DEF ShapeInv, TypeOK, Extents, Hands, Judging, Checkpoint, stored
<1> QED
  BY <1>1, <1>2 DEF ShapeInv

LEMMA ShapeAddEvent ==
  ASSUME ShapeInv, NEW w \in Workers, add_event(w)
  PROVE  ShapeInv'
<1>1. /\ todo[w] \in Seq(Event) /\ todo[w] # <<>>
      /\ Head(todo[w]) \in Event /\ Tail(todo[w]) \in Seq(Event)
  BY HeadAndTail DEF ShapeInv, TypeOK, add_event
<1>2. TypeOK'
  BY <1>1 DEF ShapeInv, TypeOK, add_event, failed
<1>3. Extents'
  BY DEF ShapeInv, Extents, add_event
<1>4. Hands'
  BY <1>1 DEF ShapeInv, TypeOK, Hands, Judging, add_event
<1> QED
  BY <1>2, <1>3, <1>4 DEF ShapeInv

LEMMA ShapeAddDecision ==
  ASSUME ShapeInv, NEW w \in Workers, add_decision(w)
  PROVE  ShapeInv'
<1>1. TypeOK'
  BY DEF ShapeInv, TypeOK, Hands, Judging, add_decision, failed
<1>2. Extents' /\ Hands'
  BY DEF ShapeInv, TypeOK, Extents, Hands, Judging, add_decision
<1> QED
  BY <1>1, <1>2 DEF ShapeInv

LEMMA ShapeCorrelate ==
  ASSUME ShapeInv, NEW w \in Workers, Correlate(w)
  PROVE  ShapeInv'
<1>1. /\ todo[w] \in Seq(Event) /\ todo[w] # <<>>
      /\ Head(todo[w]) \in Event /\ Tail(todo[w]) \in Seq(Event)
  BY HeadAndTail DEF ShapeInv, TypeOK, Correlate
<1>2. PICK rest \in Seq(Event) : todo' = [todo EXCEPT ![w] = rest]
  <2>1. CASE todo' = [todo EXCEPT ![w] = Tail(@)]
    BY <1>1, <2>1
  <2>2. ASSUME NEW i \in correlate(Head(todo[w]), events),
               todo' = [todo EXCEPT ![w] = <<i>> \o Tail(@)]
        PROVE  \E rest \in Seq(Event) : todo' = [todo EXCEPT ![w] = rest]
    <3>1. i \in Event
      BY <1>1, IncidentRaised DEF ShapeInv, TypeOK
    <3>2. <<i>> \o Tail(todo[w]) \in Seq(Event)
      BY <1>1, <3>1, PutFirst
    <3> QED
      BY <2>2, <3>2 DEF ShapeInv, TypeOK
  <2> QED
    BY <2>1, <2>2 DEF Correlate
<1>3. /\ UNCHANGED <<clock, journal, cursor, last_auth_check, stored, failed,
                     stream, after, found>>
      /\ pc[w] = "correlate" /\ pc' = [pc EXCEPT ![w] = "add"]
  BY DEF Correlate
<1>4. TypeOK'
  BY <1>2, <1>3 DEF ShapeInv, TypeOK, stored, failed
<1>5. Extents' /\ Hands'
  BY <1>2, <1>3 DEF ShapeInv, TypeOK, Extents, Hands, Judging, stored
<1> QED
  BY <1>4, <1>5 DEF ShapeInv

LEMMA ShapeAbort ==
  ASSUME ShapeInv, NEW w \in Workers, Abort(w)
  PROVE  ShapeInv'
<1>1. faults' \in 0 .. MaxFaults
  BY IngestAssumption DEF ShapeInv, TypeOK, Abort
<1>2. todo[w] \in Seq(Event)
  BY DEF ShapeInv, TypeOK
<1>3. lost' \subseteq Event
  BY <1>2, RangeOfSeq DEF ShapeInv, TypeOK, Abort
<1>4. last_auth_check' \in [Services -> Times]
  <2>1. clock \in Times
    BY IngestAssumption DEF ShapeInv, TypeOK, Times
  <2> QED
    BY <2>1 DEF ShapeInv, TypeOK, Abort, Checked
<1> QED
  BY <1>1, <1>3, <1>4, ShapeLeave DEF Abort

LEMMA ShapeRestart ==
  ASSUME ShapeInv, NEW v \in Services, Restart(v)
  PROVE  ShapeInv'
<1> DEFINE mine == {w \in Workers : ServiceOf[w] = v}
           busy == {w \in mine : pc[w] # "idle"}
<1>1. Cardinality(busy) \in Nat
  BY IngestAssumption, FS_Subset, FS_CardinalityType
<1>2. faults' \in 0 .. MaxFaults
  BY <1>1, IngestAssumption DEF ShapeInv, TypeOK, Restart
<1>3. lost' \subseteq Event
  <2>1. \A w \in Workers : Range(todo[w]) \subseteq Event
    BY RangeOfSeq DEF ShapeInv, TypeOK
  <2> QED
    BY <2>1 DEF ShapeInv, TypeOK, Restart
<1>4. last_auth_check' \in [Services -> Times]
  <2>1. clock - Minute \in Times
    BY IngestAssumption DEF ShapeInv, TypeOK, Times
  <2> QED
    BY <2>1 DEF ShapeInv, TypeOK, Restart
<1>5. /\ UNCHANGED <<clock, journal, cursor, events, decided>>
      /\ pc' = [w \in Workers |-> IF w \in mine THEN "idle" ELSE pc[w]]
      /\ stream' = [w \in Workers |-> IF w \in mine THEN "auth" ELSE stream[w]]
      /\ after' = [w \in Workers |-> IF w \in mine THEN 0 ELSE after[w]]
      /\ found' = [w \in Workers |-> IF w \in mine THEN 0 ELSE found[w]]
      /\ todo' = [w \in Workers |-> IF w \in mine THEN <<>> ELSE todo[w]]
  BY DEF Restart, stored
<1> HIDE DEF mine
<1>6. <<>> \in Seq(Event) /\ "auth" \in Streams /\ 0 \in 0 .. MaxRecords
  BY IngestAssumption DEF Streams
<1>7. TypeOK'
  BY <1>2, <1>3, <1>4, <1>5, <1>6 DEF ShapeInv, TypeOK
<1>8. Extents'
  <2>1. 0 <= Len(journal["auth"])
    BY <1>6, Lengths
  <2> QED
    BY <1>5, <2>1 DEF ShapeInv, Extents
<1>9. Hands'
  BY <1>5 DEF ShapeInv, Hands, Judging
<1> QED
  BY <1>7, <1>8, <1>9 DEF ShapeInv

LEMMA ShapeStep == ShapeInv /\ [Next]_vars => ShapeInv'
<1> SUFFICES ASSUME ShapeInv, [Next]_vars PROVE ShapeInv'
  OBVIOUS
<1>1. CASE Tick
  <2>1. TypeOK'
    BY <1>1, IngestAssumption DEF ShapeInv, TypeOK, Tick, stored, failed, local
  <2>2. Extents' /\ Hands'
    BY <1>1 DEF ShapeInv, Extents, Hands, Judging, Tick, stored, local
  <2> QED
    BY <2>1, <2>2 DEF ShapeInv
<1>2. ASSUME NEW r \in Records, Log(r) PROVE ShapeInv'
  BY <1>2, ShapeLog
<1>3. ASSUME NEW w \in Workers, Step(w) PROVE ShapeInv'
  <2>1. CASE Finish(w)
    <3>1. /\ faults' \in 0 .. MaxFaults /\ lost' \subseteq Event
          /\ last_auth_check' \in [Services -> Times]
      BY <2>1 DEF ShapeInv, TypeOK, Finish, failed
    <3> QED
      BY <2>1, <3>1, ShapeLeave DEF Finish
  <2> QED
    BY <1>3, <2>1, ShapeTurn, ShapeFetch, ShapeFetchFails, ShapeCheckpoint,
       ShapeAddEvent, ShapeAddDecision, ShapeCorrelate DEF Step
<1>4. ASSUME NEW w \in Workers, Abort(w) PROVE ShapeInv'
  BY <1>4, ShapeAbort
<1>5. ASSUME NEW v \in Services, Restart(v) PROVE ShapeInv'
  BY <1>5, ShapeRestart
<1>6. CASE UNCHANGED vars
  BY <1>6 DEF ShapeInv, TypeOK, Extents, Hands, Judging, vars, stored, failed, local
<1> QED
  BY <1>1, <1>2, <1>3, <1>4, <1>5, <1>6 DEF Next

\* Every variable keeps its type, for any number of workers and services.
THEOREM IngestTypes == Spec => []TypeOK
<1>1. ShapeInv => TypeOK
  BY DEF ShapeInv
<1> QED
  BY <1>1, ShapeInit, ShapeStep, PTL DEF Spec

-----------------------------------------------------------------------------
\* A step that neither stores, decides nor correlates an event takes no worker
\* into a judgement, and no worker out of one without a trace.
LEMMA QuietStep ==
  ASSUME ShapeInv, [Next]_vars,
         \A w \in Workers : ~(add_event(w) \/ add_decision(w) \/ Correlate(w))
  PROVE  /\ UNCHANGED <<events, decided>>
         /\ lost \subseteq lost'
         /\ \A w \in Workers :
              \/ pc'[w] = pc[w] /\ todo'[w] = todo[w]
              \/ ~Judging(w)' /\ (Judging(w) => Head(todo[w]) \in lost')
<1> DEFINE Traced == /\ UNCHANGED <<events, decided>>
                     /\ lost \subseteq lost'
                     /\ \A w \in Workers :
                          \/ pc'[w] = pc[w] /\ todo'[w] = todo[w]
                          \/ /\ ~Judging(w)'
                             /\ Judging(w) => Head(todo[w]) \in lost'
<1>1. CASE Tick \/ \E r \in Records : Log(r)
  BY <1>1 DEF Tick, Log, stored, failed, local
<1>2. ASSUME NEW w \in Workers, Step(w) PROVE Traced
  <2>1. CASE Begin(w) \/ NextStream(w) \/ Finish(w)
    BY <2>1 DEF ShapeInv, TypeOK, Judging, Begin, NextStream, Finish, Turn, Leave,
                stored, failed
  <2>2. CASE Fetch(w)
    BY <2>2 DEF ShapeInv, TypeOK, Judging, Fetch, stored
  <2>3. CASE FetchFails(w) \/ Checkpoint(w)
    BY <2>3 DEF ShapeInv, TypeOK, Judging, FetchFails, Checkpoint, stored, failed
  <2> QED
    BY <1>2, <2>1, <2>2, <2>3 DEF Step
<1>3. \A w \in Workers : Judging(w) => Head(todo[w]) \in Range(todo[w])
  BY HeadAndTail DEF ShapeInv, TypeOK, Judging
<1>4. ASSUME NEW w \in Workers, Abort(w) PROVE Traced
  BY <1>3, <1>4 DEF ShapeInv, TypeOK, Judging, Abort, Leave, stored
<1>5. ASSUME NEW v \in Services, Restart(v) PROVE Traced
  <2> DEFINE mine == {w \in Workers : ServiceOf[w] = v}
  <2>1. /\ UNCHANGED <<events, decided>>
        /\ lost' = lost \cup UNION {Range(todo[w]) : w \in {w \in mine : pc[w] # "idle"}}
        /\ pc' = [w \in Workers |-> IF w \in mine THEN "idle" ELSE pc[w]]
        /\ todo' = [w \in Workers |-> IF w \in mine THEN <<>> ELSE todo[w]]
    BY <1>5 DEF Restart, stored
  <2>2. \A w \in mine : Judging(w) => Head(todo[w]) \in lost'
    BY <1>3, <2>1 DEF Judging
  <2> QED
    BY <2>1, <2>2 DEF Judging
<1>6. CASE UNCHANGED vars
  BY <1>6 DEF vars, stored, failed, local
<1> QED
  BY <1>1, <1>2, <1>4, <1>5, <1>6 DEF Next

LEMMA OneJudgeStep == ShapeInv /\ OneJudge /\ [Next]_vars => OneJudge'
<1> SUFFICES ASSUME ShapeInv, OneJudge, [Next]_vars PROVE OneJudge'
  OBVIOUS
<1>1. /\ \A v \in Workers : Judging(v) => Head(todo[v]) \in events
      /\ decided \subseteq events
      /\ pc \in [Workers -> {"idle", "fetch", "save", "add", "decide", "correlate"}]
      /\ todo \in [Workers -> Seq(Event)]
  BY DEF ShapeInv, TypeOK, Hands
<1>2. ASSUME NEW w \in Workers, add_event(w) PROVE OneJudge'
  <2> DEFINE e == Head(todo[w])
  <2>1. CASE Known(e)
    BY <1>1, <1>2, <2>1 DEF OneJudge, Judging, add_event
  <2>2. CASE ~Known(e)
    <3>1. e \notin events
      BY <2>2 DEF Known
    <3>2. /\ pc' = [pc EXCEPT ![w] = "decide"]
          /\ UNCHANGED <<todo, decided>>
      BY <1>2, <2>2 DEF add_event
    <3> QED
      BY <1>1, <3>1, <3>2 DEF OneJudge, Judging
  <2> QED
    BY <2>1, <2>2
<1>3. ASSUME NEW w \in Workers, add_decision(w) PROVE OneJudge'
  BY <1>1, <1>3 DEF OneJudge, Judging, add_decision
<1>4. ASSUME NEW w \in Workers, Correlate(w) PROVE OneJudge'
  <2>1. /\ pc' = [pc EXCEPT ![w] = "add"]
        /\ \A v \in Workers : v # w => todo'[v] = todo[v]
        /\ UNCHANGED decided
    BY <1>1, <1>4 DEF Correlate, stored
  <2> QED
    BY <1>1, <2>1 DEF OneJudge, Judging
<1>5. CASE \A w \in Workers : ~(add_event(w) \/ add_decision(w) \/ Correlate(w))
  <2>1. /\ UNCHANGED decided
        /\ \A w \in Workers : Judging(w)' => pc'[w] = pc[w] /\ todo'[w] = todo[w]
    BY <1>5, QuietStep
  <2> QED
    BY <2>1 DEF OneJudge, Judging
<1> QED
  BY <1>2, <1>3, <1>4, <1>5

\* add_event lets one of the workers that fetched the same record judge it: its
\* row is taken before the decision is, under the fingerprint's unique key.
THEOREM JudgedOnce == Spec => []OneJudge
<1>1. Init => OneJudge
  BY DEF Init, OneJudge, Judging
<1> QED
  BY <1>1, ShapeInit, ShapeStep, OneJudgeStep, PTL DEF Spec

LEMMA UndecidedStep ==
  ShapeInv /\ UndecidedInFlight /\ [Next]_vars => UndecidedInFlight'
<1> SUFFICES ASSUME ShapeInv, UndecidedInFlight, [Next]_vars,
                    NEW e \in events' \ decided'
             PROVE  e \in lost' \/ \E w \in Workers : pc'[w] = "decide" /\ Head(todo'[w]) = e
  BY DEF UndecidedInFlight
<1>1. /\ pc \in [Workers -> {"idle", "fetch", "save", "add", "decide", "correlate"}]
      /\ todo \in [Workers -> Seq(Event)]
  BY DEF ShapeInv, TypeOK
<1>2. e \in events \ decided =>
        e \in lost \/ \E w \in Workers : pc[w] = "decide" /\ Head(todo[w]) = e
  BY DEF UndecidedInFlight
<1>3. ASSUME NEW w \in Workers, add_event(w)
      PROVE  e \in lost' \/ \E v \in Workers : pc'[v] = "decide" /\ Head(todo'[v]) = e
  BY <1>1, <1>2, <1>3 DEF add_event, failed
<1>4. ASSUME NEW w \in Workers, add_decision(w)
      PROVE  e \in lost' \/ \E v \in Workers : pc'[v] = "decide" /\ Head(todo'[v]) = e
  BY <1>1, <1>2, <1>4 DEF add_decision, failed
<1>5. ASSUME NEW w \in Workers, Correlate(w)
      PROVE  e \in lost' \/ \E v \in Workers : pc'[v] = "decide" /\ Head(todo'[v]) = e
  <2>1. /\ pc[w] = "correlate" /\ pc' = [pc EXCEPT ![w] = "add"]
        /\ \A v \in Workers : v # w => todo'[v] = todo[v]
        /\ UNCHANGED <<events, decided, lost>>
    BY <1>1, <1>5 DEF Correlate, stored, failed
  <2> QED
    BY <1>1, <1>2, <2>1
<1>6. CASE \A w \in Workers : ~(add_event(w) \/ add_decision(w) \/ Correlate(w))
  <2>1. /\ UNCHANGED <<events, decided>>
        /\ lost \subseteq lost'
        /\ \A w \in Workers :
              \/ pc'[w] = pc[w] /\ todo'[w] = todo[w]
              \/ Judging(w) => Head(todo[w]) \in lost'
    BY <1>6, QuietStep
  <2> QED
    BY <1>2, <2>1 DEF Judging
<1> QED
  BY <1>3, <1>4, <1>5, <1>6

\* A row has its decision, is about to get it, or is one a fault left behind:
\* no interleaving of the workers leaves a row undecided.
THEOREM NoneForgotten == Spec => []UndecidedInFlight
<1>1. Init => UndecidedInFlight
  BY DEF Init, UndecidedInFlight
<1> QED
  BY <1>1, ShapeInit, ShapeStep, UndecidedStep, PTL DEF Spec

-----------------------------------------------------------------------------
\* Where the events come from: a record of the journal, at the position that is
\* its evidence, or a rule.
Genuine(e) ==
  IF e.event_type \in IncidentTypes
    THEN e.port = NoPort
    ELSE LET j == journal[StreamOf(e.event_type)]
         IN  \E p \in DOMAIN j : j[p] = e

Sourced ==
  /\ \A s \in Streams : \A p \in DOMAIN journal[s] :
       /\ StreamOf(journal[s][p].event_type) = s
       /\ journal[s][p].event_type \notin IncidentTypes
       /\ journal[s][p].evidence = {p}
  /\ \A e \in events : Genuine(e)
  /\ \A w \in Workers : \A e \in Range(todo[w]) : Genuine(e)

\* The journal only grows.
LEMMA JournalGrows ==
  ASSUME ShapeInv, [Next]_vars, NEW s \in Streams, NEW p \in DOMAIN journal[s]
  PROVE  p \in DOMAIN journal'[s] /\ journal'[s][p] = journal[s][p]
<1>1. ASSUME NEW r \in Records, Log(r)
      PROVE  p \in DOMAIN journal'[s] /\ journal'[s][p] = journal[s][p]
  <2> DEFINE t == StreamOf(r.event_type)
  <2>1. PICK record : journal' = [journal EXCEPT ![t] = Append(@, record)]
    BY <1>1 DEF Log
  <2>2. /\ journal[s] \in Seq(Event) /\ Len(journal[s]) \in Nat
        /\ DOMAIN journal[s] = 1 .. Len(journal[s])
        /\ journal \in [Streams -> Seq(Event)]
    BY Lengths, IngestAssumption DEF ShapeInv, TypeOK
  <2>3. ShapeInv' /\ s \in Streams
    BY ShapeStep
  <2>4. journal'[s] \in Seq(Event)
    BY <2>3 DEF ShapeInv, TypeOK
  <2> HIDE DEF t
  <2>5. CASE s = t
    <3>1. journal'[s] = Append(journal[s], record)
      BY <2>1, <2>2, <2>5
    <3>2. /\ DOMAIN Append(journal[s], record) = 1 .. Len(journal[s]) + 1
          /\ Append(journal[s], record)[p] = journal[s][p]
      BY <2>2
    <3> QED
      BY <2>2, <3>1, <3>2
  <2>6. CASE s # t
    BY <2>1, <2>2, <2>6
  <2> QED
    BY <2>5, <2>6
<1>2. CASE UNCHANGED journal
  BY <1>2
<1>3. UNCHANGED journal \/ \E r \in Records : Log(r)
  BY DEF Next, Step, Tick, Begin, NextStream, Turn, Finish, Fetch, FetchFails,
         Checkpoint, add_event, add_decision, Correlate, Abort, Restart, vars
<1> QED
  BY <1>1, <1>2, <1>3

\* A step adds to a batch only lines of the journal and incidents of the rules.
LEMMA BatchStep ==
  ASSUME ShapeInv, [Next]_vars, NEW w \in Workers, NEW e \in Range(todo'[w])
  PROVE  \/ e \in Range(todo[w])
         \/ \E p \in DOMAIN journal[stream[w]] : e = journal[stream[w]][p]
         \/ e.event_type \in IncidentTypes /\ e.port = NoPort
<1> DEFINE Fetched == \E p \in DOMAIN journal[stream[w]] : e = journal[stream[w]][p]
           Raised == e.event_type \in IncidentTypes /\ e.port = NoPort
<1>1. /\ todo \in [Workers -> Seq(Event)]
      /\ Range(<<>>) = {}
  BY DEF ShapeInv, TypeOK, Range
<1>2. \A v \in Workers : todo[v] # <<>> => Range(Tail(todo[v])) \subseteq Range(todo[v])
  BY <1>1, HeadAndTail
<1>3. ASSUME NEW v \in Workers, Fetch(v) PROVE e \in Range(todo[w]) \/ Fetched
  <2>1. CASE v = w
    <3>1. PICK p \in FirstRecord(w) .. Len(journal[stream[w]]) : e = journal[stream[w]][p]
      BY <1>3, <2>1, FetchedBatch
    <3>2. p \in DOMAIN journal[stream[w]]
      <4>1. /\ stream[w] \in Streams
            /\ FirstRecord(w) \in 1 .. Len(journal[stream[w]]) + 1
        BY FirstRecordBounds DEF ShapeInv, TypeOK
      <4>2. /\ Len(journal[stream[w]]) \in 0 .. MaxRecords
            /\ DOMAIN journal[stream[w]] = 1 .. Len(journal[stream[w]])
        BY <4>1, Lengths
      <4> QED
        BY <4>1, <4>2, IngestAssumption
    <3> QED
      BY <3>1, <3>2
  <2>2. CASE v # w
    <3>1. todo'[w] = todo[w]
      BY <1>1, <1>3, <2>2 DEF Fetch
    <3> QED
      BY <3>1
  <2> QED
    BY <2>1, <2>2
<1>4. ASSUME NEW v \in Workers, add_event(v) PROVE e \in Range(todo[w])
  BY <1>1, <1>2, <1>4 DEF add_event
<1>5. ASSUME NEW v \in Workers, Correlate(v) PROVE e \in Range(todo[w]) \/ Raised
  <2>1. todo[v] # <<>> /\ Head(todo[v]) \in Event /\ Tail(todo[v]) \in Seq(Event)
    BY <1>1, <1>5, HeadAndTail DEF ShapeInv, TypeOK, Correlate
  <2>2. CASE todo' = [todo EXCEPT ![v] = Tail(@)]
    BY <1>1, <1>2, <2>1, <2>2
  <2>3. ASSUME NEW i \in correlate(Head(todo[v]), events),
               todo' = [todo EXCEPT ![v] = <<i>> \o Tail(@)]
        PROVE  e \in Range(todo[w]) \/ Raised
    <3>1. i \in Event /\ i.event_type \in IncidentTypes /\ i.port = NoPort
      BY <2>1, IncidentRaised DEF ShapeInv, TypeOK
    <3>2. Range(<<i>> \o Tail(todo[v])) = {i} \cup Range(Tail(todo[v]))
      BY <2>1, <3>1, PutFirst
    <3>3. todo'[w] = IF w = v THEN <<i>> \o Tail(todo[v]) ELSE todo[w]
      BY <1>1, <2>3
    <3> QED
      BY <1>2, <2>1, <3>1, <3>2, <3>3
  <2> QED
    BY <1>5, <2>2, <2>3 DEF Correlate
<1>6. ASSUME NEW v \in Workers, Leave(v) PROVE e \in Range(todo[w])
  BY <1>1, <1>6 DEF Leave
<1>7. ASSUME NEW v \in Services, Restart(v) PROVE e \in Range(todo[w])
  <2>1. todo'[w] = todo[w] \/ todo'[w] = <<>>
    BY <1>7 DEF Restart
  <2> QED
    BY <1>1, <2>1
<1>8. CASE UNCHANGED todo
  BY <1>8
<1>9. \/ UNCHANGED todo
      \/ \E v \in Workers : Fetch(v) \/ add_event(v) \/ Correlate(v) \/ Leave(v)
      \/ \E v \in Services : Restart(v)
  BY DEF Next, Step, Tick, Log, Begin, NextStream, Turn, Finish, FetchFails,
         Checkpoint, add_decision, Abort, vars, local
<1> QED
  BY <1>3, <1>4, <1>5, <1>6, <1>7, <1>8, <1>9

\* A row is the event that was at the head of a batch.
LEMMA RowStep ==
  ASSUME ShapeInv, [Next]_vars, NEW e \in events' \ events
  PROVE  \E w \in Workers : /\ e \in Range(todo[w]) /\ ~Known(e)
                            /\ events' = events \cup {e}
<1>1. PICK w \in Workers : add_event(w)
  BY DEF Next, Step, Tick, Log, Begin, NextStream, Turn, Finish, Fetch, FetchFails,
         Checkpoint, add_decision, Correlate, Abort, Restart, vars, stored
<1>2. /\ todo[w] # <<>> /\ todo[w] \in Seq(Event)
      /\ e = Head(todo[w]) /\ ~Known(e)
      /\ events' = events \cup {e}
  BY <1>1 DEF add_event, ShapeInv, TypeOK
<1> QED
  BY <1>2, HeadAndTail

LEMMA SourcedStep == ShapeInv /\ Sourced /\ [Next]_vars => Sourced'
<1> SUFFICES ASSUME ShapeInv, Sourced, [Next]_vars PROVE Sourced'
  OBVIOUS
<1> DEFINE Sited(s, p) == /\ StreamOf(journal[s][p].event_type) = s
                          /\ journal[s][p].event_type \notin IncidentTypes
                          /\ journal[s][p].evidence = {p}
<1>1. ASSUME NEW s \in Streams, NEW p \in DOMAIN journal'[s] PROVE Sited(s, p)'
  <2>1. CASE p \in DOMAIN journal[s]
    BY <2>1, JournalGrows DEF Sourced
  <2>2. CASE p \notin DOMAIN journal[s]
    <3>1. PICK r \in Records : Log(r)
      <4>1. UNCHANGED journal \/ \E r \in Records : Log(r)
        BY DEF Next, Step, Tick, Begin, NextStream, Turn, Finish, Fetch, FetchFails,
               Checkpoint, add_event, add_decision, Correlate, Abort, Restart, vars
      <4> QED
        BY <2>2, <4>1
    <3> DEFINE t == StreamOf(r.event_type)
               record == [event_type |-> r.event_type, subject |-> r.subject,
                          port |-> r.port, observed_at |-> clock,
                          evidence |-> {Len(journal[t]) + 1}]
    <3>2. journal' = [journal EXCEPT ![t] = Append(@, record)]
      BY <3>1 DEF Log
    <3>3. record.event_type = r.event_type /\ record.evidence = {Len(journal[t]) + 1}
      OBVIOUS
    <3> HIDE DEF t, record
    <3>4. /\ journal \in [Streams -> Seq(Event)]
          /\ journal[s] \in Seq(Event) /\ Len(journal[s]) \in Nat
          /\ DOMAIN journal[s] = 1 .. Len(journal[s])
      BY Lengths DEF ShapeInv, TypeOK
    <3>5. s = t /\ journal'[s] = Append(journal[s], record)
      BY <2>2, <3>2, <3>4
    <3>6. DOMAIN Append(journal[s], record) = 1 .. Len(journal[s]) + 1
      BY <3>4
    <3>7. p = Len(journal[s]) + 1
      BY <2>2, <3>4, <3>5, <3>6
    <3>8. journal'[s][p] = record
      BY <3>4, <3>5, <3>7
    <3>9. r.event_type \notin IncidentTypes
      BY IngestAssumption DEF IncidentTypes, SshTypes, PrivilegeTypes
    <3> QED
      BY <3>3, <3>5, <3>7, <3>8, <3>9 DEF t
  <2> QED
    BY <2>1, <2>2
<1>2. ASSUME NEW e, Genuine(e) PROVE Genuine(e)'
  <2>1. StreamOf(e.event_type) \in Streams
    BY DEF StreamOf, Streams
  <2> QED
    BY <1>2, <2>1, JournalGrows DEF Genuine
<1>3. ASSUME NEW e \in events' PROVE Genuine(e)'
  <2>1. Genuine(e)
    BY RowStep DEF Sourced
  <2> QED
    BY <1>2, <2>1
<1>4. ASSUME NEW w \in Workers, NEW e \in Range(todo'[w]) PROVE Genuine(e)'
  <2>1. CASE e \in Range(todo[w])
    BY <1>2, <2>1 DEF Sourced
  <2>2. CASE \E p \in DOMAIN journal[stream[w]] : e = journal[stream[w]][p]
    <3>1. PICK p \in DOMAIN journal[stream[w]] : e = journal[stream[w]][p]
      BY <2>2
    <3>2. stream[w] \in Streams
      BY DEF ShapeInv, TypeOK
    <3>3. StreamOf(e.event_type) = stream[w] /\ e.event_type \notin IncidentTypes
      BY <3>1, <3>2 DEF Sourced
    <3>4. Genuine(e)
      BY <3>1, <3>3, Zenon DEF Genuine
    <3> QED
      BY <1>2, <3>4
  <2>3. CASE e.event_type \in IncidentTypes /\ e.port = NoPort
    BY <2>3 DEF Genuine
  <2> QED
    BY <2>1, <2>2, <2>3, BatchStep
<1> QED
  BY <1>1, <1>3, <1>4 DEF Sourced

LEMMA AlarmsDistinctStep ==
  ShapeInv /\ Sourced /\ AlarmsDistinct /\ [Next]_vars => AlarmsDistinct'
<1> SUFFICES ASSUME ShapeInv, Sourced, AlarmsDistinct, [Next]_vars PROVE AlarmsDistinct'
  OBVIOUS
<1> DEFINE Same(a, b) == /\ a.event_type = b.event_type /\ a.subject = b.subject
                         /\ a.evidence = b.evidence
<1>1. ASSUME NEW e, Genuine(e), ~Known(e), NEW a \in events
      PROVE  ~Same(a, e)
  <2> SUFFICES ASSUME Same(a, e) PROVE FALSE
    OBVIOUS
  <2>1. Genuine(a)
    BY DEF Sourced
  <2>2. a.port = e.port
    <3>1. CASE e.event_type \in IncidentTypes
      BY <1>1, <2>1, <3>1 DEF Genuine
    <3>2. CASE e.event_type \notin IncidentTypes
      <4> DEFINE s == StreamOf(e.event_type)
      <4>1. s \in Streams
        BY DEF StreamOf, Streams
      <4>2. /\ \E p \in DOMAIN journal[s] : journal[s][p] = e
            /\ \E p \in DOMAIN journal[s] : journal[s][p] = a
        BY <1>1, <2>1, <3>2 DEF Genuine
      <4> HIDE DEF s
      <4>3. \A p \in DOMAIN journal[s] : journal[s][p].evidence = {p}
        BY <4>1 DEF Sourced
      <4> QED
        BY <4>2, <4>3
    <3> QED
      BY <3>1, <3>2
  <2>3. fingerprint(a) = fingerprint(e)
    BY <2>2 DEF fingerprint
  <2> QED
    BY <1>1, <2>3 DEF Known
<1>2. CASE events' = events \/ events' \subseteq events
  BY <1>2 DEF AlarmsDistinct
<1>3. CASE \E e \in events' : e \notin events
  <2>1. PICK e \in events' \ events : Genuine(e) /\ ~Known(e) /\ events' = events \cup {e}
    BY <1>3, RowStep DEF Sourced
  <2>2. \A a \in events : ~Same(a, e) /\ ~Same(e, a)
    BY <1>1, <2>1
  <2> QED
    BY <2>1, <2>2 DEF AlarmsDistinct
<1> QED
  BY <1>2, <1>3

\* Two alarms about one subject never rest on the same rows, however many
\* workers draw the conclusion: their fingerprints would be the same.
THEOREM AlarmsOnce == Spec => []AlarmsDistinct
<1>1. Init => Sourced /\ AlarmsDistinct
  BY DEF Init, Sourced, AlarmsDistinct, Range
<1> QED
  BY <1>1, ShapeInit, ShapeStep, SourcedStep, AlarmsDistinctStep, PTL DEF Spec

-----------------------------------------------------------------------------
\* A record that was fetched is in the table, under way or dropped, and stays so.
Accounted(x) == Known(x) \/ x \in lost \/ \E w \in Workers : x \in Range(todo[w])

LEMMA StaysAccounted ==
  ASSUME ShapeInv, [Next]_vars, NEW x, Accounted(x)
  PROVE  Accounted(x)'
<1>1. todo \in [Workers -> Seq(Event)]
  BY DEF ShapeInv, TypeOK
<1>2. events \subseteq events' /\ lost \subseteq lost'
  BY DEF Next, Step, Tick, Log, Begin, NextStream, Turn, Finish, Fetch, FetchFails,
         Checkpoint, add_event, add_decision, Correlate, Abort, Restart, vars,
         stored, failed
<1>3. Known(x) => Known(x)'
  BY <1>2 DEF Known
<1>4. ASSUME NEW w \in Workers, x \in Range(todo[w]) PROVE Accounted(x)'
  <2>1. /\ todo[w] # <<>>
        /\ Range(todo[w]) = {Head(todo[w])} \cup Range(Tail(todo[w]))
    <3>1. todo[w] # <<>>
      BY <1>4 DEF Range
    <3> QED
      BY <1>1, <3>1, HeadAndTail
  <2>2. CASE todo'[w] = todo[w]
    BY <1>4, <2>2 DEF Accounted
  <2>3. CASE Fetch(w) \/ Begin(w) \/ NextStream(w) \/ Finish(w)
    BY <2>1, <2>3 DEF Fetch, Begin, NextStream, Finish, ShapeInv, Hands
  <2>4. CASE add_event(w)
    <3>1. CASE x = Head(todo[w])
      <4>1. Known(x) \/ x \in events'
        BY <2>4, <3>1 DEF add_event
      <4> QED
        BY <1>3, <4>1 DEF Accounted, Known
    <3>2. CASE x # Head(todo[w])
      <4>1. todo'[w] = todo[w] \/ todo'[w] = Tail(todo[w])
        BY <1>1, <2>4 DEF add_event
      <4> QED
        BY <1>4, <2>1, <3>2, <4>1 DEF Accounted
    <3> QED
      BY <3>1, <3>2
  <2>5. CASE Correlate(w)
    <3>1. CASE x = Head(todo[w])
      <4>1. x \in events
        BY <2>5, <3>1 DEF Correlate, Judging, ShapeInv, Hands
      <4> QED
        BY <1>3, <4>1 DEF Accounted, Known
    <3>2. CASE x # Head(todo[w])
      <4>1. x \in Range(Tail(todo[w]))
        BY <1>4, <2>1, <3>2
      <4>2. ASSUME NEW i \in correlate(Head(todo[w]), events)
            PROVE  x \in Range(<<i>> \o Tail(todo[w]))
        <5>1. Head(todo[w]) \in Event /\ Tail(todo[w]) \in Seq(Event)
          BY <1>1, <2>1, HeadAndTail
        <5>2. i \in Event
          BY <5>1, IncidentRaised DEF ShapeInv, TypeOK
        <5>3. Range(<<i>> \o Tail(todo[w])) = {i} \cup Range(Tail(todo[w]))
          BY <5>1, <5>2, PutFirst
        <5> QED
          BY <4>1, <5>3
      <4>3. x \in Range(todo'[w])
        BY <1>1, <2>5, <4>1, <4>2 DEF Correlate
      <4> QED
        BY <4>3 DEF Accounted
    <3> QED
      BY <3>1, <3>2
  <2>6. CASE Abort(w)
    BY <1>4, <2>6 DEF Abort, Accounted
  <2>7. ASSUME NEW v \in Services, Restart(v) PROVE Accounted(x)'
    <3>1. CASE ServiceOf[w] = v
      <4>1. pc[w] # "idle"
        BY <2>1 DEF ShapeInv, Hands
      <4> QED
        BY <1>4, <2>7, <3>1, <4>1 DEF Restart, Accounted
    <3>2. CASE ServiceOf[w] # v
      BY <1>1, <2>2, <2>7, <3>2 DEF Restart
    <3> QED
      BY <3>1, <3>2
  <2>8. \/ todo'[w] = todo[w]
        \/ \E v \in Services : Restart(v)
        \/ Fetch(w) \/ Begin(w) \/ NextStream(w) \/ Finish(w)
        \/ add_event(w) \/ Correlate(w) \/ Abort(w)
    <3>1. ASSUME NEW v \in Workers, v # w, Step(v) \/ Abort(v)
          PROVE  todo'[w] = todo[w]
      BY <1>1, <3>1 DEF Step, Begin, NextStream, Turn, Finish, Leave, Fetch, FetchFails,
                        Checkpoint, add_event, add_decision, Correlate, Abort
    <3>2. CASE Tick \/ (\E r \in Records : Log(r)) \/ FetchFails(w) \/ Checkpoint(w)
               \/ add_decision(w) \/ UNCHANGED vars
      BY <3>2 DEF Tick, Log, FetchFails, Checkpoint, add_decision, vars, local
    <3> QED
      BY <3>1, <3>2 DEF Next, Step
  <2> QED
    BY <2>2, <2>3, <2>4, <2>5, <2>6, <2>7, <2>8
<1> QED
  BY <1>2, <1>3, <1>4 DEF Accounted

UpToAccounted(s, n) ==
  \A p \in 1 .. n : IsEvent(journal[s][p]) => Accounted(journal[s][p])

\* Not only the stored cursor: whatever position a worker might still store.
CursorsAccounted ==
  /\ \A s \in Streams : UpToAccounted(s, cursor[s])
  /\ \A w \in Workers : /\ UpToAccounted(stream[w], after[w])
                        /\ UpToAccounted(stream[w], found[w])

LEMMA FetchAccounts ==
  ASSUME ShapeInv, CursorsAccounted, NEW w \in Workers, Fetch(w),
         NEW p \in 1 .. Len(journal[stream[w]]), NEW x,
         x = journal[stream[w]][p], IsEvent(x)
  PROVE  Accounted(x)'
<1>1. [Next]_vars
  BY DEF Next, Step
<1>2. /\ after[w] \in Nat
      /\ FirstRecord(w) \in 1 .. Len(journal[stream[w]]) + 1
      /\ after[w] > 0 => FirstRecord(w) = after[w] + 1
      /\ Len(journal[stream[w]]) \in Nat
  <2>1. after[w] \in Nat /\ stream[w] \in Streams
    BY DEF ShapeInv, TypeOK
  <2>2. Len(journal[stream[w]]) \in Nat
    BY <2>1, Lengths
  <2> QED
    BY <2>1, <2>2, FirstRecordBounds, Zenon
<1>3. CASE p >= FirstRecord(w)
  <2>1. p \in FirstRecord(w) .. Len(journal[stream[w]])
    BY <1>2, <1>3
  <2>2. x \in Range(todo'[w])
    BY <2>1, FetchedBatch
  <2> QED
    BY <2>2 DEF Accounted
<1>4. CASE p < FirstRecord(w) /\ after[w] > 0
  <2>1. p \in 1 .. after[w]
    BY <1>2, <1>4
  <2>2. Accounted(x)
    BY <2>1 DEF CursorsAccounted, UpToAccounted
  <2> QED
    BY <1>1, <2>2, StaysAccounted
<1>5. CASE p < FirstRecord(w) /\ ~(after[w] > 0)
  <2>1. p \in 1 .. FirstRecord(w) - 1
    BY <1>2, <1>5
  <2>2. x \in lost'
    BY <1>5, <2>1 DEF Fetch
  <2> QED
    BY <2>2 DEF Accounted
<1> QED
  BY <1>2, <1>3, <1>4, <1>5

LEMMA CursorsStep ==
  ShapeInv /\ CursorsAccounted /\ [Next]_vars => CursorsAccounted'
<1> SUFFICES ASSUME ShapeInv, CursorsAccounted, [Next]_vars PROVE CursorsAccounted'
  OBVIOUS
<1> DEFINE Later(s, n) == \A p \in 1 .. n : \A x :
                            x = journal'[s][p] /\ IsEvent(x) => Accounted(x)'
<1>1. /\ cursor \in [Streams -> 0 .. MaxRecords] /\ stream \in [Workers -> Streams]
      /\ after \in [Workers -> 0 .. MaxRecords]
      /\ found \in [Workers -> 0 .. MaxRecords]
      /\ \A s \in Streams : cursor[s] <= Len(journal[s])
      /\ \A w \in Workers : /\ after[w] <= Len(journal[stream[w]])
                            /\ found[w] <= Len(journal[stream[w]])
  BY DEF ShapeInv, TypeOK, Extents
<1>2. ASSUME NEW s \in Streams, NEW n \in 0 .. MaxRecords, n <= Len(journal[s]),
             UpToAccounted(s, n)
      PROVE  Later(s, n)
  <2> SUFFICES ASSUME NEW p \in 1 .. n, NEW x, x = journal'[s][p], IsEvent(x)
               PROVE  Accounted(x)'
    OBVIOUS
  <2>1. p \in DOMAIN journal[s]
    BY <1>2, Lengths
  <2>2. x = journal[s][p]
    BY <2>1, JournalGrows
  <2>3. Accounted(x)
    BY <1>2, <2>2 DEF UpToAccounted
  <2> QED
    BY <2>3, StaysAccounted
<1>3. /\ \A s \in Streams : Later(s, cursor[s])
      /\ \A w \in Workers : Later(stream[w], after[w]) /\ Later(stream[w], found[w])
  BY <1>1, <1>2 DEF CursorsAccounted
<1>4. \A s \in Streams : Later(s, 0)
  OBVIOUS
<1> HIDE DEF Later
<1>5. \A s \in Streams : Later(s, cursor'[s])
  <2>1. ASSUME NEW w \in Workers, Checkpoint(w)
        PROVE  \A s \in Streams :
                 \/ cursor'[s] = cursor[s]
                 \/ s = stream[w] /\ cursor'[s] = found[w]
    <3>1. CASE cursor' = cursor
      BY <3>1
    <3>2. CASE cursor' = [cursor EXCEPT ![stream[w]] = found[w]]
      BY <1>1, <3>2
    <3> QED
      BY <2>1, <3>1, <3>2 DEF Checkpoint
  <2>2. UNCHANGED cursor \/ \E w \in Workers : Checkpoint(w)
    BY DEF Next, Step, Tick, Log, Begin, NextStream, Turn, Finish, Fetch, FetchFails,
           add_event, add_decision, Correlate, Abort, Restart, vars
  <2> QED
    BY <1>3, <2>1, <2>2
<1>6. ASSUME NEW w \in Workers
      PROVE  Later(stream'[w], after'[w]) /\ Later(stream'[w], found'[w])
  <2>1. CASE stream'[w] = stream[w] /\ after'[w] = after[w] /\ found'[w] = found[w]
    BY <1>3, <2>1
  <2>2. CASE Begin(w) \/ NextStream(w)
    <3>1. PICK s \in Streams : Turn(w, s)
      BY <2>2 DEF Begin, NextStream, Streams
    <3>2. stream'[w] = s /\ after'[w] = cursor[s] /\ found'[w] = 0
      BY <1>1, <3>1 DEF Turn
    <3> QED
      BY <1>3, <1>4, <3>2
  <2>3. CASE stream'[w] \in Streams /\ after'[w] = 0 /\ found'[w] = 0
    BY <1>4, <2>3
  <2>4. CASE Fetch(w)
    <3> DEFINE j == journal[stream[w]]
    <3>1. /\ stream'[w] = stream[w] /\ after'[w] = after[w]
          /\ found'[w] = after[w] \/ found'[w] = Len(j)
          /\ UNCHANGED journal
      BY <1>1, <2>4 DEF Fetch
    <3>2. Later(stream[w], Len(j))
      BY <2>4, <3>1, FetchAccounts DEF Later
    <3> QED
      BY <1>3, <3>1, <3>2
  <2>5. \/ stream'[w] = stream[w] /\ after'[w] = after[w] /\ found'[w] = found[w]
        \/ Begin(w) \/ NextStream(w) \/ Fetch(w)
        \/ stream'[w] \in Streams /\ after'[w] = 0 /\ found'[w] = 0
    <3>1. ASSUME NEW v \in Workers, Leave(v)
          PROVE  \/ UNCHANGED <<stream[w], after[w], found[w]>>
                 \/ stream'[w] \in Streams /\ after'[w] = 0 /\ found'[w] = 0
      BY <1>1, <3>1 DEF Leave, Streams
    <3>2. ASSUME NEW v \in Services, Restart(v)
          PROVE  \/ UNCHANGED <<stream[w], after[w], found[w]>>
                 \/ stream'[w] \in Streams /\ after'[w] = 0 /\ found'[w] = 0
      BY <3>2 DEF Restart, Streams
    <3>3. ASSUME NEW v \in Workers, v # w, Begin(v) \/ NextStream(v) \/ Fetch(v)
          PROVE  UNCHANGED <<stream[w], after[w], found[w]>>
      BY <1>1, <3>3 DEF Begin, NextStream, Turn, Fetch
    <3>4. ASSUME NEW v \in Workers,
                 FetchFails(v) \/ Checkpoint(v) \/ add_event(v) \/ add_decision(v)
                   \/ Correlate(v)
          PROVE  UNCHANGED <<stream[w], after[w], found[w]>>
      BY <3>4 DEF FetchFails, Checkpoint, add_event, add_decision, Correlate
    <3>5. CASE Tick \/ (\E r \in Records : Log(r)) \/ UNCHANGED vars
      BY <3>5 DEF Tick, Log, vars, local
    <3>6. \A v \in Workers : Abort(v) \/ Finish(v) => Leave(v)
      BY DEF Abort, Finish
    <3> QED
      BY <3>1, <3>2, <3>3, <3>4, <3>5, <3>6 DEF Next, Step
  <2> QED
    BY <2>1, <2>2, <2>3, <2>4, <2>5
<1> QED
  BY <1>5, <1>6 DEF CursorsAccounted, UpToAccounted, Later, Accounted, Known

\* No overtaking of cursors passes a record over: whatever position is stored,
\* the events up to it are in the table, in a worker's hands or dropped by a fault.
THEOREM NonePassedOver == Spec => []CursorAccounted
<1>1. Init => CursorsAccounted
  BY DEF Init, CursorsAccounted, UpToAccounted, Streams
<1>2. CursorsAccounted => CursorAccounted
  BY DEF CursorsAccounted, UpToAccounted, Accounted, CursorAccounted
<1> QED
  BY <1>1, <1>2, ShapeInit, ShapeStep, CursorsStep, PTL DEF Spec
=============================================================================
