------------------------------- MODULE Ingest -------------------------------
(***************************************************************************)
(* The journal half of MonitoringService.collect_once: the records of the  *)
(* authentication and of the kernel journal on their way through the       *)
(* stored cursor, the events table, triage and correlation.  Workers are   *)
(* whatever runs collect_once: the service loop and POST /api/collect in   *)
(* one process, jevguard collect-once in another.  Every store call is a   *)
(* step of its own, so workers interleave between any two of them; a call  *)
(* that raises, or a process that ends, drops what is in memory.           *)
(***************************************************************************)
EXTENDS Correlation, Sequences, Functions

CONSTANTS
  Workers,
  Loop,          \* the worker that is the service loop, run()
  Services,      \* the MonitoringService objects
  ServiceOf,     \* the service each worker runs collect_once of
  Subjects,
  Ports,
  Records,       \* what may be logged; a record of type "other" parses to None
  Start,         \* the time at which the services start
  Minute,        \* 60 seconds, in ticks
  Horizon, MaxRecords, MaxFaults   \* bounds: time, records, faults

ASSUME IngestAssumption ==
  /\ IsFiniteSet(Workers)
  /\ ServiceOf \in [Workers -> Services]
  /\ Records \subseteq
       [event_type : SshTypes \cup PrivilegeTypes \cup {"other"},
        subject : Subjects, port : {NoPort}]
       \cup [event_type : {"firewall_packet_blocked"},
             subject : Subjects \cup {NoSource}, port : Ports \cup {NoPort}]
  /\ Start \in Nat /\ Minute \in Nat /\ Horizon \in Nat /\ Start <= Horizon
  /\ MaxRecords \in Nat /\ MaxFaults \in Nat
  /\ NoPort \notin Ports /\ NoSource \notin Subjects

ASSUME LoopAssumption == Loop \in Workers

VARIABLES
  clock,
  journal,          \* what journalctl would print, oldest first, by stream
  cursor,           \* collector_state: journal_cursor, kernel_journal_cursor
  last_auth_check,  \* of each service
  events,           \* the events table
  decided,          \* the events that have a row in decisions
  faults,           \* batches dropped so far
  lost,             \* history: what they held, and what --since passed over
  pc, stream,       \* where each worker is in collect_once
  after,            \* its local variable cursor
  found,            \* its local variable new_cursor
  todo              \* what it still has to ingest, an incident at the head

stored == <<events, decided>>
local  == <<pc, stream, after, found, todo>>
failed == <<faults, lost>>
vars   == <<clock, journal, cursor, last_auth_check, stored, failed, local>>

Streams == {"auth", "kernel"}

StreamOf(kind) == IF kind = "firewall_packet_blocked" THEN "kernel" ELSE "auth"

Times == Start - Minute .. Horizon

Event ==
  [event_type  : {r.event_type : r \in Records} \cup IncidentTypes,
   subject     : Subjects \cup {NoSource},
   port        : Ports \cup {NoPort},
   observed_at : Times,
   evidence    : SUBSET (1 .. MaxRecords)]

Init ==
  /\ clock = Start
  /\ journal = [s \in Streams |-> <<>>]
  /\ cursor = [s \in Streams |-> 0]
  /\ last_auth_check = [v \in Services |-> Start - Minute]
  /\ events = {} /\ decided = {}
  /\ faults = 0 /\ lost = {}
  /\ pc = [w \in Workers |-> "idle"]
  /\ stream = [w \in Workers |-> "auth"]
  /\ after = [w \in Workers |-> 0]
  /\ found = [w \in Workers |-> 0]
  /\ todo = [w \in Workers |-> <<>>]

-----------------------------------------------------------------------------
\* The host.
Tick ==
  /\ clock < Horizon
  /\ clock' = clock + 1
  /\ UNCHANGED <<journal, cursor, last_auth_check, stored, failed, local>>

Log(r) ==
  LET s == StreamOf(r.event_type)
      record == [event_type |-> r.event_type, subject |-> r.subject, port |-> r.port,
                 observed_at |-> clock, evidence |-> {Len(journal[s]) + 1}]
  IN  /\ Len(journal["auth"]) + Len(journal["kernel"]) < MaxRecords
      /\ journal' = [journal EXCEPT ![s] = Append(@, record)]
      /\ UNCHANGED <<clock, cursor, last_auth_check, stored, failed, local>>

-----------------------------------------------------------------------------
\* collect_once.
Turn(w, s) ==
  /\ pc' = [pc EXCEPT ![w] = "fetch"]
  /\ stream' = [stream EXCEPT ![w] = s]
  /\ after' = [after EXCEPT ![w] = cursor[s]]
  /\ found' = [found EXCEPT ![w] = 0]
  /\ UNCHANGED <<clock, journal, cursor, last_auth_check, stored, failed, todo>>

Begin(w) == pc[w] = "idle" /\ Turn(w, "auth")

NextStream(w) ==
  /\ pc[w] = "add" /\ todo[w] = <<>> /\ stream[w] = "auth"
  /\ Turn(w, "kernel")

\* The worker's frame is gone.
Leave(w) ==
  /\ pc' = [pc EXCEPT ![w] = "idle"]
  /\ stream' = [stream EXCEPT ![w] = "auth"]
  /\ after' = [after EXCEPT ![w] = 0]
  /\ found' = [found EXCEPT ![w] = 0]
  /\ todo' = [todo EXCEPT ![w] = <<>>]

Finish(w) ==
  /\ pc[w] = "add" /\ todo[w] = <<>> /\ stream[w] = "kernel"
  /\ Leave(w)
  /\ UNCHANGED <<clock, journal, cursor, last_auth_check, stored, failed>>

\* journalctl --after-cursor, or --since while no cursor is stored.
Since(w) ==
  last_auth_check[ServiceOf[w]] - (IF stream[w] = "kernel" THEN Minute ELSE 0)

\* Mutant: the record after the cursor is passed over.
FirstRecord_beyond(w) ==
  LET j == journal[stream[w]]
  IN  1 + IF after[w] > 0 THEN after[w] + 1
          ELSE Cardinality({p \in 1 .. Len(j) : j[p].observed_at < Since(w)})

FirstRecord(w) ==
  LET j == journal[stream[w]]
  IN  1 + IF after[w] > 0 THEN after[w]
          ELSE Cardinality({p \in 1 .. Len(j) : j[p].observed_at < Since(w)})

IsEvent(record) == record.event_type # "other"

\* The records that parse to an event, in their order: SelectSeq(lines, IsEvent)
\* as the one member of a set, without recursion.
EventsOf(lines) ==
  LET kept == {k \in DOMAIN lines : IsEvent(lines[k])}
      n == Cardinality(kept)
      ordered == {at \in [1 .. n -> kept] :
                    /\ Range(at) = kept
                    /\ \A i, k \in 1 .. n : i < k => at[i] < at[k]}
  IN  {[i \in 1 .. n |-> lines[at[i]]] : at \in ordered}

\* Mutant: journalctl --reverse, the newest record first.
Fetch_reversed(w) ==
  LET j == journal[stream[w]]
      lines == SubSeq(j, FirstRecord(w), Len(j))
      newest == [k \in 1 .. Len(lines) |-> lines[Len(lines) + 1 - k]]
  IN  /\ pc[w] = "fetch"
      /\ pc' = [pc EXCEPT ![w] = "save"]
      /\ found' = [found EXCEPT ![w] = IF lines = <<>> THEN after[w] ELSE Len(j)]
      /\ todo' = [todo EXCEPT ![w] = SelectSeq(newest, IsEvent)]
      /\ lost' = IF after[w] > 0 THEN lost
                 ELSE lost \cup {j[p] : p \in 1 .. FirstRecord(w) - 1}
      /\ UNCHANGED <<clock, journal, cursor, last_auth_check, stored, faults,
                     stream, after>>

Fetch(w) ==
  LET j == journal[stream[w]]
      lines == SubSeq(j, FirstRecord(w), Len(j))
  IN  /\ pc[w] = "fetch"
      /\ pc' = [pc EXCEPT ![w] = "save"]
      /\ found' = [found EXCEPT ![w] = IF lines = <<>> THEN after[w] ELSE Len(j)]
      /\ \E batch \in EventsOf(lines) : todo' = [todo EXCEPT ![w] = batch]
      /\ lost' = IF after[w] > 0 THEN lost
                 ELSE lost \cup {j[p] : p \in 1 .. FirstRecord(w) - 1}
      /\ UNCHANGED <<clock, journal, cursor, last_auth_check, stored, faults,
                     stream, after>>

\* The time of the check is kept whether or not journalctl ran.
Checked(w) ==
  last_auth_check' = IF stream[w] = "auth"
                       THEN [last_auth_check EXCEPT ![ServiceOf[w]] = clock]
                       ELSE last_auth_check

\* journalctl is missing, times out or exits with an error.
FetchFails(w) ==
  /\ pc[w] = "fetch"
  /\ pc' = [pc EXCEPT ![w] = "add"]
  /\ Checked(w)
  /\ UNCHANGED <<clock, journal, cursor, stored, failed, stream, after, found, todo>>

\* Mutant: the newest cursor of the journal is stored, not that of the batch.
Checkpoint_newest(w) ==
  /\ pc[w] = "save"
  /\ pc' = [pc EXCEPT ![w] = "add"]
  /\ Checked(w)
  /\ cursor' = [cursor EXCEPT ![stream[w]] = Len(journal[stream[w]])]
  /\ UNCHANGED <<clock, journal, stored, failed, stream, after, found, todo>>

\* The cursor is stored before the first event of the batch is.
Checkpoint(w) ==
  /\ pc[w] = "save"
  /\ pc' = [pc EXCEPT ![w] = "add"]
  /\ Checked(w)
  /\ cursor' = IF found[w] = 0 THEN cursor
               ELSE [cursor EXCEPT ![stream[w]] = found[w]]
  /\ UNCHANGED <<clock, journal, stored, failed, stream, after, found, todo>>

-----------------------------------------------------------------------------
\* ingest, on the event at the head of todo.
Known(e) == \E r \in events : fingerprint(r) = fingerprint(e)

\* Mutant: an event that is in the table already is judged once more.
add_event_again(w) ==
  /\ pc[w] = "add" /\ todo[w] # <<>>
  /\ events' = IF Known(Head(todo[w])) THEN events ELSE events \cup {Head(todo[w])}
  /\ pc' = [pc EXCEPT ![w] = "decide"]
  /\ UNCHANGED <<clock, journal, cursor, last_auth_check, decided, failed,
                 stream, after, found, todo>>

\* Mutant: an incident is stored without a decision.
add_event_undecided(w) ==
  /\ pc[w] = "add" /\ todo[w] # <<>>
  /\ LET e == Head(todo[w])
     IN  IF Known(e)
           THEN /\ todo' = [todo EXCEPT ![w] = Tail(@)]
                /\ UNCHANGED <<events, pc>>
           ELSE /\ events' = events \cup {e}
                /\ pc' = [pc EXCEPT ![w] = IF e.event_type \in IncidentTypes
                                             THEN "correlate" ELSE "decide"]
                /\ UNCHANGED todo
  /\ UNCHANGED <<clock, journal, cursor, last_auth_check, decided, failed,
                 stream, after, found>>

add_event(w) ==
  /\ pc[w] = "add" /\ todo[w] # <<>>
  /\ LET e == Head(todo[w])
     IN  IF Known(e)
           THEN /\ todo' = [todo EXCEPT ![w] = Tail(@)]
                /\ UNCHANGED <<events, pc>>
           ELSE /\ events' = events \cup {e}
                /\ pc' = [pc EXCEPT ![w] = "decide"]
                /\ UNCHANGED todo
  /\ UNCHANGED <<clock, journal, cursor, last_auth_check, decided, failed,
                 stream, after, found>>

\* Mutant: the event is let go before it is correlated.
add_decision_early(w) ==
  /\ pc[w] = "decide"
  /\ decided' = decided \cup {Head(todo[w])}
  /\ pc' = [pc EXCEPT ![w] = "correlate"]
  /\ todo' = [todo EXCEPT ![w] = Tail(@)]
  /\ UNCHANGED <<clock, journal, cursor, last_auth_check, events, failed,
                 stream, after, found>>

\* _decide and add_decision; what is decided is the module DecisionRecord.
add_decision(w) ==
  /\ pc[w] = "decide"
  /\ decided' = decided \cup {Head(todo[w])}
  /\ pc' = [pc EXCEPT ![w] = "correlate"]
  /\ UNCHANGED <<clock, journal, cursor, last_auth_check, events, failed,
                 stream, after, found, todo>>

\* The query of the rule, over the rows of this moment.  An incident is
\* ingested at once, before the rest of the batch.
Correlate(w) ==
  LET incidents == correlate(Head(todo[w]), events)
  IN  /\ pc[w] = "correlate"
      /\ pc' = [pc EXCEPT ![w] = "add"]
      /\ \/ incidents = {} /\ todo' = [todo EXCEPT ![w] = Tail(@)]
         \/ \E i \in incidents : todo' = [todo EXCEPT ![w] = <<i>> \o Tail(@)]
      /\ UNCHANGED <<clock, journal, cursor, last_auth_check, stored, failed,
                     stream, after, found>>

-----------------------------------------------------------------------------
\* A store call raises, or a provider's adapter does: collect_once is left.
Abort(w) ==
  /\ pc[w] # "idle" /\ faults < MaxFaults
  /\ faults' = faults + 1
  /\ lost' = lost \cup Range(todo[w])
  /\ Leave(w)
  /\ IF pc[w] = "save" THEN Checked(w) ELSE UNCHANGED last_auth_check
  /\ UNCHANGED <<clock, journal, cursor, stored>>

\* The process ends and another one starts with the same database.
Restart(v) ==
  LET mine == {w \in Workers : ServiceOf[w] = v}
      reset(f, value) == [w \in Workers |-> IF w \in mine THEN value ELSE f[w]]
      busy == {w \in mine : pc[w] # "idle"}
  IN  /\ faults + Cardinality(busy) <= MaxFaults
      /\ faults' = faults + Cardinality(busy)
      /\ lost' = lost \cup UNION {Range(todo[w]) : w \in busy}
      /\ last_auth_check' = [last_auth_check EXCEPT ![v] = clock - Minute]
      /\ pc' = reset(pc, "idle")
      /\ stream' = reset(stream, "auth")
      /\ after' = reset(after, 0)
      /\ found' = reset(found, 0)
      /\ todo' = reset(todo, <<>>)
      /\ UNCHANGED <<clock, journal, cursor, stored>>

Step(w) ==
  \/ Begin(w) \/ NextStream(w) \/ Finish(w)
  \/ Fetch(w) \/ FetchFails(w) \/ Checkpoint(w)
  \/ add_event(w) \/ add_decision(w) \/ Correlate(w)

Next ==
  \/ Tick
  \/ \E r \in Records : Log(r)
  \/ \E w \in Workers : Step(w) \/ Abort(w)
  \/ \E v \in Services : Restart(v)

Spec == Init /\ [][Next]_vars

\* run() calls collect_once again and again; nothing makes anyone else call it,
\* but who is in it goes on.  journalctl, started time and again by the loop,
\* succeeds some time on either journal.
FairSpec ==
  /\ Spec
  /\ WF_vars(Begin(Loop))
  /\ \A w \in Workers : WF_vars(pc[w] # "idle" /\ Step(w))
  /\ \A s \in Streams : SF_vars(stream[Loop] = s /\ Fetch(Loop))

-----------------------------------------------------------------------------
\* What every variable holds.
TypeOK ==
  /\ clock \in Start .. Horizon
  /\ journal \in [Streams -> Seq(Event)]
  /\ cursor \in [Streams -> 0 .. MaxRecords]
  /\ last_auth_check \in [Services -> Times]
  /\ decided \subseteq events /\ events \subseteq Event
  /\ faults \in 0 .. MaxFaults /\ lost \subseteq Event
  /\ pc \in [Workers -> {"idle", "fetch", "save", "add", "decide", "correlate"}]
  /\ stream \in [Workers -> Streams]
  /\ after \in [Workers -> 0 .. MaxRecords]
  /\ found \in [Workers -> 0 .. MaxRecords]
  /\ todo \in [Workers -> Seq(Event)]
  /\ \A w \in Workers : pc[w] \in {"decide", "correlate"} => todo[w] # <<>>

Judging(w) == pc[w] \in {"decide", "correlate"}

\* However workers overtake each other and set each other's cursor back, every
\* record up to the stored cursor is in the table or in some worker's batch, but
\* for those a fault dropped and those that --since passed over before there was
\* a cursor.
CursorAccounted ==
  \A s \in Streams : \A p \in 1 .. cursor[s] :
    LET record == journal[s][p]
    IN  IsEvent(record) =>
          \/ Known(record) \/ record \in lost
          \/ \E w \in Workers : record \in Range(todo[w])

\* A row without a decision is in no review queue (summary joins decisions): it
\* is being judged, or a fault left it behind.
UndecidedInFlight ==
  \A e \in events \ decided :
    e \in lost \/ \E w \in Workers : pc[w] = "decide" /\ Head(todo[w]) = e

\* A record two workers fetched is judged, and sent to the provider, by one.
OneJudge ==
  \A v, w \in Workers :
    /\ pc[w] = "decide" => Head(todo[w]) \notin decided
    /\ v # w /\ Judging(v) /\ Judging(w) => Head(todo[v]) # Head(todo[w])

\* Two alarms about the same subject rest on different rows, also when two
\* workers reach the same conclusion from events observed at different times.
AlarmsDistinct ==
  \A a, b \in events :
    a.event_type = b.event_type /\ a.subject = b.subject /\ a.evidence = b.evidence
      => a = b

-----------------------------------------------------------------------------
\* What the alarms say, read off the rows and not off the rules.
Position(e) == CHOOSE p \in e.evidence : TRUE

Rows(event_type, subject) ==
  {e \in events : e.event_type = event_type /\ e.subject = subject}

\* The rows of a type, about the subject of e, in the window that ends with e.
UpTo(event_type, e) ==
  {r \in Rows(event_type, e.subject) :
     /\ Position(r) <= Position(e)
     /\ e.observed_at - r.observed_at <= SshWindow}

Positions(rows) == {Position(r) : r \in rows}

Alarm(event_type, subject, rows) ==
  \E i \in Rows(event_type, subject) : i.evidence = Positions(rows)

\* Nothing is under way and nothing was dropped.
Settled == faults = 0 /\ \A w \in Workers : todo[w] = <<>>

\* An attack goes on from event g to event e when every event between them has
\* its window full.
Unbroken(event_type, g, e, Full(_)) ==
  /\ Position(g) <= Position(e)
  /\ \A h \in Rows(event_type, e.subject) :
       Position(h) \in Position(g) .. Position(e) => Full(h)

\* README.md: JevGuard detects brute-force patterns.  Whenever enough failures
\* fall into a window, the attack they belong to has its ssh_bruteforce row,
\* although the code compares for equality and asks after each failure only.
BurstsReported ==
  LET Full(e) == Cardinality(UpTo("ssh_login_failed", e)) >= BruteForce
  IN  Settled =>
        \A e \in events : e.event_type = "ssh_login_failed" /\ Full(e) =>
          \E g \in Rows("ssh_login_failed", e.subject) :
            /\ Unbroken("ssh_login_failed", g, e, Full)
            /\ Alarm("ssh_bruteforce", e.subject, UpTo("ssh_login_failed", g))

\* README.md: ... and possible port scans.
ScansReported ==
  LET Full(e) ==
        Cardinality(PortsOf(UpTo("firewall_packet_blocked", e))) >= ScanPorts
  IN  Settled =>
        \A e \in events :
          e.event_type = "firewall_packet_blocked" /\ e.subject # NoSource /\ Full(e) =>
            \E g \in Rows("firewall_packet_blocked", e.subject) :
              /\ Unbroken("firewall_packet_blocked", g, e, Full)
              /\ Alarm("port_scan", e.subject, UpTo("firewall_packet_blocked", g))

\* README.md: ... and a successful login after failures, which is critical.
BreakInsReported ==
  Settled =>
    \A e \in events :
      e.event_type = "ssh_login_succeeded" /\ UpTo("ssh_login_failed", e) # {} =>
        Alarm("ssh_failures_then_success", e.subject, UpTo("ssh_login_failed", e))

\* README.md: the failures come first.
FailuresComeFirst ==
  \A i \in events : i.event_type = "ssh_failures_then_success" =>
    \A p \in i.evidence : journal["auth"][p].observed_at <= i.observed_at

\* How the collector polls makes no difference: between two batches the alarms
\* are those that the stored records yield one at a time in journal order.
PollingIrrelevant ==
  LET records == {e \in events : e.event_type \notin IncidentTypes}
      before(e) == {r \in records : Position(r) <= Position(e)}
      implied == UNION {correlate(e, before(e)) : e \in records}
  IN  Settled =>
        {fingerprint(i) : i \in events \ records} = {fingerprint(i) : i \in implied}

\* A record that follows the stored cursor, so not the first one, is judged in
\* the end, whoever else collects meanwhile, unless its batch is dropped.
Collected ==
  \A s \in Streams, p \in 2 .. MaxRecords :
    (/\ 0 < cursor[s] /\ cursor[s] < p /\ p <= Len(journal[s])
     /\ IsEvent(journal[s][p]))
      ~> (p \in DOMAIN journal[s] /\ journal[s][p] \in decided \cup lost)

=============================================================================
