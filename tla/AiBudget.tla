------------------------------ MODULE AiBudget ------------------------------
(***************************************************************************)
(* MonitoringService._reserve_ai_call over the row "ai_budget" of          *)
(* collector_state.  Each store call is a transaction of its own; nothing  *)
(* is held across the read of the ledger, the write of the pruned ledger   *)
(* and the write of the reservation.  Workers are the threads and          *)
(* processes that may ingest: the service loop, POST /api/collect and      *)
(* jevguard collect-once.                                                  *)
(***************************************************************************)
EXTENDS CallLimits

CONSTANTS
  Workers,
  MaxCalls      \* bound: no reservation is begun after this many calls

ASSUME WorkersAssumption == Workers # {}

VARIABLES
  clock, calls, serial,
  ledger,       \* the stored row: what every worker reads and overwrites
  pc,           \* where each worker is in _reserve_ai_call
  now,          \* its local variable now
  subject,      \* its local variable subject
  seen          \* its local variables attempts and subjects

L == INSTANCE CallLimiter WITH clock <- clock, calls <- calls, serial <- serial

vars == <<clock, calls, serial, ledger, pc, now, subject, seen>>

\* An attempt is kept as the call it stands for; the code keeps its time only.
\* A subject that has no entry reads as 0, the default of subjects.get.
Ledger == [initialized : BOOLEAN, attempts : SUBSET Call, subjects : [Subjects -> Nat]]

NoEntries == [s \in Subjects |-> 0]

EmptyLedger == [initialized |-> FALSE, attempts |-> {}, subjects |-> NoEntries]

Init ==
  /\ L!Init
  /\ ledger = EmptyLedger
  /\ pc = [w \in Workers |-> "idle"]
  /\ now = [w \in Workers |-> Start]
  /\ subject = [w \in Workers |-> NoSubject]
  /\ seen = [w \in Workers |-> EmptyLedger]

-----------------------------------------------------------------------------
\* Mutant: only the last hour is asked for.
recent_external_calls_hour(t) == {c \in calls : c.subject = NoSubject /\ c.at >= t - Hour}

\* recent_external_call_timestamps: the external decisions of the last day
\* that an earlier version left.  Only a missing ledger makes the code ask.
recent_external_calls(t) == {c \in calls : c.subject = NoSubject /\ c.at >= t - Day}

\* Mutant: attempts are never pruned.
LoadAttempts_all(t) ==
  IF ledger.initialized THEN ledger.attempts ELSE recent_external_calls(t)

\* _load_ai_budget
LoadAttempts(t) ==
  {c \in IF ledger.initialized THEN ledger.attempts ELSE recent_external_calls(t) :
     t - c.at < Day}

Longest == IF Cooldown > Day THEN Cooldown ELSE Day

\* Mutant: subjects are pruned with the day, however long the cooldown is.
LoadSubjects_day(t) ==
  [s \in Subjects |-> IF t - ledger.subjects[s] < Day THEN ledger.subjects[s] ELSE 0]

LoadSubjects(t) ==
  [s \in Subjects |->
     IF t - ledger.subjects[s] < Longest THEN ledger.subjects[s] ELSE 0]

\* Mutant: a call exactly one hour old is not counted.
Hourly_strict(w) == Cardinality({c \in seen[w].attempts : c.at > now[w] - Hour})

Hourly(w) == Cardinality({c \in seen[w].attempts : c.at >= now[w] - Hour})

\* Mutant: one call too many a day.
Refused_late(w) ==
  \/ MaxPerHour <= 0 \/ Hourly(w) >= MaxPerHour
  \/ MaxPerDay <= 0 \/ Cardinality(seen[w].attempts) > MaxPerDay
  \/ now[w] - seen[w].subjects[subject[w]] < Cooldown

Refused(w) ==
  \/ MaxPerHour <= 0 \/ Hourly(w) >= MaxPerHour
  \/ MaxPerDay <= 0 \/ Cardinality(seen[w].attempts) >= MaxPerDay
  \/ now[w] - seen[w].subjects[subject[w]] < Cooldown

-----------------------------------------------------------------------------
Tick ==
  /\ L!Tick
  /\ UNCHANGED <<ledger, pc, now, subject, seen>>

\* Mutant: the reservation does not know its incident.
Begin_anonymous(w, s) ==
  /\ pc[w] = "idle"
  /\ serial < MaxCalls
  /\ pc' = [pc EXCEPT ![w] = "load"]
  /\ now' = [now EXCEPT ![w] = clock]
  /\ UNCHANGED <<clock, calls, serial, ledger, subject, seen>>

\* _decide reaches the reservation with an event of subject s.
Begin(w, s) ==
  /\ pc[w] = "idle"
  /\ serial < MaxCalls
  /\ pc' = [pc EXCEPT ![w] = "load"]
  /\ now' = [now EXCEPT ![w] = clock]
  /\ subject' = [subject EXCEPT ![w] = s]
  /\ UNCHANGED <<clock, calls, serial, ledger, seen>>

Load(w) ==
  /\ pc[w] = "load"
  /\ pc' = [pc EXCEPT ![w] = "save"]
  /\ seen' = [seen EXCEPT ![w] =
                [initialized |-> TRUE, attempts |-> LoadAttempts(now[w]),
                 subjects |-> LoadSubjects(now[w])]]
  /\ UNCHANGED <<clock, calls, serial, ledger, now, subject>>

SavePruned(w) ==
  /\ pc[w] = "save"
  /\ pc' = [pc EXCEPT ![w] = "check"]
  /\ ledger' = seen[w]
  /\ UNCHANGED <<clock, calls, serial, now, subject, seen>>

\* On return the local variables are gone.
Leave(w, to) ==
  /\ pc' = [pc EXCEPT ![w] = to]
  /\ now' = [now EXCEPT ![w] = Start]
  /\ subject' = [subject EXCEPT ![w] = NoSubject]
  /\ seen' = [seen EXCEPT ![w] = EmptyLedger]

Refuse(w) ==
  /\ pc[w] = "check"
  /\ Refused(w)
  /\ Leave(w, "idle")
  /\ UNCHANGED <<clock, calls, serial, ledger>>

\* Mutant: the call is counted, but not for its incident.
Reserve_uncooled(w) ==
  LET call == [id |-> serial + 1, at |-> now[w], subject |-> subject[w]]
  IN  /\ pc[w] = "check"
      /\ ~Refused(w)
      /\ Leave(w, "idle")
      /\ ledger' = [seen[w] EXCEPT !.attempts = @ \cup {call}]
      /\ calls' = calls \cup {call}
      /\ serial' = serial + 1
      /\ UNCHANGED clock

\* The reservation is written, and the provider is called with it.
Reserve(w) ==
  LET call == [id |-> serial + 1, at |-> now[w], subject |-> subject[w]]
  IN  /\ pc[w] = "check"
      /\ ~Refused(w)
      /\ Leave(w, "idle")
      /\ ledger' = [initialized |-> TRUE,
                    attempts |-> seen[w].attempts \cup {call},
                    subjects |-> [seen[w].subjects EXCEPT ![subject[w]] = now[w]]]
      /\ calls' = calls \cup {call}
      /\ serial' = serial + 1
      /\ UNCHANGED clock

\* The process ends, or a store call raises (a locked database), midway.
Fail(w) ==
  /\ pc[w] \in {"load", "save", "check"}
  /\ Leave(w, "down")
  /\ UNCHANGED <<clock, calls, serial, ledger>>

Recover(w) ==
  /\ pc[w] = "down"
  /\ pc' = [pc EXCEPT ![w] = "idle"]
  /\ UNCHANGED <<clock, calls, serial, ledger, now, subject, seen>>

Next ==
  \/ Tick
  \/ \E w \in Workers :
       \/ \E s \in Subjects : Begin(w, s)
       \/ Load(w) \/ SavePruned(w) \/ Refuse(w) \/ Reserve(w)
       \/ Fail(w) \/ Recover(w)

Spec == Init /\ [][Next]_vars

-----------------------------------------------------------------------------
\* What every variable holds.
TypeOK ==
  /\ clock \in Start .. Horizon
  /\ calls \subseteq Call
  /\ serial \in Nat
  /\ ledger \in Ledger
  /\ pc \in [Workers -> {"idle", "load", "save", "check", "down"}]
  /\ now \in [Workers -> Start .. Horizon]
  /\ subject \in [Workers -> Subjects \cup {NoSubject}]
  /\ seen \in [Workers -> Ledger]
  /\ \A w \in Workers : pc[w] \in {"load", "save", "check"} => subject[w] \in Subjects

\* No reservation is under way: what a worker would find now.
Quiet == \A w \in Workers : pc[w] \in {"idle", "down"}

\* The three limits of docs/THREAT_MODEL.md:31, on calls as granted.
HourlyBudget    == L!HourlyBudget
DailyBudget     == L!DailyBudget
CooldownSpacing == L!CooldownSpacing

\* Pruning, failing midway and starting without a ledger never make the stored
\* row forget a call that still counts, nor invent one.
LedgerRemembers ==
  Quiet /\ ledger.initialized =>
    /\ {c \in calls : clock - c.at < Day} \subseteq ledger.attempts
    /\ ledger.attempts \subseteq calls
    /\ \A c \in L!Granted :
         clock - c.at < Cooldown => ledger.subjects[c.subject] >= c.at

\* A call is refused only for a reason that holds of the calls really made:
\* the limits cost no call they need not cost (limits of zero switch AI off).
RefusedJustly ==
  [][\A w \in Workers :
       pc[w] = "check" /\ pc'[w] = "idle" /\ calls' = calls =>
         \/ Cardinality(L!LastHour(now[w])) >= MaxPerHour
         \/ Cardinality(L!LastDay(now[w])) >= MaxPerDay
         \/ \E c \in calls : c.subject = subject[w] /\ now[w] - c.at < Cooldown]_vars

\* The ledger implements the limiter.
ImplementsLimiter == L!Spec

=============================================================================
