--------------------------- MODULE AiBudgetProofs ---------------------------
(***************************************************************************)
(* Where reservations do not overlap the ledger implements the limiter,    *)
(* for any workers and every window, limit, cooldown and history: a        *)
(* reservation may fail between any two of its store calls, another worker *)
(* may make the next one, and the clock may move on.  AiBudget_race shows  *)
(* that two at a time break the limits, so the theorems assume             *)
(* []OneAtATime.                                                           *)
(***************************************************************************)
EXTENDS AiBudget, FiniteSetTheorems, TLAPS

LP == INSTANCE CallLimiterProofs

\* Reservations do not overlap: one worker at most is in _reserve_ai_call.
OneAtATime ==
  \A v, w \in Workers : v # w => pc[v] \in {"idle", "down"} \/ pc[w] \in {"idle", "down"}

\* A host with the service loop and nothing else is a case of it.
LEMMA LoopIsAlone ==
  ASSUME NEW u, Workers = {u}
  PROVE  OneAtATime
BY DEF OneAtATime

\* The time the stored row has to be good for: that of the reservation under
\* way, or of the next one.
Reach(w) == IF pc[w] \in {"idle", "down"} THEN clock ELSE now[w]

CallsPast ==
  /\ IsFiniteSet(calls)
  /\ \A c \in calls : c.at <= clock
  /\ \A w \in Workers : now[w] <= clock /\ \A c \in calls : c.at <= Reach(w)

\* Until the first reservation there are only calls of an earlier version.
FirstTime ==
  ~ledger.initialized => L!Granted = {} /\ ledger.subjects = NoEntries

AttemptsKept ==
  ledger.initialized =>
    /\ ledger.attempts \subseteq calls
    /\ \A w \in Workers : \A c \in calls :
         Reach(w) - c.at < Day => c \in ledger.attempts

\* subjects, stored or in a local variable, is right about the calls whose
\* cooldown runs at time t, and holds no time at which no call was granted.
Remembers(subjects, t) ==
  /\ \A c \in L!Granted : t - c.at < Cooldown => subjects[c.subject] >= c.at
  /\ \A s \in Subjects : subjects[s] = 0
       \/ \E c \in calls : c.subject = s /\ c.at = subjects[s]

SubjectsKept == \A w \in Workers : Remembers(ledger.subjects, Reach(w))

SeenExact ==
  \A w \in Workers : pc[w] \in {"save", "check"} =>
    /\ seen[w].initialized
    /\ seen[w].attempts = {c \in calls : now[w] - c.at < Day}
    /\ Remembers(seen[w].subjects, now[w])

BudgetInv ==
  TypeOK /\ CallsPast /\ FirstTime /\ AttemptsKept /\ SubjectsKept /\ SeenExact

-----------------------------------------------------------------------------
\* The clock and the calls are numbers, and nothing else is compared.
LEMMA TypedNumbers ==
  ASSUME TypeOK
  PROVE  /\ Hour \in Nat /\ Day \in Nat /\ Cooldown \in Nat /\ Hour < Day
         /\ Start \in Nat /\ Horizon \in Nat /\ Start >= Cooldown
         /\ MaxPerHour \in Int /\ MaxPerDay \in Int
         /\ clock \in Nat /\ clock >= Start /\ clock <= Horizon
         /\ \A c \in calls : c.at \in Nat /\ c.id \in Nat
         /\ \A w \in Workers : now[w] \in Nat /\ now[w] >= Start /\ now[w] <= Horizon
BY LimitsAssumption DEF TypeOK, Call

\* The same of the strengthened invariant, which the rest assumes.
LEMMA Numbers ==
  ASSUME BudgetInv
  PROVE  /\ Hour \in Nat /\ Day \in Nat /\ Cooldown \in Nat /\ Hour < Day
         /\ Start \in Nat /\ Horizon \in Nat /\ Start >= Cooldown
         /\ MaxPerHour \in Int /\ MaxPerDay \in Int
         /\ clock \in Nat /\ clock >= Start /\ clock <= Horizon
         /\ \A c \in calls : c.at \in Nat /\ c.id \in Nat
         /\ \A w \in Workers : now[w] \in Nat /\ now[w] >= Start /\ now[w] <= Horizon
BY TypedNumbers DEF BudgetInv

LEMMA LegacyShape ==
  ASSUME NEW h \in LegacyHistories
  PROVE  /\ IsFiniteSet(h)
         /\ h \subseteq Call
         /\ \A c \in h : c.at <= Start /\ c.subject = NoSubject
BY LimitsAssumption DEF LegacyCall, Call

LEMMA BudgetInit == Init => BudgetInv
<1> SUFFICES ASSUME Init PROVE BudgetInv
  OBVIOUS
<1>1. /\ IsFiniteSet(calls)
      /\ calls \subseteq Call
      /\ \A c \in calls : c.at <= Start /\ c.subject = NoSubject
      /\ clock = Start /\ serial = 0
  BY LegacyShape DEF Init, L!Init
<1>2. L!Granted = {}
  BY <1>1, LimitsAssumption DEF L!Granted
<1>3. EmptyLedger \in Ledger
  BY DEF EmptyLedger, Ledger, NoEntries
<1>4. TypeOK
  BY <1>1, <1>3, LimitsAssumption DEF Init, TypeOK
<1>5. CallsPast
  BY <1>1, LimitsAssumption DEF Init, CallsPast, Reach
<1>6. FirstTime /\ AttemptsKept /\ SubjectsKept /\ SeenExact
  BY <1>2 DEF Init, FirstTime, AttemptsKept, SubjectsKept, SeenExact, Remembers,
              EmptyLedger, NoEntries
<1> QED
  BY <1>4, <1>5, <1>6 DEF BudgetInv

\* Reading and pruning loses nothing that still counts at time now[w].
LEMMA LoadExact ==
  ASSUME BudgetInv, NEW w \in Workers, pc[w] = "load"
  PROVE  /\ LoadAttempts(now[w]) = {c \in calls : now[w] - c.at < Day}
         /\ LoadSubjects(now[w]) \in [Subjects -> Nat]
         /\ Remembers(LoadSubjects(now[w]), now[w])
<1>1. /\ now[w] \in Nat /\ Reach(w) = now[w]
      /\ Day \in Nat /\ Cooldown \in Nat
      /\ \A c \in calls : c.at \in Nat /\ c.subject \in Subjects \cup {NoSubject}
      /\ ledger.subjects \in [Subjects -> Nat]
  BY LimitsAssumption DEF BudgetInv, TypeOK, Reach, Call, Ledger
<1>2. LoadAttempts(now[w]) = {c \in calls : now[w] - c.at < Day}
  <2>1. CASE ledger.initialized
    BY <1>1, <2>1 DEF LoadAttempts, BudgetInv, AttemptsKept
  <2>2. CASE ~ledger.initialized
    <3>1. \A c \in calls : c.subject = NoSubject
      BY <1>1, <2>2 DEF BudgetInv, FirstTime, L!Granted
    <3> QED
      BY <1>1, <2>2, <3>1 DEF LoadAttempts, recent_external_calls
  <2> QED
    BY <2>1, <2>2
<1>3. LoadSubjects(now[w]) \in [Subjects -> Nat]
  BY <1>1 DEF LoadSubjects
<1>4. Remembers(LoadSubjects(now[w]), now[w])
  <2>1. Remembers(ledger.subjects, now[w])
    BY <1>1 DEF BudgetInv, SubjectsKept
  <2>2. ASSUME NEW c \in L!Granted, now[w] - c.at < Cooldown
        PROVE  LoadSubjects(now[w])[c.subject] >= c.at
    <3>1. /\ c.subject \in Subjects /\ c.at \in Nat
          /\ ledger.subjects[c.subject] \in Nat
          /\ ledger.subjects[c.subject] >= c.at
      BY <1>1, <2>1, <2>2 DEF L!Granted, Remembers
    <3>2. now[w] - ledger.subjects[c.subject] < Longest
      BY <1>1, <2>2, <3>1 DEF Longest
    <3> QED
      BY <3>1, <3>2 DEF LoadSubjects
  <2>3. ASSUME NEW s \in Subjects, LoadSubjects(now[w])[s] # 0
        PROVE  \E c \in calls : c.subject = s /\ c.at = LoadSubjects(now[w])[s]
    BY <2>1, <2>3 DEF LoadSubjects, Remembers
  <2> QED
    BY <2>2, <2>3 DEF Remembers
<1> QED
  BY <1>2, <1>3, <1>4

\* The instance counts as this module does.
LEMMA SameCount == \A S : L!Cardinality(S) = Cardinality(S)
BY DEF L!Cardinality, Cardinality

\* A granted call is one the limiter grants.
LEMMA ReserveGrants ==
  ASSUME BudgetInv, NEW w \in Workers, Reserve(w)
  PROVE  /\ L!Grant(subject[w], now[w])
         /\ subject[w] \in Subjects
         /\ now[w] \in Start .. Horizon
<1> DEFINE t == now[w]
           s == subject[w]
<1>1. /\ pc[w] = "check" /\ ~Refused(w)
      /\ serial' = serial + 1
      /\ calls' = calls \cup {[id |-> serial + 1, at |-> t, subject |-> s]}
      /\ clock' = clock
  BY DEF Reserve
<1>2. /\ s \in Subjects /\ t \in Start .. Horizon /\ t \in Nat
      /\ t <= clock
      /\ \A c \in calls : c.at <= t /\ c.at \in Nat
      /\ seen[w].subjects \in [Subjects -> Nat]
      /\ IsFiniteSet(calls)
  BY <1>1, Numbers DEF BudgetInv, TypeOK, CallsPast, Reach, Ledger
<1>3. /\ seen[w].attempts = {c \in calls : t - c.at < Day}
      /\ Remembers(seen[w].subjects, t)
  BY <1>1 DEF BudgetInv, SeenExact
<1> HIDE DEF t, s
<1>4. {c \in seen[w].attempts : c.at >= t - Hour} = L!LastHour(t)
  BY <1>2, <1>3, Numbers DEF L!LastHour
<1>5. seen[w].attempts = L!LastDay(t)
  BY <1>2, <1>3, Numbers DEF L!LastDay
<1>6. /\ Cardinality(L!LastHour(t)) \in Nat
      /\ Cardinality(L!LastDay(t)) \in Nat
  <2>1. /\ L!LastHour(t) \in SUBSET calls
        /\ L!LastDay(t) \in SUBSET calls
    BY DEF L!LastHour, L!LastDay
  <2> QED
    BY <1>2, <2>1, FS_Subset, FS_CardinalityType
<1>7. /\ ~(Cardinality(L!LastHour(t)) >= MaxPerHour)
      /\ ~(Cardinality(L!LastDay(t)) >= MaxPerDay)
      /\ ~(t - seen[w].subjects[s] < Cooldown)
  BY <1>1, <1>4, <1>5 DEF Refused, Hourly, t, s
<1>8. ASSUME NEW c \in calls, c.subject = s
      PROVE  t - c.at >= Cooldown
  <2>1. seen[w].subjects[s] \in Nat
    BY <1>2
  <2>2. c \in L!Granted
    BY <1>2, <1>8 DEF L!Granted
  <2> QED
    BY <1>2, <1>3, <1>7, <1>8, <2>1, <2>2, Numbers DEF Remembers
<1>9. L!Grant(s, t)
  <2>1. /\ L!Cardinality(L!LastHour(t)) < MaxPerHour
        /\ L!Cardinality(L!LastDay(t)) < MaxPerDay
    BY <1>6, <1>7, Numbers, SameCount
  <2> QED
    BY <1>1, <1>2, <1>8, <2>1 DEF L!Grant
<1> QED
  BY <1>2, <1>9 DEF s, t

-----------------------------------------------------------------------------
\* Types are kept whether or not workers overlap.
LEMMA TypeStep == TypeOK /\ [Next]_vars => TypeOK'
<1> SUFFICES ASSUME TypeOK, [Next]_vars PROVE TypeOK'
  OBVIOUS
<1>0. TypeOK
  OBVIOUS
<1>1. EmptyLedger \in Ledger
  BY DEF EmptyLedger, Ledger, NoEntries
<1>2. CASE Tick
  BY <1>0, <1>2, TypedNumbers DEF Tick, L!Tick, TypeOK
<1>3. ASSUME NEW w \in Workers, NEW s \in Subjects, Begin(w, s) PROVE TypeOK'
  BY <1>0, <1>3 DEF Begin, TypeOK
<1>4. ASSUME NEW w \in Workers, Load(w) PROVE TypeOK'
  <2>1. /\ LoadAttempts(now[w]) \subseteq Call
        /\ LoadSubjects(now[w]) \in [Subjects -> Nat]
    BY <1>0, <1>4 DEF LoadAttempts, LoadSubjects, recent_external_calls, TypeOK, Ledger
  <2> QED
    BY <1>0, <1>4, <2>1 DEF Load, TypeOK, Ledger
<1>5. ASSUME NEW w \in Workers, SavePruned(w) PROVE TypeOK'
  BY <1>0, <1>5 DEF SavePruned, TypeOK
<1>6. ASSUME NEW w \in Workers, Refuse(w) PROVE TypeOK'
  BY <1>0, <1>1, <1>6, TypedNumbers DEF Refuse, Leave, TypeOK
<1>7. ASSUME NEW w \in Workers, Reserve(w) PROVE TypeOK'
  <2> DEFINE call == [id |-> serial + 1, at |-> now[w], subject |-> subject[w]]
  <2>1. pc[w] = "check" /\ subject[w] \in Subjects /\ now[w] \in Nat
    BY <1>0, <1>7, TypedNumbers DEF Reserve, TypeOK
  <2>2. call \in Call
    BY <1>0, <2>1 DEF Call, TypeOK
  <2>3. ledger' \in Ledger
    <3>1. seen[w] \in Ledger
      BY <1>0 DEF TypeOK
    <3>2. seen[w].attempts \cup {call} \in SUBSET Call
      BY <2>2, <3>1 DEF Ledger
    <3>3. [seen[w].subjects EXCEPT ![subject[w]] = now[w]] \in [Subjects -> Nat]
      BY <2>1, <3>1 DEF Ledger
    <3> QED
      BY <1>7, <3>2, <3>3 DEF Reserve, Ledger
  <2> QED
    BY <1>0, <1>1, <1>7, <2>2, <2>3, TypedNumbers DEF Reserve, Leave, TypeOK
<1>8. ASSUME NEW w \in Workers, Fail(w) PROVE TypeOK'
  BY <1>0, <1>1, <1>8, TypedNumbers DEF Fail, Leave, TypeOK
<1>9. ASSUME NEW w \in Workers, Recover(w) PROVE TypeOK'
  BY <1>0, <1>9 DEF Recover, TypeOK
<1>10. CASE UNCHANGED vars
  BY <1>0, <1>10 DEF vars, TypeOK
<1> QED
  BY <1>2, <1>3, <1>4, <1>5, <1>6, <1>7, <1>8, <1>9, <1>10 DEF Next

-----------------------------------------------------------------------------
(***************************************************************************)
(* The other parts: steps that leave the ledger alone.                     *)
(***************************************************************************)

\* Looking later can only forget calls that no longer count.
LEMMA LaterRemembers ==
  ASSUME BudgetInv, NEW subjects, NEW t \in Nat, NEW u \in Nat, t <= u,
         Remembers(subjects, t)
  PROVE  Remembers(subjects, u)
<1>1. \A c \in L!Granted : c.at \in Nat
  BY Numbers DEF L!Granted
<1> QED
  BY <1>1, Numbers DEF Remembers

LEMMA TickStep ==
  ASSUME BudgetInv, TypeOK', Tick
  PROVE  BudgetInv'
<1>1. /\ clock' = clock + 1
      /\ UNCHANGED <<calls, serial, ledger, pc, now, subject, seen>>
  BY DEF Tick, L!Tick
<1>2. \A w \in Workers : /\ Reach(w) \in Nat /\ Reach(w)' \in Nat
                         /\ Reach(w) <= Reach(w)'
  BY <1>1, Numbers DEF Reach
<1>3. CallsPast'
  BY <1>1, <1>2, Numbers DEF BudgetInv, CallsPast
<1>4. FirstTime' /\ SeenExact'
  BY <1>1 DEF BudgetInv, FirstTime, SeenExact, L!Granted, Remembers
<1>5. AttemptsKept'
  BY <1>1, <1>2, Numbers DEF BudgetInv, AttemptsKept
<1>6. SubjectsKept'
  <2>1. \A w \in Workers : Remembers(ledger.subjects, Reach(w)')
    BY <1>2, LaterRemembers DEF BudgetInv, SubjectsKept
  <2> QED
    BY <1>1, <2>1 DEF SubjectsKept, Remembers, L!Granted
<1> QED
  BY <1>3, <1>4, <1>5, <1>6 DEF BudgetInv

\* A step that leaves calls, clock and ledger alone and does not make any
\* worker look earlier.
LEMMA LocalStep ==
  ASSUME BudgetInv, TypeOK', UNCHANGED <<clock, calls, serial, ledger>>,
         \A w \in Workers : now'[w] <= clock /\ Reach(w) <= Reach(w)'
           /\ \A c \in calls : c.at <= Reach(w)',
         SeenExact'
  PROVE  BudgetInv'
<1>1. \A w \in Workers : Reach(w) \in Nat /\ Reach(w)' \in Nat
  BY Numbers DEF Reach, TypeOK
<1>2. CallsPast' /\ FirstTime'
  BY DEF BudgetInv, CallsPast, FirstTime, L!Granted
<1>3. AttemptsKept'
  BY <1>1, Numbers DEF BudgetInv, AttemptsKept
<1>4. SubjectsKept'
  <2>1. \A w \in Workers : Remembers(ledger.subjects, Reach(w)')
    BY <1>1, LaterRemembers DEF BudgetInv, SubjectsKept
  <2> QED
    BY <2>1 DEF SubjectsKept, Remembers, L!Granted
<1> QED
  BY <1>2, <1>3, <1>4 DEF BudgetInv

LEMMA BeginStep ==
  ASSUME BudgetInv, TypeOK', NEW w \in Workers, NEW s \in Subjects, Begin(w, s)
  PROVE  BudgetInv'
<1>1. /\ pc[w] = "idle" /\ pc' = [pc EXCEPT ![w] = "load"]
      /\ now' = [now EXCEPT ![w] = clock]
      /\ UNCHANGED <<clock, calls, serial, ledger, seen>>
  BY DEF Begin
<1>2. /\ \A v \in Workers : now[v] \in Nat
      /\ pc' \in [Workers -> {"idle", "load", "save", "check", "down"}]
      /\ pc \in [Workers -> {"idle", "load", "save", "check", "down"}]
      /\ now \in [Workers -> Start .. Horizon]
      /\ clock \in Nat
  BY Numbers DEF BudgetInv, TypeOK
<1>3. ASSUME NEW v \in Workers
      PROVE  now'[v] <= clock /\ Reach(v) <= Reach(v)'
               /\ \A c \in calls : c.at <= Reach(v)'
  <2>1. CASE v = w
    BY <1>1, <1>2, <2>1 DEF Reach, BudgetInv, CallsPast
  <2>2. CASE v # w
    BY <1>1, <1>2, <2>2 DEF Reach, BudgetInv, CallsPast
  <2> QED
    BY <2>1, <2>2
<1>4. SeenExact'
  BY <1>1, <1>2 DEF BudgetInv, SeenExact, Remembers, L!Granted
<1> QED
  BY <1>1, <1>3, <1>4, LocalStep

LEMMA LoadStep ==
  ASSUME BudgetInv, TypeOK', NEW w \in Workers, Load(w)
  PROVE  BudgetInv'
<1>1. /\ pc[w] = "load" /\ pc' = [pc EXCEPT ![w] = "save"]
      /\ seen' = [seen EXCEPT ![w] =
                    [initialized |-> TRUE, attempts |-> LoadAttempts(now[w]),
                     subjects |-> LoadSubjects(now[w])]]
      /\ UNCHANGED <<clock, calls, serial, ledger, now>>
  BY DEF Load
<1>2. /\ \A v \in Workers : now[v] \in Nat
      /\ pc \in [Workers -> {"idle", "load", "save", "check", "down"}]
      /\ seen \in [Workers -> Ledger]
  BY Numbers DEF BudgetInv, TypeOK
<1>3. \A v \in Workers : Reach(v)' = Reach(v) /\ Reach(v) \in Nat
  BY <1>1, <1>2, Numbers DEF Reach
<1>4. SeenExact'
  <2> SUFFICES ASSUME NEW v \in Workers, pc'[v] \in {"save", "check"}
               PROVE  /\ seen'[v].initialized
                      /\ seen'[v].attempts = {c \in calls : now[v] - c.at < Day}
                      /\ Remembers(seen'[v].subjects, now[v])
    BY <1>1 DEF SeenExact, Remembers, L!Granted
  <2>1. CASE v = w
    <3>1. seen'[v] = [initialized |-> TRUE, attempts |-> LoadAttempts(now[w]),
                      subjects |-> LoadSubjects(now[w])]
      BY <1>1, <1>2, <2>1
    <3> QED
      BY <1>1, <2>1, <3>1, LoadExact
  <2>2. CASE v # w
    BY <1>1, <1>2, <2>2 DEF BudgetInv, SeenExact
  <2> QED
    BY <2>1, <2>2
<1>5. \A v \in Workers : now'[v] <= clock /\ Reach(v) <= Reach(v)'
                           /\ \A c \in calls : c.at <= Reach(v)'
  BY <1>1, <1>3 DEF BudgetInv, CallsPast
<1> QED
  BY <1>1, <1>4, <1>5, LocalStep

\* Returning, with or without a reservation written, looks at the clock again.
LEMMA LeaveReach ==
  ASSUME BudgetInv, NEW w \in Workers, NEW to \in {"idle", "down"}, Leave(w, to),
         UNCHANGED clock
  PROVE  /\ \A v \in Workers : now'[v] <= clock /\ Reach(v) <= Reach(v)'
                                 /\ Reach(v)' \in Nat /\ Reach(v) \in Nat
         /\ Reach(w)' = clock
<1>1. /\ pc' = [pc EXCEPT ![w] = to]
      /\ now' = [now EXCEPT ![w] = Start]
  BY DEF Leave
<1>2. /\ pc \in [Workers -> {"idle", "load", "save", "check", "down"}]
      /\ now \in [Workers -> Start .. Horizon]
  BY DEF BudgetInv, TypeOK
<1>3. Reach(w)' = clock
  BY <1>1, <1>2 DEF Reach
<1>4. ASSUME NEW v \in Workers
      PROVE  now'[v] <= clock /\ Reach(v) <= Reach(v)'
               /\ Reach(v)' \in Nat /\ Reach(v) \in Nat
  <2>1. CASE v = w
    BY <1>1, <1>2, <1>3, <2>1, Numbers DEF Reach, BudgetInv, CallsPast
  <2>2. CASE v # w
    BY <1>1, <1>2, <2>2, Numbers DEF Reach, BudgetInv, CallsPast
  <2> QED
    BY <2>1, <2>2
<1> QED
  BY <1>3, <1>4

LEMMA LeaveStep ==
  ASSUME BudgetInv, TypeOK', NEW w \in Workers, NEW to \in {"idle", "down"},
         Leave(w, to), UNCHANGED <<clock, calls, serial, ledger>>
  PROVE  BudgetInv'
<1>1. /\ pc' = [pc EXCEPT ![w] = to]
      /\ now' = [now EXCEPT ![w] = Start]
      /\ seen' = [seen EXCEPT ![w] = EmptyLedger]
  BY DEF Leave
<1>2. /\ pc \in [Workers -> {"idle", "load", "save", "check", "down"}]
      /\ now \in [Workers -> Start .. Horizon]
      /\ seen \in [Workers -> Ledger]
  BY DEF BudgetInv, TypeOK
<1>3. SeenExact'
  <2> SUFFICES ASSUME NEW v \in Workers, pc'[v] \in {"save", "check"}
               PROVE  /\ seen'[v].initialized
                      /\ seen'[v].attempts = {c \in calls : now'[v] - c.at < Day}
                      /\ Remembers(seen'[v].subjects, now'[v])
    BY DEF SeenExact, Remembers, L!Granted
  <2>1. v # w
    BY <1>1, <1>2
  <2> QED
    BY <1>1, <1>2, <2>1 DEF BudgetInv, SeenExact
<1>4. \A v \in Workers : \A c \in calls : c.at <= Reach(v)'
  BY LeaveReach, Numbers DEF BudgetInv, CallsPast
<1> QED
  BY <1>3, <1>4, LeaveReach, LocalStep

LEMMA RecoverStep ==
  ASSUME BudgetInv, TypeOK', NEW w \in Workers, Recover(w)
  PROVE  BudgetInv'
<1>1. /\ pc[w] = "down" /\ pc' = [pc EXCEPT ![w] = "idle"]
      /\ UNCHANGED <<clock, calls, serial, ledger, now, subject, seen>>
      /\ pc \in [Workers -> {"idle", "load", "save", "check", "down"}]
  BY DEF Recover, BudgetInv, TypeOK
<1>2. \A v \in Workers : Reach(v)' = Reach(v) /\ Reach(v) \in Nat
  BY <1>1, Numbers DEF Reach
<1>3. SeenExact'
  BY <1>1 DEF BudgetInv, SeenExact, Remembers, L!Granted
<1> QED
  BY <1>1, <1>2, <1>3, LocalStep DEF BudgetInv, CallsPast

-----------------------------------------------------------------------------
(***************************************************************************)
(* Here the worker has to be alone: what it saves is what it loaded, and   *)
(* no one else relies on what it overwrites.                               *)
(***************************************************************************)

\* The others look at the ledger at the present, if they look at all.
LEMMA OthersLater ==
  ASSUME BudgetInv, OneAtATime, NEW w \in Workers, pc[w] \in {"save", "check"}
  PROVE  /\ \A v \in Workers : v # w => pc[v] \in {"idle", "down"} /\ Reach(v) = clock
         /\ \A v \in Workers : now[w] <= Reach(v) /\ Reach(v) \in Nat
         /\ Reach(w) = now[w]
<1>1. \A v \in Workers : v # w => pc[v] \in {"idle", "down"} /\ Reach(v) = clock
  BY DEF OneAtATime, Reach
<1>2. Reach(w) = now[w]
  BY DEF Reach
<1> QED
  BY <1>1, <1>2, Numbers DEF BudgetInv, CallsPast

\* What is pruned and stored is right for every worker that looks at it later.
LEMMA SaveStep ==
  ASSUME BudgetInv, OneAtATime, TypeOK', NEW w \in Workers, SavePruned(w)
  PROVE  BudgetInv'
<1>1. /\ pc[w] = "save" /\ pc' = [pc EXCEPT ![w] = "check"]
      /\ ledger' = seen[w]
      /\ UNCHANGED <<clock, calls, serial, now, subject, seen>>
      /\ pc \in [Workers -> {"idle", "load", "save", "check", "down"}]
  BY DEF SavePruned, BudgetInv, TypeOK
<1>2. \A v \in Workers : Reach(v)' = Reach(v) /\ now[w] <= Reach(v) /\ Reach(v) \in Nat
  BY <1>1, OthersLater DEF Reach
<1>3. /\ seen[w].initialized
      /\ seen[w].attempts = {c \in calls : now[w] - c.at < Day}
      /\ Remembers(seen[w].subjects, now[w])
  BY <1>1 DEF BudgetInv, SeenExact
<1>4. CallsPast'
  BY <1>1, <1>2 DEF BudgetInv, CallsPast
<1>5. FirstTime' /\ AttemptsKept'
  BY <1>1, <1>2, <1>3, Numbers DEF FirstTime, AttemptsKept
<1>6. SubjectsKept'
  <2>1. \A v \in Workers : Remembers(seen[w].subjects, Reach(v))
    BY <1>2, <1>3, Numbers, LaterRemembers
  <2> QED
    BY <1>1, <1>2, <2>1 DEF SubjectsKept, Remembers, L!Granted
<1>7. SeenExact'
  <2>1. \A v \in Workers : v # w => pc'[v] \in {"idle", "down"}
    BY <1>1, OthersLater
  <2> QED
    BY <1>1, <1>3, <2>1 DEF SeenExact, Remembers, L!Granted
<1> QED
  BY <1>4, <1>5, <1>6, <1>7 DEF BudgetInv

\* A reservation is written next to everything a later one has to know.
LEMMA ReserveStep ==
  ASSUME BudgetInv, OneAtATime, TypeOK', NEW w \in Workers, Reserve(w)
  PROVE  BudgetInv'
<1> DEFINE call == [id |-> serial + 1, at |-> now[w], subject |-> subject[w]]
           subjects == [seen[w].subjects EXCEPT ![subject[w]] = now[w]]
<1>1. /\ pc[w] = "check"
      /\ Leave(w, "idle")
      /\ ledger' = [initialized |-> TRUE,
                    attempts |-> seen[w].attempts \cup {call},
                    subjects |-> subjects]
      /\ calls' = calls \cup {call}
      /\ clock' = clock
  BY DEF Reserve
<1>2. /\ subject[w] \in Subjects
      /\ now[w] \in Nat /\ now[w] <= clock
      /\ IsFiniteSet(calls)
      /\ \A c \in calls : c.at <= now[w] /\ c.at \in Nat
      /\ seen[w].subjects \in [Subjects -> Nat]
  BY <1>1, Numbers DEF BudgetInv, TypeOK, CallsPast, Reach, Ledger
<1>3. /\ seen[w].attempts = {c \in calls : now[w] - c.at < Day}
      /\ Remembers(seen[w].subjects, now[w])
  BY <1>1 DEF BudgetInv, SeenExact
<1>4. \A v \in Workers : /\ Reach(v)' = clock
                         /\ now'[v] <= clock
                         /\ pc'[v] \in {"idle", "down"}
  <2>1. /\ pc \in [Workers -> {"idle", "load", "save", "check", "down"}]
        /\ pc' = [pc EXCEPT ![w] = "idle"]
    BY <1>1 DEF Leave, BudgetInv, TypeOK
  <2>2. \A v \in Workers : pc'[v] \in {"idle", "down"}
    BY <1>1, <2>1, OthersLater
  <2>3. \A v \in Workers : now'[v] <= clock
    BY <1>1, LeaveReach
  <2> QED
    BY <1>1, <2>2, <2>3 DEF Reach
<1>5. /\ call.at = now[w] /\ call.subject = subject[w]
      /\ ledger'.initialized
      /\ ledger'.attempts = seen[w].attempts \cup {call}
      /\ ledger'.subjects = subjects
  BY <1>1
<1>6. \A s \in Subjects :
        subjects[s] = IF s = subject[w] THEN now[w] ELSE seen[w].subjects[s]
  BY <1>2
<1> HIDE DEF call, subjects
<1>7. CallsPast'
  <2>1. IsFiniteSet(calls')
    BY <1>1, <1>2, FS_AddElement
  <2> QED
    BY <1>1, <1>2, <1>4, <1>5, <2>1, Numbers DEF CallsPast
<1>8. FirstTime' /\ SeenExact'
  BY <1>4, <1>5 DEF FirstTime, SeenExact
<1>9. AttemptsKept'
  <2>1. ledger'.attempts \subseteq calls'
    BY <1>1, <1>3, <1>5
  <2>2. ASSUME NEW c \in calls', clock - c.at < Day PROVE c \in ledger'.attempts
    BY <1>1, <1>2, <1>3, <1>5, <2>2, Numbers
  <2> QED
    BY <1>4, <2>1, <2>2 DEF AttemptsKept
<1>10. SubjectsKept'
  <2>1. ASSUME NEW c \in L!Granted', clock - c.at < Cooldown
        PROVE  subjects[c.subject] >= c.at
    <3>0. c \in calls' /\ c.subject \in Subjects
      BY DEF L!Granted
    <3>1. CASE c.subject = subject[w]
      BY <1>1, <1>2, <1>5, <1>6, <3>0, <3>1
    <3>2. CASE c.subject # subject[w]
      <4>1. c \in L!Granted /\ c.at \in Nat /\ now[w] - c.at < Cooldown
        BY <1>1, <1>2, <1>5, <2>1, <3>0, <3>2, Numbers DEF L!Granted
      <4> QED
        BY <1>3, <1>6, <3>0, <3>2, <4>1 DEF Remembers
    <3> QED
      BY <3>1, <3>2
  <2>2. ASSUME NEW s \in Subjects, subjects[s] # 0
        PROVE  \E c \in calls' : c.subject = s /\ c.at = subjects[s]
    BY <1>1, <1>3, <1>5, <1>6, <2>2 DEF Remembers
  <2> QED
    BY <1>4, <1>5, <2>1, <2>2 DEF SubjectsKept, Remembers
<1> QED
  BY <1>7, <1>8, <1>9, <1>10 DEF BudgetInv

\* Every step of workers that do not overlap keeps the ledger right.
LEMMA BudgetNext == BudgetInv /\ OneAtATime /\ [Next]_vars => BudgetInv'
<1> SUFFICES ASSUME BudgetInv, OneAtATime, [Next]_vars PROVE BudgetInv'
  OBVIOUS
<1>0. TypeOK'
  BY TypeStep DEF BudgetInv
<1>1. CASE Tick
  BY <1>0, <1>1, TickStep
<1>2. ASSUME NEW w \in Workers, NEW s \in Subjects, Begin(w, s) PROVE BudgetInv'
  BY <1>0, <1>2, BeginStep
<1>3. ASSUME NEW w \in Workers, Load(w) PROVE BudgetInv'
  BY <1>0, <1>3, LoadStep
<1>4. ASSUME NEW w \in Workers, SavePruned(w) PROVE BudgetInv'
  BY <1>0, <1>4, SaveStep
<1>5. ASSUME NEW w \in Workers, Refuse(w) PROVE BudgetInv'
  BY <1>0, <1>5, LeaveStep DEF Refuse
<1>6. ASSUME NEW w \in Workers, Reserve(w) PROVE BudgetInv'
  BY <1>0, <1>6, ReserveStep
<1>7. ASSUME NEW w \in Workers, Fail(w) PROVE BudgetInv'
  BY <1>0, <1>7, LeaveStep DEF Fail
<1>8. ASSUME NEW w \in Workers, Recover(w) PROVE BudgetInv'
  BY <1>0, <1>8, RecoverStep
<1>9. CASE UNCHANGED vars
  BY <1>9 DEF vars, BudgetInv, TypeOK, CallsPast, FirstTime, AttemptsKept,
              SubjectsKept, SeenExact, Reach, Remembers, L!Granted
<1> QED
  BY <1>1, <1>2, <1>3, <1>4, <1>5, <1>6, <1>7, <1>8, <1>9 DEF Next

-----------------------------------------------------------------------------
\* Types and the strengthened invariant of a ledger kept by one worker at a time.
THEOREM BudgetInvariant ==
  Spec /\ []OneAtATime => []BudgetInv
BY BudgetInit, BudgetNext, PTL DEF Spec

\* The ledger, the calls and what workers have read of them are well typed, also where
\* reservations overlap.
THEOREM BudgetTypes == Spec => []TypeOK
<1>1. BudgetInv => TypeOK
  BY DEF BudgetInv
<1> QED
  BY BudgetInit, TypeStep, <1>1, PTL DEF Spec

\* Pruning and failing midway never lose a call that still counts.
THEOREM LedgerIsKept ==
  Spec /\ []OneAtATime => []LedgerRemembers
<1>1. BudgetInv => LedgerRemembers
  <2> SUFFICES ASSUME BudgetInv, Quiet, ledger.initialized
               PROVE  /\ {c \in calls : clock - c.at < Day} \subseteq ledger.attempts
                      /\ ledger.attempts \subseteq calls
                      /\ \A c \in L!Granted :
                           clock - c.at < Cooldown => ledger.subjects[c.subject] >= c.at
    BY DEF LedgerRemembers
  <2>1. PICK w \in Workers : Reach(w) = clock
    BY WorkersAssumption DEF Quiet, Reach
  <2> QED
    BY <2>1 DEF BudgetInv, AttemptsKept, SubjectsKept, Remembers
<1> QED
  BY BudgetInvariant, <1>1, PTL

\* The ledger of workers that do not overlap implements the limiter: every step of
\* _reserve_ai_call is a granted call or no step of the limiter at all.
THEOREM BudgetImplementsLimiter ==
  Spec /\ []OneAtATime => ImplementsLimiter
<1>1. Init => L!Init
  BY DEF Init
<1>2. BudgetInv /\ [Next]_vars => [L!Next]_(L!vars)
  <2> SUFFICES ASSUME BudgetInv, [Next]_vars PROVE [L!Next]_(L!vars)
    OBVIOUS
  <2>1. CASE Tick
    BY <2>1 DEF Tick, L!Next
  <2>2. ASSUME NEW w \in Workers, Reserve(w) PROVE L!Next
    BY <2>2, ReserveGrants DEF L!Next
  <2>3. ASSUME UNCHANGED <<clock, calls, serial>> PROVE UNCHANGED L!vars
    BY <2>3 DEF L!vars
  <2> QED
    BY <2>1, <2>2, <2>3 DEF Next, Begin, Load, SavePruned, Refuse, Fail, Recover, vars
<1> QED
  BY BudgetInvariant, <1>1, <1>2, PTL DEF Spec, L!Spec, ImplementsLimiter

\* Hence the limits of docs/THREAT_MODEL.md:31 hold of the calls granted.
THEOREM BudgetKeepsLimits ==
  Spec /\ []OneAtATime => [](HourlyBudget /\ DailyBudget /\ CooldownSpacing)
<1>1. L!Spec => LP!Spec
  <2>1. L!Init => LP!Init
    BY DEF L!Init, LP!Init
  <2>2. [L!Next]_(L!vars) => [LP!Next]_(LP!vars)
    <3>1. \A S : L!Cardinality(S) = LP!Cardinality(S)
      BY DEF L!Cardinality, LP!Cardinality
    <3>2. \A t : L!LastHour(t) = LP!LastHour(t) /\ L!LastDay(t) = LP!LastDay(t)
      BY DEF L!LastHour, LP!LastHour, L!LastDay, LP!LastDay
    <3> QED
      BY <3>1, <3>2 DEF L!Next, LP!Next, L!Tick, LP!Tick, L!Grant, LP!Grant,
                        L!vars, LP!vars
  <2> QED
    BY <2>1, <2>2, PTL DEF L!Spec, LP!Spec
<1>2. LP!HourlyBudget /\ LP!DailyBudget /\ LP!CooldownSpacing
        => HourlyBudget /\ DailyBudget /\ CooldownSpacing
  <2>1. L!Granted = LP!Granted
    BY DEF L!Granted, LP!Granted
  <2>2. \A S : L!Cardinality(S) = LP!Cardinality(S)
    BY DEF L!Cardinality, LP!Cardinality
  <2>3. LP!HourlyBudget => HourlyBudget
    BY <2>1, <2>2 DEF HourlyBudget, L!HourlyBudget, LP!HourlyBudget
  <2>4. LP!DailyBudget => DailyBudget
    BY <2>1, <2>2 DEF DailyBudget, L!DailyBudget, LP!DailyBudget
  <2>5. LP!CooldownSpacing => CooldownSpacing
    BY <2>1 DEF CooldownSpacing, L!CooldownSpacing, LP!CooldownSpacing
  <2> QED
    BY <2>3, <2>4, <2>5
<1>3. LP!Spec => [](LP!HourlyBudget /\ LP!DailyBudget /\ LP!CooldownSpacing)
  <2>1. LP!LimitsAssumption
    BY LimitsAssumption, SMT
       DEF LP!LimitsAssumption, LP!IsFiniteSet, IsFiniteSet, LP!LegacyCall, LegacyCall
  <2> QED
    BY <2>1, LP!LimiterKeepsLimits, PTL
<1>4. Spec /\ []OneAtATime => L!Spec
  BY BudgetImplementsLimiter DEF ImplementsLimiter
<1> QED
  BY <1>1, <1>2, <1>3, <1>4, PTL

-----------------------------------------------------------------------------
\* No call has a number yet to come.
Numbered == \A c \in calls : c.id <= serial

\* A refusal has its reason in the calls really made.
LEMMA RefuseStep ==
  ASSUME BudgetInv, NEW w \in Workers, Refuse(w)
  PROVE  \/ Cardinality(L!LastHour(now[w])) >= MaxPerHour
         \/ Cardinality(L!LastDay(now[w])) >= MaxPerDay
         \/ \E c \in calls : c.subject = subject[w] /\ now[w] - c.at < Cooldown
<1> DEFINE t == now[w]
           s == subject[w]
<1>1. pc[w] = "check" /\ Refused(w)
  BY DEF Refuse
<1>2. /\ s \in Subjects /\ t \in Nat /\ t >= Start
      /\ \A c \in calls : c.at <= t /\ c.at \in Nat
      /\ seen[w].subjects \in [Subjects -> Nat]
      /\ IsFiniteSet(calls)
  BY <1>1, Numbers DEF BudgetInv, TypeOK, CallsPast, Reach, Ledger
<1>3. /\ seen[w].attempts = {c \in calls : t - c.at < Day}
      /\ Remembers(seen[w].subjects, t)
  BY <1>1 DEF BudgetInv, SeenExact
<1> HIDE DEF t, s
<1>4. {c \in seen[w].attempts : c.at >= t - Hour} = L!LastHour(t)
  BY <1>2, <1>3, Numbers DEF L!LastHour
<1>5. seen[w].attempts = L!LastDay(t)
  BY <1>2, <1>3, Numbers DEF L!LastDay
<1>6. Cardinality(L!LastHour(t)) \in Nat /\ Cardinality(L!LastDay(t)) \in Nat
  <2>1. L!LastHour(t) \in SUBSET calls /\ L!LastDay(t) \in SUBSET calls
    BY DEF L!LastHour, L!LastDay
  <2> QED
    BY <1>2, <2>1, FS_Subset, FS_CardinalityType
<1>7. \/ Cardinality(L!LastHour(t)) >= MaxPerHour
      \/ Cardinality(L!LastDay(t)) >= MaxPerDay
      \/ t - seen[w].subjects[s] < Cooldown
  <2>1. \/ MaxPerHour <= 0 \/ Cardinality(L!LastHour(t)) >= MaxPerHour
        \/ MaxPerDay <= 0 \/ Cardinality(L!LastDay(t)) >= MaxPerDay
        \/ t - seen[w].subjects[s] < Cooldown
    BY <1>1, <1>4, <1>5 DEF Refused, Hourly, t, s
  <2>2. MaxPerHour \in Int /\ MaxPerDay \in Int
    BY LimitsAssumption
  <2> QED
    BY <1>6, <2>1, <2>2
<1>8. ASSUME t - seen[w].subjects[s] < Cooldown
      PROVE  \E c \in calls : c.subject = s /\ t - c.at < Cooldown
  <2>1. seen[w].subjects[s] # 0
    BY <1>2, <1>8, Numbers
  <2> QED
    BY <1>2, <1>3, <1>8, <2>1 DEF Remembers
<1> QED
  BY <1>7, <1>8 DEF t, s

\* No call is refused that the limits, counted over the calls really made, would allow.
THEOREM RefusalsAreJust ==
  Spec /\ []OneAtATime => RefusedJustly
<1> DEFINE Just ==
      \A w \in Workers :
        pc[w] = "check" /\ pc'[w] = "idle" /\ calls' = calls =>
          \/ Cardinality(L!LastHour(now[w])) >= MaxPerHour
          \/ Cardinality(L!LastDay(now[w])) >= MaxPerDay
          \/ \E c \in calls : c.subject = subject[w] /\ now[w] - c.at < Cooldown
<1>1. Init => Numbered
  BY LegacyShape, LimitsAssumption DEF Init, L!Init, LegacyCall, Numbered
<1>2. BudgetInv /\ Numbered /\ [Next]_vars => Numbered'
  <2> SUFFICES ASSUME BudgetInv, Numbered, [Next]_vars PROVE Numbered'
    OBVIOUS
  <2>1. serial \in Nat /\ \A c \in calls : c.id \in Nat
    BY DEF BudgetInv, TypeOK, Call
  <2>2. ASSUME NEW w \in Workers, Reserve(w) PROVE Numbered'
    BY <2>1, <2>2 DEF Reserve, Numbered
  <2>3. CASE UNCHANGED <<calls, serial>>
    BY <2>3 DEF Numbered
  <2> QED
    BY <2>2, <2>3 DEF Next, Tick, L!Tick, Begin, Load, SavePruned, Refuse, Fail, Recover,
                      vars
<1>3. BudgetInv /\ Numbered /\ [Next]_vars => [Just]_vars
  <2> SUFFICES ASSUME BudgetInv, Numbered, Next, NEW u \in Workers,
                      pc[u] = "check", pc'[u] = "idle", calls' = calls
               PROVE  Refuse(u)
    BY RefuseStep
  <2>1. pc \in [Workers -> {"idle", "load", "save", "check", "down"}]
    BY DEF BudgetInv, TypeOK
  <2>2. ASSUME NEW w \in Workers, Reserve(w) PROVE FALSE
    <3>1. [id |-> serial + 1, at |-> now[w], subject |-> subject[w]] \in calls
      BY <2>2 DEF Reserve
    <3>2. serial + 1 <= serial
      BY <3>1 DEF Numbered
    <3> QED
      BY <3>2 DEF BudgetInv, TypeOK
  <2>3. ASSUME NEW w \in Workers, NEW to, Leave(w, to), w # u \/ to # "idle"
        PROVE  FALSE
    BY <2>1, <2>3 DEF Leave
  <2>4. \A w \in Workers : ~Fail(w) /\ (Refuse(w) => w = u)
    BY <2>3 DEF Fail, Refuse
  <2>5. /\ ~Tick
        /\ \A w \in Workers : /\ \A s \in Subjects : ~Begin(w, s)
                              /\ ~Load(w) /\ ~SavePruned(w) /\ ~Recover(w)
    BY <2>1 DEF Tick, Begin, Load, SavePruned, Recover
  <2> QED
    BY <2>2, <2>4, <2>5 DEF Next
<1>4. Spec /\ []OneAtATime => []BudgetInv
  BY BudgetInvariant
<1> QED
  BY <1>1, <1>2, <1>3, <1>4, PTL DEF Spec, RefusedJustly

=============================================================================
