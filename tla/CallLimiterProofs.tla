------------------------- MODULE CallLimiterProofs -------------------------
(***************************************************************************)
(* The limiter keeps its three limits, for every window, every limit and   *)
(* every history an earlier version left.                                  *)
(***************************************************************************)
EXTENDS CallLimiter, FiniteSetTheorems, TLAPS

\* Calls are numbered upwards and never lie in the future.
Numbered ==
  /\ clock \in Start .. Horizon
  /\ serial \in Nat
  /\ IsFiniteSet(calls)
  /\ calls \subseteq Call
  /\ \A c \in calls : c.id <= serial /\ c.at <= clock

LimiterInv == Numbered /\ HourlyBudget /\ DailyBudget /\ CooldownSpacing

LEMMA LimiterInit == Init => LimiterInv
<1> SUFFICES ASSUME Init PROVE LimiterInv
  OBVIOUS
<1>1. /\ IsFiniteSet(calls)
      /\ calls \subseteq [id : {0}, at : 0 .. Start, subject : {NoSubject}]
  BY LimitsAssumption DEF Init, LegacyCall
<1>2. Numbered
  BY <1>1, LimitsAssumption DEF Init, Numbered, Call
<1>3. Granted = {}
  BY <1>1, LimitsAssumption DEF Granted
<1> QED
  BY <1>2, <1>3 DEF LimiterInv, HourlyBudget, DailyBudget, CooldownSpacing

\* One more call in a window that has room for it.
LEMMA RoomForOne ==
  ASSUME NEW S, IsFiniteSet(S), NEW x, NEW T, T \subseteq S \cup {x},
         NEW limit \in Int, Cardinality(S) < limit
  PROVE  Cardinality(T) <= limit
<1>1. /\ IsFiniteSet(S \cup {x})
      /\ Cardinality(S \cup {x}) <= Cardinality(S) + 1
  <2>1. Cardinality(S) \in Nat
    BY FS_CardinalityType
  <2>2. /\ IsFiniteSet(S \cup {x})
        /\ Cardinality(S \cup {x}) =
             IF x \in S THEN Cardinality(S) ELSE Cardinality(S) + 1
    BY FS_AddElement, Zenon
  <2> QED
    BY <2>1, <2>2
<1>2. Cardinality(T) <= Cardinality(S \cup {x})
  BY <1>1, FS_Subset
<1>3. IsFiniteSet(T)
  BY <1>1, FS_Subset
<1> QED
  BY <1>1, <1>2, <1>3, FS_CardinalityType

LEMMA GrantStep ==
  ASSUME LimiterInv, NEW s \in Subjects, NEW t \in Start .. Horizon, Grant(s, t)
  PROVE  LimiterInv'
<1> DEFINE new == [id |-> serial + 1, at |-> t, subject |-> s]
<1>1. /\ t \in Nat /\ t <= clock
      /\ \A c \in calls : c.at <= t
      /\ Cardinality(LastHour(t)) < MaxPerHour
      /\ Cardinality(LastDay(t)) < MaxPerDay
      /\ \A c \in calls : c.subject = s => t - c.at >= Cooldown
      /\ serial' = serial + 1
      /\ calls' = calls \cup {new}
      /\ clock' = clock
  BY LimitsAssumption DEF Grant
<1>2. /\ clock \in Start .. Horizon /\ serial \in Nat
      /\ IsFiniteSet(calls)
      /\ calls \subseteq Call
      /\ \A c \in calls : c.id <= serial /\ c.at <= clock
  BY DEF LimiterInv, Numbered
<1>3. /\ new \in Call
      /\ new.id = serial + 1 /\ new.at = t /\ new.subject = s
  BY <1>1, <1>2 DEF Call
<1> HIDE DEF new
<1>4. /\ Hour \in Nat /\ Day \in Nat /\ Cooldown \in Nat
      /\ MaxPerHour \in Int /\ MaxPerDay \in Int
  BY LimitsAssumption
<1>5. \A c \in calls : c.id \in Nat /\ c.at \in Nat
  BY <1>2 DEF Call
<1>6. Numbered'
  <2>1. IsFiniteSet(calls')
    BY <1>1, <1>2, FS_AddElement
  <2>2. \A c \in calls' : c.id <= serial' /\ c.at <= clock'
    BY <1>1, <1>2, <1>3, <1>5
  <2> QED
    BY <1>1, <1>2, <1>3, <2>1, <2>2 DEF Numbered
<1>7. /\ IsFiniteSet(LastHour(t))
      /\ IsFiniteSet(LastDay(t))
  BY <1>2, FS_Subset DEF LastHour, LastDay
<1>8. HourlyBudget'
  <2> SUFFICES ASSUME NEW c \in Granted'
               PROVE  Cardinality({d \in calls' : d.at >= c.at - Hour /\ d.at <= c.at})
                        <= MaxPerHour
    BY DEF HourlyBudget
  <2> DEFINE W == {d \in calls' : d.at >= c.at - Hour /\ d.at <= c.at}
  <2>1. CASE c.at = t
    <3>1. W \subseteq LastHour(t) \cup {new}
      BY <1>1, <2>1 DEF LastHour
    <3> QED
      BY <1>1, <1>4, <1>7, <3>1, RoomForOne
  <2>2. CASE c.at # t
    <3>1. c \in Granted /\ c.at \in Nat /\ c.at < t
      BY <1>1, <1>3, <1>5, <2>2 DEF Granted
    <3>2. W = {d \in calls : d.at >= c.at - Hour /\ d.at <= c.at}
      BY <1>1, <1>3, <3>1
    <3> QED
      BY <3>1, <3>2 DEF LimiterInv, HourlyBudget
  <2> QED
    BY <2>1, <2>2
<1>9. DailyBudget'
  <2> SUFFICES ASSUME NEW c \in Granted'
               PROVE  Cardinality({d \in calls' : d.at > c.at - Day /\ d.at <= c.at})
                        <= MaxPerDay
    BY DEF DailyBudget
  <2> DEFINE W == {d \in calls' : d.at > c.at - Day /\ d.at <= c.at}
  <2>1. CASE c.at = t
    <3>1. W \subseteq LastDay(t) \cup {new}
      BY <1>1, <2>1 DEF LastDay
    <3> QED
      BY <1>1, <1>4, <1>7, <3>1, RoomForOne
  <2>2. CASE c.at # t
    <3>1. c \in Granted /\ c.at \in Nat /\ c.at < t
      BY <1>1, <1>3, <1>5, <2>2 DEF Granted
    <3>2. W = {d \in calls : d.at > c.at - Day /\ d.at <= c.at}
      BY <1>1, <1>3, <3>1
    <3> QED
      BY <3>1, <3>2 DEF LimiterInv, DailyBudget
  <2> QED
    BY <2>1, <2>2
<1>10. CooldownSpacing'
  <2> SUFFICES ASSUME NEW c \in Granted', NEW d \in Granted',
                      c.id < d.id, c.subject = d.subject
               PROVE  d.at - c.at >= Cooldown
    BY DEF CooldownSpacing
  <2>1. c \in calls /\ c.id \in Nat
    BY <1>1, <1>2, <1>3, <1>5 DEF Granted
  <2>2. CASE d = new
    BY <1>1, <1>3, <2>1, <2>2
  <2>3. CASE d # new
    BY <1>1, <2>1, <2>3 DEF Granted, LimiterInv, CooldownSpacing
  <2> QED
    BY <2>2, <2>3
<1> QED
  BY <1>6, <1>8, <1>9, <1>10 DEF LimiterInv

LEMMA LimiterNext == LimiterInv /\ [Next]_vars => LimiterInv'
<1> SUFFICES ASSUME LimiterInv, [Next]_vars PROVE LimiterInv'
  OBVIOUS
<1>1. CASE Tick
  <2>1. /\ clock' = clock + 1 /\ clock < Horizon
        /\ UNCHANGED <<calls, serial>>
    BY <1>1 DEF Tick
  <2>2. Numbered'
    BY <2>1, LimitsAssumption DEF LimiterInv, Numbered, Call
  <2> QED
    BY <2>1, <2>2 DEF LimiterInv, HourlyBudget, DailyBudget, CooldownSpacing, Granted
<1>2. ASSUME NEW s \in Subjects, NEW t \in Start .. Horizon, Grant(s, t)
      PROVE  LimiterInv'
  BY <1>2, GrantStep
<1>3. CASE UNCHANGED vars
  BY <1>3 DEF vars, LimiterInv, Numbered, HourlyBudget, DailyBudget,
              CooldownSpacing, Granted
<1> QED
  BY <1>1, <1>2, <1>3 DEF Next

\* The limiter keeps the hourly, the daily and the per-incident limit.
THEOREM LimiterKeepsLimits ==
  Spec => [](HourlyBudget /\ DailyBudget /\ CooldownSpacing)
<1>1. LimiterInv => HourlyBudget /\ DailyBudget /\ CooldownSpacing
  BY DEF LimiterInv
<1> QED
  BY LimiterInit, LimiterNext, <1>1, PTL DEF Spec

=============================================================================
