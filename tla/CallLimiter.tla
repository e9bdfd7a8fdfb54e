---------------------------- MODULE CallLimiter ----------------------------
(***************************************************************************)
(* What the AI budget promises, without a ledger: a call to the provider   *)
(* is granted only when the calls of the last hour, the calls of the last  *)
(* day and the last call for an equivalent incident leave room for it.     *)
(***************************************************************************)
EXTENDS CallLimits

VARIABLES
  clock,        \* time.time()
  calls,        \* every external call so far
  serial        \* the calls granted so far, which numbers them

Init ==
  /\ clock = Start
  /\ calls \in LegacyHistories
  /\ serial = 0

Tick ==
  /\ clock < Horizon
  /\ clock' = clock + 1
  /\ UNCHANGED <<calls, serial>>

LastHour(t) == {c \in calls : c.at >= t - Hour}
LastDay(t)  == {c \in calls : c.at > t - Day}

Grant(s, t) ==
  /\ t <= clock
  /\ \A c \in calls : c.at <= t
  /\ Cardinality(LastHour(t)) < MaxPerHour
  /\ Cardinality(LastDay(t)) < MaxPerDay
  /\ \A c \in calls : c.subject = s => t - c.at >= Cooldown
  /\ serial' = serial + 1
  /\ calls' = calls \cup {[id |-> serial + 1, at |-> t, subject |-> s]}
  /\ UNCHANGED clock

Next == Tick \/ \E s \in Subjects, t \in Start .. Horizon : Grant(s, t)

vars == <<clock, calls, serial>>

Spec == Init /\ [][Next]_vars

-----------------------------------------------------------------------------
Granted == {c \in calls : c.subject \in Subjects}

\* docs/THREAT_MODEL.md: no hour that ends with a granted call holds more than
\* ai_max_per_hour calls, those an earlier version made included.
HourlyBudget ==
  \A c \in Granted :
    Cardinality({d \in calls : d.at >= c.at - Hour /\ d.at <= c.at}) <= MaxPerHour

\* ... and no day more than ai_max_per_day.
DailyBudget ==
  \A c \in Granted :
    Cardinality({d \in calls : d.at > c.at - Day /\ d.at <= c.at}) <= MaxPerDay

\* Two calls about equivalent incidents are ai_cooldown_seconds apart, however
\* long the cooldown is and however often the ledger was pruned in between.
CooldownSpacing ==
  \A c, d \in Granted :
    c.id < d.id /\ c.subject = d.subject => d.at - c.at >= Cooldown

=============================================================================
