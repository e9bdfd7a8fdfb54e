----------------------------- MODULE CallLimits -----------------------------
(***************************************************************************)
(* The parameters of the AI budget (Settings.ai_max_per_hour and its       *)
(* neighbours), shared by what the budget promises and by what keeps it.   *)
(***************************************************************************)
EXTENDS Integers, FiniteSets

CONSTANTS
  Subjects,     \* equivalence classes of incidents (_ai_subject)
  NoSubject,    \* the subject of a call an earlier version made
  Hour, Day,    \* 3600 and 86400 seconds, in ticks
  MaxPerHour, MaxPerDay, Cooldown,
  Start,        \* the time at which this version starts, since the epoch
  Horizon,      \* bound: the clock stops here
  LegacyHistories  \* what an earlier version may have left in decisions

Call == [id : Nat, at : Nat, subject : Subjects \cup {NoSubject}]

\* A call of an earlier version, known by its decision; the epoch starts at 0.
LegacyCall == [id : {0}, at : 0 .. Start, subject : {NoSubject}]

\* The epoch is longer ago than any window.
ASSUME LimitsAssumption ==
  /\ NoSubject \notin Subjects
  /\ Hour \in Nat /\ Day \in Nat /\ Hour < Day
  /\ MaxPerHour \in Int /\ MaxPerDay \in Int /\ Cooldown \in Nat
  /\ Start \in Nat /\ Horizon \in Nat
  /\ Start >= Day /\ Start >= Cooldown /\ Start <= Horizon
  /\ \A h \in LegacyHistories :
       IsFiniteSet(h) /\ h \subseteq LegacyCall

=============================================================================
