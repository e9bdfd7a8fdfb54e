----------------------------- MODULE Dashboard -----------------------------
(***************************************************************************)
(* static/app.js and the endpoints it reads.  load() runs at the start, at *)
(* every click, at every change of the filter and every ten seconds, and   *)
(* nothing keeps two loads apart: each asks for /api/health, /api/summary  *)
(* and /api/events, whose answers come when they come.  Meanwhile the      *)
(* collectors add rows and change service.errors, the dict that            *)
(* /api/health iterates in another thread.  The counters of the summary    *)
(* and the status of a row are left out.                                   *)
(***************************************************************************)
EXTENDS Naturals, Sequences, FiniteSets

CONSTANTS
  Severities, Alarming,   \* alerts are high or critical
  NoFilter,
  Loads,                  \* the calls of load() that can be under way
  Collectors,             \* the keys of errors
  Limit,                  \* the limit of /api/events
  MaxRows, MaxTime,       \* bounds: rows, and the times they were observed at
  MaxTrouble              \* bound: changes of errors and of the filter, failed fetches

ASSUME DashboardAssumption ==
  /\ Alarming \subseteq Severities /\ NoFilter \notin Severities
  /\ IsFiniteSet(Collectors)
  /\ Limit \in Nat \ {0} /\ MaxRows \in Nat /\ MaxTime \in Nat /\ MaxTrouble \in Nat

VARIABLES
  events,       \* the table: the id of a row is its position
  errors,       \* the collectors that service.errors has an entry for
  severity,     \* the filter that is selected
  answered,     \* the loads /api/events has answered
  filter, answer,           \* of each load: the severity it asks for, the ids it got,
  health, size, \*   what has become of /api/health, and the size of errors it began with
  shown, banner,            \* what the panel shows: state.events, and its error line
  initialized, newestId,    \* state
  told,         \* the toasts each row got
  baseline,     \* history: newestId after the first load
  narrowed,     \* history: a load under a filter was announced
  trouble

serverVars    == <<events, errors>>
loadVars      == <<filter, answered, answer, health, size>>
panelVars     == <<shown, banner, initialized, newestId, told, baseline, narrowed>>
dashboardVars == <<serverVars, severity, loadVars, panelVars, trouble>>

Rows == 1 .. Len(events)

Filters == Severities \cup {NoFilter}

\* What a load that is not under way holds.
Idle(l) == health[l] = "idle"

DashboardInit ==
  /\ events = <<>> /\ errors = {}
  /\ severity = NoFilter
  /\ filter = [l \in Loads |-> NoFilter]
  /\ answered = {}
  /\ answer = [l \in Loads |-> {}]
  /\ health = [l \in Loads |-> "idle"]
  /\ size = [l \in Loads |-> 0]
  /\ shown = {} /\ banner = "none"
  /\ initialized = FALSE /\ newestId = 0
  /\ told = [i \in 1 .. MaxRows |-> 0]
  /\ baseline = 0 /\ narrowed = FALSE
  /\ trouble = 0

-----------------------------------------------------------------------------
\* The service.  A row may tell of something long past: a journal's backlog.
AddEvent(s, t) ==
  /\ Len(events) < MaxRows
  /\ events' = Append(events, [severity |-> s, observed |-> t])
  /\ UNCHANGED <<errors, severity, loadVars, panelVars, trouble>>

CollectorFails(k) ==
  /\ k \notin errors /\ trouble < MaxTrouble
  /\ errors' = errors \cup {k}
  /\ trouble' = trouble + 1
  /\ UNCHANGED <<events, severity, loadVars, panelVars>>

CollectorWorks(k) ==
  /\ k \in errors
  /\ errors' = errors \ {k}
  /\ UNCHANGED <<events, severity, loadVars, panelVars, trouble>>

\* list_events: the newest rows by the time they were observed at, in any order
\* where that is the same.
Matching(f) == {i \in Rows : f = NoFilter \/ events[i].severity = f}

Listings(f) ==
  {S \in SUBSET Matching(f) :
     /\ Cardinality(S) <= Limit
     /\ Cardinality(S) < Limit => S = Matching(f)
     /\ \A i \in S, j \in Matching(f) \ S : events[i].observed >= events[j].observed}

-----------------------------------------------------------------------------
\* load() reads the filter and asks.
Ask(l, f) ==
  /\ Idle(l)
  /\ filter' = [filter EXCEPT ![l] = f]
  /\ health' = [health EXCEPT ![l] = "asked"]

\* Mutant: the filter is the one the page came with.
StartLoad_cached(l) ==
  /\ Ask(l, NoFilter)
  /\ UNCHANGED <<serverVars, severity, answered, answer, size, panelVars, trouble>>

\* The start, the timer, a click, and the end of setStatus.
StartLoad(l) ==
  /\ Ask(l, severity)
  /\ UNCHANGED <<serverVars, severity, answered, answer, size, panelVars, trouble>>

SelectSeverity(l, f) ==
  /\ f # severity /\ trouble < MaxTrouble
  /\ severity' = f
  /\ trouble' = trouble + 1
  /\ Ask(l, f)
  /\ UNCHANGED <<serverVars, answered, answer, size, panelVars>>

AnswerEvents(l) ==
  /\ ~Idle(l) /\ l \notin answered
  /\ answered' = answered \cup {l}
  /\ \E S \in Listings(filter[l]) : answer' = [answer EXCEPT ![l] = S]
  /\ UNCHANGED <<serverVars, severity, filter, health, size, panelVars, trouble>>

\* last_error, and then the answer itself, are built from errors entry by entry.
HealthBegins(l) ==
  /\ health[l] = "asked"
  /\ health' = [health EXCEPT ![l] = "iterating"]
  /\ size' = [size EXCEPT ![l] = Cardinality(errors)]
  /\ UNCHANGED <<serverVars, severity, filter, answered, answer, panelVars, trouble>>

HealthAnswers(l) ==
  /\ health[l] = "iterating"
  /\ health' = [health EXCEPT ![l] = IF size[l] = 0 THEN "well" ELSE "partial"]
  /\ size' = [size EXCEPT ![l] = 0]
  /\ UNCHANGED <<serverVars, severity, filter, answered, answer, panelVars, trouble>>

\* The load is over.
LeaveLoad(l) ==
  /\ filter' = [filter EXCEPT ![l] = NoFilter]
  /\ answered' = answered \ {l}
  /\ answer' = [answer EXCEPT ![l] = {}]
  /\ health' = [health EXCEPT ![l] = "idle"]
  /\ size' = [size EXCEPT ![l] = 0]

\* Nothing of what the load was answered is used.
LoadFails(l) ==
  /\ LeaveLoad(l)
  /\ banner' = "failed"
  /\ UNCHANGED <<serverVars, severity, shown, initialized, newestId, told, baseline,
                 narrowed>>

\* "dictionary changed size during iteration".
HealthRaises(l) ==
  /\ health[l] = "iterating" /\ Cardinality(errors) # size[l]
  /\ LoadFails(l)
  /\ UNCHANGED trouble

FetchFails(l) ==
  /\ ~Idle(l) /\ trouble < MaxTrouble
  /\ LoadFails(l)
  /\ trouble' = trouble + 1

\* The largest id of a list, 0 if there is none.
Newest(n, S) == (n = 0 => S = {}) /\ \A i \in S : i <= n

Larger(i, j) == IF i < j THEN j ELSE i

\* A toast for each high or critical row beyond newestId.
Toast(S) ==
  told' = [i \in 1 .. MaxRows |->
             IF i \in S /\ i > newestId /\ events[i].severity \in Alarming
               THEN told[i] + 1 ELSE told[i]]

\* Mutant: newestId is that of the last list.
announce_latest(S, n) ==
  IF initialized
    THEN Toast(S) /\ newestId' = n /\ UNCHANGED <<initialized, baseline>>
    ELSE initialized' = TRUE /\ newestId' = n /\ baseline' = n /\ UNCHANGED told

\* Mutant: newestId is the number of rows in the table.
announce_total(S, n) ==
  IF initialized
    THEN Toast(S) /\ newestId' = Len(events) /\ UNCHANGED <<initialized, baseline>>
    ELSE initialized' = TRUE /\ newestId' = n /\ baseline' = n /\ UNCHANGED told

\* A list S whose largest id is n.  The first is taken for known.
announce(S, n) ==
  IF initialized
    THEN /\ Toast(S)
         /\ newestId' = Larger(newestId, n)
         /\ UNCHANGED <<initialized, baseline>>
    ELSE /\ initialized' = TRUE
         /\ newestId' = n /\ baseline' = n
         /\ UNCHANGED told

\* Mutant: the answer is left where it was.
CompleteLoad_kept(l) ==
  /\ health[l] \in {"well", "partial"} /\ l \in answered
  /\ shown' = answer[l]
  /\ banner' = IF health[l] = "partial" THEN "partial" ELSE "none"
  /\ \E n \in answer[l] \cup {0} : Newest(n, answer[l]) /\ announce(answer[l], n)
  /\ narrowed' = (narrowed \/ filter[l] # NoFilter)
  /\ health' = [health EXCEPT ![l] = "idle"]
  /\ UNCHANGED <<serverVars, severity, filter, answered, answer, size, trouble>>

\* Everything has been answered: the panel is set.
CompleteLoad(l) ==
  /\ health[l] \in {"well", "partial"} /\ l \in answered
  /\ shown' = answer[l]
  /\ banner' = IF health[l] = "partial" THEN "partial" ELSE "none"
  /\ \E n \in answer[l] \cup {0} : Newest(n, answer[l]) /\ announce(answer[l], n)
  /\ narrowed' = (narrowed \/ filter[l] # NoFilter)
  /\ LeaveLoad(l)
  /\ UNCHANGED <<serverVars, severity, trouble>>

LoadGoesOn(l) ==
  AnswerEvents(l) \/ HealthBegins(l) \/ HealthAnswers(l) \/ CompleteLoad(l)

DashboardNext ==
  \/ \E s \in Severities, t \in 1 .. MaxTime : AddEvent(s, t)
  \/ \E k \in Collectors : CollectorFails(k) \/ CollectorWorks(k)
  \/ \E l \in Loads :
       \/ StartLoad(l) \/ LoadGoesOn(l) \/ HealthRaises(l) \/ FetchFails(l)
       \/ \E f \in Filters : SelectSeverity(l, f)

DashboardSpec == DashboardInit /\ [][DashboardNext]_dashboardVars

\* The timer starts a load again and again, and what is asked is answered: loads
\* fail only now and then.
DashboardFairness ==
  /\ WF_dashboardVars(\E l \in Loads : StartLoad(l))
  /\ \A l \in Loads : WF_dashboardVars(LoadGoesOn(l))

-----------------------------------------------------------------------------
ServerOK ==
  /\ events \in Seq([severity : Severities, observed : 1 .. MaxTime])
  /\ Len(events) <= MaxRows
  /\ errors \subseteq Collectors
  /\ severity \in Filters
  /\ trouble \in 0 .. MaxTrouble

LoadsOK ==
  /\ answered \subseteq Loads
  /\ filter \in [Loads -> Filters]
  /\ answer \in [Loads -> SUBSET Rows]
  /\ health \in [Loads -> {"idle", "asked", "iterating", "well", "partial"}]
  /\ size \in [Loads -> Nat]
  /\ \A l \in Loads : Idle(l) => l \notin answered
  /\ \A l \in Loads : l \notin answered => answer[l] = {}

PanelOK ==
  /\ shown \subseteq Rows
  /\ banner \in {"none", "partial", "failed"}
  /\ initialized \in BOOLEAN
  /\ newestId \in 0 .. Len(events) /\ baseline \in 0 .. newestId
  /\ told \in [1 .. MaxRows -> Nat]
  /\ narrowed \in BOOLEAN

\* What every variable holds; a load that is over has left nothing.
DashboardTypeOK == ServerOK /\ LoadsOK /\ PanelOK

\* However loads overtake each other and whatever filters they were asked under,
\* no row is announced twice.
AnnouncedOnce == \A i \in 1 .. MaxRows : told[i] <= 1

\* While no filter was used and the table fits into one answer, newestId passes no
\* alert over: every high or critical row up to it was announced, or was there
\* when the page was opened; although the rows of two loads are not read in the
\* order in which they are shown, and although loads fail.
NoAlertPassedOver ==
  (~narrowed /\ Len(events) <= Limit) =>
    \A i \in 1 .. newestId :
      events[i].severity \in Alarming => told[i] > 0 \/ i <= baseline

\* When the table, the errors and the filter change no more, the panel shows in
\* the end what the filter selects and whether telemetry is partial: no load that
\* was asked before has the last word.
PanelSettles ==
  <>[][FALSE]_<<serverVars, severity>> =>
    <>[](/\ shown \in Listings(severity)
         /\ banner = IF errors = {} THEN "none" ELSE "partial")

=============================================================================
