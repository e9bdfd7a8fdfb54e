---------------------------- MODULE MCDashboard ----------------------------
(***************************************************************************)
(* Two loads at a time over a table that outgrows the limit of an answer.  *)
(* At most one row comes from a backlog.  One thing goes wrong, or the     *)
(* filter is changed once, while the table fits into an answer; where it   *)
(* outgrows it, by a row from a backlog, nothing does.                     *)
(***************************************************************************)
EXTENDS Dashboard

FairSpec == DashboardSpec /\ DashboardFairness

Old == {i \in Rows : events[i].observed = 1}

Cut ==
  /\ Cardinality(Old) <= 1
  /\ trouble > 0 => Len(events) <= Limit
  /\ Len(events) = MaxRows => Old # {} /\ \A i \in Rows : events[i].severity = "high"

=============================================================================
