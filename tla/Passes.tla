------------------------------- MODULE Passes -------------------------------
(***************************************************************************)
(* What runs MonitoringService.collect_once over one database: the service *)
(* loop, any number of POST /api/collect in the same process, and jevguard *)
(* collect-once in others.  The collectors share neither rows of           *)
(* collector_state nor locals, so a behaviour follows one of them,         *)
(* whichever.                                                              *)
(***************************************************************************)
CONSTANTS
  Workers,
  Loop        \* the worker that run() keeps going

ASSUME PassesAssumption == Loop \in Workers

VARIABLE kind \* the collector this behaviour is about

Kinds == {"listener", "file", "account", "process", "audit"}

=============================================================================
