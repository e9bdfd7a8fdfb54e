---------------------------- MODULE Correlation ----------------------------
(***************************************************************************)
(* MonitoringService._correlate as constant-level operators: what a newly  *)
(* stored event means next to the rows already in the events table.        *)
(* An event keeps what the rules and the fingerprint look at: its type,    *)
(* whom it is about (actor and address, or the address alone), its port,   *)
(* when it was observed, and its evidence: the journal position of an      *)
(* observed record, the positions of the related rows of an incident.      *)
(***************************************************************************)
EXTENDS Integers, FiniteSets

CONSTANTS
  SshWindow,        \* 5 minutes, in ticks
  PrivilegeWindow,  \* 10 minutes, in ticks
  BruteForce,       \* failures that make a brute force: 3
  ScanPorts,        \* blocked ports that make a port scan: 10
  NoSource,         \* source_ip is None
  NoPort            \* destination_port is None

ASSUME RulesAssumption ==
  /\ SshWindow \in Nat /\ PrivilegeWindow \in Nat
  /\ BruteForce \in Nat \ {0} /\ ScanPorts \in Nat \ {0}

SshTypes == {"ssh_login_failed", "ssh_login_succeeded"}

PrivilegeTypes == {"sudo_command", "su_session_opened"}

\* The types a file change of category persistence comes with.
PersistenceTypes == {"file_created", "file_modified", "file_deleted"}

IncidentTypes ==
  {"ssh_bruteforce", "ssh_failures_then_success", "port_scan",
   "privilege_then_persistence"}

\* Mutant: the time of observation counts too.
fingerprint_timed(e) == e

\* SecurityEvent.fingerprint: everything but the time of observation.
fingerprint(e) == [event_type |-> e.event_type, subject |-> e.subject,
                   port |-> e.port, evidence |-> e.evidence]

\* Mutant: the lower end of the window is left out.
recent_events_strict(rows, event_type, subject, since) ==
  {r \in rows : /\ r.event_type = event_type
                /\ r.subject = subject
                /\ r.observed_at > since}

\* EventStore.recent_events and recent_event_types: a window has no upper end.
recent_events(rows, event_type, subject, since) ==
  {r \in rows : /\ r.event_type = event_type
                /\ r.subject = subject
                /\ r.observed_at >= since}

recent_event_types(rows, event_types, since) ==
  {r \in rows : r.event_type \in event_types /\ r.observed_at >= since}

Incident(event_type, subject, e, related) ==
  [event_type |-> event_type, subject |-> subject, port |-> NoPort,
   observed_at |-> e.observed_at, evidence |-> UNION {r.evidence : r \in related}]

-----------------------------------------------------------------------------
\* Each rule yields the set of the incidents it raises: one or none.
SshFailures(e, rows) ==
  recent_events(rows, "ssh_login_failed", e.subject, e.observed_at - SshWindow)

\* Mutant: more failures than the threshold instead of as many.
correlate_ssh_above(e, rows) ==
  LET failures == SshFailures(e, rows)
      raise(type) == {Incident(type, e.subject, e, failures)}
  IN  CASE e.event_type = "ssh_login_failed" /\ Cardinality(failures) > BruteForce
             -> raise("ssh_bruteforce")
        [] e.event_type = "ssh_login_succeeded" /\ failures # {}
             -> raise("ssh_failures_then_success")
        [] OTHER -> {}

correlate_ssh(e, rows) ==
  LET failures == SshFailures(e, rows)
      raise(type) == {Incident(type, e.subject, e, failures)}
  IN  CASE e.event_type = "ssh_login_failed" /\ Cardinality(failures) = BruteForce
             -> raise("ssh_bruteforce")
        [] e.event_type = "ssh_login_succeeded" /\ failures # {}
             -> raise("ssh_failures_then_success")
        [] OTHER -> {}

Blocked(e, rows) ==
  recent_events(rows, "firewall_packet_blocked", e.subject, e.observed_at - SshWindow)

PortsOf(rows) == {r.port : r \in rows} \ {NoPort}

\* Mutant: packets are counted, not their ports.
correlate_firewall_packets(e, rows) ==
  IF e.subject # NoSource /\ Cardinality(Blocked(e, rows)) = ScanPorts
    THEN {Incident("port_scan", e.subject, e, Blocked(e, rows))} ELSE {}

correlate_firewall(e, rows) ==
  IF e.subject # NoSource /\ Cardinality(PortsOf(Blocked(e, rows))) = ScanPorts
    THEN {Incident("port_scan", e.subject, e, Blocked(e, rows))} ELSE {}

correlate_persistence(e, rows) ==
  LET privilege ==
        recent_event_types(rows, PrivilegeTypes, e.observed_at - PrivilegeWindow)
  IN  IF privilege # {}
        THEN {Incident("privilege_then_persistence", e.subject, e, privilege)} ELSE {}

\* _correlate: the incidents are ingested with correlate=False.
correlate(e, rows) ==
  CASE e.event_type \in PersistenceTypes        -> correlate_persistence(e, rows)
    [] e.event_type = "firewall_packet_blocked" -> correlate_firewall(e, rows)
    [] e.event_type \in SshTypes                -> correlate_ssh(e, rows)
    [] OTHER                                    -> {}

=============================================================================
