----------------------------- MODULE Decisions -----------------------------
(***************************************************************************)
(* The triage rules of JevGuard as constant-level operators: the events    *)
(* the collectors and the correlator emit, the local rules, what the       *)
(* adapters make of a remote answer, the review policy, the risk floor and *)
(* the UPDATE statements every EventStore runs when it opens the database. *)
(* An event is what triage looks at: where it comes from, its type and its *)
(* severity.  A confidence is a whole number of percent.                   *)
(***************************************************************************)
EXTENDS Integers

-----------------------------------------------------------------------------
Severities == {"informational", "low", "medium", "high", "critical"}

SEVERITY_RANK ==
  [s \in Severities |->
     CASE s = "informational" -> 0
       [] s = "low"           -> 1
       [] s = "medium"        -> 2
       [] s = "high"          -> 3
       [] s = "critical"      -> 4]

\* The severities the code singles out as {"high", "critical"} everywhere.
GraveSeverities == {"high", "critical"}

Classifications == {"benign", "suspicious", "malicious", "insufficient_evidence"}

Actions == {"record", "monitor", "investigate", "recommend_containment"}

\* The advice that asks for an analyst.
EscalatingActions == {"investigate", "recommend_containment"}

Decision ==
  [classification        : Classifications,
   severity              : Severities,
   recommended_action    : Actions,
   confidence            : 0 .. 100,
   provider              : {"local-rules", "external"},
   requires_human_review : BOOLEAN]

-----------------------------------------------------------------------------
\* Events, collector by collector.

Event(source, types, severities) ==
  [source : {source}, event_type : types, severity : severities]

JournalEvents ==
  UNION { Event("journalctl", {"ssh_login_failed", "sudo_command",
                               "su_session_opened", "process_crashed"}, {"medium"}),
          Event("journalctl", {"ssh_login_succeeded"}, {"low", "high"}),
          Event("journalctl", {"sudo_failed", "account_tool_useradd",
                               "account_tool_usermod", "account_tool_groupadd",
                               "account_tool_passwd"}, {"high"}) }

KernelEvents == Event("kernel", {"firewall_packet_blocked"}, {"medium"})

AuditEvents ==
  UNION { Event("auditd", {"process_executed"}, {"informational", "high"}),
          Event("auditd", {"access_denied"}, {"medium"}),
          Event("auditd", {"audit_auth_failed"}, {"high"}),
          Event("auditd", {"audit_auth_activity"}, {"low"}) }

FileEvents ==
  Event("file-monitor", {"file_created", "file_deleted", "file_modified"},
        {"medium", "high"})

AccountEvents ==
  Event("account-monitor", {"user_created", "user_deleted", "user_modified"}, {"high"})
    \cup Event("account-monitor", {"group_membership_changed"}, {"medium", "high"})

ProcessEvents == Event("procfs", {"suspicious_process"}, {"medium", "high"})

SocketEvents ==
  Event("procfs", {"listening_port"}, {"informational", "low"})
    \cup Event("procfs", {"network_connection"}, {"informational"})

ListenerIncidents == Event("correlator", {"new_listening_port"}, {"medium", "high"})

SshIncidents ==
  Event("correlator", {"ssh_bruteforce"}, {"high"})
    \cup Event("correlator", {"ssh_failures_then_success"}, {"critical"})

PersistenceIncidents == Event("correlator", {"privilege_then_persistence"}, {"high"})

ScanIncidents == Event("correlator", {"port_scan"}, {"high"})

DemoEvents ==
  UNION { Event("demo", {"ssh_login_failed", "sudo_command"}, {"medium"}),
          Event("demo", {"listening_port", "file_created"}, {"high"}) }

EventCatalog ==
  UNION { JournalEvents, KernelEvents, AuditEvents, FileEvents, AccountEvents,
          ProcessEvents, SocketEvents, ListenerIncidents, SshIncidents,
          PersistenceIncidents, ScanIncidents, DemoEvents }

-----------------------------------------------------------------------------
\* Whether a decision has to be looked at by a person.
NeedsReview(d) ==
  \/ d.severity \in GraveSeverities
  \/ d.classification = "malicious"
  \/ d.recommended_action \in EscalatingActions

Clamp(n, low, high) == IF n < low THEN low ELSE IF n > high THEN high ELSE n

\* Mutant: a confidence is stored as it came.
apply_policy_unclamped(d) == [d EXCEPT !.requires_human_review = NeedsReview(d)]

apply_policy(d) ==
  [d EXCEPT !.confidence = Clamp(d.confidence, 0, 100),
            !.requires_human_review = NeedsReview(d)]

Verdict(classification, severity, action, confidence, provider) ==
  [classification |-> classification, severity |-> severity,
   recommended_action |-> action, confidence |-> confidence,
   provider |-> provider, requires_human_review |-> TRUE]

\* LocalDecisionProvider.decide: the first rule that applies wins.
ChangeTypes ==
  {"suspicious_process", "sudo_failed", "user_created", "user_deleted",
   "group_membership_changed", "file_created", "file_deleted", "file_modified"}

LocalRule(e) ==
  LET rule(c, s, a, p) == Verdict(c, s, a, p, "local-rules")
      grave == e.severity \in GraveSeverities
  IN  IF e.event_type = "ssh_failures_then_success"
        THEN rule("malicious", "critical", "recommend_containment", 90)
      ELSE IF e.event_type = "ssh_bruteforce"
        THEN rule("malicious", "high", "investigate", 86)
      ELSE IF e.event_type = "new_listening_port" /\ e.severity = "medium"
        THEN rule("suspicious", "medium", "monitor", 65)
      ELSE IF e.event_type \in ChangeTypes /\ grave
        THEN rule("suspicious", e.severity, "investigate", 78)
      ELSE IF e.source = "correlator" \/ grave
        THEN rule("suspicious", e.severity, "investigate", 68)
      ELSE IF e.event_type = "ssh_login_failed"
        THEN rule("suspicious", "medium", "monitor", 72)
      ELSE IF e.event_type \in {"sudo_activity", "sudo_command", "su_session_opened"}
        THEN rule("suspicious", "low", "monitor", 55)
      ELSE IF e.event_type = "listening_port" /\ e.severity # "informational"
        THEN rule("suspicious", "low", "monitor", 52)
      ELSE rule("insufficient_evidence", e.severity, "record", 35)

LocalDecide(e) == apply_policy(LocalRule(e))

-----------------------------------------------------------------------------
(***************************************************************************)
(* Remote answers.  transport says whether urlopen and json.load failed in *)
(* a way the adapter catches, broke off (a connection reset before or in   *)
(* the answer is no URLError) or gave a parsed answer; body says           *)
(* whether the parsed values have the types the adapter calls .get on      *)
(* ("other": a list, a null, a string); a field outside its vocabulary is  *)
(* "unknown"; numeric says whether float(confidence) succeeds.  An adapter *)
(* returns a decision, raises the RuntimeError that _decide catches, or    *)
(* lets another exception through.                                         *)
(***************************************************************************)
Reply ==
  [transport          : {"failed", "broken", "answered"},
   body               : {"object", "other"},
   classification     : Classifications \cup {"unknown"},
   severity           : Severities \cup {"unknown"},
   recommended_action : Actions \cup {"unknown"},
   numeric            : BOOLEAN,
   confidence         : Int]

InVocabulary(r) ==
  /\ r.classification \in Classifications
  /\ r.severity \in Severities
  /\ r.recommended_action \in Actions

\* The decision built from an answer in the vocabulary.
ExternalDecision(r, confidence) ==
  apply_policy(Verdict(r.classification, r.severity, r.recommended_action,
                       confidence, "external"))

\* The two Jev adapters convert confidence outside any try.
JevOutcome(r) ==
  IF r.transport = "failed" THEN "RuntimeError"
  ELSE IF r.transport = "broken" \/ r.body = "other" THEN "uncaught"
  ELSE IF ~InVocabulary(r) THEN "RuntimeError"
  ELSE IF ~r.numeric THEN "uncaught"
  ELSE "decision"

JevDecision(r) == ExternalDecision(r, r.confidence)

\* The chat adapter converts confidence under a try and caps it at 79 percent.
ChatOutcome(r) ==
  IF r.transport = "failed" THEN "RuntimeError"
  ELSE IF r.transport = "broken" \/ r.body = "other" THEN "uncaught"
  ELSE IF ~InVocabulary(r) \/ ~r.numeric THEN "RuntimeError"
  ELSE "decision"

ChatDecision(r) == ExternalDecision(r, Clamp(r.confidence, 0, 79))

\* The names of the chat adapter; the other two are Jev adapters.
ChatProviders == {"openrouter", "openai-compatible"}

Outcome(provider, r) ==
  IF provider \in ChatProviders THEN ChatOutcome(r) ELSE JevOutcome(r)

RemoteDecision(provider, r) ==
  IF provider \in ChatProviders THEN ChatDecision(r) ELSE JevDecision(r)

-----------------------------------------------------------------------------
\* Mutant: the advice of the provider stands.
enforce_severity_floor_advice(e, d) ==
  LET raised == IF SEVERITY_RANK[d.severity] < SEVERITY_RANK[e.severity]
                  THEN [d EXCEPT !.severity = e.severity] ELSE d
  IN  IF e.severity \in GraveSeverities
        THEN [raised EXCEPT
                !.classification = IF @ = "benign" THEN "suspicious" ELSE @,
                !.requires_human_review = TRUE]
        ELSE raised

\* What a provider answered, raised to the risk the event itself carries.
enforce_severity_floor(e, d) ==
  LET raised == IF SEVERITY_RANK[d.severity] < SEVERITY_RANK[e.severity]
                  THEN [d EXCEPT !.severity = e.severity] ELSE d
  IN  IF e.severity \in GraveSeverities
        THEN [raised EXCEPT
                !.classification = IF @ = "benign" THEN "suspicious" ELSE @,
                !.recommended_action =
                   IF @ \in {"record", "monitor"} THEN "investigate" ELSE @,
                !.requires_human_review = TRUE]
        ELSE raised

\* Whether an event may be sent to the provider at all.
should_use_ai(e, min_severity) ==
  SEVERITY_RANK[e.severity] >= SEVERITY_RANK[min_severity]

-----------------------------------------------------------------------------
\* The UPDATEs of EventStore.initialize, in their order, on one joined row.
DemotedTypes == {"ssh_login_failed", "new_listening_port"}

\* Mutant: every medium event is demoted.
Demote_any(e, d) ==
  IF e.severity = "medium" THEN [d EXCEPT !.recommended_action = "monitor"] ELSE d

Demote(e, d) ==
  IF e.severity = "medium" /\ e.event_type \in DemotedTypes
    THEN [d EXCEPT !.recommended_action = "monitor"] ELSE d

\* Mutant: the severity of the event is not looked at (no EXISTS clause).
RecomputeReview_alone(e, d) == [d EXCEPT !.requires_human_review = NeedsReview(d)]

RecomputeReview(e, d) ==
  [d EXCEPT !.requires_human_review =
     NeedsReview(d) \/ e.severity \in GraveSeverities]

\* Mutant: the two UPDATEs in the other order.
Migrate_swapped(e, d) == Demote(e, RecomputeReview(e, d))

Migrate(e, d) == RecomputeReview(e, Demote(e, d))

=============================================================================
