--------------------------- MODULE DecisionRecord ---------------------------
(***************************************************************************)
(* The life of one row of the events table and of its row in decisions,    *)
(* from the collector's hands to the analyst's: MonitoringService.ingest   *)
(* and _decide with a remote provider that may answer anything, the        *)
(* analyst's status changes, and EventStore.initialize, which every        *)
(* process that opens the database runs, at any moment, on rows it did not *)
(* write itself.  Rows do not interact, so one stands for all.             *)
(***************************************************************************)
EXTENDS Decisions

CONSTANTS
  Events,           \* the events considered
  Providers,        \* values of provider.name
  MinSeverities,    \* values of ai_min_severity
  Replies,          \* what a remote provider may answer
  LegacyDecisions   \* what an earlier version may have left in the table

\* Only the correlator emits ssh_bruteforce, and as high; ssh_login_failed comes
\* from the journal, never from the correlator.
ASSUME EventsAssumption ==
  /\ Events \subseteq [source : STRING, event_type : STRING, severity : Severities]
  /\ \A e \in Events : e.event_type = "ssh_bruteforce" => e.severity # "critical"
  /\ \A e \in Events : e.event_type = "ssh_login_failed" => e.source # "correlator"

ASSUME ConfigAssumption ==
  /\ Providers \subseteq {"local-rules", "jev", "openrouter-jev"} \cup ChatProviders
  /\ MinSeverities \subseteq Severities

ASSUME RepliesAssumption == Replies \subseteq Reply

ASSUME LegacyAssumption == LegacyDecisions \subseteq Decision

VARIABLES
  event,        \* the observed event
  config,       \* [provider, min_severity] of the running service
  opened,       \* some process has opened the database with this version
  stage,        \* how far ingest has come with the event
  verdict,      \* the local variable decision of ingest: empty or one decision
  decisions,    \* rows of decisions for this event: UNIQUE(event_id)
  status        \* events.status

vars == <<event, config, opened, stage, verdict, decisions, status>>

Statuses == {"new", "investigating", "resolved", "false_positive"}

Stages == {"observed", "stored", "calling", "judged", "decided",
           "legacy", "aborted", "crashed"}

-----------------------------------------------------------------------------
Init ==
  /\ event \in Events
  /\ config \in [provider : Providers, min_severity : MinSeverities]
  /\ opened = FALSE
  /\ verdict = {}
  /\ \/ /\ stage = "observed"
        /\ decisions = {}
        /\ status = "new"
     \/ /\ stage = "legacy"
        /\ \E d \in LegacyDecisions : decisions = {d}
        /\ status \in Statuses

\* A service starts, or a jevguard command runs next to it.
Initialize ==
  /\ opened' = TRUE
  /\ decisions' = {Migrate(event, d) : d \in decisions}
  /\ UNCHANGED <<event, config, stage, verdict, status>>

add_event ==
  /\ opened /\ stage = "observed"
  /\ stage' = "stored"
  /\ UNCHANGED <<event, config, opened, verdict, decisions, status>>

\* _decide consults the provider only for prefer_ai and a severe enough event.
MayUseAi ==
  /\ should_use_ai(event, config.min_severity)
  /\ config.provider # "local-rules"

JudgedAs(d) ==
  /\ stage' = "judged"
  /\ verdict' = {d}
  /\ UNCHANGED <<event, config, opened, decisions, status>>

\* Either the event is not for the provider, or prefer_ai is false (seed_demo),
\* or the call budget refuses it: in each case the local rules decide.
DecideLocally ==
  /\ stage = "stored"
  /\ JudgedAs(LocalDecide(event))

\* _reserve_ai_call grants the call; whether it may is the module AiBudget.
ReserveCall ==
  /\ stage = "stored"
  /\ MayUseAi
  /\ stage' = "calling"
  /\ UNCHANGED <<event, config, opened, verdict, decisions, status>>

ProviderDecides(r) ==
  /\ stage = "calling"
  /\ Outcome(config.provider, r) = "decision"
  /\ JudgedAs(enforce_severity_floor(event, RemoteDecision(config.provider, r)))

ProviderUnavailable(r) ==
  /\ stage = "calling"
  /\ Outcome(config.provider, r) = "RuntimeError"
  /\ JudgedAs(LocalDecide(event))

\* Neither _decide nor ingest catches anything else.
ProviderRaises(r) ==
  /\ stage = "calling"
  /\ Outcome(config.provider, r) = "uncaught"
  /\ stage' = "aborted"
  /\ UNCHANGED <<event, config, opened, verdict, decisions, status>>

add_decision ==
  /\ stage = "judged"
  /\ decisions' = verdict
  /\ verdict' = {}
  /\ stage' = "decided"
  /\ UNCHANGED <<event, config, opened, status>>

\* The process ends between two statements of ingest.
Crash ==
  /\ stage \in {"stored", "calling", "judged"}
  /\ stage' = "crashed"
  /\ verdict' = {}
  /\ UNCHANGED <<event, config, opened, decisions, status>>

\* The analyst, through POST /api/events/{id}/status.
update_status(s) ==
  /\ opened /\ stage # "observed"
  /\ status' = s
  /\ UNCHANGED <<event, config, opened, stage, verdict, decisions>>

Next ==
  \/ Initialize
  \/ add_event
  \/ DecideLocally
  \/ ReserveCall
  \/ \E r \in Replies :
       ProviderDecides(r) \/ ProviderUnavailable(r) \/ ProviderRaises(r)
  \/ add_decision
  \/ Crash
  \/ \E s \in Statuses : update_status(s)

Spec == Init /\ [][Next]_vars

-----------------------------------------------------------------------------
\* What every variable holds; a second row for the event never appears.
TypeOK ==
  /\ event \in Events
  /\ config \in [provider : Providers, min_severity : MinSeverities]
  /\ opened \in BOOLEAN
  /\ stage \in Stages
  /\ verdict \subseteq Decision
  /\ decisions \subseteq Decision
  /\ status \in Statuses
  /\ stage = "judged" <=> verdict # {}
  /\ stage \in {"decided", "legacy"} <=> decisions # {}

Grave == event.severity \in GraveSeverities

\* What a decision d on a grave event e may not fall below.
MeetsFloor(e, d) ==
  /\ SEVERITY_RANK[d.severity] >= SEVERITY_RANK[e.severity]
  /\ d.classification # "benign"
  /\ d.recommended_action \in EscalatingActions
  /\ d.requires_human_review

\* Whatever the provider answers, and whichever process re-opens the database
\* before or after, a high or critical event decided by this version keeps its
\* severity, is never called benign, never drops to record or monitor, and
\* waits for a person (_enforce_severity_floor, LocalDecisionProvider and
\* initialize together).
RiskFloorHeld ==
  Grave /\ stage \in {"judged", "decided"} =>
    \A d \in verdict \cup decisions : MeetsFloor(event, d)

FlagExact(e, d) ==
  d.requires_human_review <=> NeedsReview(d) \/ e.severity \in GraveSeverities

\* README.md: human review is reserved for high or critical events, malicious
\* classifications, or explicit investigation and containment recommendations.
\* The flag in the table is that rule and nothing else, whether apply_policy and
\* the floor computed it in Python or initialize recomputed it in SQL from rows
\* this or an earlier version left.  Confidence has no part in it: what the
\* other documents say of that is LowConfidenceReviewed.
ReviewFlagExact ==
  opened => \A d \in decisions : FlagExact(event, d)

\* The documents name no bound; below any other it would be the same.
LowConfidence == 50

\* docs/THREAT_MODEL.md: low-confidence results require human review, and
\* docs/PLAN.md: policy converts the decision and confidence into a review
\* status.  What a provider is not sure of would wait for a person.
LowConfidenceReviewed ==
  stage = "decided" =>
    \A d \in decisions : d.confidence < LowConfidence => d.requires_human_review

InReviewQueue ==
  /\ \E d \in decisions : d.requires_human_review
  /\ status \in {"new", "investigating"}

\* A grave event leaves the review queue (summary's requires_review) only when
\* an analyst closes it: no restart, migration or later decision removes it.
GraveStaysQueued ==
  [][Grave /\ InReviewQueue /\ ~InReviewQueue'
       => status' \in {"resolved", "false_positive"}]_vars

\* With ai_min_severity at high or above (the default) a decision, once
\* written, is final: the UPDATEs of the next start leave it as it is.
DecisionFinal ==
  [][stage = "decided" /\ SEVERITY_RANK[config.min_severity] >= SEVERITY_RANK["high"]
       => decisions' = decisions]_vars

\* README.md: human review is for explicit investigation and containment
\* recommendations too.  Such advice on an event of any severity would keep its
\* row in the review queue until an analyst closes it.
AdviceStaysQueued ==
  [][stage = "decided" /\ InReviewQueue /\ ~InReviewQueue'
       => status' \in {"resolved", "false_positive"}]_vars

\* CONTRIBUTING.md: a provider adapter validates all remote output and fails
\* closed to local review, so no answer ends ingest without a decision.
FailClosed == stage # "aborted"

=============================================================================
