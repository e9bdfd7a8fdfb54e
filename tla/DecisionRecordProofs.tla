------------------------ MODULE DecisionRecordProofs ------------------------
(***************************************************************************)
(* What holds of a decision row for every set of events, replies, legacy   *)
(* rows and configurations: the risk floor, the meaning of the review flag *)
(* and the finality of decisions under the default ai_min_severity.        *)
(***************************************************************************)
EXTENDS DecisionRecord, TLAPS

\* The shape of an event, from the assumption on Events.
LEMMA EventShape ==
  ASSUME NEW e \in Events
  PROVE  /\ e \in [source : STRING, event_type : STRING, severity : Severities]
         /\ e.severity \in Severities
         /\ e.event_type = "ssh_bruteforce" => e.severity # "critical"
         /\ e.event_type = "ssh_login_failed" => e.source # "correlator"
BY EventsAssumption

\* SEVERITY_RANK, value by value.
LEMMA Ranks ==
  /\ SEVERITY_RANK["informational"] = 0
  /\ SEVERITY_RANK["low"] = 1
  /\ SEVERITY_RANK["medium"] = 2
  /\ SEVERITY_RANK["high"] = 3
  /\ SEVERITY_RANK["critical"] = 4
  /\ \A s \in Severities : SEVERITY_RANK[s] \in 0 .. 4
BY DEF SEVERITY_RANK, Severities

\* The local rules return a decision.
LEMMA LocalRuleType ==
  ASSUME NEW e \in Events
  PROVE  LocalRule(e) \in Decision
BY EventShape
   DEF LocalRule, Verdict, Decision, Severities, Classifications, Actions

\* What the local rules say of a grave event.
LEMMA LocalRuleFloor ==
  ASSUME NEW e \in Events, e.severity \in GraveSeverities
  PROVE  /\ LocalRule(e).severity \in GraveSeverities
         /\ e.severity = "critical" => LocalRule(e).severity = "critical"
         /\ LocalRule(e).classification # "benign"
         /\ LocalRule(e).recommended_action \in EscalatingActions
BY EventShape
   DEF LocalRule, Verdict, GraveSeverities, EscalatingActions

\* A medium event of the types initialize demotes is monitored locally already.
LEMMA LocalRuleMonitors ==
  ASSUME NEW e \in Events, e.severity = "medium", e.event_type \in DemotedTypes
  PROVE  LocalRule(e).recommended_action = "monitor"
BY EventShape DEF LocalRule, Verdict, GraveSeverities, DemotedTypes, ChangeTypes

\* A decision before apply_policy: its confidence may be any integer.
Draft ==
  [classification        : Classifications,
   severity              : Severities,
   recommended_action    : Actions,
   confidence            : Int,
   provider              : {"local-rules", "external"},
   requires_human_review : BOOLEAN]

\* apply_policy keeps the advice, bounds the confidence, computes the flag.
LEMMA PolicyFacts ==
  ASSUME NEW v \in Draft
  PROVE  /\ apply_policy(v) \in Decision
         /\ apply_policy(v).classification = v.classification
         /\ apply_policy(v).severity = v.severity
         /\ apply_policy(v).recommended_action = v.recommended_action
         /\ apply_policy(v).requires_human_review <=> NeedsReview(apply_policy(v))
<1> DEFINE d == apply_policy(v)
<1>1. NeedsReview(v) \in BOOLEAN
  BY DEF NeedsReview
<1>2. Clamp(v.confidence, 0, 100) \in 0 .. 100
  BY DEF Clamp, Draft
<1>3. d = [v EXCEPT !.confidence = Clamp(v.confidence, 0, 100),
                    !.requires_human_review = NeedsReview(v)]
  BY DEF apply_policy
<1>4. d \in Decision
  BY <1>1, <1>2, <1>3 DEF Decision, Draft
<1>5. /\ d.classification = v.classification
      /\ d.severity = v.severity
      /\ d.recommended_action = v.recommended_action
      /\ d.requires_human_review = NeedsReview(v)
  BY <1>3 DEF Draft
<1>6. NeedsReview(d) <=> NeedsReview(v)
  BY <1>5 DEF NeedsReview
<1> QED
  BY <1>1, <1>4, <1>5, <1>6

\* Everything the invariant needs of a local decision.
LEMMA LocalFacts ==
  ASSUME NEW e \in Events
  PROVE  /\ LocalDecide(e) \in Decision
         /\ FlagExact(e, LocalDecide(e))
         /\ e.severity \in GraveSeverities => MeetsFloor(e, LocalDecide(e))
         /\ e.severity = "medium" /\ e.event_type \in DemotedTypes
              => LocalDecide(e).recommended_action = "monitor"
<1> DEFINE d == LocalDecide(e)
<1>1. LocalRule(e) \in Draft
  BY LocalRuleType DEF Draft, Decision
<1>2. /\ d \in Decision
      /\ d.classification = LocalRule(e).classification
      /\ d.severity = LocalRule(e).severity
      /\ d.recommended_action = LocalRule(e).recommended_action
      /\ d.requires_human_review <=> NeedsReview(d)
  BY <1>1, PolicyFacts DEF LocalDecide
<1> HIDE DEF d
<1>3. ASSUME e.severity \in GraveSeverities
      PROVE  NeedsReview(d) /\ MeetsFloor(e, d)
  <2>1. /\ d.severity \in GraveSeverities
        /\ e.severity = "critical" => d.severity = "critical"
        /\ d.classification # "benign"
        /\ d.recommended_action \in EscalatingActions
    BY <1>2, <1>3, LocalRuleFloor
  <2>2. NeedsReview(d)
    BY <2>1 DEF NeedsReview
  <2>3. SEVERITY_RANK[d.severity] >= SEVERITY_RANK[e.severity]
    BY <1>3, <2>1, Ranks DEF GraveSeverities
  <2> QED
    BY <1>2, <2>1, <2>2, <2>3 DEF MeetsFloor
<1>4. FlagExact(e, d)
  BY <1>2, <1>3 DEF FlagExact
<1>5. e.severity = "medium" /\ e.event_type \in DemotedTypes
        => d.recommended_action = "monitor"
  BY <1>2, LocalRuleMonitors
<1> QED
  BY <1>2, <1>3, <1>4, <1>5 DEF d

\* Every answer an adapter turns into a decision is in its vocabulary.
LEMMA RemoteType ==
  ASSUME NEW p, NEW r \in Reply, Outcome(p, r) = "decision"
  PROVE  /\ RemoteDecision(p, r) \in Decision
         /\ RemoteDecision(p, r).requires_human_review
              <=> NeedsReview(RemoteDecision(p, r))
<1>1. InVocabulary(r)
  BY DEF Outcome, ChatOutcome, JevOutcome
<1>2. r.confidence \in Int /\ Clamp(r.confidence, 0, 79) \in Int
  BY DEF Reply, Clamp
<1>3. ASSUME NEW n \in Int
      PROVE  /\ ExternalDecision(r, n) \in Decision
             /\ ExternalDecision(r, n).requires_human_review
                  <=> NeedsReview(ExternalDecision(r, n))
  <2> DEFINE v == Verdict(r.classification, r.severity, r.recommended_action,
                          n, "external")
  <2>1. v \in Draft
    BY <1>1 DEF Verdict, InVocabulary, Draft
  <2> QED
    BY <2>1, PolicyFacts DEF ExternalDecision
<1> QED
  BY <1>2, <1>3 DEF RemoteDecision, ChatDecision, JevDecision

\* What _enforce_severity_floor guarantees, whatever the provider said.
LEMMA FloorFacts ==
  ASSUME NEW e \in Events, NEW d \in Decision,
         d.requires_human_review <=> NeedsReview(d)
  PROVE  /\ enforce_severity_floor(e, d) \in Decision
         /\ FlagExact(e, enforce_severity_floor(e, d))
         /\ e.severity \in GraveSeverities
              => MeetsFloor(e, enforce_severity_floor(e, d))
<1> DEFINE raised == IF SEVERITY_RANK[d.severity] < SEVERITY_RANK[e.severity]
                       THEN [d EXCEPT !.severity = e.severity] ELSE d
           f == enforce_severity_floor(e, d)
<1>0. e.severity \in Severities /\ d.severity \in Severities
  BY EventShape DEF Decision
<1>1. /\ raised \in Decision
      /\ raised.classification = d.classification
      /\ raised.recommended_action = d.recommended_action
      /\ raised.requires_human_review = d.requires_human_review
      /\ raised.severity \in {d.severity, e.severity}
  BY <1>0 DEF Decision
<1>2. SEVERITY_RANK[raised.severity] >= SEVERITY_RANK[e.severity]
  BY <1>0, Ranks DEF Decision
<1>3. CASE e.severity \in GraveSeverities
  <2> DEFINE c == IF raised.classification = "benign"
                    THEN "suspicious" ELSE raised.classification
             a == IF raised.recommended_action \in {"record", "monitor"}
                    THEN "investigate" ELSE raised.recommended_action
  <2>1. f = [raised EXCEPT !.classification = c, !.recommended_action = a,
                           !.requires_human_review = TRUE]
    BY <1>3 DEF enforce_severity_floor
  <2>2. c \in Classifications \ {"benign"} /\ a \in EscalatingActions
    BY <1>1 DEF Decision, Classifications, Actions, EscalatingActions
  <2> HIDE DEF raised, f, c, a
  <2>3. /\ f \in Decision
        /\ f.classification = c
        /\ f.recommended_action = a
        /\ f.severity = raised.severity
        /\ f.requires_human_review = TRUE
    BY <1>1, <2>1, <2>2
       DEF Decision, EscalatingActions, Actions, Classifications
  <2>4. MeetsFloor(e, f)
    BY <1>2, <2>2, <2>3 DEF MeetsFloor
  <2>5. FlagExact(e, f)
    BY <1>3, <2>3 DEF FlagExact
  <2> QED
    BY <1>3, <2>3, <2>4, <2>5 DEF f
<1>4. CASE e.severity \notin GraveSeverities
  <2>1. f = raised
    BY <1>4 DEF enforce_severity_floor
  <2>2. NeedsReview(raised) <=> NeedsReview(d)
    <3>1. raised.severity \in GraveSeverities <=> d.severity \in GraveSeverities
      BY <1>0, <1>4, Ranks DEF GraveSeverities, Severities, Decision
    <3> HIDE DEF raised
    <3> QED
      BY <1>1, <3>1 DEF NeedsReview
  <2>3. FlagExact(e, raised)
    BY <1>1, <1>4, <2>2 DEF FlagExact
  <2> QED
    BY <1>1, <1>4, <2>1, <2>3
<1> QED
  BY <1>3, <1>4

\* What initialize does to a row.
LEMMA MigrateFacts ==
  ASSUME NEW e \in Events, NEW d \in Decision
  PROVE  /\ Migrate(e, d) \in Decision
         /\ FlagExact(e, Migrate(e, d))
         /\ e.severity \in GraveSeverities /\ MeetsFloor(e, d)
              => MeetsFloor(e, Migrate(e, d))
<1> DEFINE m == Demote(e, d)
           g == RecomputeReview(e, m)
<1>1. m \in Decision /\ (e.severity \in GraveSeverities => m = d)
  BY DEF Demote, Decision, Actions, GraveSeverities
<1>2. (NeedsReview(m) \/ e.severity \in GraveSeverities) \in BOOLEAN
  BY DEF NeedsReview
<1>3. g = [m EXCEPT !.requires_human_review =
                      NeedsReview(m) \/ e.severity \in GraveSeverities]
  BY DEF RecomputeReview
<1> HIDE DEF m, g
<1>4. /\ g \in Decision
      /\ g.classification = m.classification
      /\ g.severity = m.severity
      /\ g.recommended_action = m.recommended_action
      /\ g.requires_human_review = (NeedsReview(m) \/ e.severity \in GraveSeverities)
  BY <1>1, <1>2, <1>3 DEF Decision
<1>5. NeedsReview(g) <=> NeedsReview(m)
  BY <1>4 DEF NeedsReview
<1>6. FlagExact(e, g)
  BY <1>4, <1>5 DEF FlagExact
<1>7. ASSUME e.severity \in GraveSeverities, MeetsFloor(e, d)
      PROVE  MeetsFloor(e, g)
  BY <1>1, <1>4, <1>7 DEF MeetsFloor
<1> QED
  BY <1>4, <1>6, <1>7 DEF Migrate, m, g

\* A row that is already in order is left as it is.
LEMMA MigrateFixes ==
  ASSUME NEW e \in Events, NEW d \in Decision, FlagExact(e, d),
         e.severity = "medium" /\ e.event_type \in DemotedTypes
           => d.recommended_action = "monitor"
  PROVE  Migrate(e, d) = d
<1>1. Demote(e, d) = d
  BY DEF Demote, Decision
<1>2. RecomputeReview(e, d) = d
  <2>1. d.requires_human_review = (NeedsReview(d) \/ e.severity \in GraveSeverities)
    BY DEF FlagExact, NeedsReview, Decision
  <2> QED
    BY <2>1 DEF RecomputeReview, Decision
<1> QED
  BY <1>1, <1>2 DEF Migrate

\* initialize is idempotent: opening the database twice changes it once.
THEOREM MigrateIdempotent ==
  ASSUME NEW e \in Events, NEW d \in Decision
  PROVE  Migrate(e, Migrate(e, d)) = Migrate(e, d)
<1> DEFINE g == Migrate(e, d)
<1>1. g \in Decision /\ FlagExact(e, g)
  BY MigrateFacts
<1>2. e.severity = "medium" /\ e.event_type \in DemotedTypes
        => g.recommended_action = "monitor"
  <2> DEFINE m == Demote(e, d)
  <2>1. m \in Decision
    BY DEF Demote, Decision, Actions
  <2>2. e.severity = "medium" /\ e.event_type \in DemotedTypes
          => m.recommended_action = "monitor"
    BY DEF Demote, Decision
  <2> HIDE DEF m
  <2>3. RecomputeReview(e, m).recommended_action = m.recommended_action
    BY <2>1 DEF RecomputeReview, Decision
  <2> QED
    BY <2>2, <2>3 DEF Migrate, m
<1> QED
  BY <1>1, <1>2, MigrateFixes

-----------------------------------------------------------------------------
(***************************************************************************)
(* The inductive invariant.  RiskFloorHeld and ReviewFlagExact say nothing *)
(* of the decision while ingest holds it in a local variable, nor of why   *)
(* the provider was asked; the parts below do.                             *)
(***************************************************************************)
VerdictFlagExact == \A d \in verdict : FlagExact(event, d)

CallsAllowed == stage = "calling" => MayUseAi

\* With the default ai_min_severity, no decision of this version on an event of
\* a demoted type is one that initialize would change.
MonitoredByDefault ==
  /\ SEVERITY_RANK[config.min_severity] >= SEVERITY_RANK["high"]
  /\ event.severity = "medium"
  /\ event.event_type \in DemotedTypes

NothingToDemote ==
  MonitoredByDefault /\ stage \in {"judged", "decided"} =>
    \A d \in verdict \cup decisions : d.recommended_action = "monitor"

\* Rows of this version are written with an exact flag, opened or not.
DecidedFlagExact ==
  stage = "decided" => \A d \in decisions : FlagExact(event, d)

RowInv ==
  /\ TypeOK
  /\ RiskFloorHeld
  /\ ReviewFlagExact
  /\ VerdictFlagExact
  /\ CallsAllowed
  /\ NothingToDemote
  /\ DecidedFlagExact

LEMMA InitRow == Init => RowInv
<1> SUFFICES ASSUME Init PROVE RowInv
  OBVIOUS
<1>1. TypeOK
  BY LegacyAssumption DEF Init, TypeOK, Stages, Statuses
<1> QED
  BY <1>1 DEF Init, RowInv, RiskFloorHeld, ReviewFlagExact, VerdictFlagExact,
              CallsAllowed, NothingToDemote, MonitoredByDefault,
              DecidedFlagExact

\* A verdict on the event that is as good as a local one keeps the invariant.
LEMMA JudgedStep ==
  ASSUME RowInv, NEW d \in Decision, JudgedAs(d),
         stage \in {"stored", "calling"},
         FlagExact(event, d),
         Grave => MeetsFloor(event, d),
         MonitoredByDefault => d.recommended_action = "monitor"
  PROVE  RowInv'
<1>1. decisions = {} /\ decisions' = {} /\ verdict' = {d} /\ stage' = "judged"
  BY DEF RowInv, TypeOK, JudgedAs
<1>2. UNCHANGED <<event, config, opened, status>>
  BY DEF JudgedAs
<1>3. TypeOK'
  BY <1>1, <1>2 DEF RowInv, TypeOK, Stages
<1>4. RiskFloorHeld'
  BY <1>1, <1>2 DEF RiskFloorHeld, Grave, MeetsFloor
<1>5. ReviewFlagExact' /\ VerdictFlagExact' /\ DecidedFlagExact'
  BY <1>1, <1>2 DEF ReviewFlagExact, VerdictFlagExact, DecidedFlagExact
<1>6. CallsAllowed' /\ NothingToDemote'
  BY <1>1, <1>2 DEF CallsAllowed, NothingToDemote, MonitoredByDefault
<1> QED
  BY <1>3, <1>4, <1>5, <1>6 DEF RowInv

LEMMA NextRow == RowInv /\ [Next]_vars => RowInv'
<1> SUFFICES ASSUME RowInv, [Next]_vars PROVE RowInv'
  OBVIOUS
<1> USE DEF RowInv
<1>0. event \in Events /\ event.severity \in Severities
  BY EventShape DEF TypeOK
<1>1. CASE Initialize
  <2>1. UNCHANGED <<event, config, stage, verdict, status>> /\ opened' = TRUE
    BY <1>1 DEF Initialize
  <2>2. decisions' = {Migrate(event, d) : d \in decisions}
    BY <1>1 DEF Initialize
  <2>3. \A d \in decisions : /\ Migrate(event, d) \in Decision
                             /\ FlagExact(event, Migrate(event, d))
    BY <1>0, MigrateFacts DEF TypeOK
  <2>4. TypeOK'
    BY <2>1, <2>2, <2>3 DEF TypeOK, Stages
  <2>5. RiskFloorHeld'
    <3> SUFFICES ASSUME Grave, stage \in {"judged", "decided"},
                        NEW d \in verdict' \cup decisions'
                 PROVE  MeetsFloor(event, d)
      BY <2>1 DEF RiskFloorHeld, Grave, MeetsFloor
    <3>1. CASE d \in verdict'
      BY <2>1, <3>1 DEF RiskFloorHeld
    <3>2. CASE d \in decisions'
      <4>1. PICK c \in decisions : d = Migrate(event, c)
        BY <2>2, <3>2
      <4>2. c \in Decision /\ MeetsFloor(event, c)
        BY <4>1 DEF RiskFloorHeld, TypeOK
      <4> QED
        BY <1>0, <4>1, <4>2, MigrateFacts DEF Grave
    <3> QED
      BY <3>1, <3>2
  <2>6. ReviewFlagExact' /\ VerdictFlagExact' /\ DecidedFlagExact'
    BY <2>1, <2>2, <2>3 DEF ReviewFlagExact, VerdictFlagExact, DecidedFlagExact
  <2>7. CallsAllowed'
    BY <2>1 DEF CallsAllowed, MayUseAi
  <2>8. NothingToDemote'
    <3> SUFFICES ASSUME MonitoredByDefault,
                        stage \in {"judged", "decided"},
                        NEW d \in verdict' \cup decisions'
                 PROVE  d.recommended_action = "monitor"
      BY <2>1 DEF NothingToDemote, MonitoredByDefault
    <3>1. CASE d \in verdict'
      BY <2>1, <3>1 DEF NothingToDemote
    <3>2. CASE d \in decisions'
      <4>1. PICK c \in decisions : d = Migrate(event, c)
        BY <2>2, <3>2
      <4>2. c \in Decision /\ c.recommended_action = "monitor" /\ stage = "decided"
        BY <4>1 DEF NothingToDemote, TypeOK
      <4>3. FlagExact(event, c)
        BY <4>1, <4>2 DEF DecidedFlagExact
      <4> QED
        BY <1>0, <4>1, <4>2, <4>3, MigrateFixes
    <3> QED
      BY <3>1, <3>2
  <2> QED
    BY <2>4, <2>5, <2>6, <2>7, <2>8
<1>2. CASE add_event
  BY <1>2 DEF add_event, TypeOK, Stages, RiskFloorHeld, ReviewFlagExact,
              VerdictFlagExact, CallsAllowed, NothingToDemote, MonitoredByDefault,
              DecidedFlagExact
<1>3. CASE DecideLocally
  BY <1>0, <1>3, LocalFacts, JudgedStep DEF DecideLocally, Grave, MonitoredByDefault
<1>4. CASE ReserveCall
  BY <1>4 DEF ReserveCall, TypeOK, Stages, RiskFloorHeld, ReviewFlagExact,
              VerdictFlagExact, CallsAllowed, NothingToDemote, MonitoredByDefault,
              DecidedFlagExact, MayUseAi
<1>5. ASSUME NEW r \in Replies, ProviderDecides(r) PROVE RowInv'
  <2> DEFINE remote == RemoteDecision(config.provider, r)
             d == enforce_severity_floor(event, remote)
  <2>1. r \in Reply /\ Outcome(config.provider, r) = "decision"
    BY <1>5, RepliesAssumption DEF ProviderDecides
  <2>2. remote \in Decision /\ (remote.requires_human_review <=> NeedsReview(remote))
    BY <2>1, RemoteType
  <2>3. /\ d \in Decision
        /\ FlagExact(event, d)
        /\ Grave => MeetsFloor(event, d)
    BY <1>0, <2>2, FloorFacts DEF Grave
  <2>4. stage = "calling" /\ JudgedAs(d)
    BY <1>5 DEF ProviderDecides
  <2>5. config.min_severity \in Severities
    BY ConfigAssumption DEF TypeOK
  <2>6. ~MonitoredByDefault
    BY <2>4, <2>5, Ranks DEF CallsAllowed, MayUseAi, should_use_ai, MonitoredByDefault
  <2> HIDE DEF remote, d
  <2> QED
    BY <2>3, <2>4, <2>6, JudgedStep
<1>6. ASSUME NEW r \in Replies, ProviderUnavailable(r) PROVE RowInv'
  BY <1>0, <1>6, LocalFacts, JudgedStep DEF ProviderUnavailable, Grave, MonitoredByDefault
<1>7. ASSUME NEW r \in Replies, ProviderRaises(r) PROVE RowInv'
  BY <1>7 DEF ProviderRaises, TypeOK, Stages, RiskFloorHeld, ReviewFlagExact,
              VerdictFlagExact, CallsAllowed, NothingToDemote, MonitoredByDefault,
              DecidedFlagExact
<1>8. CASE add_decision
  <2>1. /\ decisions' = verdict /\ verdict' = {}
        /\ stage = "judged" /\ stage' = "decided"
        /\ UNCHANGED <<event, config, opened, status>>
    BY <1>8 DEF add_decision
  <2>2. TypeOK'
    BY <2>1 DEF TypeOK, Stages
  <2>3. RiskFloorHeld' /\ NothingToDemote'
    BY <2>1 DEF RiskFloorHeld, NothingToDemote, MonitoredByDefault, Grave, MeetsFloor
  <2>4. ReviewFlagExact' /\ VerdictFlagExact' /\ DecidedFlagExact' /\ CallsAllowed'
    BY <2>1 DEF ReviewFlagExact, VerdictFlagExact, DecidedFlagExact, CallsAllowed
  <2> QED
    BY <2>2, <2>3, <2>4
<1>9. CASE Crash
  BY <1>9 DEF Crash, TypeOK, Stages, RiskFloorHeld, ReviewFlagExact,
              VerdictFlagExact, CallsAllowed, NothingToDemote, MonitoredByDefault,
              DecidedFlagExact
<1>10. ASSUME NEW s \in Statuses, update_status(s) PROVE RowInv'
  BY <1>10 DEF update_status, TypeOK, Stages, RiskFloorHeld, ReviewFlagExact, Grave,
               MeetsFloor, VerdictFlagExact, CallsAllowed, MayUseAi,
               NothingToDemote, MonitoredByDefault,
              DecidedFlagExact
<1>11. CASE UNCHANGED vars
  BY <1>11 DEF vars, TypeOK, RiskFloorHeld, ReviewFlagExact, Grave, MeetsFloor,
               VerdictFlagExact, CallsAllowed, MayUseAi, NothingToDemote, MonitoredByDefault,
               DecidedFlagExact
<1> QED
  BY <1>1, <1>2, <1>3, <1>4, <1>5, <1>6, <1>7, <1>8, <1>9, <1>10, <1>11 DEF Next

\* Every reachable state of a row satisfies the strengthened invariant.
THEOREM RowInvariant == Spec => []RowInv
BY InitRow, NextRow, PTL DEF Spec

\* Types, for every set of events, replies and legacy rows.
THEOREM RowTypes == Spec => []TypeOK
<1>1. RowInv => TypeOK
  BY DEF RowInv
<1> QED
  BY RowInvariant, <1>1, PTL

\* No answer of a provider and no re-opening of the database lowers the risk
\* of a grave event.
THEOREM RiskFloor == Spec => []RiskFloorHeld
<1>1. RowInv => RiskFloorHeld
  BY DEF RowInv
<1> QED
  BY RowInvariant, <1>1, PTL

\* Python's and SQL's computation of the review flag agree on every row.
THEOREM ReviewFlag == Spec => []ReviewFlagExact
<1>1. RowInv => ReviewFlagExact
  BY DEF RowInv
<1> QED
  BY RowInvariant, <1>1, PTL

\* Under the default ai_min_severity no later start changes a decision.
THEOREM Finality == Spec => DecisionFinal
<1> DEFINE Final == stage = "decided"
                      /\ SEVERITY_RANK[config.min_severity] >= SEVERITY_RANK["high"]
                        => decisions' = decisions
<1>1. RowInv /\ [Next]_vars => [Final]_vars
  <2> SUFFICES ASSUME RowInv, Next, stage = "decided",
                      SEVERITY_RANK[config.min_severity] >= SEVERITY_RANK["high"]
               PROVE  decisions' = decisions
    OBVIOUS
  <2>1. CASE Initialize
    <3>1. \A d \in decisions : Migrate(event, d) = d
      BY MigrateFixes DEF RowInv, TypeOK, NothingToDemote, MonitoredByDefault,
              DecidedFlagExact
    <3> QED
      BY <2>1, <3>1 DEF Initialize
  <2>2. CASE \E s \in Statuses : update_status(s)
    BY <2>2 DEF update_status
  <2> QED
    BY <2>1, <2>2 DEF Next, add_event, DecideLocally, ReserveCall, ProviderDecides,
                      ProviderUnavailable, ProviderRaises, add_decision, Crash
<1> QED
  BY RowInvariant, <1>1, PTL DEF Spec, DecisionFinal

\* A grave event leaves the review queue by an analyst's closing it and in no other
\* way: initialize sets its flag again, and a second decision is never written.
THEOREM Queue == Spec => GraveStaysQueued
<1> DEFINE Stays == Grave /\ InReviewQueue /\ ~InReviewQueue'
                      => status' \in {"resolved", "false_positive"}
<1>1. RowInv /\ [Next]_vars => [Stays]_vars
  <2> SUFFICES ASSUME RowInv, Next, Grave, InReviewQueue, ~InReviewQueue'
               PROVE  status' \in {"resolved", "false_positive"}
    OBVIOUS
  <2>1. CASE Initialize
    <3>1. PICK d \in decisions : d.requires_human_review
      BY DEF InReviewQueue
    <3>2. d \in Decision /\ event \in Events /\ event.severity \in GraveSeverities
      BY <3>1 DEF RowInv, TypeOK, Grave
    <3>3. Migrate(event, d) \in decisions' /\ Migrate(event, d).requires_human_review
      BY <2>1, <3>1, <3>2, MigrateFacts DEF Initialize, FlagExact
    <3> QED
      BY <2>1, <3>3 DEF Initialize, InReviewQueue
  <2>2. CASE \E s \in Statuses : update_status(s)
    BY <2>2 DEF update_status, InReviewQueue, Statuses
  <2>3. CASE add_decision
    <3>1. stage # "judged"
      BY DEF InReviewQueue, RowInv, TypeOK
    <3> QED
      BY <2>3, <3>1 DEF add_decision
  <2>4. CASE UNCHANGED <<decisions, status>>
    BY <2>4 DEF InReviewQueue
  <2> QED
    BY <2>1, <2>2, <2>3, <2>4 DEF Next, add_event, DecideLocally, ReserveCall, JudgedAs,
                      ProviderDecides, ProviderUnavailable, ProviderRaises, Crash
<1> QED
  BY RowInvariant, <1>1, PTL DEF Spec, GraveStaysQueued

=============================================================================
