-------------------------- MODULE MCDecisionRecord --------------------------
(***************************************************************************)
(* DecisionRecord over every event the collectors and the correlator emit. *)
(***************************************************************************)
EXTENDS DecisionRecord

Answers(classifications, severities, actions, confidences) ==
  [transport : {"answered"}, body : {"object"},
   classification : classifications, severity : severities,
   recommended_action : actions, numeric : {TRUE}, confidence : confidences]

Answer == [transport |-> "answered", body |-> "object", classification |-> "benign",
           severity |-> "low", recommended_action |-> "record", numeric |-> TRUE,
           confidence |-> 40]

\* Every well-formed answer, with confidences in and out of range, and one
\* answer for each way of being malformed.
MCReplies ==
  Answers(Classifications, Severities, Actions, {40, 250})
    \cup { [Answer EXCEPT !.transport = "failed"],
           [Answer EXCEPT !.transport = "broken"], [Answer EXCEPT !.body = "other"],
           [Answer EXCEPT !.classification = "unknown"],
           [Answer EXCEPT !.severity = "unknown"],
           [Answer EXCEPT !.recommended_action = "unknown"],
           [Answer EXCEPT !.numeric = FALSE], [Answer EXCEPT !.confidence = -20] }

MCLegacyDecisions ==
  [classification : Classifications, severity : Severities,
   recommended_action : Actions, confidence : {72}, provider : {"local-rules"},
   requires_human_review : BOOLEAN]

=============================================================================
