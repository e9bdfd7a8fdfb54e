SPECIFICATION Spec
CONSTANTS
  Events <- EventCatalog
  Providers = {"local-rules", "jev", "openai-compatible"}
  MinSeverities = {"medium", "high"}
  Replies <- MCReplies
  LegacyDecisions <- MCLegacyDecisions
INVARIANT LowConfidenceReviewed
