SPECIFICATION Spec
CONSTANTS
  Workers = {w1}
  Subjects = {s1, s2, s3, s4}
  NoSubject = none
  Hour = 2
  Day = 4
  MaxPerHour = 2
  MaxPerDay = 3
  Cooldown = 5
  Start = 6
  Horizon = 12
  MaxCalls = 9
  LegacyHistories <- MCLegacyHistories
SYMMETRY SubjectSymmetry
INVARIANTS
  TypeOK
  HourlyBudget
  DailyBudget
  CooldownSpacing
  LedgerRemembers
PROPERTIES
  RefusedJustly
  ImplementsLimiter
