SPECIFICATION Spec
CONSTANTS
  Workers = {w1, w2}
  Subjects = {s1, s2, s3}
  NoSubject = none
  Hour = 2
  Day = 4
  MaxPerHour = 2
  MaxPerDay = 3
  Cooldown = 5
  Start = 6
  Horizon = 12
  MaxCalls = 4
  LegacyHistories <- MCLegacyHistories
INVARIANT HourlyBudget
