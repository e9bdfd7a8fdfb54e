SPECIFICATION FairSpec
CONSTANTS
  Severities = {"high", "low"}
  Alarming = {"high"}
  NoFilter = none
  Loads = {l1, l2}
  Collectors = {"journal"}
  Limit = 2
  MaxRows = 3
  MaxTime = 2
  MaxTrouble = 1
CONSTRAINT Cut
INVARIANTS
  DashboardTypeOK
  AnnouncedOnce
  NoAlertPassedOver
PROPERTY
  PanelSettles
