SPECIFICATION HostSpec
CONSTANTS
  Workers = {w1, w2}
  Loop = w1
  w1 = w1
  w2 = w2
  pid = pid
  Items = {i1, i2}
  i1 = i1
  i2 = i2
  Values = {v1, v2}
  v1 = v1
  v2 = v2
  Absent = absent
  Suspicious = {v2}
  Quiet <- MCQuiet
  Persistent = {i1, i2}
  PidOf <- MCPidOf
  Own <- MCOwn
  NoChange = nochange
  MaxEvents = 3
  AuditLines <- MCLines
  Inodes = {n1, n2}
  n1 = n1
  NoState = nostate
  MaxLog = 4
  MaxOver = 1
  MaxCrowd = 3
CONSTRAINT Cut
INVARIANTS
  SnapshotTypeOK
  StoredExplained
  RowsInOrder
  NewestRowCurrent
  PersistenceAlarmed
  BaselineOnce
  AuditTypeOK
  OffsetAccounted
  ReportedOnce
PROPERTIES
  ChangesReported
  LinesRead
