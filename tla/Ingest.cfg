SPECIFICATION Spec
CONSTANTS
  loop = loop
  once = once
  server = server
  command = command
  Workers = {loop}
  Loop = loop
  Services = {server}
  ServiceOf <- MCServiceOf
  Subjects = {mallory}
  Ports = {p1, p2}
  NoSource = nowhere
  NoPort = noport
  Records <- MCRecords
  SshWindow = 1
  PrivilegeWindow = 2
  BruteForce = 2
  ScanPorts = 2
  Start = 1
  Minute = 1
  Horizon = 3
  MaxRecords = 3
  MaxFaults = 1
INVARIANTS
  TypeOK
  CursorAccounted
  UndecidedInFlight
  BurstsReported
  ScansReported
  BreakInsReported
  FailuresComeFirst
  PollingIrrelevant
