SPECIFICATION FairSpec
CONSTANTS
  loop = loop
  once = once
  server = server
  command = server
  Workers = {loop, once}
  Loop = loop
  Services = {server}
  ServiceOf <- MCServiceOf
  Subjects = {mallory}
  Ports = {p1, p2}
  NoSource = nowhere
  NoPort = noport
  Records <- FailureRecords
  SshWindow = 1
  PrivilegeWindow = 2
  BruteForce = 2
  ScanPorts = 2
  Start = 1
  Minute = 1
  Horizon = 2
  MaxRecords = 2
  MaxFaults = 1
INVARIANTS
  CursorAccounted
  OneJudge
  AlarmsDistinct
PROPERTY Collected
