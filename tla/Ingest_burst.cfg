SPECIFICATION Spec
CONSTANTS
  loop = loop
  once = once
  server = server
  command = command
  Workers = {loop, once}
  Loop = loop
  Services = {server, command}
  ServiceOf <- MCServiceOf
  Subjects = {mallory}
  Ports = {p1, p2}
  NoSource = nowhere
  NoPort = noport
  Records <- LoginRecords
  SshWindow = 1
  PrivilegeWindow = 2
  BruteForce = 2
  ScanPorts = 2
  Start = 1
  Minute = 1
  Horizon = 2
  MaxRecords = 3
  MaxFaults = 0
INVARIANT BurstsReported
