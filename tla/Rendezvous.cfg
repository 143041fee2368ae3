SPECIFICATION FairSpec
CONSTANTS
  i1 = i1
  i2 = i2
  q1 = q1
  q2 = q2
  Numbers = {n1, n2}
  Ips <- MCIps
  Ports <- MCPorts
  ip <- MCIp
  port <- MCPort
  None = None
  MaxRuns = 2
INVARIANTS TypeOK AddressWhole JoinedMaster CrashOnlyInRace
PROPERTY SlaveJoins
CHECK_DEADLOCK FALSE
