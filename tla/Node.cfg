SPECIFICATION UnitSpec
CONSTANTS
  MaxNodeId = 3
  HostId = 3
  a = a
  b = b
  c = c
  Devices = {a, b, c}
  Cuav = {a, b}
  MaxPlugs = 2
  MaxUptime = 1
  MaxFaults = 1
  Rates = {100, 200}
  LedTarget = 30
  LedOther = 60
  CalCount = 2
  Timely = TRUE
  MaxCommands = 2
  MaxParamFaults = 2
INVARIANTS
  AuthorityIsOwner
  
PROPERTIES
  AuthorityIsStable
  UnitIsLearned
CHECK_DEADLOCK FALSE
