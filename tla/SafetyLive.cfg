SPECIFICATION FairSpec
CONSTANTS
  HighCap = 3
  Tokens = {t1}
  t1 = t1
  t2 = t2
  DriveTicks = 1
  MaxFaults = 1
  MaxHellos = 1
  MaxPresses = 2
  MaxReplies = 0
  HostGates = {"drive"}
  HostStates = {}
  HostNav = {}
  Buttons = {"FWD", "STOP"}
PROPERTIES
  DriveStopDelivered
  DriveTestEnds
