SPECIFICATION Spec
CONSTANTS
  HighCap = 2
  Tokens = {t1, t2}
  t1 = t1
  t2 = t2
  DriveTicks = 1
  MaxFaults = 1
  MaxHellos = 2
  MaxPresses = 1
  MaxReplies = 1
  HostGates = {"full", "shut"}
  HostStates = {"OTHER"}
  HostNav = {TRUE}
  Buttons = {"FWD", "STEER", "NAVSTOP"}
SYMMETRY Symmetry
INVARIANTS
  TypeOK
  DriveStopNeverLost
  SteerStopNeverLost
  NavStopNeverLost
  NewSessionStopped
  
