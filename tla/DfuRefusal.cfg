SPECIFICATION DfuSpec
CONSTANTS
  ArmTicks = 1
  ArmTries = 3
  BlindTries = 4
  Rounds = 2
  Programmers = {"none", "F411", "F103"}
  UsbOnly = FALSE
  MayHang = FALSE
PROPERTIES RefusalHolds
CHECK_DEADLOCK FALSE
