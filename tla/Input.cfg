SPECIFICATION InputSpec
CONSTANTS
  RxSize = 3
  LineMax = 3
  DeferSlots = 2
  DeferLength = 4
  Kinds = {"hello", "deferrable"}
  Numbers = 3
  MaxOverflows = 0
  MaxHosts = 2
  MaxDisturbances = 1
  ByteBits = 4
  FirstBytes = 1
  PayloadFrame = 3
  PayloadHead = 2
  PayloadBlock = 5
  MaxBytes = 13
  MessageBytes = 9
  TapTicks = 1
  RepeatTicks = 1
  HoldTicks = 2
  ServiceTicks = 3
  DriveTicks = 3
  CooldownTicks = 2
  IdleTicks = 2
  MaxDisplayFaults = 1
  MaxOrders = 1
INVARIANTS
  ScalarsKept
  DeadMan
PROPERTIES
  LinesWholeAndInOrder
  NoCommandUnderDrawing
  StartsByHold
  BackReturns
