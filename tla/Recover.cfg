SPECIFICATION RecoverSpec
CONSTANTS
  RxSize = 3
  LineMax = 3
  DeferSlots = 2
  DeferLength = 4
  Kinds = {"hello"}
  Numbers = 2
  MaxOverflows = 1
  MaxHosts = 1
  MaxDisturbances = 0
  QueueSlots = 2
  IrqFrames = 2
  DrainFrames = 3
  MaxFrames = 3
  MaxFaults = 2
  MaxLiveRecoveries = 1
  BackoffBase = 1
  BackoffMax = 2
  MaxStreak = 2
  HealthCheck = 2
  Deadline = 2
  Cooldown = 3
  Stale = 3
  TxSlots = 1
  LongUptime = FALSE
  DeafAnyTime = FALSE
  HalfRange = 6
  MaxChanges = 2
  MaxTxFaults = 1
  HighSlots = 2
  LowSlots = 1
  EcefPeriod = 1
  ButtonStale = 1
  HwPeriod = 1
  FasterThanMs = FALSE
  MaxFixes = 2
  MaxOthers = 1
  MaxOutages = 2
INVARIANTS
  FramesKept
  
  FixesInOrder
PROPERTIES
  LinesRecover
  NoFrameCrossesReset
  FramesRecover
  
  ToldInTheEnd
