SPECIFICATION StoreSpec
CONSTANTS
  k1 = k1
  k2 = k2
  v1 = v1
  v2 = v2
  Keys = {k1, k2}
  Values = {v1, v2}
  Slots = 3
  BodyWords = 2
  MaxPowerLoss = 2
  MaxFlashFaults = 1
  own = own
  n1 = n1
  n2 = n2
  n3 = n3
  MaxNodeId = 3
  OwnId = 3
  OwnUid = own
  NodeUids = {n1, n2, n3}
  DnaSlots = 3
  DnaBodyWords = 2
  FaultsLeaveHoles = FALSE
  DnaMaxPowerLoss = 1
  DnaMaxFlashFaults = 1
  gateway = gateway
  unit = unit
  Nodes = {gateway, unit}
  Sessions <- MCSessions
  Lengths <- MCLengths
  Tids = 3
  FrameBytes = 3
  HeadBytes = 2
  BlockBytes = 2
  Pool = 4
  MaxTransfers = 4
  MaxBusFaults = 2
INVARIANTS
  JournalSound
  
  PoolSound
PROPERTIES
  ImplementsStore
  
  InOrderOnce
