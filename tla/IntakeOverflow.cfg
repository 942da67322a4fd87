SPECIFICATION Spec
CONSTANTS
  RxSize = 4
  LineMax = 3
  DeferSlots = 2
  DeferLength = 4
  Kinds = {"critical"}
  Numbers = 2
  MaxOverflows = 1
  MaxHosts = 1
  MaxDisturbances = 0
INVARIANT OneSideOfOverflow
