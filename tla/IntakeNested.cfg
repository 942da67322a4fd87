SPECIFICATION Spec
CONSTANTS
  RxSize = 4
  LineMax = 4
  DeferSlots = 2
  DeferLength = 4
  Kinds = {"hello", "deferrable"}
  Numbers = 2
  MaxOverflows = 0
  MaxHosts = 1
  MaxDisturbances = 1
INVARIANT WholeThoughDrawing
