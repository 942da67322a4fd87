SPECIFICATION ReceiveSpec
CONSTANTS
  QueueSlots = 2
  IrqFrames = 2
  DrainFrames = 3
  MaxFrames = 4
  MaxFaults = 1
  MaxLiveRecoveries = 1
INVARIANT RamFifo
