SPECIFICATION LinkSpec
CONSTANTS
  SeqMod = 8
  Tokens = {1, 2}
  GroupTicks = 1
  ResyncTicks = 1
  Transit = 1
  MaxWire = 2
  MaxRestarts = 1
  GapTicks = 1
  StableCount = 3
  LinkTicks = 2
  StartupTicks = 3
  DomainTicks = 2
  AckTicks = 1
  Keys = {"MODE", "MANSPD"}
  TxnMod = 5
  MaxAsked = 2
  a = a
  b = b
  Images = {a, b}
  Factory = a
  AppWords = 3
  ChunkWords = 2
  Slots = 3
  CrashLimit = 2
  MaxBootFaults = 1
  MaxBreaks = 2
  MaxCrashes = 3
INVARIANTS
  FreshIsOfSession
  RosSound
  ImageSound
PROPERTIES
  NeverBack
  SourceShown
  RosEnds
  
  BoardRunsAgain
