SPECIFICATION Spec
CONSTANTS
  M = 16
  BlockCycles = {1}
  StoreCycles = {0}
  IdleGrain = 2
  BootCount = 1
  BootVi = 0
  ViDelay = 4
  Devices = {"SI"}
  DeviceDelay = 2
  AiDelays = {}
  TimerOffsets = {}
  RewriteHead = FALSE
  CountWrites = {}
  Window = 0
  MaxOps = 1
  PoolSize = 7
  Maskable = {}
  Ackable = {}
  StatusWrites = {}
  Sessions = {{"saves"}}
INVARIANTS SavedSiPaired
