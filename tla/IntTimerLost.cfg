SPECIFICATION Spec
CONSTANTS
  M = 160
  BlockCycles = {2}
  StoreCycles = {0}
  IdleGrain = 2
  BootCount = 3
  BootVi = 1
  ViDelay = 24
  Devices = {}
  DeviceDelay = 6
  AiDelays = {}
  TimerOffsets = {14, 50}
  RewriteHead = FALSE
  CountWrites = {}
  Window = 42
  MaxOps = 1
  PoolSize = 7
  Maskable = {}
  Ackable = {}
  StatusWrites <- StatusTimer
  Sessions = {{"timer"}}
INVARIANTS TimerDelivered
