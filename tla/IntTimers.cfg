SPECIFICATION Spec
CONSTANTS
  M = 160
  BlockCycles = {2}
  StoreCycles = {0}
  IdleGrain = 2
  BootCount = 3
  BootVi = 1
  ViDelay = 24
  Devices = {}
  DeviceDelay = 6
  AiDelays = {16}
  TimerOffsets = {14}
  RewriteHead = FALSE
  CountWrites = {}
  Window = 42
  MaxOps = 1
  PoolSize = 7
  Maskable = {}
  Ackable = {}
  StatusWrites = {}
  Sessions = {{"timer"}}
INVARIANTS Heartbeat AudioPairing NotMissed ViSchedule Sorted
PROPERTIES NotEarly OnTime IdleSafe
