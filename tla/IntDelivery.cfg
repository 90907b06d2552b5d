SPECIFICATION FairSpec
CONSTANTS
  M = 160
  BlockCycles = {2}
  StoreCycles = {0}
  IdleGrain = 2
  BootCount = 3
  BootVi = 1
  ViDelay = 24
  Devices = {"SP"}
  DeviceDelay = 6
  AiDelays = {}
  TimerOffsets = {}
  RewriteHead = FALSE
  CountWrites = {}
  Window = 6
  MaxOps = 1
  PoolSize = 7
  Maskable = {"SP"}
  Ackable = {"VI", "SP"}
  StatusWrites <- StatusBoth
  Sessions = {{}}

PROPERTIES CheckJustified ViForever
INVARIANTS RcpDelivered
