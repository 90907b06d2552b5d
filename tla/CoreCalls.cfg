SPECIFICATION FairSpec
CONSTANTS
  MaxJobs = 3
  MaxUser = 2
  Files = 2
  Sessions <- All
CHECK_DEADLOCK FALSE
INVARIANTS TypeOK SavesOpen SavesClosed AudioInPlugin NoAbort ListenersKnow
PROPERTIES KeepsContract CallsReturn
