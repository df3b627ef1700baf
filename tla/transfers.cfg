CONSTANTS
  Directions = {"up", "down"}
  Sessions = {"s0", "s1"}
  Slots = {"s0", "s1"}
  Files = {"s0", "s1"}
  MaxOff = 1
  Contents = {0, 1}
  LaneCap = 2
  RetryCap = 1
  MaxTries = 2
  Starts <- MCStarts
  MaxOpens = 1
  IdleTicks = 1
  LingerTicks = 1
  SyncMayTimeOut = FALSE
  Chunks = 2
  Ranges = 1
  RepeatReports = 2
  RepeatIdle = 1
  Budget = 1
  DlIdleTicks = 1
  DlLingerTicks = 1
  DlMaxLate = 1
  Recovery = {"sack", "nak"}
SPECIFICATION XferSpec
INVARIANTS
  UploadExact
  CopyIsFaithful
PROPERTIES
  DownloadCompletes
  SessionsReclaimed
CHECK_DEADLOCK FALSE
