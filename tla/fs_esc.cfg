CONSTANTS
  Policy = "preemptive"
  Active = {"boot", "rc", "comm", "motor"}
  CalTasks = {}
  RcLoss = 0
  EscTimeout = 2
  EscSettle = 1
  RecoveryTicks = 1
  AcroInputs = {}
  EscRequests = {TRUE, FALSE}
  GcsCommands = {"cancel"}
  HeapMayFail = FALSE
SPECIFICATION FairSpec
INVARIANT
  FullThrottleNeedsRequest
PROPERTIES
  EscCalibIsolated
  EscCalibEnds
