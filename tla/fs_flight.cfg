CONSTANTS
  Policy = "preemptive"
  Active = {"boot", "rc", "comm", "att", "vert", "motor"}
  CalTasks = {}
  RcLoss = 0
  EscTimeout = 2
  EscSettle = 1
  RecoveryTicks = 1
  AcroInputs = {}
  EscRequests = {FALSE}
  GcsCommands = {"arm", "disarm", "cancel"}
  HeapMayFail = FALSE
SPECIFICATION FairSpec
PROPERTIES
  RcLossStopsMotors
  FlightEnds
