CONSTANTS
  Policy = "preemptive"
  Active = {"boot", "rc", "comm", "ang", "vert", "cal1"}
  CalTasks = {"cal1"}
  RcLoss = 0
  EscTimeout = 2
  EscSettle = 1
  RecoveryTicks = 1
  AcroInputs = {FALSE, TRUE}
  EscRequests = {FALSE}
  GcsCommands = {"calibrate", "cancel"}
  HeapMayFail = TRUE
SPECIFICATION Spec
INVARIANTS
  TypeOK
  DiversionNotStranded
PROPERTY
  OnlyArmOverwritesFailsafe
