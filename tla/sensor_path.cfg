CONSTANTS
  Platforms = {"target", "host"}
  Slots <- MCSlots
  Wrap = 4
  DtMax = 3
  Decim = 2
  PerfEvery = 2
  RejectLimit = 1
  StaleSteps = 2
  MaxGap = 4
  Dirs = {0, 2}
  Polled = {"att.control"}
  MaxSamples = 6
  MaxEvents = 3
SPECIFICATION Spec
INVARIANTS
  TimeExact
  StreamHonest
PROPERTIES
  ReadingsHonest
  InOrder
CHECK_DEADLOCK FALSE
