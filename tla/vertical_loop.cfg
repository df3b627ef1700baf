CONSTANTS
    MaxHeight = 2
    Target = 1
    Runaway = 0
    RunawaySteps = 2
    RecoverySteps = 1
    Debounce = 1
    TofBand = 1
    MaxFaults = 1
    Modes <- MCModes
    Sticks <- MCSticks
    PiOutputs <- MCPiOutputs
SPECIFICATION Spec
INVARIANT
  VerticalSafe
PROPERTIES
  CollectiveHandled
  AglContinuous
CHECK_DEADLOCK FALSE
