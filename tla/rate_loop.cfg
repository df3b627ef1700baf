CONSTANTS
    FifoSize = 3
    MotorTicks = 2
    FrameTicks = 5
    MaxEpochs = 3
    Errors = {0, 1}
    Throttles = {0, 6}
    Yaws = {0, 5}
    RunTicks = 3
    CapSize = 2
    Hop = 3
    MaxCommands = 2
SPECIFICATION Spec
INVARIANTS
  OutputsSound
  CapturesWhole
PROPERTY
  NoWindup
