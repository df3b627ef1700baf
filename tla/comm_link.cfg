CONSTANTS
    BufSize = 4
    Reserve = 2
    DataLen = 2
    FullEvery = 3
    Values = {0, 3}
    PerfRows = 2
    MaxDrops = 2
    Offers = {{"telem"}, {"perf", "xfer"}, {"cmd"}, {"sync"}, {"rc"}}
    RingSize = 3
    DrainMax = 2
    MaxCmds = 2
    Commands = {"sync", "arm", "disarm", "calibrate"}
    AckTicks = 2
    StepMs = 1
    Offsets = {1, 4}
    MaxJumps = 1
    MaxRaces = 1
    DmaSize = 4
    High = 3
    JumpDelta = 2
    HoldFrames = 2
    MaxRcFrames = 3
    MaxNoise = 1
SPECIFICATION Spec
INVARIANTS
  DownlinkExact
  CommandsExact
  RcSound
PROPERTY
  LinkServes
CHECK_DEADLOCK FALSE
