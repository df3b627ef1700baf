CONSTANTS
    Slots = {"internal"}
    Files = {"esc", "hover"}
    MaxOff = 0
    Contents = {0, 1}
    LaneCap = 2
    RetryCap = 2
    MaxTries = 3
    MaxGestures = 3
    MaxHovers = 1
    MaxBoots = 4
    CommitTimeout = 2
    Sides = {"up", "down"}
    HoldSamples = 2
    CaptureTicks = 3
    StarveLimit = 2
    CalibCap = 1
    CalibPlans <- MCPlans
    ClockMod = 8
    BeatPeriod = 2
    ActivityTicks = 2
    HalfTicks = 1
    BootFaults = {"clock"}
    ShownStates <- MCStates
    SettleSamples = 3
    Scenes = {"esc", "imu", "lights", "pack"}
SPECIFICATION BenchSpec
INVARIANTS
  OneAttemptPerRequest
  CalibrationSound
  OperatorTold
PROPERTY
  CaptureBounded
CHECK_DEADLOCK FALSE
