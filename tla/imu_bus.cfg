CONSTANTS
    Rides <- MCRides
    EveryN <- MCEveryN
    SlotWrap = 2
    SlowEvery = 2
    StallTimeouts = 1
    ErrLimit = 1
    SemaMax = 10
    MaxFaults = 2
SPECIFICATION ImuSpec
INVARIANTS
  BusHonest
  ChainSound
PROPERTY
  BusServes
