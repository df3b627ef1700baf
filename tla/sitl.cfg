CONSTANTS
  Scenes <- MCScenes
  BufCells = 3
  MaxSteps = 5
  MotPeriod = 2
  FlushPeriod = 2
  PtyCap = 1
  PwmPipe = {TRUE, FALSE}
SPECIFICATION SitlSpec
INVARIANTS
  ControlExact
  StepSound
PROPERTY
  StepsHonest
CHECK_DEADLOCK FALSE
