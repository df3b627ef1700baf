CONSTANTS
 Scenes = {{"imu","text"},{"text","burst"},{"text","xfer"},{"text","crash","fault"},{"imu","crash"},
   {"call","slow"},{"call","write"},{"call","pid"},{"pid","cal","fault","crash"},{"query","text"},{"query","fault"},{"delete","text","crash"}}
 MaxFails = 1
 MaxBoots = 2
 Cap = 2
 Bufs = 2
 Ring = 3
 SyncFrames = 2
 Margin = 4
 StartGens = {255}
 MaxRecs <- MCRecs
 MaxFlips = 2
 MaxXfers = 1
 Callers = {"xfer", "vert"}
 Paths = {"hsl", "pid"}
 MaxCalls = 2
 MaxLate = 1
 MaxWrites = 1
 MaxQueries = 1
 SaveCap = 2
 SaveTries = 2
 MaxChanges <- MCChanges
 Burst = 2
SPECIFICATION Spec
INVARIANTS
  RecordingSound
  CallsSettled
  TuneSound
PROPERTY
  StorageServes
CHECK_DEADLOCK FALSE
