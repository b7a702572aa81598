\* A mode-1 driver restarted once, zero-filling the segment as gpsd does:
\* can shm_poll() accept a torn copy?
CONSTANTS
  Samples <- MC_Samples
  WriterModes = {1}
  NsWriters = {TRUE}
  RestartZeroes = {TRUE}
  MaxRestarts = 1
SPECIFICATION Spec
INVARIANTS
  NoTornCopy
