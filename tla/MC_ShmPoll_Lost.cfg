\* A mode-1 driver filling the ns fields: is its last sample ever printed?
CONSTANTS
  Samples <- MC_Samples
  WriterModes = {1}
  NsWriters = {TRUE}
  RestartZeroes = {}
  MaxRestarts = 0
SPECIFICATION Spec
PROPERTIES
  LastSampleRead
