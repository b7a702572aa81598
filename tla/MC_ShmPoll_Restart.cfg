\* A driver in mode 0 or 1 that crashes once and is restarted without
\* zero-filling the segment: no torn sample is printed, and the last one
\* is read once the driver stops.
CONSTANTS
  Samples <- MC_Samples
  WriterModes = {0, 1}
  NsWriters = {TRUE}
  RestartZeroes = {FALSE}
  MaxRestarts = 1
SPECIFICATION Spec
INVARIANTS
  NoTornCopy
PROPERTIES
  QuiescentSampleRead
