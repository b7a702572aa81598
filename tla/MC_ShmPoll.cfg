\* shm_poll() against a driver in mode 0, 1 or an unsupported mode 2,
\* filling the ns fields or not: what the poller prints.
CONSTANTS
  Samples <- MC_Samples
  WriterModes = {0, 1, 2}
  NsWriters = {FALSE, TRUE}
  RestartZeroes = {}
  MaxRestarts = 0
SPECIFICATION Spec
INVARIANTS
  NoTornCopy
  PrintedMatchesSample
