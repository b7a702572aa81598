\* A queued reply behind strays the correlator discards (short or 48
\* bytes, from anyone), IPv4 peer: is it always measured?
CONSTANTS
  FracBits = 2
  WireFracBits = 1
  SecBits = 3
  NtpUnix = 5
  Peers <- MC_Peers4
  Addrs <- MC_Addrs
  Thetas <- MC_Thetas
  StartTimes = {11}
  StrayLens = {47, 48}
  MaxStray = 1
  MaxDup = 1
  MaxTime = 16
  KernelTsModes = {FALSE}
  SocketSets <- MC_SocketSets
SPECIFICATION Spec
PROPERTIES
  QueuedReplyMeasured
