\* A stray datagram discarded exactly one second after t0 leaves a budget
\* of exactly 0.0, which UdpTimedRx() turns into poll(-1): wait forever.
CONSTANTS
  FracBits = 2
  WireFracBits = 1
  SecBits = 3
  NtpUnix = 5
  Peers <- MC_Peers6
  Addrs <- MC_Addrs
  Thetas <- MC_Thetas
  StartTimes = {10, 11}
  StrayLens = {47, 48}
  MaxStray = 1
  MaxDup = 1
  MaxTime = 16
  KernelTsModes = {FALSE}
  SocketSets <- MC_SocketSets
SPECIFICATION Spec
PROPERTIES
  Termination
