\* Early exit: IPv4 peer and one empty or oversized (200-byte) stray
\* datagram; the loop must not give up before the receive budget is spent.
CONSTANTS
  FracBits = 2
  WireFracBits = 1
  SecBits = 3
  NtpUnix = 5
  Peers <- MC_Peers4
  Addrs <- MC_Addrs
  Thetas <- MC_Thetas
  StartTimes = {10, 11}
  StrayLens = {0, 200}
  MaxStray = 1
  MaxDup = 1
  MaxTime = 16
  KernelTsModes = {FALSE}
  SocketSets <- MC_SocketSets
SPECIFICATION Spec
INVARIANTS
  NoEarlyGiveUp
