\* Correlation and measurement: IPv6 peer, either timestamp source, and
\* empty or 48-byte stray datagrams from another port, scope id or host,
\* or from the peer itself with a wrong origin.
CONSTANTS
  FracBits = 2
  WireFracBits = 1
  SecBits = 3
  NtpUnix = 5
  Peers <- MC_Peers6
  Addrs <- MC_Addrs
  Thetas <- MC_Thetas
  StartTimes = {11}
  StrayLens = {0, 48}
  MaxStray = 1
  MaxDup = 1
  MaxTime = 16
  KernelTsModes = {FALSE, TRUE}
  SocketSets <- MC_SocketSets
SPECIFICATION Spec
INVARIANTS
  TypeOK
  AcceptsOnlyReply
PROPERTIES
  ReplyNeverDiscarded
  ImplementsAbstract
