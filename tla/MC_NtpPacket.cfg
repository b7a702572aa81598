\* Codec round trips for the request and for any well-formed reply.
CONSTANTS
  FracBits = 2
  WireFracBits = 1
  SecBits = 3
  NtpUnix = 5
  ShortFracBits = 1
  ShortSecMax = 2
  Instants = {9, 11, 12, 15}
  ReplyBytes <- MC_ReplyBytes
  ReplyTs <- MC_ReplyTs
  RefIds = {r1}
  Lens = {47, 48}
SPECIFICATION Spec
INVARIANTS
  TypeOK
  RequestRoundTrip
  TransmitEcho
  ReplyRoundTrip
