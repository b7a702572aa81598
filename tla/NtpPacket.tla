------------------------------ MODULE NtpPacket ------------------------------
(***************************************************************************)
(* The packet codec of ntimed-tool.c: struct ntp_packet, the request built *)
(* by NTP_Tool_Client_Req(), NTP_Packet_Pack() into the 48-byte wire       *)
(* format and NTP_Packet_Unpack() back.                                    *)
(*                                                                         *)
(* The wire buffer is kept field by field: one-byte fields as bytes, the   *)
(* short (16.16) and long (32.32) timestamps as their scaled fields.       *)
(* ShortFracBits models the 16-bit fraction of the short format.           *)
(*                                                                         *)
(* Behaviour: the tool packs its request at some clock instant; a peer     *)
(* answers with any well-formed reply (or a datagram of another length);  *)
(* the tool unpacks it into rx_pkt.                                        *)
(***************************************************************************)
EXTENDS NtpTimestamp, Bitwise, TLC

CONSTANTS
  ShortFracBits,  \* width of the short-format fraction (models 16)
  ShortSecMax,    \* 2^16 scaled: bound of the short-format seconds
  Instants,       \* clock instants (ticks) at which the request is packed
  ReplyBytes,     \* values the peer may put in the one-byte fields
  ReplyTs,        \* wire timestamps the peer may put in its fields
  RefIds,         \* reference ids
  Lens            \* datagram lengths offered to NTP_Packet_Unpack()

ASSUME /\ ShortFracBits \in Nat /\ ShortFracBits <= FracBits
       /\ ShortSecMax \in Nat \ {0}
       /\ ReplyBytes \subseteq 0 .. 255
       /\ ReplyTs \subseteq WireTs

ShortUnit == 2^(FracBits - ShortFracBits)
ShortTs   == [sec : 0 .. (ShortSecMax - 1), frac : 0 .. (2^ShortFracBits - 1)]

\* enum ntp_leap and enum ntp_mode values used by the tool
NTP_LEAP_UNKNOWN == 3
NTP_MODE_CLIENT  == 3

Packet == [leap : 0 .. 3, version : 0 .. 7, mode : 0 .. 7,
           stratum : 0 .. 255, poll : 0 .. 255, precision : -128 .. 127,
           delay : MemTs, dispersion : MemTs, refid : RefIds,
           reference : MemTs, origin : MemTs, receive : MemTs,
           transmit : MemTs]

Buffer == [b0 : 0 .. 255, stratum : 0 .. 255, poll : 0 .. 255,
           precision : 0 .. 255, delay : ShortTs, dispersion : ShortTs,
           refid : RefIds, reference : WireTs, origin : WireTs,
           receive : WireTs, transmit : WireTs]

ZeroTs == [sec |-> 0, frac |-> 0]

-----------------------------------------------------------------------------
(* Mutations: plausible slips in the codec, each of which some property    *)
(* below must detect.                                                      *)

\* ntp32_2ts() without the shift of the fraction into the top bits.
ntp32_2ts_NoShift(w) == [sec |-> w.sec, frac |-> w.frac]

\* (int8_t)p[3] with the sign boundary off by one.
Int8_Off(b) == IF b > 128 THEN b - 256 ELSE b

\* NTP_Packet_Pack() or-ing mode in before version.
PackB0_Swapped(np) ==
  ((((np.leap * 8) % 256) | np.mode) * 8 % 256) | np.version

(* ntp32_2ts(): short format, the 16-bit fraction goes to the top bits.    *)
ntp32_2ts(w) == [sec |-> w.sec, frac |-> w.frac * ShortUnit]

(* ts_2ntp32(): asserts the seconds fit in 16 bits, truncates the fraction.*)
ts_2ntp32(ts) ==
  IF Assert(ts.sec < ShortSecMax, "ts_2ntp32: ts->sec >= 65536")
  THEN [sec |-> ts.sec, frac |-> ts.frac \div ShortUnit]
  ELSE ZeroTs

(* (int8_t)p[3]: the precision byte read as two's complement.              *)
Int8(b) == IF b >= 128 THEN b - 256 ELSE b

(* NTP_Tool_Client_Req(): the canonical unanswered request.                *)
NTP_Tool_Client_Req ==
  [leap |-> NTP_LEAP_UNKNOWN, version |-> 4, mode |-> NTP_MODE_CLIENT,
   stratum |-> 0, poll |-> 4, precision |-> -6,
   delay |-> [sec |-> 1, frac |-> 0], dispersion |-> [sec |-> 1, frac |-> 0],
   refid |-> CHOOSE r \in RefIds : TRUE,
   reference |-> ZeroTs, origin |-> ZeroTs, receive |-> ZeroTs,
   transmit |-> ZeroTs]

(* Byte 0 as NTP_Packet_Pack() builds it: leap, <<= 3, |= version, <<= 3, *)
(* |= mode, all in a uint8_t.                                              *)
PackB0(np) ==
  ((((np.leap * 8) % 256) | np.version) * 8 % 256) | np.mode

(* NTP_Packet_Pack(): the buffer for np with its transmit field stamped at *)
(* clock instant now.                                                      *)
PackBuf(np, now) ==
  [b0 |-> PackB0(np), stratum |-> np.stratum, poll |-> np.poll,
   precision |-> (np.precision + 256) % 256,
   delay |-> ts_2ntp32(np.delay), dispersion |-> ts_2ntp32(np.dispersion),
   refid |-> np.refid,
   reference |-> ts_2ntp64(np.reference), origin |-> ts_2ntp64(np.origin),
   receive |-> ts_2ntp64(np.receive), transmit |-> ts_2ntp64(TB_Now(now))]

\* NTP_Packet_Unpack() reading the origin from the reference offset.
Unpack_OriginFromReference(b) ==
  [leap |-> shiftR(b.b0, 6), version |-> shiftR(b.b0, 3) & 7,
   mode |-> b.b0 & 7, stratum |-> b.stratum, poll |-> b.poll,
   precision |-> Int8(b.precision),
   delay |-> ntp32_2ts(b.delay), dispersion |-> ntp32_2ts(b.dispersion),
   refid |-> b.refid,
   reference |-> ntp64_2ts(b.reference), origin |-> ntp64_2ts(b.reference),
   receive |-> ntp64_2ts(b.receive), transmit |-> ntp64_2ts(b.transmit)]

(* NTP_Packet_Unpack() of a 48-byte buffer.                                *)
Unpack(b) ==
  [leap |-> shiftR(b.b0, 6), version |-> shiftR(b.b0, 3) & 7,
   mode |-> b.b0 & 7, stratum |-> b.stratum, poll |-> b.poll,
   precision |-> Int8(b.precision),
   delay |-> ntp32_2ts(b.delay), dispersion |-> ntp32_2ts(b.dispersion),
   refid |-> b.refid,
   reference |-> ntp64_2ts(b.reference), origin |-> ntp64_2ts(b.origin),
   receive |-> ntp64_2ts(b.receive), transmit |-> ntp64_2ts(b.transmit)]

-----------------------------------------------------------------------------
VARIABLES
  txPkt,   \* tx_pkt in main()
  txBuf,   \* the buffer that was sent
  rxPkt,   \* rx_pkt in main(), NoPkt until something was unpacked
  rxGood,  \* the last 48-byte buffer that was unpacked into rx_pkt
  rxLen,   \* length of the last datagram offered to NTP_Packet_Unpack()
  phase    \* "build", "sent", "received"

vars == <<txPkt, txBuf, rxPkt, rxGood, rxLen, phase>>

NoPkt == [leap |-> -1]
NoBuf == [b0 |-> -1]

Init ==
  /\ txPkt = NoPkt /\ txBuf = NoBuf
  /\ rxPkt = NoPkt /\ rxGood = NoBuf /\ rxLen = 0
  /\ phase = "build"

(* main(): NTP_Tool_Client_Req(tx_pkt) then NTP_Packet_Pack(), which also *)
(* checks its contract and decodes the transmit field back into tx_pkt.   *)
BuildAndPack ==
  /\ phase = "build"
  /\ \E now \in Instants :
       LET np == NTP_Tool_Client_Req
           b  == PackBuf(np, now)
       IN  /\ Assert(np.version < 8 /\ np.stratum < 15,
                     "NTP_Packet_Pack: version or stratum out of range")
           /\ txBuf' = b
           /\ txPkt' = [np EXCEPT !.transmit = ntp64_2ts(b.transmit)]
  /\ phase' = "sent"
  /\ UNCHANGED <<rxPkt, rxGood, rxLen>>

(* The datagrams a peer may send back: any one-byte fields, short          *)
(* timestamps and wire timestamps from the given sets, and as origin       *)
(* either our transmit field or another timestamp.                         *)
Replies ==
  {[b0 |-> b0, stratum |-> st, poll |-> po, precision |-> pr,
    delay |-> d, dispersion |-> d, refid |-> txBuf.refid,
    reference |-> xmt, origin |-> org, receive |-> rec, transmit |-> xmt] :
     b0 \in ReplyBytes, st \in ReplyBytes, po \in ReplyBytes,
     pr \in ReplyBytes, d \in ShortTs, rec \in ReplyTs, xmt \in ReplyTs,
     org \in {txBuf.transmit} \cup ReplyTs}

(* A datagram of length len arrives and is given to NTP_Packet_Unpack():  *)
(* a length other than 48 returns NULL before rx_pkt is touched. Every    *)
(* call starts from INIT_OBJ(), so one successful unpack per behaviour     *)
(* shows all there is; after it the model stops.                          *)
UnpackReply ==
  /\ phase = "sent"
  /\ \E b \in Replies, len \in Lens :
       /\ rxLen' = len
       /\ \/ /\ len = 48
             /\ rxPkt' = Unpack(b) /\ rxGood' = b /\ phase' = "received"
          \/ /\ len # 48
             /\ UNCHANGED <<rxPkt, rxGood, phase>>
  /\ UNCHANGED <<txPkt, txBuf>>

Done == phase = "received" /\ UNCHANGED vars

Next == BuildAndPack \/ UnpackReply \/ Done

Spec == Init /\ [][Next]_vars

-----------------------------------------------------------------------------
(* Properties. *)

TypeOK ==
  /\ phase \in {"build", "sent", "received"}
  /\ txPkt \in Packet \cup {NoPkt} /\ rxPkt \in Packet \cup {NoPkt}
  /\ txBuf \in Buffer \cup {NoBuf} /\ rxGood \in Buffer \cup {NoBuf}
  /\ rxLen \in Lens \cup {0}

(* What a peer decodes from the request is exactly the tx_pkt the tool     *)
(* keeps, every field including the transmit timestamp: the bit packing   *)
(* of byte 0, the signed precision, the short-format delay and dispersion *)
(* and the epoch shift all invert each other.                              *)
RequestRoundTrip == phase # "build" => Unpack(txBuf) = txPkt

(* The origin decoded from a reply equals tx_pkt's transmit timestamp if  *)
(* and only if the peer echoed the transmit bytes we sent, at every clock *)
(* instant, across the wire-era wrap (spec 4.2: exact equality can be     *)
(* used for correlation).                                                  *)
TransmitEcho ==
  phase = "received" =>
    (rxPkt.origin = txPkt.transmit <=> rxGood.origin = txBuf.transmit)

(* Decoding loses nothing: re-encoding rx_pkt with the encoders of         *)
(* NTP_Packet_Pack() gives back every field of the datagram (spec 8,       *)
(* round trip), for any byte values, including an all-zero packet.         *)
ReplyRoundTrip ==
  phase = "received" =>
    /\ PackB0(rxPkt) = rxGood.b0
    /\ (rxPkt.precision + 256) % 256 = rxGood.precision
    /\ ts_2ntp32(rxPkt.delay) = rxGood.delay
    /\ ts_2ntp32(rxPkt.dispersion) = rxGood.dispersion
    /\ \A f \in {"reference", "origin", "receive", "transmit"} :
         ts_2ntp64(rxPkt[f]) = rxGood[f]

=============================================================================
