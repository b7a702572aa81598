---------------------------- MODULE MC_NtpPacket ----------------------------
(***************************************************************************)
(* Instantiation of NtpPacket: the same scaled widths as MC_Exchange, the *)
(* request packed at instants on both sides of the wire-era wrap (tick    *)
(* 12), and replies with boundary byte values.                             *)
(***************************************************************************)
EXTENDS NtpPacket

\* one-byte fields: zero, a typical byte 0 (version 4, server), the sign
\* boundary of the precision byte, and all ones
MC_ReplyBytes == {0, 36, 128, 255}

\* wire timestamps: the era start, and the last instant before the wrap
MC_ReplyTs == {[sec |-> 0, frac |-> 0], [sec |-> 7, frac |-> 1]}
=============================================================================
