---------------------------- MODULE NtpTimestamp ----------------------------
(***************************************************************************)
(* The fixed-point timestamp of ntimed-tool.c (struct timestamp) and its   *)
(* conversions to and from the 64-bit NTP wire format.                     *)
(*                                                                         *)
(* Widths are scaled down so that TLC can hold the values, but every       *)
(* truncation and wrap-around of the code is kept:                         *)
(*   FracBits      models the 64-bit in-memory fraction (ts->frac),        *)
(*   WireFracBits  models the 32-bit fraction field on the wire,           *)
(*   SecBits       models the 32-bit seconds field on the wire, whose      *)
(*                 arithmetic in ntp64_2ts/ts_2ntp64 is modulo 2^32,       *)
(*   NtpUnix       models NTP_UNIX, the 1900->1970 offset, mod 2^SecBits.  *)
(* A local time instant is a number of ticks of 2^-FracBits seconds.       *)
(***************************************************************************)
EXTENDS Integers, TLC

CONSTANTS FracBits, WireFracBits, SecBits, NtpUnix

ASSUME /\ WireFracBits \in Nat /\ FracBits \in Nat /\ WireFracBits <= FracBits
       /\ SecBits \in Nat \ {0}
       /\ NtpUnix \in 0 .. (2^SecBits - 1)

OneSecond == 2^FracBits              \* ticks per second of the memory format
SecMod    == 2^SecBits               \* modulus of the wire seconds field
WireUnit  == 2^(FracBits - WireFracBits)  \* ticks per unit of the wire fraction

MemTs  == [sec : Nat, frac : 0 .. (OneSecond - 1)]
WireTs == [sec : 0 .. (SecMod - 1), frac : 0 .. (2^WireFracBits - 1)]

(* TS_Nanosec(): asserts 0 <= sec and 0 <= sub-second part < 1 s and      *)
(* scales the sub-second part to the fraction (by NANO_FRAC in the code;   *)
(* here the part is already given in fraction units).                      *)
TS_Nanosec(sec, sub) ==
  IF Assert(sec >= 0 /\ sub \in 0 .. (OneSecond - 1), "TS_Nanosec: range")
  THEN [sec |-> sec, frac |-> sub]
  ELSE [sec |-> 0, frac |-> 0]

(* kt_now(): gettimeofday() at instant t, given to TS_Nanosec().           *)
TB_Now(t) == TS_Nanosec(t \div OneSecond, t % OneSecond)

\* Mutation: the seconds field written without truncation to its width.
ts_2ntp64_NoWrap(ts) == [sec  |-> ts.sec + NtpUnix,
                         frac |-> ts.frac \div WireUnit]

(* ts_2ntp64(): seconds shifted to the NTP epoch and truncated to the wire *)
(* width by Be32enc(uint32_t); the fraction keeps only its top bits.       *)
ts_2ntp64(ts) == [sec  |-> (ts.sec + NtpUnix) % SecMod,
                  frac |-> ts.frac \div WireUnit]

(* ntp64_2ts(): Be32dec(ptr) - NTP_UNIX is computed in 32-bit unsigned     *)
(* arithmetic, so it wraps; the fraction is shifted back to the top bits.  *)
ntp64_2ts(w) == [sec  |-> (w.sec - NtpUnix) % SecMod,
                 frac |-> w.frac * WireUnit]

(* TS_Diff(t1, t2): t1 - t2, here exactly, in ticks (the code computes it  *)
(* in double precision, which is exact for fractions read from the wire).  *)
TS_Diff(t1, t2) == (t1.sec - t2.sec) * OneSecond + (t1.frac - t2.frac)

=============================================================================
