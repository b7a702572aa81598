------------------------------ MODULE ShmPoll ------------------------------
(***************************************************************************)
(* The SHM refclock poller of src/misc/shmc/shmc.c: main() attaches the    *)
(* segment (shm_initialise) and then calls shm_poll() every five seconds.  *)
(* shm_poll() copies the shared struct shmTime (t = *shm), rejects the     *)
(* copy unless valid is set, the mode is 0 or 1 and, in mode 1, count did  *)
(* not change during the copy; then it clears valid in the segment and     *)
(* prints the sample, in nanoseconds when the ns fields agree with the us  *)
(* fields and in microseconds * 1000 otherwise.                            *)
(*                                                                         *)
(* The segment is written concurrently, without locks, by a refclock     *)
(* driver in another process. The writer is the environment here; it       *)
(* follows the usual SHM writer protocol (as in gpsd): set mode, clear     *)
(* valid, count++, store the fields in program order, count++, set valid. *)
(* The copy t = *shm reads the fields one at a time in struct order, each  *)
(* read being atomic.                                                      *)
(*                                                                         *)
(* The driver may crash at any point and be restarted (at most           *)
(* MaxRestarts times); the new instance re-attaches the same segment, as   *)
(* shmget(IPC_CREAT) lets any process do, and either leaves it as it was   *)
(* or zero-fills it first (gpsd's ntpshm_alloc() does a memset), then      *)
(* publishes its next sample. A sample cut off by the crash is never       *)
(* published.                                                              *)
(*                                                                         *)
(* A data field of the segment holds the number of the sample whose value  *)
(* was last stored into it (0: the zero-filled new segment); its value is  *)
(* Val(f, k).                                                              *)
(***************************************************************************)
EXTENDS Integers, Sequences, FiniteSets

CONSTANTS
  Samples,      \* the samples the writer publishes, in order: records
  WriterModes,  \* the mode values the writer may use
  NsWriters,    \* whether the writer fills the ns fields: platforms
  RestartZeroes,\* whether a restarted driver zero-fills the segment
  MaxRestarts   \* bound on driver restarts

ASSUME /\ Len(Samples) >= 1
       /\ WriterModes \subseteq Int /\ WriterModes # {}
       /\ NsWriters \subseteq BOOLEAN /\ NsWriters # {}
       /\ RestartZeroes \subseteq BOOLEAN /\ MaxRestarts \in Nat

MaxSample == Len(Samples)

\* The data fields of struct shmTime that shm_poll() uses.
UsFields   == {"clockTimeStampSec", "clockTimeStampUSec",
               "receiveTimeStampSec", "receiveTimeStampUSec", "leap"}
NsFields   == {"clockTimeStampNSec", "receiveTimeStampNSec"}
DataFields == UsFields \cup NsFields

\* The order of the fields in struct shmTime (lines 36-57), i.e. the order
\* in which the copy t = *shm reads them.
CopyOrder == <<"mode", "count", "clockTimeStampSec", "clockTimeStampUSec",
               "receiveTimeStampSec", "receiveTimeStampUSec", "leap",
               "valid", "clockTimeStampNSec", "receiveTimeStampNSec">>

\* The order in which the driver stores the fields of a sample (gpsd's
\* ntpshm_put(): clock sec, us, ns, then receive sec, us, ns, then leap);
\* stores of one thread reach memory in program order on x86.
StoreOrder == <<"clockTimeStampSec", "clockTimeStampUSec", "clockTimeStampNSec",
                "receiveTimeStampSec", "receiveTimeStampUSec",
                "receiveTimeStampNSec", "leap">>
StoreRank(f) == CHOOSE i \in 1 .. Len(StoreOrder) : StoreOrder[i] = f

Val(f, k) == IF k = 0 THEN 0 ELSE Samples[k][f]

VARIABLES
  shm,      \* the shared segment: mode, count, valid, and data: field -> sample
  wpc,      \* writer: where it is in publishing sample wk
  wk,       \* writer: the sample being (or last) published
  wleft,    \* writer: data fields of sample wk still to store
  wmode,    \* the mode the writer sets
  nsWriter, \* the writer stores the ns fields
  rpc,      \* reader: "copy", "check", "clear" or "sleep"
  ci,       \* reader: index into CopyOrder of the next field to copy
  t,        \* reader: the local copy struct shmTime t
  out,      \* reader: the last sample printed, or NoOut
  outCopy,  \* reader: the copy t that sample was printed from
  pub,      \* the samples whose valid flag a driver has set
  restarts  \* driver restarts so far

vars == <<shm, wpc, wk, wleft, wmode, nsWriter, rpc, ci, t, out, outCopy,
          pub, restarts>>

NoOut == [none |-> TRUE]

ZeroSeg == [mode |-> 0, count |-> 0, valid |-> 0,
            data |-> [f \in DataFields |-> 0]]

\* The fields the writer stores for each sample.
Written(ns) == IF ns THEN DataFields ELSE UsFields

-----------------------------------------------------------------------------
(* Mutations: plausible slips in shm_poll(), each detected by a property.  *)

\* The mode-1 count comparison left out.
ShmCheckOk_NoCount(c, cnt) == (c.mode = 0 \/ c.mode = 1) /\ c.valid # 0

\* Mode 0 dropped from the accepted modes.
ShmCheckOk_ModeOneOnly(c, cnt) == c.mode = 1 /\ c.count = cnt /\ c.valid # 0

\* Only the clock pair consulted to choose between ns and us.
UseNs_ClockOnly(c) ==
  Val("clockTimeStampNSec", c.data["clockTimeStampNSec"]) \div 1000
    = Val("clockTimeStampUSec", c.data["clockTimeStampUSec"])

-----------------------------------------------------------------------------
(* The test of lines 97-98: the copy c is used unless, in mode 1, count    *)
(* differs from the segment's count cnt re-read now, or the mode is not 0  *)
(* or 1, or valid is clear.                                                *)
ShmCheckOk(c, cnt) ==
  /\ ~(c.mode = 1 /\ c.count # cnt)
  /\ c.mode = 0 \/ c.mode = 1
  /\ c.valid # 0

CVal(c, f) == Val(f, c.data[f])

(* Lines 110-111: the ns fields are used when both agree with the us ones. *)
UseNs(c) ==
  /\ CVal(c, "clockTimeStampNSec") \div 1000 = CVal(c, "clockTimeStampUSec")
  /\ CVal(c, "receiveTimeStampNSec") \div 1000 = CVal(c, "receiveTimeStampUSec")

(* Lines 107-118: receive_ts and clock_ts as printed, with the leap value. *)
Printed(c) ==
  [rsec  |-> CVal(c, "receiveTimeStampSec"),
   rnsec |-> IF UseNs(c) THEN CVal(c, "receiveTimeStampNSec")
                         ELSE 1000 * CVal(c, "receiveTimeStampUSec"),
   csec  |-> CVal(c, "clockTimeStampSec"),
   cnsec |-> IF UseNs(c) THEN CVal(c, "clockTimeStampNSec")
                         ELSE 1000 * CVal(c, "clockTimeStampUSec"),
   leap  |-> CVal(c, "leap")]

-----------------------------------------------------------------------------
(* shm_initialise(): shmget(IPC_CREAT) yields a zero-filled segment, and   *)
(* main() asserts the attach succeeded, so shm_poll() never sees NULL.     *)
Init ==
  /\ shm = ZeroSeg
  /\ wpc = "start" /\ wk = 1 /\ wleft = {}
  /\ wmode \in WriterModes
  /\ nsWriter \in NsWriters
  /\ rpc = "copy" /\ ci = 1
  /\ t = ZeroSeg
  /\ out = NoOut /\ outCopy = ZeroSeg
  /\ pub = {} /\ restarts = 0

(* t = *shm, one field: a read of the shared segment.                      *)
CopyField ==
  /\ rpc = "copy"
  /\ LET f == CopyOrder[ci] IN
       t' = IF f \in DataFields THEN [t EXCEPT !.data[f] = shm.data[f]]
                                ELSE [t EXCEPT ![f] = shm[f]]
  /\ ci' = ci + 1
  /\ rpc' = IF ci = Len(CopyOrder) THEN "check" ELSE "copy"
  /\ UNCHANGED <<shm, wpc, wk, wleft, wmode, nsWriter, out, outCopy,
                 pub, restarts>>

(* Lines 97-103: the test, with the volatile re-read of shm->count; a      *)
(* rejected sample is only reported, and main() sleeps.                    *)
Check ==
  /\ rpc = "check"
  /\ rpc' = IF ShmCheckOk(t, shm.count) THEN "clear" ELSE "sleep"
  /\ UNCHANGED <<shm, wpc, wk, wleft, wmode, nsWriter, ci, t, out, outCopy,
                 pub, restarts>>

(* Line 105: shm->valid = 0, a write to the shared segment; then lines     *)
(* 107-124 select ns or us and print the sample.                           *)
Clear ==
  /\ rpc = "clear"
  /\ shm' = [shm EXCEPT !.valid = 0]
  /\ out' = Printed(t)
  /\ outCopy' = t
  /\ rpc' = "sleep"
  /\ UNCHANGED <<wpc, wk, wleft, wmode, nsWriter, ci, t, pub, restarts>>

(* sleep(5) in main(), then the next shm_poll().                           *)
Sleep ==
  /\ rpc = "sleep"
  /\ rpc' = "copy" /\ ci' = 1
  /\ UNCHANGED <<shm, wpc, wk, wleft, wmode, nsWriter, t, out, outCopy,
                 pub, restarts>>

Reader == CopyField \/ Check \/ Clear \/ Sleep

-----------------------------------------------------------------------------
(* The refclock writer, publishing Samples[1], Samples[2], ... in turn.    *)

\* shmseg->mode = m; shmseg->valid = 0
WStart ==
  /\ wpc = "start"
  /\ shm' = [shm EXCEPT !.mode = wmode, !.valid = 0]
  /\ wpc' = "count1"
  /\ UNCHANGED <<wk, wleft, wmode, nsWriter, rpc, ci, t, out, outCopy,
                 pub, restarts>>

\* shmseg->count++ (before the fields, and again after them)
WCount ==
  /\ wpc \in {"count1", "count2"}
  /\ shm' = [shm EXCEPT !.count = @ + 1]
  /\ wpc' = IF wpc = "count1" THEN "fields" ELSE "valid"
  /\ wleft' = IF wpc = "count1" THEN Written(nsWriter) ELSE wleft
  /\ UNCHANGED <<wk, wmode, nsWriter, rpc, ci, t, out, outCopy,
                 pub, restarts>>

\* one store of a data field, in the driver's program order
WField ==
  /\ wpc = "fields"
  /\ LET f == CHOOSE g \in wleft :
                \A h \in wleft : StoreRank(g) <= StoreRank(h)
     IN /\ shm' = [shm EXCEPT !.data[f] = wk]
        /\ wleft' = wleft \ {f}
  /\ wpc' = IF Cardinality(wleft) = 1 THEN "count2" ELSE "fields"
  /\ UNCHANGED <<wk, wmode, nsWriter, rpc, ci, t, out, outCopy,
                 pub, restarts>>

\* shmseg->valid = 1: the sample is published
WValid ==
  /\ wpc = "valid"
  /\ shm' = [shm EXCEPT !.valid = 1]
  /\ wpc' = IF wk = MaxSample THEN "done" ELSE "start"
  /\ wk' = IF wk = MaxSample THEN wk ELSE wk + 1
  /\ pub' = pub \cup {wk}
  /\ UNCHANGED <<wleft, wmode, nsWriter, rpc, ci, t, out, outCopy, restarts>>

Writer == WStart \/ WCount \/ WField \/ WValid

\* The driver dies and a new instance attaches the segment, zero-filling it
\* or not; it goes on with the next sample unless the crash came between
\* two samples.
WRestart ==
  /\ wpc # "done" /\ restarts < MaxRestarts
  /\ wpc = "start" \/ wk < MaxSample
  /\ \E zero \in RestartZeroes : shm' = IF zero THEN ZeroSeg ELSE shm
  /\ wpc' = "start" /\ wleft' = {}
  /\ wk' = IF wpc = "start" THEN wk ELSE wk + 1
  /\ restarts' = restarts + 1
  /\ UNCHANGED <<wmode, nsWriter, rpc, ci, t, out, outCopy, pub>>

Next == Reader \/ Writer \/ WRestart

(* main() polls forever, and the driver keeps writing: both processes      *)
(* are scheduled whenever they can run. Crashes are not forced to happen.  *)
Fairness == WF_vars(Reader) /\ WF_vars(Writer)

Spec == Init /\ [][Next]_vars /\ Fairness

-----------------------------------------------------------------------------
(* Properties. *)

\* Samples whose valid flag the writer has set.
Published == pub

\* The sample a copy holds, if every field the writer stores comes from it.
WholeSample(c, k) == \A f \in Written(nsWriter) : c.data[f] = k

\* What the driver meant: the sample's times at the precision it wrote.
Expected(k) ==
  LET s == Samples[k] IN
  [rsec  |-> s.receiveTimeStampSec,
   rnsec |-> IF nsWriter THEN s.receiveTimeStampNSec
                         ELSE 1000 * s.receiveTimeStampUSec,
   csec  |-> s.clockTimeStampSec,
   cnsec |-> IF nsWriter THEN s.clockTimeStampNSec
                         ELSE 1000 * s.clockTimeStampUSec,
   leap  |-> s.leap]

(* The mode-1 protocol (count compared before and after the copy, line 97) *)
(* makes every sample shm_poll() prints in mode 1 one the driver fully     *)
(* published: no field of it comes from a sample still being written, or   *)
(* from an earlier one, whatever the interleaving of copy and writer.      *)
NoTornCopy ==
  out # NoOut /\ outCopy.mode = 1 =>
    \E k \in Published : WholeSample(outCopy, k)

(* For a copy that holds one whole sample, the ns/us choice of lines       *)
(* 110-118 prints exactly the times the driver wrote: in ns when it fills  *)
(* the ns fields, in us * 1000 when it leaves them zero (older drivers).   *)
PrintedMatchesSample ==
  \A k \in 1 .. MaxSample :
    out # NoOut /\ WholeSample(outCopy, k) => out = Expected(k)

(* Every sample is read: once the driver has published its last sample,    *)
(* the poller eventually prints it (the struct comment: "if valid set, use *)
(* values, clear valid").                                                  *)
LastSampleRead ==
  wpc = "done" ~> (out # NoOut /\ WholeSample(outCopy, MaxSample))

(* Once the driver has stopped with a sample published in mode 0 or 1,    *)
(* the poller, from its next poll on, prints that last sample whole: the   *)
(* copy of line 95 is then race-free, the test of lines 97-98 accepts it,  *)
(* and main() polls again after every rejected or printed sample, even    *)
(* when a restarted driver left crashed writes in the segment.            *)
QuiescentSampleRead ==
  (wpc = "done" /\ shm.valid = 1 /\ shm.mode \in {0, 1} /\ rpc = "sleep")
    ~> (out # NoOut /\ WholeSample(outCopy, MaxSample))

=============================================================================
