----------------------------- MODULE MC_ShmPoll -----------------------------
(* Two samples from a refclock driver. Their us parts include 0 and the    *)
(* top of the range, and each ns part agrees with its us part (ns / 1000  *)
(* = us), as a driver that fills both writes them.                         *)
EXTENDS ShmPoll

MC_Samples ==
  << [clockTimeStampSec |-> 100, clockTimeStampUSec |-> 0,
      clockTimeStampNSec |-> 999,
      receiveTimeStampSec |-> 101, receiveTimeStampUSec |-> 500000,
      receiveTimeStampNSec |-> 500000123, leap |-> 0],
     [clockTimeStampSec |-> 102, clockTimeStampUSec |-> 999999,
      clockTimeStampNSec |-> 999999999,
      receiveTimeStampSec |-> 103, receiveTimeStampUSec |-> 0,
      receiveTimeStampNSec |-> 42, leap |-> 1] >>

=============================================================================
