-------------------------- MODULE ExchangeAbstract --------------------------
(***************************************************************************)
(* What one run of ntimed-tool promises, without sockets, packets or       *)
(* clocks: it waits, and then it stops exactly once, either because the    *)
(* request could not be sent, or without a measurement, or with a          *)
(* measurement (twice the offset, and the delay) whose offset lies within  *)
(* half the delay of the true offset theta of the server clock, up to the  *)
(* precision Slack that the wire format loses.                             *)
(***************************************************************************)
EXTENDS Integers

CONSTANTS Thetas, Slack

VARIABLES status, result, theta

vars == <<status, result, theta>>

NoResult == <<>>

(* The results that are honest about theta: -d - Slack < o - 2*theta <= d. *)
Honest(th) == {r \in Int \X Int : -r[2] - Slack < r[1] - 2 * th /\ r[1] - 2 * th <= r[2]}

Init ==
  /\ status = "waiting"
  /\ result = NoResult
  /\ theta \in Thetas

Fail ==
  /\ status = "waiting"
  /\ status' = "failed"
  /\ UNCHANGED <<result, theta>>

GiveUp ==
  /\ status = "waiting"
  /\ status' = "nomeas"
  /\ UNCHANGED <<result, theta>>

Measure ==
  /\ status = "waiting"
  /\ status' = "measured"
  /\ result' \in Honest(theta)
  /\ UNCHANGED theta

Next == Fail \/ GiveUp \/ Measure

Spec == Init /\ [][Next]_vars

=============================================================================
