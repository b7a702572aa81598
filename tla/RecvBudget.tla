----------------------------- MODULE RecvBudget -----------------------------
(***************************************************************************)
(* The timing of main()'s receive loop in src/testnet/ntimed/ntimed-tool.c *)
(* at a resolution fine enough for the millisecond rounding of UdpTimedRx: *)
(* each pass reads t1, computes d = t1 - t0 and calls UdpTimedRx with      *)
(* tmo - d; UdpTimedRx turns that into poll()'s timeout with               *)
(* lround(1e3 * tmo), 0.0 meaning -1 (wait forever) and a value <= 0       *)
(* meaning 0. A datagram from a stray sender sends the loop round again;   *)
(* the reply ends it with a measurement, and poll() returning 0 ends it    *)
(* without one.                                                            *)
(*                                                                         *)
(* Time is an integer number of clock units since t0 (TB_Now after the    *)
(* send); UnitsPerMs units make a millisecond. Exchange checks what the    *)
(* datagrams are; here they are only a stray or the reply.                 *)
(***************************************************************************)
EXTENDS Integers, Sequences

CONSTANTS
  UnitsPerMs, \* clock units per millisecond (even)
  Tmo,        \* the budget tmo of main(), in clock units after t0
  MaxStray,   \* bound on stray datagrams
  MaxTime     \* bound on the clock

ASSUME /\ UnitsPerMs \in Nat /\ UnitsPerMs > 0 /\ UnitsPerMs % 2 = 0
       /\ Tmo \in Nat /\ MaxStray \in Nat /\ MaxTime \in Nat /\ MaxTime > Tmo

HalfMs == UnitsPerMs \div 2
Exited == {"measured", "nomeas"}

VARIABLES
  pc,      \* "top", "rx" (UdpTimedRx entered), "poll", or an exit
  clock,   \* now, in units since t0
  t1,      \* the t1 of this pass
  pollEnd, \* the time poll() may return 0 from, or -1 for poll(-1)
  queue,   \* datagrams waiting on the socket, oldest first
  strays,  \* stray datagrams sent so far
  replied  \* the server's reply has been sent

vars == <<pc, clock, t1, pollEnd, queue, strays, replied>>

(* lround(x) of a value x = n / u ms, n an integer: the nearest integer.  *)
(* At an exact half the double 1e3 * (tmo - d) may fall either side of    *)
(* it, so both neighbours are possible results.                           *)
RoundHalf(n, u) ==
  LET q == n \div u
      rm == n % u
  IN IF 2 * rm < u THEN {q} ELSE IF 2 * rm > u THEN {q + 1} ELSE {q, q + 1}

\* Mutation: the timeout truncated toward zero, as (int)(1e3 * tmo) does.
PollTimeoutMs_Trunc(r) ==
  IF r = 0 THEN {-1}
  ELSE {IF r > 0 THEN r \div UnitsPerMs ELSE 0}

\* Mutation: the budget scaled to microseconds, lround(1e6 * tmo).
PollTimeoutMs_Usec(r) ==
  IF r = 0 THEN {-1}
  ELSE {IF m <= 0 THEN 0 ELSE m : m \in RoundHalf(1000 * r, UnitsPerMs)}

(* Lines 441-447: poll()'s timeout in ms for a remaining budget of r units. *)
PollTimeoutMs(r) ==
  IF r = 0 THEN {-1}
  ELSE {IF m <= 0 THEN 0 ELSE m : m \in RoundHalf(r, UnitsPerMs)}

Init ==
  /\ pc = "top" /\ clock = 0 /\ t1 = 0 /\ pollEnd = 0
  /\ queue = <<>> /\ strays = 0 /\ replied = FALSE

(* TB_Now(&t1); d = TS_Diff(&t1, &t0): the top of the loop.                *)
LoopTop ==
  /\ pc = "top"
  /\ t1' = clock /\ pc' = "rx"
  /\ UNCHANGED <<clock, pollEnd, queue, strays, replied>>

(* UdpTimedRx(..., tmo - d): the timeout conversion and the call of poll(). *)
PollEnter ==
  /\ pc = "rx"
  /\ \E ms \in PollTimeoutMs(Tmo - t1) :
       pollEnd' = IF ms = -1 THEN -1 ELSE clock + ms * UnitsPerMs
  /\ pc' = "poll"
  /\ UNCHANGED <<clock, t1, queue, strays, replied>>

(* poll() returns 1: the datagram is read; a stray one makes main()        *)
(* continue, the reply is printed and ends the loop.                       *)
PollReady ==
  /\ pc = "poll" /\ queue # <<>>
  /\ queue' = Tail(queue)
  /\ pc' = IF Head(queue) = "reply" THEN "measured" ELSE "top"
  /\ UNCHANGED <<clock, t1, pollEnd, strays, replied>>

(* poll() returns 0, no earlier than its timeout; main() breaks.           *)
PollExpire ==
  /\ pc = "poll" /\ queue = <<>>
  /\ pollEnd # -1 /\ clock >= pollEnd
  /\ pc' = "nomeas"
  /\ UNCHANGED <<clock, t1, pollEnd, queue, strays, replied>>

Client == LoopTop \/ PollEnter \/ PollReady \/ PollExpire

(* The environment: time passes (also between reading t1 and entering     *)
(* poll(), and past poll()'s timeout before it returns), a stray sender    *)
(* sends, the server replies once or its reply is lost.                    *)
Tick ==
  /\ pc \notin Exited /\ clock < MaxTime
  /\ clock' = clock + 1
  /\ UNCHANGED <<pc, t1, pollEnd, queue, strays, replied>>

Inject ==
  /\ pc \notin Exited /\ strays < MaxStray
  /\ queue' = Append(queue, "stray") /\ strays' = strays + 1
  /\ UNCHANGED <<pc, clock, t1, pollEnd, replied>>

Reply ==
  /\ pc \notin Exited /\ ~replied
  /\ queue' = Append(queue, "reply") /\ replied' = TRUE
  /\ UNCHANGED <<pc, clock, t1, pollEnd, strays>>

Stop ==
  /\ pc \in Exited \/ clock = MaxTime
  /\ UNCHANGED vars

Next == Client \/ Tick \/ Inject \/ Reply \/ Stop

Spec == Init /\ [][Next]_vars /\ WF_vars(Client) /\ WF_vars(Tick)

-----------------------------------------------------------------------------
TypeOK ==
  /\ pc \in {"top", "rx", "poll"} \cup Exited
  /\ clock \in 0 .. MaxTime /\ t1 \in 0 .. MaxTime
  /\ pollEnd \in {-1} \cup 0 .. MaxTime + Tmo + UnitsPerMs
  /\ queue \in Seq({"stray", "reply"}) /\ Len(queue) <= MaxStray + 1
  /\ strays \in 0 .. MaxStray /\ replied \in BOOLEAN

(* Whatever the passes of the loop, the scheduling delays between reading  *)
(* t1 and polling and the rounding of the double, the tool never gives up  *)
(* more than half a millisecond before the budget tmo after t0: lround     *)
(* rounds the remaining budget to the nearest millisecond, never further.  *)
GiveUpWithinHalfMs ==
  pc = "nomeas" => clock >= Tmo - HalfMs

(* The spec (section 5): the caller re-polls with the remaining budget     *)
(* until a match or the timeout; no measurement only once tmo has passed.  *)
NoEarlyGiveUp ==
  pc = "nomeas" => clock >= Tmo

=============================================================================
