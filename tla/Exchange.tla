------------------------------ MODULE Exchange ------------------------------
(***************************************************************************)
(* One run of ntimed-tool (src/testnet/ntimed/ntimed-tool.c, main()):      *)
(* build and pack a client request, send it, then loop: poll the socket    *)
(* with the remaining budget, receive a datagram, discard it unless it is  *)
(* 48 bytes, from the peer (SA_Equal) and echoes our transmit timestamp,   *)
(* and compute offset and delay from the first one that passes.            *)
(*                                                                         *)
(* The environment is the NTP server (whose clock is ahead of ours by      *)
(* theta ticks), a network that loses, duplicates, delays and reorders     *)
(* datagrams, and other senders whose stray datagrams land on our socket.  *)
(***************************************************************************)
EXTENDS NtpTimestamp, Sequences, FiniteSets

CONSTANTS
  Peers,        \* socket addresses getaddrinfo() may return for the server
  Addrs,        \* every socket address a datagram may come from
  Thetas,       \* offsets (ticks) of the server clock against ours
  StartTimes,   \* clock readings (ticks) at which the tool may start
  StrayLens,    \* lengths of stray datagrams
  MaxStray,     \* bound: stray datagrams injected in one run
  MaxDup,       \* bound: duplications performed by the network
  MaxTime,      \* bound: the clock horizon (ticks)
  KernelTsModes,\* whether recvmsg() supplies SCM_TIMESTAMP(NS): platforms
  SocketSets    \* families whose socket() succeeds: platforms

AF_INET  == "inet"
AF_INET6 == "inet6"

ASSUME /\ Peers \subseteq Addrs
       /\ \A a \in Addrs : a.fam \in {AF_INET, AF_INET6}
       /\ StrayLens \subseteq Nat
       /\ SocketSets \subseteq SUBSET {AF_INET, AF_INET6} /\ SocketSets # {}
       /\ MaxStray \in Nat /\ MaxDup \in Nat
       /\ KernelTsModes \subseteq BOOLEAN /\ KernelTsModes # {}
       \* every local and server instant stays inside one wire-era window
       /\ \A s \in StartTimes, th \in Thetas :
            /\ 0 <= s + th
            /\ MaxTime + th < SecMod * OneSecond
       /\ MaxTime < SecMod * OneSecond
       \* the horizon lies beyond every deadline of the receive loop
       /\ \A s \in StartTimes : s + OneSecond < MaxTime

BufSize == 128     \* char buf[128] in main()
NtpLen  == 48      \* the only length NTP_Packet_Unpack() accepts
Tmo     == OneSecond   \* double tmo = 1.0

Exited == {"measured", "nomeas", "failed"}

VARIABLES
  pc,         \* where main() is
  clock,      \* real time, in ticks
  theta,      \* server clock minus our clock
  peer,       \* ai->ai_addr
  kernelTs,   \* the platform delivers kernel receive timestamps
  socks,      \* families for which UdpTimedSocket() got a socket
  txTs,       \* tx_pkt->ntp_transmit after Pack
  t0,         \* t0 in main(): clock read just after sending
  pollStart,  \* clock when poll() was entered
  pollTmo,    \* the tmo_msec argument of that poll(), in ticks; -1 = none
  reqNet,     \* copies of our request in flight to the server
  srvQueue,   \* receive timestamps of requests the server has yet to answer
  inflight,   \* datagrams travelling to our socket
  sockq,      \* our socket's receive queue
  strays,     \* stray datagrams injected so far
  dups,       \* duplications done by the network so far
  acc,        \* the datagram that was accepted
  meas,       \* <<T1, T2, T3, T4>> of the accepted exchange
  tEnd        \* clock when the loop gave up without a measurement

vars == <<pc, clock, theta, peer, kernelTs, socks, txTs, t0, pollStart, pollTmo, reqNet,
          srvQueue, inflight, sockq, strays, dups, acc, meas, tEnd>>

NoDgram == [kind |-> "none"]
NoMeas  == <<>>
ZeroTs  == [sec |-> 0, frac |-> 0]

Dgram == [kind : {"reply", "stray"}, src : Addrs, len : Nat,
          origin : WireTs, rxw : WireTs, txw : WireTs, arr : 0 .. MaxTime]

-----------------------------------------------------------------------------
(* Mutations: plausible slips in the code, each of which some property     *)
(* below must detect.                                                      *)

\* SA_Equal() without the sin6_scope_id comparison.
SA_Equal_NoScope(s1, s2) ==
  /\ s1.fam = s2.fam
  /\ s1.port = s2.port /\ s1.addr = s2.addr

\* UdpTimedRx() taking its fallback timestamp before poll() instead of after.
RxStamp_AtPollEntry(m, now) == TB_Now(IF kernelTs THEN m.arr ELSE pollStart)

\* NTP_Packet_Pack() without the final ntp64_2ts() of the transmit field.
Send_NoRedecode ==
  /\ pc = "send"
  /\ txTs' = TB_Now(clock)
  /\ reqNet' = 1 /\ pc' = "loop" /\ t0' = clock
  /\ UNCHANGED <<socks, clock, theta, peer, kernelTs, pollStart, pollTmo, srvQueue,
                 inflight, sockq, strays, dups, acc, meas, tEnd>>

-----------------------------------------------------------------------------
(* SA_Equal(): same family and, for IPv4, same port and address; for IPv6  *)
(* also the same scope id.                                                 *)
SA_Equal(s1, s2) ==
  /\ s1.fam = s2.fam
  /\ \/ s1.fam = AF_INET  /\ s1.port = s2.port /\ s1.addr = s2.addr
     \/ s1.fam = AF_INET6 /\ s1.port = s2.port /\ s1.scope = s2.scope
                          /\ s1.addr = s2.addr

(* The tmo_msec that UdpTimedRx() passes to poll() for a budget of b: a    *)
(* budget of exactly 0.0 means "wait forever", a negative one "do not wait".*)
PollTimeout(b) == IF b = 0 THEN -1 ELSE IF b < 0 THEN 0 ELSE b

(* The timestamp UdpTimedRx() returns for datagram m received at time now: *)
(* the kernel's, when SCM_TIMESTAMP(NS) is delivered, else TB_Now().       *)
RxStamp(m, now) == TB_Now(IF kernelTs THEN m.arr ELSE now)

(* The formulas of the printf() in main(): twice the offset, and the delay.*)
Offset2(m) == TS_Diff(m[2], m[1]) + TS_Diff(m[3], m[4])
Delay(m)   == TS_Diff(m[4], m[1]) - TS_Diff(m[3], m[2])

-----------------------------------------------------------------------------
Init ==
  /\ pc = "setup"
  /\ socks \in SocketSets
  /\ clock \in StartTimes
  /\ theta \in Thetas
  /\ peer \in Peers
  /\ kernelTs \in KernelTsModes
  /\ txTs = ZeroTs
  /\ t0 = 0
  /\ pollStart = 0
  /\ pollTmo = 0
  /\ reqNet = 0
  /\ srvQueue = {}
  /\ inflight = {}
  /\ sockq = <<>>
  /\ strays = 0
  /\ dups = 0
  /\ acc = NoDgram
  /\ meas = NoMeas
  /\ tEnd = 0

(* UdpTimedSocket(): udp_sock() for each family (socket(), then the       *)
(* SO_TIMESTAMP(NS) option whose effect is kernelTs); when neither family *)
(* got a socket, the tool prints an error and exits with failure.         *)
UdpTimedSocket ==
  /\ pc = "setup"
  /\ pc' = IF socks = {} THEN "failed" ELSE "send"
  /\ UNCHANGED <<socks, clock, theta, peer, kernelTs, txTs, t0, pollStart, pollTmo,
                 reqNet, srvQueue, inflight, sockq, strays, dups, acc, meas, tEnd>>

(* Udp_Send(): sendto() on the socket of the peer's family; with no socket *)
(* of that family (fd -1) it fails, and sendto() may fail anyway.          *)
SendOk(fam) == fam \in socks

(* NTP_Tool_Client_Req(), NTP_Packet_Pack() (which stamps the transmit     *)
(* field with TB_Now(), encodes it, and decodes it back into tx_pkt),      *)
(* Udp_Send() (which fails when the socket of the family is missing or     *)
(* sendto() fails, and main() then exits), then TB_Now(&t0).              *)
Send ==
  /\ pc = "send"
  /\ LET wire == ts_2ntp64(TB_Now(clock)) IN
       /\ txTs' = ntp64_2ts(wire)
       /\ \/ /\ SendOk(peer.fam)
             /\ reqNet' = 1
             /\ pc' = "loop"
             /\ t0' = clock
          \/ /\ pc' = "failed"
             /\ UNCHANGED <<reqNet, t0>>
  /\ UNCHANGED <<socks, clock, theta, peer, kernelTs, pollStart, pollTmo, srvQueue, inflight,
                 sockq, strays, dups, acc, meas, tEnd>>

(* Top of the while loop: d = TS_Diff(t1, t0) and UdpTimedRx() up to the  *)
(* poll() call, with the budget tmo - d.                                   *)
LoopTop ==
  /\ pc = "loop"
  /\ pollStart' = clock
  /\ pollTmo' = PollTimeout(Tmo - TS_Diff(TB_Now(clock), TB_Now(t0)))
  /\ pc' = "poll"
  /\ UNCHANGED <<socks, clock, theta, peer, kernelTs, txTs, t0, reqNet, srvQueue, inflight,
                 sockq, strays, dups, acc, meas, tEnd>>

(* poll() returns 0: nothing arrived before tmo_msec elapsed; main()       *)
(* breaks out of the loop without a measurement.                           *)
PollExpire ==
  /\ pc = "poll"
  /\ sockq = <<>>
  /\ pollTmo # -1
  /\ clock >= pollStart + pollTmo
  /\ pc' = "nomeas"
  /\ tEnd' = clock
  /\ UNCHANGED <<socks, clock, theta, peer, kernelTs, txTs, t0, pollStart, pollTmo, reqNet,
                 srvQueue, inflight, sockq, strays, dups, acc, meas>>

(* poll() returns 1: UdpTimedRx() takes the timestamp and recvmsg()s the   *)
(* head of the queue; main() then breaks on rl <= 0 (an empty datagram)    *)
(* and on -1 (MSG_TRUNC: longer than buf), skips lengths other than 48,    *)
(* other senders and replies whose origin is not our transmit timestamp,  *)
(* and otherwise computes the measurement and stops.                       *)
Receive ==
  /\ pc = "poll"
  /\ sockq # <<>>
  /\ LET m  == Head(sockq)
         rx == ntp64_2ts(m.origin)
     IN
       /\ sockq' = Tail(sockq)
       /\ \/ /\ m.len = 0 \/ m.len > BufSize
             /\ pc' = "nomeas"
             /\ tEnd' = clock
             /\ UNCHANGED <<acc, meas>>
          \/ /\ m.len > 0 /\ m.len <= BufSize
             /\ \/ m.len # NtpLen
                \/ ~SA_Equal(peer, m.src)
                \/ TS_Diff(txTs, rx) # 0
             /\ pc' = "loop"
             /\ UNCHANGED <<acc, meas, tEnd>>
          \/ /\ m.len = NtpLen
             /\ SA_Equal(peer, m.src)
             /\ TS_Diff(txTs, rx) = 0
             /\ pc' = "measured"
             /\ acc' = m
             /\ meas' = <<txTs, ntp64_2ts(m.rxw), ntp64_2ts(m.txw),
                          RxStamp(m, clock)>>
             /\ UNCHANGED tEnd
  /\ UNCHANGED <<socks, clock, theta, peer, kernelTs, txTs, t0, pollStart, pollTmo, reqNet,
                 srvQueue, inflight, strays, dups>>

-----------------------------------------------------------------------------
(* Environment. *)

ServerNow == TB_Now(clock + theta)

(* The server receives a copy of our request and reads its clock (T2).     *)
ServerRecv ==
  /\ pc \notin Exited
  /\ reqNet > 0
  /\ reqNet' = reqNet - 1
  /\ srvQueue' = srvQueue \cup {ts_2ntp64(ServerNow)}
  /\ UNCHANGED <<socks, pc, clock, theta, peer, kernelTs, txTs, t0, pollStart, pollTmo,
                 inflight, sockq, strays, dups, acc, meas, tEnd>>

(* The server sends its reply, echoing our transmit field as origin and    *)
(* stamping its transmit field now (T3).                                   *)
ServerReply ==
  /\ pc \notin Exited
  /\ \E r \in srvQueue :
      /\ srvQueue' = srvQueue \ {r}
      /\ inflight' = inflight \cup
           {[kind |-> "reply", src |-> peer, len |-> NtpLen,
             origin |-> ts_2ntp64(txTs), rxw |-> r,
             txw |-> ts_2ntp64(ServerNow), arr |-> 0]}
      /\ UNCHANGED <<socks, pc, clock, theta, peer, kernelTs, txTs, t0, pollStart, pollTmo,
                     reqNet, sockq, strays, dups, acc, meas, tEnd>>

(* A datagram reaches our socket (in any order); with a budget left the   *)
(* network may also keep a copy, delivering it twice.                      *)
Deliver ==
  /\ pc \notin Exited
  /\ \E m \in inflight :
      /\ sockq' = Append(sockq, [m EXCEPT !.arr = IF kernelTs THEN clock ELSE 0])
      /\ \/ inflight' = inflight \ {m} /\ UNCHANGED dups
         \/ dups < MaxDup /\ dups' = dups + 1 /\ UNCHANGED inflight
      /\ UNCHANGED <<socks, pc, clock, theta, peer, kernelTs, txTs, t0, pollStart, pollTmo,
                     reqNet, srvQueue, strays, acc, meas, tEnd>>

(* The network duplicates our request or loses a datagram.                 *)
DupRequest ==
  /\ pc \notin Exited
  /\ reqNet > 0 /\ dups < MaxDup
  /\ reqNet' = reqNet + 1 /\ dups' = dups + 1
  /\ UNCHANGED <<socks, pc, clock, theta, peer, kernelTs, txTs, t0, pollStart, pollTmo,
                 srvQueue, inflight, sockq, strays, acc, meas, tEnd>>

Lose ==
  /\ pc \notin Exited
  /\ \/ reqNet > 0 /\ reqNet' = reqNet - 1 /\ UNCHANGED inflight
     \/ \E m \in inflight : inflight' = inflight \ {m} /\ UNCHANGED reqNet
  /\ UNCHANGED <<socks, pc, clock, theta, peer, kernelTs, txTs, t0, pollStart, pollTmo,
                 srvQueue, sockq, strays, dups, acc, meas, tEnd>>

(* Some other sender's datagram lands on our socket: from another address  *)
(* of the peer's family, with any origin (even ours), or from the peer's   *)
(* own address with an origin one fractional unit off ours (an off-path    *)
(* sender cannot know our transmit timestamp).                             *)
StrayOrigins(w) ==
  {w, [w EXCEPT !.frac = (@ + 1) % 2^WireFracBits]}

Inject ==
  /\ pc \notin {"setup", "send"} \cup Exited
  /\ strays < MaxStray
  /\ \E src \in {a \in Addrs : a.fam = peer.fam}, len \in StrayLens,
        o \in StrayOrigins(ts_2ntp64(txTs)) :
       /\ src = peer => o # ts_2ntp64(txTs)
       /\ sockq' = Append(sockq, [kind |-> "stray", src |-> src, len |-> len,
                                  origin |-> o, rxw |-> o, txw |-> o,
                                  arr |-> IF kernelTs THEN clock ELSE 0])
  /\ strays' = strays + 1
  /\ UNCHANGED <<socks, pc, clock, theta, peer, kernelTs, txTs, t0, pollStart, pollTmo,
                 reqNet, srvQueue, inflight, dups, acc, meas, tEnd>>

(* Time passes, up to the horizon of the model.                            *)
Tick ==
  /\ pc \notin {"setup", "send"} \cup Exited
  /\ clock < MaxTime
  /\ clock' = clock + 1
  /\ UNCHANGED <<socks, pc, theta, peer, kernelTs, txTs, t0, pollStart, pollTmo, reqNet,
                 srvQueue, inflight, sockq, strays, dups, acc, meas, tEnd>>

(* The process has exited; what the network does afterwards is of no      *)
(* interest, so the model stops. At the horizon it stops as well.          *)
Stop ==
  /\ pc \in Exited \/ clock = MaxTime
  /\ UNCHANGED vars

Client == UdpTimedSocket \/ Send \/ LoopTop \/ PollExpire \/ Receive

Environment == ServerRecv \/ ServerReply \/ Deliver \/ DupRequest \/ Lose
               \/ Inject \/ Tick

Next == Client \/ Environment \/ Stop

(* The tool is a single thread that runs whenever it can, and time does    *)
(* not stop; nothing is assumed of the network or of the server.           *)
Fairness == WF_vars(Client) /\ WF_vars(Tick)

Spec == Init /\ [][Next]_vars /\ Fairness

-----------------------------------------------------------------------------
(* Properties. *)

TypeOK ==
  /\ pc \in {"setup", "send", "loop", "poll"} \cup Exited
  /\ socks \subseteq {AF_INET, AF_INET6}
  /\ clock \in 0 .. MaxTime
  /\ theta \in Thetas /\ peer \in Peers /\ kernelTs \in BOOLEAN
  /\ txTs \in MemTs /\ t0 \in 0 .. MaxTime
  /\ pollStart \in 0 .. MaxTime /\ pollTmo \in -1 .. Tmo
  /\ reqNet \in 0 .. (MaxDup + 1)
  /\ srvQueue \subseteq WireTs
  /\ inflight \subseteq Dgram
  /\ sockq \in Seq(Dgram)
  /\ strays \in 0 .. MaxStray /\ dups \in 0 .. MaxDup
  /\ acc \in Dgram \cup {NoDgram}
  /\ meas \in {NoMeas} \cup (MemTs \X MemTs \X MemTs \X MemTs)
  /\ tEnd \in 0 .. MaxTime

(* Anti-spoofing (SA_Equal plus the origin check in main()): the tool only *)
(* ever measures with a datagram that the server sent in answer to this    *)
(* run's request, never with one from another port, scope id or host, nor  *)
(* with one whose origin differs from our transmit timestamp.              *)
AcceptsOnlyReply == pc = "measured" => acc.kind = "reply"

(* The correlator never throws away the genuine reply: when main() takes   *)
(* the server's answer off the socket, it accepts it (the round-trip of    *)
(* the transmit field in NTP_Packet_Pack() makes exact equality work).     *)
ReplyNeverDiscarded ==
  [][(pc = "poll" /\ sockq # <<>> /\ Head(sockq).kind = "reply"
      /\ sockq' = Tail(sockq)) => pc' = "measured"]_vars

(* The loop gives up without a measurement only once the one-second budget *)
(* since t0 is spent (spec: stray datagrams are discarded and receiving    *)
(* continues until the timeout elapses).                                   *)
NoEarlyGiveUp == pc = "nomeas" => tEnd >= t0 + Tmo

(* Refinement: main() implements the abstract promise of ExchangeAbstract: *)
(* it waits, then stops once, failed, without a measurement, or with a     *)
(* measurement whose printed offset is within half the printed delay of    *)
(* the true clock offset theta, up to the truncation of the server's       *)
(* receive timestamp to the wire fraction: -delay - 2u < 2*offset - 2*theta *)
(* <= delay. This needs T1 to be what the server echoed, T4 to be taken no *)
(* earlier than the reply arrived, and all wire seconds to be decoded      *)
(* consistently with the local clock across the NTP era boundary. pc is    *)
(* collapsed to the abstract status, and the printed pair (twice the      *)
(* offset, the delay) is the result.                                       *)
Abs == INSTANCE ExchangeAbstract WITH
         status <- IF pc \in Exited THEN pc ELSE "waiting",
         result <- IF pc = "measured" THEN <<Offset2(meas), Delay(meas)>>
                                      ELSE <<>>,
         Slack  <- 2 * WireUnit

ImplementsAbstract == Abs!Spec

(* Once the server's reply sits in the socket queue, the tool measures:    *)
(* poll() cannot time out with data queued, even with the budget spent     *)
(* (a negative budget is poll(0)), and main() skips any short, foreign or  *)
(* stale datagram ahead of it and then accepts the reply.                  *)
QueuedReplyMeasured ==
  (\E i \in 1 .. Len(sockq) : sockq[i].kind = "reply") ~> (pc = "measured")

(* Every run of the tool ends: with a measurement, with none after the     *)
(* timeout, or with a failure (spec: a budget <= 0 never blocks).          *)
Termination == <>(pc \in Exited)

=============================================================================
