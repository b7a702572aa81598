# TLA+ models of scion-time's NTP probe and SHM poller

This directory holds TLA+ models of the two C programs in the repository and
the TLC configurations that check them:

- `src/testnet/ntimed/ntimed-tool.c`: a one-shot NTP client. It sends one
  request, waits up to one second for the reply, and prints the clock offset
  and round-trip delay.
- `src/misc/shmc/shmc.c`: a diagnostic poller of the ntpd/chrony SHM
  reference-clock segment.

## 1. Inventory

### Components of ntimed-tool.c

| Component | Code | State it keeps | Operations |
|---|---|---|---|
| Timestamp | `struct timestamp`, `TS_Nanosec`, `kt_now`/`TB_Now`, `TS_Diff` | `sec` (uint64), `frac` (uint64, units of 2^-64 s) | read the clock; subtract |
| Wire conversions | `Be16/32enc/dec`, `ntp64_2ts`, `ts_2ntp64`, `ntp32_2ts`, `ts_2ntp32`, `NTP_UNIX` | none | the 32.32 and 16.16 fixed-point formats; the 1900/1970 epoch shift, done in 32-bit unsigned arithmetic |
| Packet codec | `struct ntp_packet`, `NTP_Tool_Client_Req`, `NTP_Packet_Pack`, `NTP_Packet_Unpack` | the packet record (`tx_pkt`, `rx_pkt`) and the shared `buf[128]` | build the request; pack it, which stamps the transmit field, encodes it and decodes it back into `tx_pkt`; unpack 48-byte datagrams (other lengths give NULL) |
| Transport shim | `udp_sock`, `UdpTimedSocket`, `UdpTimedRx`, `Udp_Send` | one IPv4 and one IPv6 socket, kernel receive queue | send; turn the remaining budget into a `poll()` timeout (0.0 means "forever", a negative budget means "don't wait"); `recvmsg()` with a kernel timestamp, or a `TB_Now()` fallback read after `poll()` returns; MSG_TRUNC gives -1 |
| Correlator and calculator | `SA_Equal`, the loop in `main()` | `t0`, `tx_pkt`, the socket address | skip datagrams that are not 48 bytes long, come from another address (family, port, address, and scope id for IPv6) or do not echo the transmit timestamp; compute `offset = ((T2-T1)+(T3-T4))/2` and `delay = (T4-T1)-(T3-T2)` |
| CLI | argument check, `getaddrinfo`, `printf` | none | I/O only |

The components call each other inside one thread. `main()` builds and packs
the request, sends it, and reads `t0`. Then it loops: read `t1`, call
`UdpTimedRx` with `tmo - (t1 - t0)`, and check each datagram that comes back.
The loop stops at the first datagram that passes the checks, or when
`UdpTimedRx` returns `<= 0`. Concurrency comes from the environment:
- the server's clock and reply;
- a network that loses, duplicates, delays and reorders datagrams;
- other senders, whose datagrams land on the same socket.

### Components of shmc.c

| Component | State | Operations |
|---|---|---|
| SHM segment (`struct shmTime`) | `mode`, `count`, `valid`, clock/receive timestamps in s/us/ns, `leap`... shared with an external refclock writer (gpsd, a driver) | writer: fill fields, bump `count`, set `valid` |
| `shm_poll` | none | copy the segment, reject if invalid or if `count` changed during the copy (mode 1), clear `valid`, choose ns or us*1000 |

Here the hard part is shared memory without locks. `t = *shm` races with the
writer. The writer can also publish a new sample between the check and
`shm->valid = 0`.

### What is hard, and what makes each part correct

The hazards, each at its line, are listed in `PROJECT.json` under "hazards".
In short:
- the budget that becomes `poll(-1)` at exactly 0.0;
- a negative budget that still drains the queue;
- empty and oversized datagrams that end the loop;
- the re-decode of the transmit field, which makes exact comparison work;
- the 32-bit seconds wrap at the NTP era boundary (2036);
- spoofed, stray, duplicated and reordered datagrams;
- when the fallback receive timestamp is taken;
- the boundaries of the precision byte and the short format;
- the torn copy and the lost sample in the SHM poller.

Correctness of each part:
- Timestamp and codec: pack and unpack invert each other. The decoded origin
  equals the kept transmit timestamp exactly when the peer echoed it.
- Correlator: only the genuine reply to this request is accepted, and it is
  never rejected.
- Calculator: the printed offset is within half the printed delay of the
  true offset, up to the wire precision.
- Receive loop: it gives up only once the budget is spent, and it always ends.
- SHM poller: an accepted sample is one the writer actually published, and
  no published sample is cleared unread. This must also hold when the driver
  crashes and is restarted while the poller is copying. Once the driver
  stops, its last sample is printed.

## 2. Plan

1. `NtpTimestamp` (done): the timestamp and its 64-bit wire conversions, as
   operators.
2. `Exchange` (done): the whole run of `main()` with the transport shim,
   the server, the network and stray senders. This is the core: it is where
   the correlation, timeout and measurement hazards are.
3. `NtpPacket` (done): the codec as a state machine, from pack to the peer's
   reply to unpack.
4. `ShmPoll` (done): `shm_poll()` and `main()`'s poll loop against a
   refclock driver that writes the segment concurrently. It checks the
   torn copy in mode 1, the ns/us selection, and the lost sample.
5. `ExchangeAbstract` (done): the abstract promise of one probe. It waits,
   then stops exactly once: failed, without a measurement, or with one
   whose offset is within delay/2 of the truth. `Exchange` refines it
   through `Abs == INSTANCE ExchangeAbstract WITH ...`, checked as the
   PROPERTY `ImplementsAbstract`.
6. `Exchange` also has socket creation and a liveness property for a
   queued reply (done).
7. `ShmPoll` also has driver crashes and restarts (done). The restarted
   driver re-attaches the segment, with or without zero-filling it. A
   liveness property covers the quiescent driver.
8. `RecvBudget` (done): the loop's timing at 100 us resolution. It
   checks `lround` to milliseconds in `UdpTimedRx` (finding 5).
9. Left: `TS_Diff` in floating point for memory fractions. A driver that
   mixes ns-capable and legacy samples (stale ns fields) is also left; it
   matters only if both stale us values coincide (see section 5).

## 3. Modules

### NtpTimestamp

Operators only. The widths are scaled so that TLC can hold the values. Every
wrap and every truncation of the code is kept:

| Constant | Models |
|---|---|
| `FracBits` | the 64-bit memory fraction |
| `WireFracBits` | the 32-bit wire fraction |
| `SecBits` | the 32-bit wire seconds, whose arithmetic is modulo 2^32 |
| `NtpUnix` | `NTP_UNIX` |

- A local instant is an integer number of ticks of 2^-FracBits s.
- `TB_Now(t)` is `kt_now` and `TS_Nanosec`.
- `ts_2ntp64` adds `NtpUnix` and reduces the seconds modulo 2^SecBits, as
  the uint32 parameter of `Be32enc` does. It truncates the fraction.
- `ntp64_2ts` subtracts modulo 2^SecBits, as `Be32dec(ptr) - NTP_UNIX` does
  in unsigned arithmetic.
- `TS_Diff` is exact in ticks. The code's doubles are exact for fractions
  that came from the wire.

### Exchange

The variables map to the code as follows:
- `pc` is where `main()` is: `setup`, `send`, `loop`, `poll`, or one of the
  exits `measured`, `nomeas` (break without a measurement, exit 0) and
  `failed` (no socket, or `Udp_Send` failed, exit 1).
- `socks` is the set of families for which `udp_sock()` got a socket.
- `txTs` is `tx_pkt->ntp_transmit`, `t0` is `t0`, and `clock` is real time
  in ticks.
- `pollStart`/`pollTmo` are the pending `poll()` call; -1 means no timeout.
- `sockq` is the socket's receive queue, and `inflight` holds the datagrams
  on their way to it.
- `meas` is T1..T4 of the accepted reply, and `acc` is that datagram.

Actions of the program:

| Action | Code |
|---|---|
| `UdpTimedSocket` | `udp_sock()` for both families; exit when neither got a socket |
| `Send` | Client_Req + Pack (stamp, encode, decode back) + `Udp_Send` (`SendOk`: fails without a socket of the peer's family, and may fail anyway) + `TB_Now(&t0)` |
| `LoopTop` | read `t1`, compute `d`, and the budget → `tmo_msec` conversion of `UdpTimedRx` (`PollTimeout`) |
| `PollExpire` | `poll()` returns 0, and the loop breaks |
| `Receive` | `poll()` returns 1: take T4 (`RxStamp`), `recvmsg()` the head of the queue, then one of three disjuncts: break on 0 or MSG_TRUNC; skip on length, address or origin; accept and compute |

Actions of the environment:
- `ServerRecv`/`ServerReply`: the server stamps T2 on receipt and T3 on
  sending, with a clock `theta` ticks ahead of ours.
- `Deliver` (in any order, and possibly twice), `DupRequest` and `Lose`: the
  network.
- `Inject`: a stray datagram. It comes from another address of the peer's
  family with any origin, even ours. Or it comes from the peer's own address
  with an origin one unit off ours: an off-path sender cannot know our
  transmit timestamp.
- `Tick`: time passes.
- `Stop`: stuttering once the process has exited or the clock is at the
  horizon.

Fairness: `WF(Client)` and `WF(Tick)`. The tool is a single thread that runs
whenever it can, and time does not stop. Nothing is assumed of the server or
the network.

`Abs` instantiates `ExchangeAbstract` with this mapping:
- its `status` is `pc` when `pc` is an exit, and `waiting` otherwise;
- its `result` is `<<Offset2(meas), Delay(meas)>>` once measured;
- its `Slack` is two wire units.

### ExchangeAbstract

The promise of one probe, with variables `status`, `result` and `theta`,
and three actions `Fail`, `GiveUp` and `Measure`. A measurement `<<o, d>>`
is honest when `-d - Slack < o - 2*theta <= d`.

### ShmPoll

- `shm` is the shared segment: `mode`, `count`, `valid`, and each data
  field holding the number of the sample last stored into it.
- `t` is the local copy, `ci` the next field of the copy, and `rpc` where
  the poller is.
- `out`/`outCopy` are the last printed sample and the copy it came from.

Actions of the poller:

| Action | Code |
|---|---|
| `CopyField` | one field of `t = *shm`, in struct order (line 95) |
| `Check` | the test of lines 97-103 with the re-read of `shm->count` |
| `Clear` | `shm->valid = 0` (line 105), then the ns/us choice and print |
| `Sleep` | `sleep(5)` in `main()`'s loop |

The driver is the environment. It is not in this repository, and it
follows the SHM writer protocol as gpsd implements it:
1. `WStart`: set the mode and clear `valid`.
2. `WCount`: `count++`.
3. `WField`: the fields, one store each, in program order.
4. `WCount`: `count++` again.
5. `WValid`: set `valid`.

Each read and store of an `int` or `time_t` field is atomic, as on x86-64.

`WRestart` is the fault model: the driver dies at any point before it is
done, at most `MaxRestarts` times. A new instance re-attaches the segment,
which `shmget(IPC_CREAT)` lets any process do. It either leaves the segment
as it is or zero-fills it first. gpsd's segment allocation does the
memset, which is the choice `RestartZeroes = {TRUE}`. The new instance
then publishes its next sample. A sample cut off by the crash is never
published. `pub` records the samples whose `valid` a driver set.

Fairness: `WF` on the poller, which loops forever, and on the driver's
protocol steps. Crashes are left outside the fairness, as crash steps
usually are, so no run is forced to crash.

### RecvBudget

This module covers the timing of `main()`'s receive loop. It uses a clock
fine enough to see `UdpTimedRx`'s `lround(1e3 * tmo)`. Time counts
`UnitsPerMs` units per millisecond after `t0`, which is `TB_Now` after the
send. `Tmo` is the budget.

| Action | Code |
|---|---|
| `LoopTop` | `TB_Now(&t1)` and `d = TS_Diff(&t1, &t0)` (lines 656-658) |
| `PollEnter` | the call with `tmo - d`, and `PollTimeoutMs`: 0.0 gives -1, otherwise `lround`, clamped at 0 (lines 432-449) |
| `PollReady` | `poll()` returns 1. A stray datagram makes `main()` continue; the reply ends the loop (lines 660-690) |
| `PollExpire` | `poll()` returns 0, no earlier than its timeout, and `main()` breaks (lines 449-457) |

`RoundHalf` is `lround` of a whole number of units. At an exact half
millisecond, the double `1e3 * (tmo - d)` may land on either side, so both
neighbours are possible results. The environment has three actions:
- `Tick` lets time pass, including between reading `t1` and entering
  `poll()`, and past a timeout before `poll()` returns.
- `Inject` sends stray datagrams.
- `Reply` delivers the server's reply once, or never if it is lost.

`Exchange` decides which datagrams are accepted. Here a datagram is only
a stray or the reply.

### NtpPacket

The packet record and a field-by-field wire buffer:
- one-byte fields are kept as bytes, using `Bitwise` for the packing of
  byte 0;
- the short and long timestamps are kept as scaled fields;
- `ShortFracBits` models the 16-bit short fraction.

The actions:
- `BuildAndPack`: `NTP_Tool_Client_Req` and `NTP_Packet_Pack`, with its
  asserts.
- `UnpackReply`: any reply built from the given byte and timestamp sets,
  with any length. Length 48 is unpacked. Other lengths return NULL.

## 4. Runs

| Run | Config | Expect | What it shows |
|---|---|---|---|
| exchange_correlation | `MC_Exchange.cfg` | pass | `AcceptsOnlyReply`: only the server's reply to this request is ever measured. `ReplyNeverDiscarded`: when the genuine reply is taken off the queue, it is accepted. `ImplementsAbstract`: `main()` refines `ExchangeAbstract`, so it stops once, and a measurement satisfies `-delay - 2u < 2*offset - 2*theta <= delay` (u the wire unit). All hold with an IPv6 peer, with or without sockets, with strays (from another port, scope id or host with any origin, or from the peer with a wrong origin), with empty strays, with kernel or fallback timestamps, with duplication, loss and reordering, and across the era wrap. |
| exchange_queued_reply | `MC_Exchange_Budget.cfg` | pass | `QueuedReplyMeasured`: the reply is queued behind strays that the correlator skips (47 or 48 bytes, from anyone), with an IPv4 peer. The tool still measures it, even when the budget is spent, because `poll(0)` returns queued data. Whether the loop gives up early is checked at a resolution finer than a tick by `RecvBudget`. |
| recv_budget_rounding | `MC_RecvBudget.cfg` | pass | `GiveUpWithinHalfMs`: the tool never gives up more than half a millisecond before `tmo` after `t0`. This holds across any number of passes, scheduling delays, and the rounding of the double. Units are 100 us, the budget is 2.5 ms, and there are up to 2 strays. |
| recv_budget_early | `MC_RecvBudget_Early.cfg` | violation | `NoEarlyGiveUp` fails. In the shortest trace, a scheduling delay before the first `t1` read leaves 1.5 ms of budget. A stray datagram does the same on a later pass. `lround` gives `poll(1)`, so the tool gives up 0.5 ms early (finding 5). |
| exchange_early_exit | `MC_Exchange_EarlyExit.cfg` | violation | `NoEarlyGiveUp` fails: one empty or oversized datagram from anyone ends the loop at once (finding 2). |
| exchange_hang | `MC_Exchange_Hang.cfg` | violation | `Termination` fails: `t1` is read exactly one second after `t0`, the budget is 0.0, `poll(-1)` is called, and nothing more arrives (finding 1). |
| shm_poll | `MC_ShmPoll.cfg` | pass | `NoTornCopy`: every sample printed in mode 1 is one whole published sample. `PrintedMatchesSample`: an untorn sample is printed at the precision the driver wrote (ns, or us * 1000). Driver modes are 0, 1 or 2, with or without ns fields. |
| shm_restart | `MC_ShmPoll_Restart.cfg` | pass | The driver is in mode 0 or 1 and crashes once. Its restart keeps the segment. `NoTornCopy` still holds, because `count` only grows across the crashed writes. `QuiescentSampleRead`: once the driver has stopped with a sample published in mode 0 or 1, the next poll prints it whole. |
| shm_restart_aba | `MC_ShmPoll_ABA.cfg` | violation | `NoTornCopy` fails when the restart zero-fills the segment. `count` falls back to the value the copy read, so a copy mixing two writes passes the test of line 97 (finding 4). |
| shm_lost_sample | `MC_ShmPoll_Lost.cfg` | violation | `LastSampleRead` fails: the driver's last sample is published between the check and `shm->valid = 0`, and is never printed (finding 3). |
| codec_roundtrip | `MC_NtpPacket.cfg` | pass | `RequestRoundTrip`: the peer decodes exactly the `tx_pkt` we keep. `TransmitEcho`: the decoded origin equals our transmit timestamp iff the peer echoed its bytes. `ReplyRoundTrip`: any well-formed reply re-encodes to itself, including at precision bytes 127/128/255 and in the all-zero packet. |

Each property of a passing run has a mutant in `PROJECT.json`: a plausible
slip in the code that TLC then reports as a violation of that property. The
mutants are:
- no scope-id compare;
- T4 taken before `poll()`;
- no count comparison in `shm_poll()`;
- mode 0 dropped from the accepted modes;
- only the clock pair consulted for ns/us;
- no re-decode after Pack;
- the poll timeout truncated instead of rounded;
- the budget scaled to microseconds;
- no 32-bit truncation of the seconds;
- `mode` and `version` swapped in byte 0;
- the origin read from the reference offset;
- the short fraction not shifted;
- the int8 sign boundary off by one.

### Findings

1. **Hang at a budget of exactly zero** (`ntimed-tool.c:442`). `UdpTimedRx`
   maps `tmo == 0.0` to `poll(-1)`. `main()` passes `tmo - d`, which is
   exactly 0.0 when `t1` is read exactly one second after `t0`. This can
   happen after a discarded datagram or a scheduling delay. If nothing more
   arrives, the tool waits forever. The spec (section 8) says a budget ≤ 0
   returns at once.
2. **Stray datagrams end the exchange** (`ntimed-tool.c:475`, `480`, `662`).
   An empty datagram gives `rl == 0`, and one longer than 128 bytes gives -1
   through MSG_TRUNC. In both cases `main()` breaks out of the loop without a
   measurement. The spec (section 4.3) says such datagrams are discarded and
   receiving continues until the timeout.

3. **A sample published during `shm_poll()` is lost** (`shmc.c:105`).
   `shm->valid = 0` is written unconditionally after the check. A sample
   that the driver published after the copy loses its `valid` flag unread,
   although the struct comment clears `valid` for the values used.
4. **A driver restart defeats the count check** (`shmc.c:97`). In mode 1,
   `shm_poll()` trusts a copy when `t.count == shm->count`. The struct
   comment states this as "use values if count unchanged". But an
   unchanged count does not mean that nothing was written. Suppose a driver
   restarts while the poller is copying, and zero-fills the segment as
   gpsd does. Then `count` starts again from 0 and can return to the value
   the copy read. The shortest trace is 25 steps long, and in it the poller
   prints a mix of zeros and the first sample. This is a gap in the
   protocol: comparing `count` for equality is an ABA test.
5. **The budget is rounded to the nearest millisecond**
   (`ntimed-tool.c:445`). `lround(1e3 * tmo)` can round the remaining
   budget down. In that case `poll()` returns 0, and `main()` reports no
   measurement up to 0.5 ms before `tmo` has passed. A reply that arrives
   in that last half millisecond is never read. The spec (section 5) says
   to poll again with the remaining budget until a match or the timeout.
   The error is small and bounded, as `GiveUpWithinHalfMs` shows.

### Bounds, and why they are enough

- A tick is a quarter second: `FracBits = 2`, `WireFracBits = 1`. So wire
  truncation loses one bit, and clock readings with a discarded low bit
  occur. This is the case the re-decode exists for.
- `SecBits = 3` and `NtpUnix = 5`. The wire seconds wrap at local second 3
  (tick 12), and the runs start at tick 11 (10 or 11 in the violation runs) with a 1-second budget
  and a horizon of 16. So every run crosses the wrap, which models the 2036
  NTP era rollover.
- `theta ∈ {-3, 2}`: the server clock is behind or ahead.
- One stray datagram and one network duplication
  are enough for every check of the loop to be met. One stray can land
  ahead of, after, or at the same tick as the reply.
- The horizon exceeds every deadline of the loop (ASSUME). So a stop at the
  horizon while a `poll()` with a timeout is pending cannot occur. The only
  lasting stop is the `poll(-1)` of finding 1.
- SHM: two samples are enough for a copy to straddle them and for a sample
  to be published inside the check-to-clear window. Their us values
  include 0 and 999999, and their ns values agree with their us values.
  One restart is enough to cut a sample and to reset `count` in the
  middle of a copy.
- `RecvBudget`: 10 units per millisecond, so every remainder modulo a
  millisecond occurs, including the exact half. The budget is 2.5 ms: the
  code's 1 s matters only through the remainder that is left at each
  `poll()`. Up to two strays give the loop several passes with different
  remainders, and the clock runs 1.5 ms past the budget.
- Exact equality of the model's coarse ticks stands for the
  microsecond-exact equality in the code. It is rarer in reality, but just
  as reachable.

## 5. Not modelled, and why

- **Process and addresses**: argument parsing, `getaddrinfo` and output
  formatting are I/O. The resolved address is the constant set `Peers`.
- **Socket errors**: `poll()` failure (line 451) and `recvmsg()` errors
  other than MSG_TRUNC are not modelled. No signal handlers are installed,
  so only ENOMEM remains, and unconnected UDP sockets do not report ICMP
  errors.
- **Floating point**: `Exchange` abstracts `TS_Diff` in doubles and the
  `NANO_FRAC` scaling to exact tick arithmetic. `RecvBudget` models
  `lround` to milliseconds, with both results possible at an exact half.
  The numeric facts are these:
  - `NANO_FRAC * 999999999` is below 2^64, so `TS_Nanosec` cannot
    overflow.
  - Rounding the scale factor up changes the value by less than 0.02 ns.
  - A double holds the difference of two wire fractions, 32 bits each,
    exactly.

  These facts concern constants beyond TLC's 32-bit integers, and no
  interleaving is involved.
- **Object tags**: the magic-number macros only assert type tags.
- **Reply header**: `main()` checks only the length, the source address
  and the origin. No header field is read before the reply is measured:
  not the stratum, not the leap indicator, not the mode. So `Exchange`
  carries none of them.
- **SHM**: `main()`'s `printf` of the layout is I/O. The driver's mode-0
  torn copy is allowed by the protocol, so no property asks for it. The
  32-bit `count` wrap needs 2^31 samples. Suppose a legacy driver follows an ns-capable
  one on the same segment. Its samples then keep the stale ns fields.
  Lines 110-111 pick those ns fields only if both stale ns values divided
  by 1000 equal the new us values. That is a coincidence of two
  microsecond values, and the model's two samples do not produce it.
