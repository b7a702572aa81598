---------------------------- MODULE MC_Exchange ----------------------------
(***************************************************************************)
(* Instantiation of Exchange for TLC. A tick is a quarter second (two     *)
(* memory fraction bits), the wire keeps one fraction bit, the wire       *)
(* seconds field has three bits and NTP_UNIX is 5 mod 8, so the era of    *)
(* the wire seconds wraps at local second 3 = tick 12, inside the runs.   *)
(***************************************************************************)
EXTENDS Exchange

\* The server's address, and addresses that differ from it in one field.
Srv6      == [fam |-> AF_INET6, addr |-> "a1", port |-> 123, scope |-> 1]
Srv6Port  == [Srv6 EXCEPT !.port = 124]
Srv6Scope == [Srv6 EXCEPT !.scope = 2]
Srv6Host  == [Srv6 EXCEPT !.addr = "a2"]
Srv4      == [fam |-> AF_INET, addr |-> "a1", port |-> 123, scope |-> 0]
Srv4Port  == [Srv4 EXCEPT !.port = 124]
Srv4Host  == [Srv4 EXCEPT !.addr = "a2"]

MC_Addrs == {Srv6, Srv6Port, Srv6Scope, Srv6Host, Srv4, Srv4Port, Srv4Host}
MC_Peers6 == {Srv6}
MC_Peers4 == {Srv4}

\* Both sockets, only the IPv4 one (no IPv6 stack), or none.
MC_SocketSets == {{AF_INET, AF_INET6}, {AF_INET}, {}}

\* Server clock behind by three quarters of a second, or ahead by a half.
MC_Thetas == {-3, 2}
=============================================================================
