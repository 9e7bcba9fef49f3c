---------------------------- MODULE MCDnsServer ----------------------------
(* Model-checking instance of DnsServer: two threads that may both call every *)
(* operation, all queries of up to MaxLength bytes over a few bytes (the end  *)
(* of a name, labels, pointers to early positions), and packets that just do  *)
(* and just do not keep within each of the limits.                            *)
EXTENDS DnsServer

CONSTANT MaxLength

Bytes    == {0, 1, 2, 192}
Short    == {<<0>> \o p : p \in UNION {[1 .. n -> Bytes] : n \in 1 .. MaxLength - 1}}
AtLimits == {
    <<>>, <<1, 0, 9>>,                                           \* no query
    <<0, 64, 9, 9>>,                                             \* reserved length
    <<0, 2, 9, 9, 1, 9, 0, 9>>, <<0, 2, 9, 9, 2, 9, 9, 0, 9>>,   \* name, packet
    <<0, 192, 3, 192, 5, 0, 9>>, <<0, 192, 3, 192, 5, 192, 7, 0>>}  \* jumps

MCPackets == Short \union AtLimits
=============================================================================
