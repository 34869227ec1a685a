---------------------------- MODULE MCTcpServers ----------------------------
(* Small instances of TcpServers.                                          *)
EXTENDS TcpServers

CONSTANTS r, k, s, a, b

Trio   == {r, k, s}    \* Root, its kin, a slot to spare
Family == {k}
Pair   == {a, b}

=============================================================================
