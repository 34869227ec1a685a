----------------------------- MODULE MCUdpServer -----------------------------
(* A small instance of UdpServer.                                          *)
EXTENDS UdpServer

\* Two hosts that use one port, and one of them another port too.
SomeClients == {[addr |-> "a", port |-> 1], [addr |-> "b", port |-> 1],
                [addr |-> "a", port |-> 2]}

\* Two for the threads, and one that a socket left open would take.
AnyFd == 0 .. 2

TheCollector == [addr |-> "gateway", port |-> 32764]

=============================================================================
