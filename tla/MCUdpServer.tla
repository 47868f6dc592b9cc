---------------------------- MODULE MCUdpServer ----------------------------
(* Two clients of one host, and who sends to their sessions.               *)
EXTENDS UdpServer

CONSTANTS HostA, HostB

\* TLC's value for AddressOf
SameHost == [e \in 1..2 |-> HostA]

\* TLC's values for SendersOf
OwnHost   == [e \in 1..2 |-> {HostA}]
BothHosts == [e \in 1..2 |-> {HostA, HostB}]
=============================================================================
