---------------------------- MODULE MCTcpStreams ----------------------------
(* TcpStreams with interchangeable connections.                            *)
EXTENDS TcpStreams, TLC

CONSTANTS c1, c2, o1, o2

AllConns == {c1, c2, o1, o2}
InService == {c1, c2}
Plain == {c2, o1, o2}
Symmetry == Permutations({o1, o2})
=============================================================================
