------------------------------ MODULE MCIpFrag ------------------------------
(***************************************************************************)
(* Two datagrams to one host, one cut in several ways, one into halves.    *)
(***************************************************************************)
EXTENDS IpLayer

CONSTANTS d1, d2, h1

OneHost == [d \in Datagrams |-> h1]

\* Ways to cut a datagram of four units, as different routes would: overlaps
\* on either side, the same start, the same end, one fragment in another.
Routes == {<<0, 2>>, <<2, 4>>, <<0, 3>>, <<3, 4>>, <<1, 2>>, <<1, 3>>}
Halves == {<<0, 2>>, <<2, 4>>}
MixedCuts == [d \in Datagrams |-> IF d = d1 THEN Routes ELSE Halves]

\* Lengths around those of headers of 20 to 32 bytes.
MCCapLens == {19, 24, 32}
=============================================================================
