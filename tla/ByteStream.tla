----------------------------- MODULE ByteStream -----------------------------
(***************************************************************************)
(* What one direction of a reassembled connection promises to tcp_callback *)
(* (tcp.c, notify and the NIDS_CLOSE that follows a FIN): the sender's     *)
(* bytes in order, each once, the urgent ones left out, and the end of the *)
(* stream only when all of them were given.  Nothing is promised about how *)
(* far it gets.                                                            *)
(***************************************************************************)
EXTENDS Integers, Sequences, FiniteSets

CONSTANTS
  N,       \* the sender's bytes are 0..N-1
  Urgent   \* those that are not part of the stream

VARIABLES
  out,     \* the bytes given to tcp_callback
  ended    \* is the FIN effective

\* The bytes of the stream, in order.
Band   == (0..(N - 1)) \ Urgent
InBand == [k \in 1..Cardinality(Band) |->
             CHOOSE i \in Band : Cardinality({j \in Band : j <= i}) = k]

Init == out = <<>> /\ ended = FALSE

\* The next bytes, and perhaps the end.
Deliver ==
  /\ ~ended
  /\ \E k \in Len(out)..Len(InBand) : out' = SubSeq(InBand, 1, k)
  /\ ended' \in {FALSE, out' = InBand}

Spec == Init /\ [][Deliver]_<<out, ended>>
=============================================================================
