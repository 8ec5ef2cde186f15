------------------------------ MODULE TcpQueue ------------------------------
(***************************************************************************)
(* Reassembly of one direction of a connection in libnids (tcp.c): the     *)
(* window test of process_tcp, tcp_queue with its list of segments ahead   *)
(* of a gap, add_from_skb, the urgent byte, prune_queue, handle_ack.       *)
(*                                                                         *)
(* The sender's bytes are numbered 0..N-1 and a byte is its number, so     *)
(* "out", what tcp_callback was given, says which bytes came through.      *)
(* On the wire a number is Seq(i), of W bits: before, after and EXP_SEQ    *)
(* only ever see that.  The wire loses (the sniffer's queue drops packets, *)
(* PAWS rejects them), repeats, reorders and re-segments.                  *)
(***************************************************************************)
EXTENDS Sums, FiniteSets, SequencesExt

CONSTANTS
  Mod,        \* 2^W, the code's 2^32
  Isn,        \* first_data_seq
  N,          \* bound: bytes the sender sends; its FIN has number N
  Window,     \* rcv->window * rcv->wscale
  MaxLen,     \* bound: bytes in a segment
  RmemLimit,  \* the code's 65535
  Urgent      \* the numbers of the urgent bytes

ASSUME TcpQueueAssumption ==
  /\ Mod \in Nat /\ Isn \in 0..(Mod - 1) /\ Mod % 2 = 0
  /\ {N, Window, MaxLen, RmemLimit} \subseteq Nat
  /\ 2 * Window + MaxLen + 1 < Mod \div 2
  /\ Urgent \subseteq 0..(N - 1) /\ Cardinality(Urgent) <= 1

Half == Mod \div 2

VARIABLES
  half,   \* struct half_stream of the receiver, out, and the sender's state
  ack,    \* the number behind rcv->ack_seq
  got     \* the bytes let through and not purged from the list (not in the code)

vars == <<half, ack, got>>

Number(i) == (Isn + i) % Mod

\* before, after: (int) of the 32-bit difference is negative.
before(a, b) == (a - b) % Mod >= Half
after(a, b) == before(b, a)

EXP_SEQ(h) == (Isn + h.count + h.urg_count) % Mod

\* What a segment says: the first byte, the length, FIN, and the urgent
\* byte it points at, if any.
Segments == [pos : 0..N, len : 0..MaxLen, fin : 0..1, urg : SUBSET Urgent]

seq(p) == Number(p.pos)
End(p) == seq(p) + p.len + p.fin

\* add2buf and notify: bytes from..to-1 of the segment reach tcp_callback,
\* which reads all of them.
add2buf(h, p, from, to) ==
  [h EXCEPT !.count = @ + (to - from),
            !.out   = @ \o [k \in 1..(to - from) |-> p.pos + from + k - 1]]

\* The urgent pointer of a segment, if the stream has not passed it, and the
\* one remembered, whichever is later.
NoteUrgent(h, p) ==
  LET up == Number(CHOOSE u \in p.urg : TRUE)
  IN  IF p.urg # {} /\ after(up, EXP_SEQ(h) - 1) /\ (h.urg_seen => after(up, h.urg_ptr))
        THEN [h EXCEPT !.urg_seen = TRUE, !.urg_ptr = up]
        ELSE h

\* Mutant: the urgent byte is not skipped in the numbering.
add_from_skb_uncounted(h0, p) ==
  LET h    == NoteUrgent(h0, p)
      lost == (EXP_SEQ(h) - seq(p)) % Mod
      u    == (h.urg_ptr - seq(p)) % Mod
      inside == /\ h.urg_seen /\ after(h.urg_ptr + 1, seq(p) + lost)
                /\ before(h.urg_ptr, seq(p) + p.len)
      h1 == IF inside
              THEN [add2buf(add2buf(h, p, lost, u), p, u + 1, p.len) EXCEPT !.urg_seen = FALSE]
              ELSE add2buf(h, p, lost, p.len)
  IN  IF p.fin = 1 THEN [h1 EXCEPT !.state = "FIN_SENT"] ELSE h1

\* add_from_skb: the part of a segment that is new.  The urgent byte is
\* taken out of the stream (collect_urg is 0: no callback).
add_from_skb(h0, p) ==
  LET h    == NoteUrgent(h0, p)
      lost == (EXP_SEQ(h) - seq(p)) % Mod
      u    == (h.urg_ptr - seq(p)) % Mod
      inside == /\ h.urg_seen /\ after(h.urg_ptr + 1, seq(p) + lost)
                /\ before(h.urg_ptr, seq(p) + p.len)
      h1 == IF inside
              THEN [add2buf(add2buf(h, p, lost, u), p, u + 1, p.len)
                      EXCEPT !.urg_seen = FALSE, !.urg_count = @ + 1]
              ELSE add2buf(h, p, lost, p.len)
  IN  IF p.fin = 1 THEN [h1 EXCEPT !.state = "FIN_SENT"] ELSE h1

\* A segment with anything the stream does not have.
New(h, p) == after(End(p), EXP_SEQ(h))

truesize(p) == p.len + 1

\* Mutant: a dequeued segment stays on the account.
Dequeue_unpaid(h) ==
  IF after(seq(Head(h.list)), EXP_SEQ(h)) THEN h
  ELSE LET x == Head(h.list)
       IN  [(IF New(h, x) THEN add_from_skb(h, x) ELSE h) EXCEPT !.list = Tail(@)]

\* One turn of the loop over the list; at a segment that is still ahead the
\* loop ends.
Dequeue(h) ==
  IF after(seq(Head(h.list)), EXP_SEQ(h)) THEN h
  ELSE LET x == Head(h.list)
       IN  [(IF New(h, x) THEN add_from_skb(h, x) ELSE h)
              EXCEPT !.list = Tail(@), !.rmem_alloc = @ - truesize(x)]

\* The loop: a turn for each member of the list, and none changes anything
\* behind the one that ends it.
Turns(h) ==
  LET turn[k \in 0..Len(h.list)] == IF k = 0 THEN h ELSE Dequeue(turn[k - 1])
  IN  turn
Drained(h) == Turns(h)[Len(h.list)]

\* A segment behind a gap: into the list, behind the last one that does not
\* start after it.
Enqueue(h, p) ==
  LET before_p == {k \in 1..Len(h.list) : ~after(seq(h.list[k]), seq(p))}
      at == IF before_p = {} THEN 1 ELSE Max(before_p) + 1
  IN  [h EXCEPT !.list = InsertAt(@, at, p), !.rmem_alloc = @ + truesize(p),
                !.state = IF p.fin = 1 THEN "CLOSING" ELSE @]

\* Mutant: the list is not looked at when a gap closes.
tcp_queue_nodrain(h, p) ==
  IF after(seq(p), EXP_SEQ(h)) THEN Enqueue(h, p)
  ELSE IF New(h, p) THEN add_from_skb(h, p)
  ELSE h

\* tcp_queue
tcp_queue(h, p) ==
  IF after(seq(p), EXP_SEQ(h)) THEN Enqueue(h, p)
  ELSE IF New(h, p) THEN Drained(add_from_skb(h, p))
  ELSE h

prune_queue(h) == [h EXCEPT !.list = <<>>, !.rmem_alloc = 0]

\* The window test of process_tcp: against what the receiver has
\* acknowledged, not against what the stream has.
InWindow(p) ==
  \/ p.len = 0 /\ seq(p) = Number(ack)
  \/ before(seq(p), Number(ack) + Window) /\ ~before(seq(p) + p.len, Number(ack))

\* What the sender may have on the wire: any cut of its bytes up to the
\* window, stale copies included.  A segment with the urgent byte points at
\* it, an earlier one may.
OnWire(p) ==
  /\ p.pos + p.len <= N /\ p.len + p.fin > 0
  /\ p.fin = 1 => p.pos + p.len = N
  /\ p.pos >= ack - 2 * Window /\ p.pos + p.len <= ack + Window + 1
  /\ \A u \in Urgent : /\ u \in p.pos..(p.pos + p.len - 1) => p.urg = {u}
                       /\ u \in p.urg => u >= p.pos

\* process_tcp with a segment of the sender.
Segment(p) ==
  /\ OnWire(p) /\ InWindow(p)
  /\ LET h == tcp_queue(half, p)
         full == h.rmem_alloc > RmemLimit
     IN  /\ half' = IF full THEN prune_queue(h) ELSE h
         /\ got' = IF full THEN 0..(h.count + h.urg_count - 1)
                           ELSE got \cup (p.pos..(p.pos + p.len - 1))
  /\ UNCHANGED ack

Rejected(p) == OnWire(p) /\ ~InWindow(p) /\ UNCHANGED vars

\* Mutant: an older acknowledgement takes the window back.
handle_ack_back(n) == IF n = ack THEN ack ELSE n

\* handle_ack: the signed difference is positive.
handle_ack(n) == IF (Number(n) - Number(ack)) % Mod \in 1..(Half - 1) THEN n ELSE ack

\* process_tcp with a segment of the receiver, the FIN (number N) included in
\* what it acknowledges at last.  It may acknowledge bytes the
\* sniffer never saw, and acknowledgements are reordered.
Acknowledge(n) ==
  /\ n \in (ack - Window)..(ack + Window)
  /\ ack' = handle_ack(n)
  /\ half' = [half EXCEPT !.state = IF @ = "FIN_SENT" THEN "FIN_CONFIRMED" ELSE @]
  /\ UNCHANGED got

Init ==
  /\ half = [count |-> 0, urg_count |-> 0, urg_seen |-> FALSE, urg_ptr |-> 0,
             list |-> <<>>, rmem_alloc |-> 0, out |-> <<>>, state |-> "ESTABLISHED"]
  /\ ack = 0 /\ got = {}

Next == (\E p \in Segments : Segment(p) \/ Rejected(p)) \/ (\E n \in 0..(N + 1) : Acknowledge(n))

Spec == Init /\ [][Next]_vars

-----------------------------------------------------------------------------
(* Properties.                                                             *)

\* Where the stream is.
Reached == half.count + half.urg_count

\* Type invariant.
TypeOK ==
  /\ half.count \in Nat /\ half.urg_count \in 0..Cardinality(Urgent)
  /\ half.list \in Seq(Segments) /\ half.rmem_alloc \in 0..(RmemLimit + MaxLen + 1)
  /\ half.out \in Seq(0..(N - 1)) /\ Len(half.out) = half.count
  /\ half.state \in {"ESTABLISHED", "CLOSING", "FIN_SENT", "FIN_CONFIRMED"}
  /\ ack \in 0..(N + 1) /\ got \subseteq 0..(N - 1)

\* Reassembly implements ByteStream: tcp_callback is given the sender's bytes,
\* in order and each once, the urgent byte left out, whatever was repeated,
\* overlapped, reordered, queued and purged, and although the numbers wrap; the
\* FIN takes effect only behind the last of them, and nothing follows it.
Stream == INSTANCE ByteStream WITH
            out <- half.out, ended <- half.state \in {"FIN_SENT", "FIN_CONFIRMED"}
DeliversStream == Stream!Spec

\* The list holds what lies behind a gap and is accounted for: sorted, each
\* member ahead of the stream, rmem_alloc the sum of the sizes.
ListSound ==
  /\ TypeOK
  /\ \A k \in 1..Len(half.list) : half.list[k].pos > Reached
  /\ \A k \in 2..Len(half.list) : half.list[k - 1].pos <= half.list[k].pos
  /\ half.rmem_alloc = SumOf([k \in 1..Len(half.list) |-> truesize(half.list[k])])

\* Reassembly against its definition: the stream has reached exactly the
\* first byte that was not let through.  And the states the teardown in
\* TcpStreams rests on: FIN_SENT and FIN_CONFIRMED are a stream that is
\* complete, and a FIN in the list is ahead of a gap.  (The converse fails:
\* the purge of a queued FIN leaves CLOSING behind.)
Reassembled ==
  /\ \A i \in 0..N : i = Reached <=> (i \notin got /\ 0..(i - 1) \subseteq got)
  /\ half.state \in {"FIN_SENT", "FIN_CONFIRMED"} => Reached = N
  /\ (\E k \in 1..Len(half.list) : half.list[k].fin = 1) => half.state = "CLOSING" /\ Reached < N

\* Bytes the receiver acknowledged and the sniffer missed are missed for
\* good: the stream stands still for the rest of the connection, although
\* acknowledgements and data arrive in any order.  (For the first 2^W bytes;
\* then the numbers come round and the stream goes on with the wrong lap.)
Gap == Reached + MaxLen < ack
GapIsFinal == [][Gap => Gap' /\ half'.out = half.out]_vars
=============================================================================
