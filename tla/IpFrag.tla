------------------------------- MODULE IpFrag -------------------------------
(***************************************************************************)
(* IP defragmentation in libnids (ip_fragment.c), which every captured     *)
(* packet passes before process_tcp: a queue of fragments per datagram, a  *)
(* host entry with the memory its queues take, one list of timers.         *)
(*                                                                         *)
(* A datagram is its key (addresses, protocol, ip_id); its payload is the  *)
(* units 0..Size-1 and a unit is its number.  Fragments come lost, doubled, *)
(* in any order and cut in more than one way, as different routes cut them. *)
(***************************************************************************)
EXTENDS Integers, Sequences, FiniteSets, SequencesExt, Sums

CONSTANTS
  Datagrams, Hosts,
  HostOf,             \* the destination of a datagram
  Size,               \* units in a datagram
  CutsOf,             \* the fragments that occur: <<first unit, end>>
  IPFRAG_HIGH_THRESH, IPFRAG_LOW_THRESH,
  IP_FRAG_TIME,
  Half,               \* an int holds -Half..Half-1; the code's 2^31 ms
  MaxNow              \* bound: the clock runs to MaxNow

ASSUME IpFragAssumption ==
  /\ HostOf \in [Datagrams -> Hosts]
  /\ \A d \in Datagrams : \A c \in CutsOf[d] :
       c[1] \in 0..(c[2] - 1) /\ c[2] \in 1..Size /\ c # <<0, Size>>
  /\ {Size, MaxNow, IP_FRAG_TIME, IPFRAG_LOW_THRESH} \subseteq Nat /\ Half \in Nat \ {0}
  /\ IPFRAG_HIGH_THRESH \in Nat /\ IPFRAG_LOW_THRESH <= IPFRAG_HIGH_THRESH

VARIABLES
  tab,    \* hosts, ip_frag_mem, ipqueue of each host, queues, timers
  now,    \* milliseconds since time0
  out     \* what the last packet made ip_defrag return, or none

vars == <<tab, now, out>>

None == <<>>

Queued(t) == DOMAIN t.q

\* jiffies and the sums made with it are ints.
Int32(x) == ((x + Half) % (2 * Half)) - Half
jiffies == Int32(now)

\* sizeof(struct ipq) and the header, sizeof(struct ipfrag), skb->truesize.
sizeof_ipq == 2
sizeof_ipfrag == 1
truesize(c) == c[2] - c[1]

\* What one fragment takes, and all of a queue.
Charge(x) == sizeof_ipfrag + x.truesize
Charges(frags) == SumOf([k \in 1..Len(frags) |-> Charge(frags[k])])

-----------------------------------------------------------------------------
(* Queues, hosts and timers.                                               *)

\* hostfrag_find, hostfrag_create
hostfrag(t, h) == [t EXCEPT !.hosts = @ \cup {h}]

\* Mutant: the queue descriptor stays on the account.
ip_free_unpaid(t, d) ==
  LET h == HostOf[d]
      left == RemoveFirst(t.ipqueue[h], d)
  IN  [t EXCEPT !.timers = RemoveFirst(@, d), !.ipqueue[h] = left,
                !.hosts = IF left = <<>> THEN @ \ {h} ELSE @,
                !.ip_frag_mem[h] = IF left = <<>> THEN 0
                                   ELSE @ - Charges(t.q[d].fragments),
                !.q = [x \in Queued(t) \ {d} |-> t.q[x]]]

\* ip_free: with its last queue the host entry goes (rmthis_host), and the
\* account with it.
ip_free(t, d) ==
  LET h == HostOf[d]
      left == RemoveFirst(t.ipqueue[h], d)
  IN  [t EXCEPT !.timers = RemoveFirst(@, d), !.ipqueue[h] = left,
                !.hosts = IF left = <<>> THEN @ \ {h} ELSE @,
                !.ip_frag_mem[h] = IF left = <<>> THEN 0
                                   ELSE @ - Charges(t.q[d].fragments) - sizeof_ipq,
                !.q = [x \in Queued(t) \ {d} |-> t.q[x]]]

\* ip_expire frees the queue at the head of the timer list if it has expired.
ip_expire(t) ==
  IF t.timers # <<>> /\ t.q[Head(t.timers)].expires < jiffies
    THEN ip_free(t, Head(t.timers)) ELSE t

\* ip_defrag_stub, first loop: a turn for each timer there is.
Expire(t) ==
  LET turn[k \in 0..Len(t.timers)] == IF k = 0 THEN t ELSE ip_expire(turn[k - 1])
  IN  turn[Len(t.timers)]

\* ip_evictor frees the head of ipqueue as long as the host is over the low
\* mark: a turn for each queue there is.
Evict(t, h) ==
  IF h \in t.hosts /\ t.ip_frag_mem[h] > IPFRAG_LOW_THRESH
    THEN ip_free(t, Head(t.ipqueue[h])) ELSE t

ip_evictor(t, h) ==
  LET turn[k \in 0..Len(t.ipqueue[h])] == IF k = 0 THEN t ELSE Evict(turn[k - 1], h)
  IN  turn[Len(t.ipqueue[h])]

\* "Start by cleaning up the memory."
CleanUp(t, h) ==
  IF t.ip_frag_mem[h] > IPFRAG_HIGH_THRESH THEN ip_evictor(t, h) ELSE t

\* A new queue, without fragments.
NewQueue ==
  [len |-> 0, header |-> -1, fragments |-> <<>>, expires |-> Int32(jiffies + IP_FRAG_TIME),
   seen |-> now, have |-> {}]

\* ip_create: a queue at the head of ipqueue, a timer at the tail of the list.
ip_create(t, d) ==
  LET h == HostOf[d]
  IN  [t EXCEPT !.ip_frag_mem[h] = @ + sizeof_ipq,
                !.ipqueue[h] = <<d>> \o @,
                !.timers = Append(@, d),
                !.q = [x \in Queued(t) \cup {d} |-> IF x = d THEN NewQueue ELSE t.q[x]]]

\* Mutant: the timer keeps its place in the list.
Renew_inplace(t, d) ==
  [t EXCEPT !.q[d].expires = Int32(jiffies + IP_FRAG_TIME), !.q[d].seen = now]

\* "keep restarting its timer as long as we still are receiving fragments"
Renew(t, d) ==
  [t EXCEPT !.timers = Append(RemoveFirst(@, d), d),
            !.q[d].expires = Int32(jiffies + IP_FRAG_TIME), !.q[d].seen = now]

\* ip_defrag up to the fragment itself: the queue it belongs to.  The header
\* is the one of the fragment the queue began with or of the first one.
Entry(t, d, offset) ==
  LET h  == HostOf[d]
      t1 == hostfrag(CleanUp(hostfrag(Expire(t), h), h), h)
      t2 == IF d \in Queued(t1) THEN Renew(t1, d) ELSE ip_create(t1, d)
  IN  IF offset = 0 \/ d \notin Queued(t1) THEN [t2 EXCEPT !.q[d].header = offset] ELSE t2

-----------------------------------------------------------------------------
(* A queue of fragments.  ptr is the unit the fragment's data begins with. *)

\* Mutant: the data pointer is left behind.
Trim_ptr(x, i) == [x EXCEPT !.len = @ - i, !.offset = @ + i]

Trim(x, i) == [x EXCEPT !.len = @ - i, !.offset = @ + i, !.ptr = @ + i]

\* Mutant: an overlapped successor is always removed.
Cut_removes(end, a, x) ==
  IF a.over \/ x.offset >= end
    THEN [a EXCEPT !.over = TRUE, !.next = Append(@, x)]
    ELSE [a EXCEPT !.next = <<>>, !.freed = @ + Charge(x)]

\* One turn of the loop over the successors that the new fragment overlaps.
\* a.next is the list from the pointer "next" on; the overlap is measured
\* from it, not from the successor at hand.
Cut(end, a, x) ==
  LET i == end - (IF a.next = <<>> THEN x.offset ELSE a.next[1].offset)
      y == Trim(x, i)
  IN  IF a.over \/ x.offset >= end
        THEN [a EXCEPT !.over = TRUE, !.next = Append(@, x)]
        ELSE IF y.len <= 0
          THEN [a EXCEPT !.next = <<>>, !.freed = @ + Charge(x)]
          ELSE [a EXCEPT !.next = Append(@, y)]

\* The loop.
Cuts(end, frags) ==
  LET turn[k \in 0..Len(frags)] ==
        IF k = 0 THEN [over |-> FALSE, next |-> <<>>, freed |-> 0]
                 ELSE Cut(end, turn[k - 1], frags[k])
  IN  turn[Len(frags)]

\* The new fragment in its place: its front is trimmed by its predecessor,
\* its successors by it.
Insert(frags, c) ==
  LET at   == SelectInSeq(frags, LAMBDA x : x.offset >= c[1])
      k    == IF at = 0 THEN Len(frags) ELSE at - 1
      i    == IF k > 0 /\ c[1] < frags[k].end THEN frags[k].end - c[1] ELSE 0
      a    == Cuts(c[2], SubSeq(frags, k + 1, Len(frags)))
      new  == Trim([offset |-> c[1], end |-> c[2], len |-> c[2] - c[1], ptr |-> c[1],
                    truesize |-> truesize(c)], i)
  IN  [fragments |-> SubSeq(frags, 1, k) \o <<new>> \o a.next,
       charged |-> Charge(new) - a.freed]

\* ip_done: the last fragment was seen and each begins where the one before
\* it ends, at the latest.
ip_done(qp) ==
  /\ qp.len # 0
  /\ \A k \in 1..Len(qp.fragments) :
       qp.fragments[k].offset <= IF k = 1 THEN 0 ELSE qp.fragments[k - 1].end

\* ip_glue: each fragment is copied to its offset; a list with a fragment of
\* negative length, or beyond the end, is thrown away.
ip_glue(d, qp) ==
  LET fs == qp.fragments
      bad == \E k \in 1..Len(fs) : fs[k].len < 0 \/ fs[k].offset + fs[k].len > qp.len
      at(i) == {k \in 1..Len(fs) : i \in fs[k].offset..(fs[k].offset + fs[k].len - 1)}
  IN  IF bad THEN None
      ELSE [datagram |-> d, header |-> qp.header,
            count |-> SumOf([k \in 1..Len(fs) |-> fs[k].len]),
            data |-> [i \in 0..(qp.len - 1) |->
                        {fs[k].ptr + (i - fs[k].offset) : k \in at(i)}]]

-----------------------------------------------------------------------------
(* ip_defrag_stub with each kind of packet.                                *)

Fragment(d, c) ==
  LET t  == Entry(tab, d, c[1])
      r  == Insert(t.q[d].fragments, c)
      t1 == [t EXCEPT !.q[d].len = IF c[2] = Size THEN c[2] ELSE @,
                      !.q[d].fragments = r.fragments,
                      !.q[d].have = @ \cup (c[1]..(c[2] - 1)),
                      !.ip_frag_mem[HostOf[d]] = @ + r.charged]
      done == ip_done(t1.q[d])
  IN  /\ tab' = IF done THEN ip_free(t1, d) ELSE t1
      /\ out' = IF done THEN ip_glue(d, t1.q[d]) ELSE None
      /\ UNCHANGED now

\* "Attempt to construct an oversize packet": the queue is made or renewed,
\* the fragment is dropped.
OversizedFragment(d, c) ==
  /\ tab' = Entry(tab, d, c[1]) /\ out' = None
  /\ UNCHANGED now

\* The whole datagram: it replaces the fragments that are queued.
Whole(d) ==
  LET h == HostOf[d]
      t0 == Expire(tab)
      t  == IF h \in t0.hosts THEN CleanUp(t0, h) ELSE t0
  IN  /\ tab' = IF d \in Queued(t) THEN ip_free(t, d) ELSE t
      /\ out' = None
      /\ UNCHANGED now

Tick == now < MaxNow /\ now' = now + 1 /\ UNCHANGED <<tab, out>>

Init ==
  /\ tab = [hosts |-> {}, ip_frag_mem |-> [h \in Hosts |-> 0],
            ipqueue |-> [h \in Hosts |-> <<>>], q |-> <<>>, timers |-> <<>>]
  /\ now = 0 /\ out = None

Next == \/ \E d \in Datagrams :
             Whole(d) \/ \E c \in CutsOf[d] : Fragment(d, c) \/ OversizedFragment(d, c)
        \/ Tick

Spec == Init /\ [][Next]_vars

-----------------------------------------------------------------------------
(* Properties.                                                             *)

\* Type invariant.
TypeOK ==
  /\ tab.hosts \subseteq Hosts /\ Queued(tab) \subseteq Datagrams
  /\ tab.timers \in Seq(Datagrams) /\ tab.ip_frag_mem \in [Hosts -> Nat]
  /\ \A d \in Queued(tab) : /\ tab.q[d].len \in {0, Size} /\ tab.q[d].header \in 0..(Size - 1)
                            /\ tab.q[d].expires \in (-Half)..(Half - 1)
  /\ now \in 0..MaxNow

\* The structures describe the same queues through every way a fragment or a
\* queue is freed: each queue has one timer and one place in the list of its
\* host, a host entry exists exactly as long as it has a queue (qp->hf is never
\* dangling, ip_evictor never panics), and ip_frag_mem is what the queues of the
\* host take.  Eviction bounds that: a host is over the high mark by one queue
\* with one fragment at most.
QueuesSound ==
  /\ TypeOK
  /\ ToSet(tab.timers) = Queued(tab) /\ Len(tab.timers) = Cardinality(Queued(tab))
  /\ \A h \in Hosts :
       /\ ToSet(tab.ipqueue[h]) = {d \in Queued(tab) : HostOf[d] = h}
       /\ Len(tab.ipqueue[h]) = Cardinality(ToSet(tab.ipqueue[h]))
       /\ h \in tab.hosts <=> tab.ipqueue[h] # <<>>
       /\ tab.ip_frag_mem[h] =
            SumOf([i \in 1..Len(tab.ipqueue[h]) |->
                     sizeof_ipq + Charges(tab.q[tab.ipqueue[h][i]].fragments)])
       /\ tab.ip_frag_mem[h] <= IPFRAG_HIGH_THRESH + sizeof_ipq + sizeof_ipfrag + Size

\* A packet that arrives now finds exactly the queues that were renewed in
\* the last IP_FRAG_TIME: the head of the timer list decides for all.  That
\* holds for as long as the millisecond clock and the timers fit an int; from
\* 30 seconds before 2^31 ms on queues expire at once or block the list.
ExpiresInTime ==
  now + IP_FRAG_TIME < Half =>
    \A d \in Queued(tab) : d \in Queued(Expire(tab)) <=> now - tab.q[d].seen <= IP_FRAG_TIME

\* What ip_glue builds is the datagram: every unit written, with its own
\* data, the length right, under the header of the first fragment.
GluedIsWhole ==
  out # None => /\ out.count = Size /\ out.header = 0
                /\ out.data = [i \in 0..(Size - 1) |-> {i}]

\* A datagram is glued as soon as nothing is missing, with one exception: a
\* fragment strictly inside an earlier one stays in the list with a negative
\* length, and ip_done mistakes its end for a gap.
WaitsOnlyForMissing ==
  \A d \in Queued(tab) : tab.q[d].have = 0..(Size - 1) =>
    \E k \in 1..Len(tab.q[d].fragments) : tab.q[d].fragments[k].len < 0
=============================================================================
