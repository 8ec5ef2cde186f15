---------------------------- MODULE TcpQueueProofs ----------------------------
(***************************************************************************)
(* Reassembly gives tcp_callback the sender's bytes, for every window,     *)
(* segment size, memory limit and order of arrival, and every stream       *)
(* shorter than the 2^W numbers: beyond that the numbers come round.       *)
(***************************************************************************)
EXTENDS TcpQueue, SumsProofs, FiniteSetTheorems, SequenceTheorems

-----------------------------------------------------------------------------
(* Numbers on the wire.                                                    *)

\* What the assumption says of the numbers.
LEMMA Widths ==
  /\ Mod \in Int /\ Half \in Int /\ Half > 1 /\ Mod = 2 * Half /\ Isn \in Int
  /\ N \in Nat /\ Window \in Nat /\ MaxLen \in Nat /\ RmemLimit \in Nat
  /\ 2 * Window + MaxLen + 1 < Half
  /\ Urgent \subseteq 0..(N - 1) /\ Cardinality(Urgent) <= 1
BY TcpQueueAssumption DEF Half

\* There is one urgent byte at most.
LEMMA OneUrgent == \A u, v \in Urgent : u = v
<1> SUFFICES ASSUME NEW u \in Urgent, NEW v \in Urgent, u # v PROVE FALSE
  OBVIOUS
<1>1. IsFiniteSet(Urgent) /\ Cardinality(Urgent) \in Nat
  <2>1. IsFiniteSet(0..(N - 1))
    BY Widths, FS_Interval
  <2> QED BY <2>1, Widths, FS_Subset, FS_CardinalityType
<1>2. Cardinality(Urgent \ {u}) = Cardinality(Urgent) - 1 /\ IsFiniteSet(Urgent \ {u})
  BY <1>1, FS_RemoveElement
<1>3. Cardinality(Urgent \ {u}) # 0
  BY <1>2, FS_EmptySet
<1>4. Cardinality(Urgent \ {u}) \in Nat
  BY <1>2, FS_CardinalityType
<1> QED BY <1>1, <1>2, <1>3, <1>4, Widths

\* A remainder is known by its range.
LEMMA Remainder ==
  ASSUME NEW x \in Int, NEW k \in Int, NEW d \in 0..(Mod - 1), x = Mod * k + d
  PROVE  x % Mod = d
<1>1. Mod \in Int /\ Mod > 0
  BY Widths
<1> DEFINE q == x \div Mod
           e == x % Mod
<1>2. q \in Int /\ e \in 0..(Mod - 1) /\ x = Mod * q + e
  BY <1>1
<1> HIDE DEF q, e
<1>3. Mod * (q - k) = d - e
  <2>1. Mod * (q - k) = Mod * q - Mod * k
    BY <1>1, <1>2
  <2> QED BY <1>1, <1>2, <2>1
<1>4. CASE q - k >= 1
  <2>1. Mod * (q - k) >= Mod
    BY <1>1, <1>2, <1>4
  <2> QED BY <1>1, <1>2, <1>3, <2>1
<1>5. CASE q - k <= -1
  <2>1. Mod * (q - k) <= -Mod
    BY <1>1, <1>2, <1>5
  <2> QED BY <1>1, <1>2, <1>3, <2>1
<1>6. CASE q = k
  BY <1>1, <1>2, <1>3, <1>6 DEF e
<1> QED BY <1>2, <1>4, <1>5, <1>6

\* a is the number i on the wire, whole turns aside.
Stands(a, i) == a \in Int /\ \E k \in Int : a = Isn + i + Mod * k

\* Number and sums with it stand for what they are computed from.
LEMMA NumberStands == \A i \in Int : Stands(Number(i), i)
<1> TAKE i \in Int
<1>1. Mod \in Int /\ Mod > 0 /\ Isn \in Int
  BY Widths
<1> DEFINE x == Isn + i
           q == x \div Mod
<1>2. x \in Int /\ q \in Int /\ x % Mod \in Int /\ x = Mod * q + (x % Mod)
  BY <1>1
<1>3. Number(i) = x % Mod
  BY DEF Number
<1>4. -q \in Int /\ Number(i) = x + Mod * (-q)
  <2> HIDE DEF x, q
  <2>1. Mod * (-q) = -(Mod * q)
    BY <1>1, <1>2
  <2> QED BY <1>1, <1>2, <1>3, <2>1
<1> HIDE DEF q
<1> QED BY <1>1, <1>2, <1>3, <1>4 DEF Stands

\* Adding on the wire adds to what the number stands for.
LEMMA StandsPlus ==
  ASSUME NEW i \in Int, NEW c \in Int, NEW a, Stands(a, i)
  PROVE  Stands(a + c, i + c)
<1>1. PICK k \in Int : a \in Int /\ a = Isn + i + Mod * k
  BY DEF Stands
<1> DEFINE m == Mod * k
<1>2. m \in Int /\ Isn \in Int
  BY Widths
<1>3. a + c = Isn + (i + c) + m
  <2> HIDE DEF m
  <2>1. a = Isn + i + m
    BY <1>1 DEF m
  <2> QED BY <1>1, <1>2, <2>1
<1> QED BY <1>1, <1>2, <1>3 DEF Stands

\* The difference of two numbers on the wire is the true one, where that is
\* less than a turn.
LEMMA Difference ==
  ASSUME NEW i \in Int, NEW j \in Int, NEW a, NEW b, Stands(a, i), Stands(b, j)
  PROVE  /\ a - b \in Int
         /\ (i - j) \in 0..(Mod - 1) => (a - b) % Mod = i - j
         /\ (i - j) \in (-Mod)..(-1) => (a - b) % Mod = (i - j) + Mod
<1>1. PICK k \in Int : a \in Int /\ a = Isn + i + Mod * k
  BY DEF Stands
<1>2. PICK l \in Int : b \in Int /\ b = Isn + j + Mod * l
  BY DEF Stands
<1>3. Mod \in Int /\ Isn \in Int
  BY Widths
<1>4. a - b \in Int /\ k - l \in Int /\ a - b = Mod * (k - l) + (i - j)
  <2> DEFINE m == Mod * k
             n == Mod * l
  <2>1. m \in Int /\ n \in Int /\ Mod * (k - l) = m - n
    BY <1>3
  <2> HIDE DEF m, n
  <2>2. a = Isn + i + m /\ b = Isn + j + n
    BY <1>1, <1>2 DEF m, n
  <2> QED BY <1>1, <1>2, <1>3, <2>1, <2>2
<1>5. (k - l) - 1 \in Int /\ a - b = Mod * ((k - l) - 1) + ((i - j) + Mod)
  <2> DEFINE m == k - l
  <2>1. m \in Int /\ Mod * (m - 1) = Mod * m - Mod /\ Mod * m \in Int
    BY <1>3
  <2> HIDE DEF m
  <2>2. a - b = Mod * m + (i - j)
    BY <1>4 DEF m
  <2>3. a - b = Mod * (m - 1) + ((i - j) + Mod)
    <3> DEFINE y == Mod * m
               z == Mod * (m - 1)
    <3>1. y \in Int /\ z = y - Mod
      BY <2>1
    <3>2. a - b = y + (i - j)
      BY <2>2
    <3> HIDE DEF y, z
    <3>3. a - b = z + ((i - j) + Mod)
      BY <1>3, <1>4, <3>1, <3>2
    <3> QED BY <3>3 DEF z
  <2> QED BY <2>1, <2>3 DEF m
<1>6. ASSUME (i - j) \in 0..(Mod - 1) PROVE (a - b) % Mod = i - j
  BY <1>4, <1>6, Remainder
<1>7. ASSUME (i - j) \in (-Mod)..(-1) PROVE (a - b) % Mod = (i - j) + Mod
  <2>1. (i - j) + Mod \in 0..(Mod - 1)
    BY <1>3, <1>7
  <2> QED BY <1>4, <1>5, <2>1, Remainder
<1> QED BY <1>4, <1>6, <1>7

\* before compares what the numbers stand for, where that differs by less
\* than half a turn; what is more than half a turn ahead looks behind.
LEMMA Before ==
  ASSUME NEW i \in Int, NEW j \in Int, NEW a, NEW b, Stands(a, i), Stands(b, j),
         (i - j) \in (-Mod)..(Half - 1)
  PROVE  before(a, b) <=> (i - j) \in (-Half)..(-1)
<1>1. Mod \in Int /\ Half \in Int /\ Half > 1 /\ Mod = 2 * Half
  BY Widths
<1>2. CASE (i - j) \in 0..(Half - 1)
  <2>1. (i - j) \in 0..(Mod - 1)
    BY <1>1, <1>2
  <2>2. (a - b) % Mod = i - j
    BY <2>1, Difference
  <2> QED BY <1>1, <1>2, <2>2 DEF before
<1>3. CASE (i - j) \in (-Mod)..(-1)
  <2>1. (a - b) % Mod = (i - j) + Mod
    BY <1>3, Difference
  <2> QED BY <1>1, <1>3, <2>1 DEF before
<1> QED BY <1>1, <1>2, <1>3

\* EXP_SEQ and seq as numbers of the stream.
At(h) == h.count + h.urg_count

\* EXP_SEQ is the number of where the stream is.
LEMMA ExpSeq ==
  ASSUME NEW h, h.count \in Int, h.urg_count \in Int
  PROVE  EXP_SEQ(h) = Number(At(h)) /\ At(h) \in Int
<1>1. Isn + h.count + h.urg_count = Isn + At(h)
  BY Widths DEF At
<1> QED BY <1>1 DEF EXP_SEQ, Number, At

-----------------------------------------------------------------------------
(* What is put into the stream.                                            *)

\* The bytes of a segment.
Bytes(p) == p.pos..(p.pos + p.len - 1)

\* A segment is cut from the sender's bytes.
Cut(p) ==
  /\ p.pos + p.len <= N
  /\ p.fin = 1 => p.pos + p.len = N
  /\ \A u \in Urgent : /\ u \in Bytes(p) => p.urg = {u}
                       /\ u \in p.urg => u >= p.pos

\* The type of a half_stream.
Halves ==
  [count : Nat, urg_count : Nat, urg_seen : BOOLEAN, urg_ptr : Int, list : Seq(Segments),
   rmem_alloc : Int, out : Seq(0..(N - 1)),
   state : {"ESTABLISHED", "CLOSING", "FIN_SENT", "FIN_CONFIRMED"}]

\* How many of the sender's first n bytes are urgent.
Skipped(n) == IF \E u \in Urgent : u < n THEN 1 ELSE 0

\* The FIN has taken effect.
Ended(h) == h.state \in {"FIN_SENT", "FIN_CONFIRMED"}

\* out is the stream up to where it is, and the urgent pointer remembered is
\* one that is still ahead, by less than half a turn.
Streams(h) ==
  /\ h \in Halves /\ At(h) <= N
  /\ h.urg_count = Skipped(At(h))
  /\ h.urg_seen => \E u \in Urgent : h.urg_ptr = Number(u) /\ u >= At(h) /\ u - At(h) < Half
  /\ Len(h.out) = h.count
  /\ \A k \in 1..Len(h.out) : h.out[k] = k - 1 + Skipped(k)
  /\ Ended(h) => At(h) = N

\* The fields of a segment.
LEMMA SegmentFields ==
  ASSUME NEW p \in Segments
  PROVE  /\ p.pos \in 0..N /\ p.len \in 0..MaxLen /\ p.fin \in 0..1 /\ p.urg \in SUBSET Urgent
         /\ p.pos \in Nat /\ p.len \in Nat /\ p.fin \in Nat
         /\ Stands(seq(p), p.pos) /\ Stands(seq(p) + p.len, p.pos + p.len)
         /\ Stands(End(p), p.pos + p.len + p.fin)
<1>1. /\ p.pos \in 0..N /\ p.len \in 0..MaxLen /\ p.fin \in 0..1 /\ p.urg \in SUBSET Urgent
      /\ p.pos \in Nat /\ p.len \in Nat /\ p.fin \in Nat
  BY Widths DEF Segments
<1>2. Stands(seq(p), p.pos)
  BY <1>1, NumberStands DEF seq
<1>3. Stands(seq(p) + p.len, p.pos + p.len)
  BY <1>1, <1>2, StandsPlus
<1>4. Stands(seq(p) + p.len + p.fin, p.pos + p.len + p.fin)
  BY <1>1, <1>3, StandsPlus
<1> QED BY <1>1, <1>2, <1>3, <1>4 DEF End

\* The fields of a half_stream.
LEMMA HalfFields ==
  ASSUME NEW h, Streams(h)
  PROVE  /\ h.count \in Nat /\ h.urg_count \in 0..1 /\ h.urg_seen \in BOOLEAN /\ h.urg_ptr \in Int
         /\ h.list \in Seq(Segments) /\ h.rmem_alloc \in Int /\ h.out \in Seq(0..(N - 1))
         /\ h.state \in {"ESTABLISHED", "CLOSING", "FIN_SENT", "FIN_CONFIRMED"}
         /\ At(h) \in 0..N /\ At(h) \in Int /\ EXP_SEQ(h) = Number(At(h))
         /\ Stands(EXP_SEQ(h), At(h))
<1>1. /\ h.count \in Nat /\ h.urg_count \in 0..1 /\ h.urg_seen \in BOOLEAN /\ h.urg_ptr \in Int
      /\ h.list \in Seq(Segments) /\ h.rmem_alloc \in Int /\ h.out \in Seq(0..(N - 1))
      /\ h.state \in {"ESTABLISHED", "CLOSING", "FIN_SENT", "FIN_CONFIRMED"}
  BY DEF Streams, Halves, Skipped
<1>2. At(h) \in 0..N /\ At(h) \in Int
  BY <1>1 DEF At, Streams
<1>3. EXP_SEQ(h) = Number(At(h))
  BY <1>1, ExpSeq
<1>4. Stands(EXP_SEQ(h), At(h))
  BY <1>2, <1>3, NumberStands
<1> QED BY <1>1, <1>2, <1>3, <1>4

\* Where add_from_skb is called: the segment starts at or behind where the
\* stream is and has something the stream does not have.
Fits(h, p) ==
  /\ p.pos <= At(h) /\ At(h) - p.pos <= MaxLen + Window + 1
  /\ p.pos + p.len + p.fin > At(h)

\* The urgent pointer noted is one that is ahead, and all that are in the
\* segment and ahead are noted.
LEMMA Noted ==
  ASSUME N < Mod, NEW h, Streams(h), NEW p \in Segments, Cut(p), Fits(h, p)
  PROVE  /\ \/ NoteUrgent(h, p) = h
            \/ \E u \in Urgent : /\ NoteUrgent(h, p) = [h EXCEPT !.urg_seen = TRUE, !.urg_ptr = Number(u)]
                                 /\ u >= At(h) /\ u - At(h) < Half
         /\ \A u \in Urgent : u \in Bytes(p) /\ u >= At(h) => NoteUrgent(h, p).urg_seen
<1> DEFINE r == At(h)
           U == CHOOSE u \in p.urg : TRUE
           cond == p.urg # {} /\ after(Number(U), EXP_SEQ(h) - 1)
                     /\ (h.urg_seen => after(Number(U), h.urg_ptr))
<1>1. /\ r \in 0..N /\ r \in Int /\ Stands(EXP_SEQ(h), r) /\ h.urg_seen \in BOOLEAN /\ h.urg_ptr \in Int
  BY HalfFields
<1>2. /\ p.pos \in Nat /\ p.len \in Nat /\ p.len <= MaxLen /\ p.urg \subseteq Urgent
  BY SegmentFields
<1>3. NoteUrgent(h, p) = IF cond THEN [h EXCEPT !.urg_seen = TRUE, !.urg_ptr = Number(U)] ELSE h
  BY DEF NoteUrgent
<1>4. Stands(EXP_SEQ(h) - 1, r - 1)
  <2>1. EXP_SEQ(h) \in Int
    BY <1>1 DEF Stands
  <2>2. Stands(EXP_SEQ(h) + (-1), r + (-1))
    BY <1>1, StandsPlus
  <2>3. EXP_SEQ(h) + (-1) = EXP_SEQ(h) - 1 /\ r + (-1) = r - 1
    BY <1>1, <2>1
  <2> QED BY <2>2, <2>3
<1>5. ASSUME NEW u \in Urgent, u >= p.pos
      PROVE  after(Number(u), EXP_SEQ(h) - 1) <=> u >= r /\ u - r < Half
  <2>1. u \in Int /\ u <= N - 1 /\ u >= 0 /\ N \in Int
    BY Widths
  <2>2. Stands(Number(u), u)
    BY <2>1, NumberStands
  <2>3. ((r - 1) - u) \in (-Mod)..(Half - 1)
    BY <1>1, <1>2, <1>5, <2>1, Widths DEF Fits
  <2>4. after(Number(u), EXP_SEQ(h) - 1) <=> ((r - 1) - u) \in (-Half)..(-1)
    BY <1>1, <1>4, <2>1, <2>2, <2>3, Before DEF after
  <2> QED BY <1>1, <2>1, <2>4, Widths
<1>6. ASSUME cond PROVE U \in Urgent /\ U >= r /\ U - r < Half
  <2>1. U \in p.urg /\ U \in Urgent
    BY <1>2, <1>6
  <2>2. U >= p.pos
    BY <2>1 DEF Cut
  <2> HIDE DEF U
  <2> QED BY <1>5, <1>6, <2>1, <2>2
<1>7. ASSUME NEW u \in Urgent, u \in Bytes(p), u >= r
      PROVE  NoteUrgent(h, p).urg_seen
  <2>1. p.urg = {u} /\ U = u
    BY <1>7 DEF Cut
  <2>2. u >= p.pos /\ u - r < Half /\ u \in Int
    BY <1>1, <1>2, <1>7, Widths DEF Bytes, Fits
  <2>3. after(Number(u), EXP_SEQ(h) - 1)
    BY <1>5, <1>7, <2>2
  <2>4. CASE h.urg_seen
    <3>1. NoteUrgent(h, p).urg_seen = TRUE \/ NoteUrgent(h, p) = h
      <4> HIDE DEF cond, U
      <4> QED BY <1>3 DEF Streams, Halves
    <3> QED BY <2>4, <3>1
  <2>5. CASE ~h.urg_seen
    <3>1. cond
      BY <2>1, <2>3, <2>5
    <3> HIDE DEF cond, U
    <3> QED BY <1>3, <3>1 DEF Streams, Halves
  <2> QED BY <1>1, <2>4, <2>5
<1> HIDE DEF cond, U
<1>8. CASE cond
  BY <1>3, <1>6, <1>7, <1>8
<1>9. CASE ~cond
  BY <1>3, <1>7, <1>9
<1> QED BY <1>8, <1>9

\* Noting an urgent pointer moves nothing.
LEMMA NotedStreams ==
  ASSUME N < Mod, NEW h, Streams(h), NEW p \in Segments, Cut(p), Fits(h, p)
  PROVE  LET g == NoteUrgent(h, p)
         IN  /\ Streams(g) /\ At(g) = At(h)
             /\ g.count = h.count /\ g.urg_count = h.urg_count /\ g.out = h.out
             /\ g.list = h.list /\ g.rmem_alloc = h.rmem_alloc /\ g.state = h.state
<1>1. CASE NoteUrgent(h, p) = h
  BY <1>1
<1>2. CASE \E u \in Urgent : /\ NoteUrgent(h, p) = [h EXCEPT !.urg_seen = TRUE, !.urg_ptr = Number(u)]
                             /\ u >= At(h) /\ u - At(h) < Half
  <2>1. PICK u \in Urgent : /\ NoteUrgent(h, p) = [h EXCEPT !.urg_seen = TRUE, !.urg_ptr = Number(u)]
                            /\ u >= At(h) /\ u - At(h) < Half
    BY <1>2
  <2> DEFINE g == NoteUrgent(h, p)
  <2>2. h \in Halves
    BY DEF Streams
  <2>3. u \in Int
    BY Widths
  <2>4. Number(u) \in Int
    BY <2>3, NumberStands DEF Stands
  <2>5. /\ g \in Halves /\ g.urg_seen = TRUE /\ g.urg_ptr = Number(u)
        /\ g.count = h.count /\ g.urg_count = h.urg_count /\ g.out = h.out
        /\ g.list = h.list /\ g.rmem_alloc = h.rmem_alloc /\ g.state = h.state
    BY <2>1, <2>2, <2>4 DEF Halves
  <2> HIDE DEF g
  <2>6. At(g) = At(h)
    BY <2>5 DEF At
  <2>7. Streams(g)
    BY <2>1, <2>5, <2>6 DEF Streams, Ended
  <2> QED BY <2>5, <2>6, <2>7 DEF g
<1> QED BY <1>1, <1>2, Noted

\* g is h with the bytes from..to-1 of segment p behind those already there.
Extends(h, p, from, to, g) ==
  /\ g \in Halves /\ g.count = h.count + (to - from)
  /\ g.urg_count = h.urg_count /\ g.urg_seen = h.urg_seen /\ g.urg_ptr = h.urg_ptr
  /\ g.list = h.list /\ g.rmem_alloc = h.rmem_alloc /\ g.state = h.state
  /\ Len(g.out) = Len(h.out) + (to - from)
  /\ \A k \in 1..Len(h.out) : g.out[k] = h.out[k]
  /\ \A k \in (Len(h.out) + 1)..Len(g.out) : g.out[k] = p.pos + from + (k - Len(h.out)) - 1

\* So does add2buf.
LEMMA Buffered ==
  ASSUME NEW h \in Halves, NEW p \in Segments, p.pos + p.len <= N,
         NEW from \in Nat, NEW to \in Nat, from <= to, to <= p.len
  PROVE  Extends(h, p, from, to, add2buf(h, p, from, to))
<1> DEFINE new == [k \in 1..(to - from) |-> p.pos + from + k - 1]
           g == add2buf(h, p, from, to)
<1>1. p.pos \in Nat /\ p.len \in Nat /\ N \in Nat
  BY SegmentFields, Widths
<1>2. to - from \in Nat /\ \A k \in 1..(to - from) : p.pos + from + k - 1 \in 0..(N - 1)
  BY <1>1
<1>3. new \in Seq(0..(N - 1)) /\ Len(new) = to - from
  BY <1>2
<1>4. h.out \in Seq(0..(N - 1)) /\ h.count \in Nat
  BY DEF Halves
<1>5. \A k \in 1..(to - from) : new[k] = p.pos + from + k - 1
  OBVIOUS
<1> HIDE DEF new
<1> DEFINE o == h.out \o new
           n == h.count + (to - from)
<1>6. /\ o \in Seq(0..(N - 1)) /\ Len(o) = Len(h.out) + (to - from) /\ Len(h.out) \in Nat
      /\ \A k \in 1..Len(h.out) : o[k] = h.out[k]
      /\ \A k \in (Len(h.out) + 1)..Len(o) : o[k] = new[k - Len(h.out)]
  <2> DEFINE f == h.out
             d == to - from
  <2>1. f \in Seq(0..(N - 1)) /\ new \in Seq(0..(N - 1)) /\ Len(new) = d /\ d \in Nat /\ o = f \o new
    BY <1>2, <1>3, <1>4
  <2>2. Len(f) \in Nat
    BY <2>1
  <2> HIDE DEF f, d, o
  <2>3. /\ o \in Seq(0..(N - 1)) /\ Len(o) = Len(f) + Len(new)
        /\ \A k \in 1..(Len(f) + Len(new)) : o[k] = IF k <= Len(f) THEN f[k] ELSE new[k - Len(f)]
    BY <2>1, ConcatProperties
  <2>4. \A k \in 1..Len(f) : o[k] = f[k]
    BY <2>1, <2>2, <2>3
  <2>5. \A k \in (Len(f) + 1)..Len(o) : o[k] = new[k - Len(f)]
    BY <2>1, <2>2, <2>3
  <2>6. Len(o) = Len(f) + d
    BY <2>1, <2>3
  <2> QED BY <2>2, <2>3, <2>4, <2>5, <2>6 DEF f, d
<1>7. n \in Nat
  BY <1>2, <1>4
<1>8. g = [h EXCEPT !.count = n, !.out = o]
  BY DEF add2buf, new
<1> HIDE DEF o, g
<1>9. /\ g \in Halves /\ g.count = n /\ g.out = o
      /\ g.urg_count = h.urg_count /\ g.urg_seen = h.urg_seen /\ g.urg_ptr = h.urg_ptr
      /\ g.list = h.list /\ g.rmem_alloc = h.rmem_alloc /\ g.state = h.state
  <2> HIDE DEF n
  <2> QED BY <1>6, <1>7, <1>8 DEF Halves
<1>10. \A k \in (Len(h.out) + 1)..Len(o) : o[k] = p.pos + from + (k - Len(h.out)) - 1
  <2> TAKE k \in (Len(h.out) + 1)..Len(o)
  <2>1. k - Len(h.out) \in 1..(to - from)
    BY <1>2, <1>6
  <2>2. o[k] = new[k - Len(h.out)]
    BY <1>6
  <2> QED BY <1>5, <2>1, <2>2
<1>11. Extends(h, p, from, to, g)
  BY <1>6, <1>9, <1>10 DEF Extends
<1> QED BY <1>11 DEF g

\* Skipped counts the one urgent byte.
LEMMA SkippedOf ==
  \A n \in Int : /\ Skipped(n) \in 0..1
                 /\ \A v \in Urgent : Skipped(n) = IF v < n THEN 1 ELSE 0
                 /\ Urgent = {} => Skipped(n) = 0
BY OneUrgent DEF Skipped

\* What add_from_skb makes of the stream, but for the FIN.
Put(h, p, g) ==
  /\ g \in Halves /\ At(g) = p.pos + p.len
  /\ g.urg_count = Skipped(At(g))
  /\ g.urg_seen => \E u \in Urgent : g.urg_ptr = Number(u) /\ u >= At(g) /\ u - At(g) < Half
  /\ Len(g.out) = g.count
  /\ \A k \in 1..Len(g.out) : g.out[k] = k - 1 + Skipped(k)
  /\ g.list = h.list /\ g.rmem_alloc = h.rmem_alloc /\ g.state = h.state

\* The new part of a segment without an urgent byte in it.
LEMMA PutWhole ==
  ASSUME NEW h, Streams(h), NEW p \in Segments, Cut(p), Fits(h, p),
         ~\E v \in Urgent : v >= At(h) /\ v < p.pos + p.len
  PROVE  Put(h, p, add2buf(h, p, At(h) - p.pos, p.len))
<1> DEFINE r == At(h)
           from == r - p.pos
           g == add2buf(h, p, from, p.len)
<1>1. /\ p.pos \in Nat /\ p.len \in Nat /\ p.fin \in 0..1 /\ p.pos + p.len <= N
      /\ p.fin = 1 => p.pos + p.len = N
  BY SegmentFields DEF Cut
<1>2. h.count \in Nat /\ r \in 0..N /\ r = h.count + h.urg_count /\ h.urg_count = Skipped(r)
      /\ h \in Halves /\ Len(h.out) = h.count /\ N \in Nat
      /\ h.urg_count \in 0..1
  BY HalfFields, Widths DEF Streams, At
<1>3. r <= p.pos + p.len /\ p.pos <= r
  BY <1>1, <1>2 DEF Fits
<1>4. from \in Nat /\ from <= p.len
  BY <1>1, <1>2, <1>3
<1>15. /\ from = r - p.pos /\ r = At(h) /\ from \in Int /\ r \in Int /\ p.pos \in Int /\ p.len \in Int
       /\ h.count \in Int /\ h.urg_count \in Int
       /\ r = h.count + h.urg_count
  BY <1>1, <1>2, <1>4
<1>5. Extends(h, p, from, p.len, g)
  <2> HIDE DEF from, g
  <2>1. p.len \in Nat /\ p.len <= p.len
    BY <1>1
  <2>2. Extends(h, p, from, p.len, add2buf(h, p, from, p.len))
    BY <1>1, <1>2, <1>4, <2>1, Buffered
  <2> QED BY <2>2 DEF g
<1> HIDE DEF g, from, r
<1>13. /\ g \in Halves /\ g.count = h.count + (p.len - from)
       /\ g.urg_count = h.urg_count /\ g.urg_seen = h.urg_seen /\ g.urg_ptr = h.urg_ptr
       /\ g.list = h.list /\ g.rmem_alloc = h.rmem_alloc /\ g.state = h.state
       /\ Len(g.out) = Len(h.out) + (p.len - from)
  BY <1>5 DEF Extends
<1>14. /\ \A k \in 1..Len(h.out) : g.out[k] = h.out[k]
       /\ \A k \in (Len(h.out) + 1)..Len(g.out) : g.out[k] = p.pos + from + (k - Len(h.out)) - 1
  BY <1>5 DEF Extends
<1>6. At(g) = p.pos + p.len
  BY <1>13, <1>15 DEF At
<1>7. \A v \in Urgent : v < r <=> v < p.pos + p.len
  <2> TAKE v \in Urgent
  <2>1. v \in Int
    BY Widths
  <2> QED BY <1>3, <1>15, <2>1
<1>8. g.urg_count = Skipped(At(g))
  BY <1>2, <1>6, <1>7, <1>13 DEF Skipped
<1>9. ASSUME g.urg_seen
      PROVE  \E u \in Urgent : g.urg_ptr = Number(u) /\ u >= At(g) /\ u - At(g) < Half
  <2>1. PICK u \in Urgent : h.urg_ptr = Number(u) /\ u >= r /\ u - r < Half
    BY <1>9, <1>13, <1>15 DEF Streams
  <2>2. u \in Int /\ Half \in Int
    BY Widths
  <2>3. u >= At(g) /\ u - At(g) < Half
    BY <1>1, <1>2, <1>3, <1>6, <1>7, <2>1, <2>2
  <2> QED BY <1>13, <2>1, <2>3
<1>10. ASSUME NEW k \in 1..Len(g.out) PROVE g.out[k] = k - 1 + Skipped(k)
  <2>1. CASE k \in 1..Len(h.out)
    BY <1>14, <2>1 DEF Streams
  <2>2. CASE k \in (Len(h.out) + 1)..Len(g.out)
    <3>1. g.out[k] = p.pos + from + (k - h.count) - 1 /\ k \in Int /\ k > h.count
          /\ k <= h.count + (p.len - from)
      BY <1>2, <1>13, <1>14, <1>15, <2>2
    <3>3. g.out[k] = k - 1 + h.urg_count
      <4> DEFINE x == g.out[k]
                 c == h.count
                 uc == h.urg_count
                 pos == p.pos
      <4>1. x = pos + from + (k - c) - 1 /\ k \in Int
        BY <3>1
      <4>2. from = r - pos /\ r = c + uc /\ from \in Int /\ r \in Int /\ pos \in Int /\ c \in Int /\ uc \in Int
        BY <1>15
      <4>3. x = k - 1 + uc
        <5> HIDE DEF x, c, uc, pos
        <5> QED BY <4>1, <4>2
      <4> QED BY <4>3
    <3>4. CASE Urgent = {}
      BY <1>2, <1>15, <3>1, <3>3, <3>4, SkippedOf
    <3>5. ASSUME NEW v \in Urgent PROVE Skipped(k) = h.urg_count
      <4>1. v \in Int
        BY Widths
      <4>2. Skipped(k) = (IF v < k THEN 1 ELSE 0) /\ h.urg_count = (IF v < r THEN 1 ELSE 0)
        BY <1>2, <1>15, <3>1, SkippedOf
      <4>3. v < r <=> v < p.pos + p.len
        BY <1>7
      <4> DEFINE c == h.count
                 uc == h.urg_count
                 pos == p.pos
                 len == p.len
                 sk == Skipped(k)
      <4>4. /\ k \in Int /\ k > c /\ k <= c + (len - from) /\ from = r - pos /\ r = c + uc /\ r \in Int
            /\ from \in Int /\ pos \in Int /\ len \in Int /\ c \in Int /\ uc \in Int
        BY <1>15, <3>1
      <4>5. sk = uc
        <5>1. sk = (IF v < k THEN 1 ELSE 0) /\ uc = (IF v < r THEN 1 ELSE 0) /\ (v < r <=> v < pos + len)
          BY <4>2, <4>3
        <5> HIDE DEF c, uc, pos, len, sk
        <5> QED BY <4>1, <4>4, <5>1
      <4> QED BY <4>5
    <3> QED BY <3>3, <3>4, <3>5
  <2>3. Len(h.out) \in Nat /\ Len(g.out) \in Nat
    BY <1>2, <1>13 DEF Halves
  <2> QED BY <2>1, <2>2, <2>3
<1>11. Len(g.out) = g.count
  BY <1>2, <1>13
<1>12. Put(h, p, g)
  BY <1>6, <1>8, <1>9, <1>10, <1>11, <1>13 DEF Put
<1> QED BY <1>12 DEF g, from, r

\* The new part of a segment on both sides of the urgent byte.
LEMMA PutAround ==
  ASSUME NEW h, Streams(h), NEW p \in Segments, Cut(p), Fits(h, p),
         NEW v \in Urgent, v >= At(h), v < p.pos + p.len
  PROVE  LET a == add2buf(h, p, At(h) - p.pos, v - p.pos)
             b == add2buf(a, p, (v - p.pos) + 1, p.len)
         IN  Put(h, p, [b EXCEPT !.urg_seen = FALSE, !.urg_count = @ + 1])
<1> DEFINE r == At(h)
           from == r - p.pos
           u == v - p.pos
           a == add2buf(h, p, from, u)
           b == add2buf(a, p, u + 1, p.len)
           g == [b EXCEPT !.urg_seen = FALSE, !.urg_count = @ + 1]
<1>1. p.pos \in Nat /\ p.len \in Nat /\ p.fin \in 0..1 /\ p.pos + p.len <= N
  BY SegmentFields DEF Cut
<1>2. h.count \in Nat /\ r \in 0..N /\ r = h.count + h.urg_count /\ h.urg_count = Skipped(r)
      /\ h \in Halves /\ Len(h.out) = h.count /\ N \in Nat /\ h.out \in Seq(0..(N - 1))
      /\ h.urg_count \in 0..1
  BY HalfFields, Widths DEF Streams, At
<1>3. v \in Int /\ p.pos <= r
  BY Widths DEF Fits
<1>4. h.urg_count = 0 /\ r = h.count
  BY <1>2, <1>3, SkippedOf
<1>17. /\ from = r - p.pos /\ u = v - p.pos /\ r = At(h) /\ v >= r /\ v < p.pos + p.len
       /\ from \in Int /\ u \in Int /\ v \in Int /\ r \in Int /\ p.pos \in Int /\ p.len \in Int
       /\ h.count \in Int /\ p.pos >= 0 /\ p.len >= 0
  BY <1>1, <1>2, <1>3
<1> HIDE DEF from, u, r
<1>5. /\ from \in Nat /\ u \in Nat /\ from <= u /\ u <= p.len
      /\ u + 1 \in Nat /\ p.len \in Nat /\ u + 1 <= p.len /\ p.len <= p.len
  BY <1>1, <1>3, <1>17
<1>6. Extends(h, p, from, u, a)
  <2> HIDE DEF a
  <2>1. Extends(h, p, from, u, add2buf(h, p, from, u))
    BY <1>1, <1>2, <1>5, Buffered
  <2> QED BY <2>1 DEF a
<1> HIDE DEF a
<1>13. /\ a \in Halves /\ a.count = h.count + (u - from) /\ a.urg_count = h.urg_count
       /\ a.list = h.list /\ a.rmem_alloc = h.rmem_alloc /\ a.state = h.state
       /\ Len(a.out) = Len(h.out) + (u - from)
  BY <1>6 DEF Extends
<1>14. /\ \A k \in 1..Len(h.out) : a.out[k] = h.out[k]
       /\ \A k \in (Len(h.out) + 1)..Len(a.out) : a.out[k] = p.pos + from + (k - Len(h.out)) - 1
  BY <1>6 DEF Extends
<1>7. Extends(a, p, u + 1, p.len, b)
  <2> DEFINE w == u + 1
  <2>1. w \in Nat /\ p.len \in Nat /\ w <= p.len /\ p.len <= p.len /\ p.pos + p.len <= N
    BY <1>1, <1>5
  <2> HIDE DEF w
  <2>2. Extends(a, p, w, p.len, add2buf(a, p, w, p.len))
    BY <1>13, <2>1, Buffered
  <2> QED BY <2>2 DEF b, w
<1> HIDE DEF b
<1>15. /\ b \in Halves /\ b.count = a.count + (p.len - (u + 1)) /\ b.urg_count = a.urg_count
       /\ b.list = a.list /\ b.rmem_alloc = a.rmem_alloc /\ b.state = a.state
       /\ Len(b.out) = Len(a.out) + (p.len - (u + 1))
  BY <1>7 DEF Extends
<1>16. /\ \A k \in 1..Len(a.out) : b.out[k] = a.out[k]
       /\ \A k \in (Len(a.out) + 1)..Len(b.out) : b.out[k] = p.pos + (u + 1) + (k - Len(a.out)) - 1
  BY <1>7 DEF Extends
<1>8. /\ g \in Halves /\ g.count = b.count /\ g.urg_count = 1 /\ g.urg_seen = FALSE
      /\ g.list = h.list /\ g.rmem_alloc = h.rmem_alloc /\ g.state = h.state /\ g.out = b.out
  <2>1. /\ g = [b EXCEPT !.urg_seen = FALSE, !.urg_count = 1]
        /\ b.list = h.list /\ b.rmem_alloc = h.rmem_alloc /\ b.state = h.state
    BY <1>4, <1>13, <1>15
  <2> HIDE DEF g
  <2> QED BY <1>15, <2>1 DEF Halves
<1> HIDE DEF g
<1>9. Len(a.out) = v /\ Len(g.out) = g.count /\ At(g) = p.pos + p.len /\ a.count = v
  <2> DEFINE c == h.count
             pos == p.pos
             len == p.len
  <2>1. /\ Len(h.out) = c /\ r = c /\ from = r - pos /\ u = v - pos /\ from \in Int /\ u \in Int
        /\ v \in Int /\ r \in Int /\ pos \in Int /\ len \in Int /\ c \in Int
    BY <1>2, <1>4, <1>17
  <2>2. a.count = c + (u - from) /\ Len(a.out) = c + (u - from)
    BY <1>13, <2>1
  <2>3. g.count = a.count + (len - (u + 1)) /\ Len(g.out) = Len(a.out) + (len - (u + 1))
        /\ At(g) = g.count + 1
    BY <1>8, <1>15 DEF At
  <2>4. c + (u - from) = v /\ (v + (len - (u + 1))) + 1 = pos + len
    <3> HIDE DEF c, pos, len
    <3> QED BY <2>1
  <2> QED BY <2>2, <2>3, <2>4
<1>10. g.urg_count = Skipped(At(g))
  BY <1>1, <1>3, <1>8, <1>9, SkippedOf
<1>11. ASSUME NEW k \in 1..Len(g.out) PROVE g.out[k] = k - 1 + Skipped(k)
  <2>1. k \in Int /\ Skipped(k) = IF v < k THEN 1 ELSE 0
    BY SkippedOf
  <2>2. CASE k \in 1..Len(h.out)
    <3>1. k \in 1..Len(a.out)
      BY <1>2, <1>4, <1>9, <1>17, <2>2
    <3> QED BY <1>8, <1>14, <1>16, <2>2, <3>1 DEF Streams
  <2>3. CASE k \in (Len(h.out) + 1)..Len(a.out)
    <3>1. k \in 1..Len(a.out) /\ k <= v
      BY <1>2, <1>9, <2>3
    <3>2. g.out[k] = p.pos + from + (k - Len(h.out)) - 1
      BY <1>8, <1>14, <1>16, <2>3, <3>1
    <3>3. g.out[k] = k - 1
      <4> DEFINE x == g.out[k]
                 c == Len(h.out)
                 pos == p.pos
      <4>1. /\ x = pos + from + (k - c) - 1 /\ c = r /\ from = r - pos /\ k \in Int
            /\ r \in Int /\ pos \in Int /\ from \in Int
        BY <1>2, <1>4, <1>17, <2>1, <3>2
      <4>2. x = k - 1
        <5> HIDE DEF x, c, pos
        <5> QED BY <4>1
      <4> QED BY <4>2
    <3>4. Skipped(k) = 0
      BY <1>17, <2>1, <3>1
    <3> QED BY <2>1, <3>3, <3>4
  <2>4. CASE k \in (Len(a.out) + 1)..Len(b.out)
    <3>1. g.out[k] = p.pos + (u + 1) + (k - v) - 1 /\ k > v
      BY <1>3, <1>8, <1>9, <1>15, <1>16, <2>1, <2>4
    <3>2. g.out[k] = k
      <4> DEFINE x == g.out[k]
                 pos == p.pos
      <4>1. /\ x = pos + (u + 1) + (k - v) - 1 /\ u = v - pos /\ k \in Int
            /\ v \in Int /\ pos \in Int /\ u \in Int
        BY <1>17, <2>1, <3>1
      <4>2. x = k
        <5> HIDE DEF x, pos
        <5> QED BY <4>1
      <4> QED BY <4>2
    <3>3. Skipped(k) = 1
      BY <1>17, <2>1, <3>1
    <3> QED BY <2>1, <3>2, <3>3
  <2> QED BY <1>2, <1>3, <1>8, <1>9, <1>15, <2>1, <2>2, <2>3, <2>4
<1>12. Put(h, p, g)
  BY <1>8, <1>9, <1>10, <1>11 DEF Put
<1> QED BY <1>12 DEF g, b, a, u, from, r

\* The urgent byte is taken out exactly where it is among the new bytes.
LEMMA Inside ==
  ASSUME N < Mod, NEW h, Streams(h), NEW p \in Segments, Cut(p), Fits(h, p),
         \A v \in Urgent : v \in Bytes(p) /\ v >= At(h) => h.urg_seen
  PROVE  LET lost == (EXP_SEQ(h) - seq(p)) % Mod
             inside == /\ h.urg_seen /\ after(h.urg_ptr + 1, seq(p) + lost)
                       /\ before(h.urg_ptr, seq(p) + p.len)
         IN  /\ lost = At(h) - p.pos
             /\ inside <=> \E v \in Urgent : v >= At(h) /\ v < p.pos + p.len
             /\ \A v \in Urgent : inside => (h.urg_ptr - seq(p)) % Mod = v - p.pos
<1> DEFINE r == At(h)
           pos == p.pos
           len == p.len
           lost == (EXP_SEQ(h) - seq(p)) % Mod
           inside == /\ h.urg_seen /\ after(h.urg_ptr + 1, seq(p) + lost)
                     /\ before(h.urg_ptr, seq(p) + p.len)
<1>1. /\ pos \in Nat /\ len \in Nat /\ len <= MaxLen /\ pos + len <= N
      /\ Stands(seq(p), pos) /\ Stands(seq(p) + p.len, pos + len)
      /\ p.fin \in 0..1 /\ (p.fin = 1 => pos + len = N)
  BY SegmentFields DEF Cut
<1>2. r \in 0..N /\ r \in Int /\ Stands(EXP_SEQ(h), r) /\ h.urg_seen \in BOOLEAN /\ h.urg_ptr \in Int
  BY HalfFields
<1>3. pos <= r /\ r - pos <= MaxLen + Window + 1 /\ pos + len + p.fin > r
  BY DEF Fits
<1>4. h.urg_seen => \E v \in Urgent : h.urg_ptr = Number(v) /\ v >= r /\ v - r < Half
  BY DEF Streams
<1>5. \A v \in Urgent : v >= r /\ v < pos + len => h.urg_seen
  <2> TAKE v \in Urgent
  <2>1. v \in Int
    BY Widths
  <2>2. v >= r /\ v < pos + len => v \in pos..(pos + len - 1)
    <3> HIDE DEF r, pos, len
    <3> QED BY <1>1, <1>2, <1>3, <2>1
  <2> QED BY <2>2 DEF Bytes
<1> HIDE DEF r, pos, len
<1>6. /\ Mod \in Int /\ Half \in Int /\ Half > 1 /\ Mod = 2 * Half /\ N \in Nat
      /\ MaxLen \in Nat /\ Window \in Nat /\ 2 * Window + MaxLen + 1 < Half
  BY Widths
<1>7. r <= pos + len
  BY <1>1, <1>2, <1>3
<1>8. lost = r - pos
  <2>1. (r - pos) \in 0..(Mod - 1)
    BY <1>1, <1>2, <1>3, <1>6
  <2> QED BY <1>1, <1>2, <2>1, Difference
<1> HIDE DEF lost
<1>9. Stands(seq(p) + lost, r)
  <2>1. lost \in Int /\ pos + lost = r
    BY <1>1, <1>2, <1>8
  <2> QED BY <1>1, <2>1, StandsPlus
<1>10. ASSUME NEW v \in Urgent, h.urg_ptr = Number(v), v >= r, v - r < Half
       PROVE  /\ after(h.urg_ptr + 1, seq(p) + lost)
              /\ before(h.urg_ptr, seq(p) + p.len) <=> v < pos + len
              /\ v < pos + len => (h.urg_ptr - seq(p)) % Mod = v - pos
  <2>1. v \in Int /\ Stands(h.urg_ptr, v)
    BY <1>10, Widths, NumberStands
  <2>2. Stands(h.urg_ptr + 1, v + 1)
    BY <2>1, StandsPlus
  <2>3. (r - (v + 1)) \in (-Mod)..(Half - 1) /\ (r - (v + 1)) \in (-Half)..(-1) /\ v + 1 \in Int
    BY <1>2, <1>6, <1>10, <2>1
  <2>4. after(h.urg_ptr + 1, seq(p) + lost)
    BY <1>2, <1>9, <2>1, <2>2, <2>3, Before DEF after
  <2>5. (v - (pos + len)) \in (-Mod)..(Half - 1) /\ pos + len \in Int
    BY <1>1, <1>2, <1>3, <1>6, <1>7, <1>10, <2>1
  <2>6. before(h.urg_ptr, seq(p) + p.len) <=> (v - (pos + len)) \in (-Half)..(-1)
    BY <1>1, <2>1, <2>5, Before
  <2>7. (v - (pos + len)) \in (-Half)..(-1) <=> v < pos + len
    BY <1>1, <1>2, <1>3, <1>6, <1>10, <2>1
  <2>8. ASSUME v < pos + len PROVE (h.urg_ptr - seq(p)) % Mod = v - pos
    <3>1. (v - pos) \in 0..(Mod - 1)
      BY <1>1, <1>2, <1>3, <1>6, <1>10, <2>1, <2>8
    <3> QED BY <1>1, <2>1, <3>1, Difference
  <2> QED BY <2>4, <2>6, <2>7, <2>8
<1>11. inside <=> \E v \in Urgent : v >= r /\ v < pos + len
  <2>1. ASSUME inside PROVE \E v \in Urgent : v >= r /\ v < pos + len
    BY <1>4, <1>10, <2>1
  <2>2. ASSUME NEW v \in Urgent, v >= r, v < pos + len PROVE inside
    <3>1. h.urg_seen
      BY <1>5, <2>2
    <3>2. PICK w \in Urgent : h.urg_ptr = Number(w) /\ w >= r /\ w - r < Half
      BY <1>4, <3>1
    <3>3. w = v
      BY OneUrgent
    <3> QED BY <1>10, <2>2, <3>1, <3>2, <3>3
  <2> QED BY <2>1, <2>2
<1>12. ASSUME NEW v \in Urgent, inside PROVE (h.urg_ptr - seq(p)) % Mod = v - pos
  <2>1. PICK w \in Urgent : h.urg_ptr = Number(w) /\ w >= r /\ w - r < Half
    BY <1>4, <1>12
  <2>2. w = v
    BY OneUrgent
  <2> QED BY <1>10, <1>12, <2>1, <2>2
<1> HIDE DEF inside
<1> QED BY <1>8, <1>11, <1>12 DEF r, pos, len, lost, inside

\* What add_from_skb does: the stream goes on to the end of the segment.
Takes(h, p, g) ==
  /\ Streams(g) /\ At(g) = p.pos + p.len
  /\ g.list = h.list /\ g.rmem_alloc = h.rmem_alloc
  /\ g.state = IF p.fin = 1 THEN "FIN_SENT" ELSE h.state

\* So does add_from_skb with a segment that fits.
LEMMA Added ==
  ASSUME N < Mod, NEW h0, Streams(h0), NEW p \in Segments, Cut(p), Fits(h0, p)
  PROVE  Takes(h0, p, add_from_skb(h0, p))
<1> DEFINE h == NoteUrgent(h0, p)
           lost == (EXP_SEQ(h) - seq(p)) % Mod
           u == (h.urg_ptr - seq(p)) % Mod
           inside == /\ h.urg_seen /\ after(h.urg_ptr + 1, seq(p) + lost)
                     /\ before(h.urg_ptr, seq(p) + p.len)
           around == [add2buf(add2buf(h, p, lost, u), p, u + 1, p.len)
                        EXCEPT !.urg_seen = FALSE, !.urg_count = @ + 1]
           h1 == IF inside THEN around ELSE add2buf(h, p, lost, p.len)
           g == add_from_skb(h0, p)
<1>1. g = IF p.fin = 1 THEN [h1 EXCEPT !.state = "FIN_SENT"] ELSE h1
  BY DEF add_from_skb
<1>2. /\ Streams(h) /\ At(h) = At(h0)
      /\ h.list = h0.list /\ h.rmem_alloc = h0.rmem_alloc /\ h.state = h0.state
  BY NotedStreams
<1>3. \A v \in Urgent : v \in Bytes(p) /\ v >= At(h) => h.urg_seen
  BY <1>2, Noted
<1>4. Fits(h, p)
  BY <1>2 DEF Fits
<1> HIDE DEF h
<1>5. /\ lost = At(h) - p.pos
      /\ inside <=> \E v \in Urgent : v >= At(h) /\ v < p.pos + p.len
      /\ \A v \in Urgent : inside => u = v - p.pos
  BY <1>2, <1>3, <1>4, Inside
<1>6. Put(h, p, h1)
  <2>1. CASE inside
    <3>1. PICK v \in Urgent : v >= At(h) /\ v < p.pos + p.len
      BY <1>5, <2>1
    <3>2. u = v - p.pos
      BY <1>5, <2>1
    <3> HIDE DEF inside, lost, u
    <3>3. Put(h, p, around)
      BY <1>2, <1>4, <1>5, <3>1, <3>2, PutAround
    <3> QED BY <2>1, <3>3
  <2>2. CASE ~inside
    <3> HIDE DEF inside, lost, u
    <3>1. Put(h, p, add2buf(h, p, lost, p.len))
      BY <1>2, <1>4, <1>5, <2>2, PutWhole
    <3> QED BY <2>2, <3>1
  <2> QED BY <2>1, <2>2
<1> HIDE DEF h1, g
<1>7. /\ h1 \in Halves /\ At(h1) = p.pos + p.len
      /\ h1.urg_count = Skipped(At(h1))
      /\ h1.urg_seen => \E v \in Urgent : h1.urg_ptr = Number(v) /\ v >= At(h1) /\ v - At(h1) < Half
      /\ Len(h1.out) = h1.count
      /\ \A k \in 1..Len(h1.out) : h1.out[k] = k - 1 + Skipped(k)
      /\ h1.list = h0.list /\ h1.rmem_alloc = h0.rmem_alloc /\ h1.state = h0.state
  BY <1>2, <1>6 DEF Put
<1>8. /\ g \in Halves /\ g.count = h1.count /\ g.urg_count = h1.urg_count /\ g.out = h1.out
      /\ g.urg_seen = h1.urg_seen /\ g.urg_ptr = h1.urg_ptr
      /\ g.list = h0.list /\ g.rmem_alloc = h0.rmem_alloc
      /\ g.state = IF p.fin = 1 THEN "FIN_SENT" ELSE h0.state
  <2>1. CASE p.fin = 1
    <3>1. g = [h1 EXCEPT !.state = "FIN_SENT"]
      BY <1>1, <2>1
    <3> QED BY <1>7, <2>1, <3>1 DEF Halves
  <2>2. CASE p.fin # 1
    <3>1. g = h1
      BY <1>1, <2>2
    <3> QED BY <1>7, <2>2, <3>1
  <2> QED BY <2>1, <2>2
<1>9. At(g) = At(h1) /\ At(g) = p.pos + p.len
  BY <1>7, <1>8 DEF At
<1>10. At(g) <= N /\ (Ended(g) => At(g) = N)
  <2>1. /\ p.pos \in Nat /\ p.len \in Nat /\ p.pos + p.len <= N /\ N \in Nat
        /\ p.fin \in 0..1 /\ (p.fin = 1 => p.pos + p.len = N)
    BY SegmentFields, Widths DEF Cut
  <2>2. ASSUME Ended(g), p.fin # 1 PROVE At(g) = N
    <3>1. At(h0) = N
      BY <1>8, <2>2 DEF Ended, Streams
    <3>2. p.pos + p.len + p.fin > N
      BY <3>1 DEF Fits
    <3> QED BY <1>9, <2>1, <2>2, <3>2
  <2> QED BY <1>9, <2>1, <2>2
<1>11. Streams(g)
  BY <1>7, <1>8, <1>9, <1>10 DEF Streams
<1>12. Takes(h0, p, g)
  BY <1>8, <1>9, <1>11 DEF Takes
<1> QED BY <1>12 DEF g

-----------------------------------------------------------------------------
(* The list of segments behind a gap.                                      *)

\* The sizes of the members of a list, and what they add up to.
Sizes(s) == [k \in 1..Len(s) |-> truesize(s[k])]
Total(s) == SumOf(Sizes(s))

\* Sequences with the same members have the same sum.
LEMMA SameSum ==
  ASSUME NEW f \in Seq(Nat), NEW e \in Seq(Nat), Len(f) = Len(e),
         \A i \in 1..Len(f) : f[i] = e[i]
  PROVE  SumOf(f) = SumOf(e) /\ SumOf(f) \in Nat
<1> DEFINE n == Len(f)
<1>1. n \in Nat /\ n <= Len(e) /\ n \in 0..n
  OBVIOUS
<1>2. \A i \in 0..n : Sums(f)[i] \in Nat /\ Sums(e)[i] = Sums(f)[i]
  BY <1>1, SumsAgree
<1>3. Sums(f)[n] \in Nat /\ Sums(e)[n] = Sums(f)[n]
  BY <1>1, <1>2
<1> QED BY <1>3 DEF SumOf

\* The sizes of a list.
LEMMA SizesType ==
  ASSUME NEW s \in Seq(Segments)
  PROVE  /\ Sizes(s) \in Seq(Nat) /\ Len(Sizes(s)) = Len(s)
         /\ \A k \in 1..Len(s) : Sizes(s)[k] = truesize(s[k])
<1>1. \A k \in 1..Len(s) : truesize(s[k]) \in Nat
  BY SegmentFields DEF truesize
<1> QED BY <1>1 DEF Sizes

\* The total of one segment, and of one list behind another.
LEMMA TotalConcat ==
  ASSUME NEW s \in Seq(Segments), NEW t \in Seq(Segments)
  PROVE  Total(s) \in Nat /\ Total(t) \in Nat /\ Total(s \o t) = Total(s) + Total(t)
<1>1. s \o t \in Seq(Segments) /\ Len(s \o t) = Len(s) + Len(t) /\ Len(s) \in Nat /\ Len(t) \in Nat
  OBVIOUS
<1> DEFINE f == Sizes(s)
           e == Sizes(t)
           c == Sizes(s \o t)
<1>2. /\ f \in Seq(Nat) /\ e \in Seq(Nat) /\ c \in Seq(Nat)
      /\ Len(f) = Len(s) /\ Len(e) = Len(t) /\ Len(c) = Len(s) + Len(t)
      /\ \A k \in 1..Len(s) : f[k] = truesize(s[k])
      /\ \A k \in 1..Len(t) : e[k] = truesize(t[k])
      /\ \A k \in 1..(Len(s) + Len(t)) : c[k] = truesize((s \o t)[k])
  BY <1>1, SizesType
<1> HIDE DEF f, e, c
<1>7. /\ f \o e \in Seq(Nat) /\ Len(f \o e) = Len(f) + Len(e)
      /\ \A k \in 1..(Len(f) + Len(e)) : (f \o e)[k] = IF k <= Len(f) THEN f[k] ELSE e[k - Len(f)]
  <2>1. f \in Seq(Nat) /\ e \in Seq(Nat)
    BY <1>2
  <2> QED BY <2>1, ConcatProperties
<1>3. f \o e \in Seq(Nat) /\ Len(f \o e) = Len(c)
  BY <1>2, <1>7
<1>4. ASSUME NEW k \in 1..Len(c) PROVE (f \o e)[k] = c[k]
  <2>1. CASE k <= Len(s)
    <3>1. k \in 1..Len(s) /\ k \in 1..Len(f)
      BY <1>1, <1>2, <2>1
    <3>2. (f \o e)[k] = f[k] /\ (s \o t)[k] = s[k]
      BY <1>2, <3>1
    <3> QED BY <1>2, <3>1, <3>2
  <2>2. CASE k > Len(s)
    <3>1. k - Len(s) \in 1..Len(t) /\ Len(f) = Len(s) /\ k \in 1..(Len(s) + Len(t))
      BY <1>1, <1>2, <2>2
    <3>2. (f \o e)[k] = e[k - Len(s)] /\ (s \o t)[k] = t[k - Len(s)]
      <4>1. k \in 1..(Len(f) + Len(e)) /\ ~(k <= Len(f)) /\ ~(k <= Len(s))
        BY <1>1, <1>2, <2>2
      <4>2. (f \o e)[k] = e[k - Len(f)]
        BY <1>7, <4>1
      <4>3. (s \o t)[k] = t[k - Len(s)]
        BY <3>1, <4>1, ConcatProperties
      <4> QED BY <3>1, <4>2, <4>3
    <3> QED BY <1>2, <3>1, <3>2
  <2> QED BY <1>1, <1>2, <2>1, <2>2
<1>5. SumOf(c) = SumOf(f \o e)
  <2>1. \A k \in 1..Len(c) : c[k] = (f \o e)[k]
    BY <1>4
  <2> QED BY <1>2, <1>3, <2>1, SameSum
<1>6. SumOf(f) \in Nat /\ SumOf(e) \in Nat /\ SumOf(f \o e) = SumOf(f) + SumOf(e)
  BY <1>2, SumConcat
<1> QED BY <1>5, <1>6 DEF Total, f, e, c

\* A list with one member has its size.
LEMMA TotalOne ==
  ASSUME NEW p \in Segments
  PROVE  Total(<<p>>) = truesize(p) /\ truesize(p) \in Nat /\ Total(<<>>) = 0
<1>1. truesize(p) \in Nat
  BY SegmentFields DEF truesize
<1>2. <<p>> \in Seq(Segments) /\ Len(<<p>>) = 1 /\ <<p>>[1] = p /\ <<>> \in Seq(Segments)
  OBVIOUS
<1>3. <<>> \in Seq(Nat) /\ Append(<<>>, truesize(p)) = <<truesize(p)>>
  OBVIOUS
<1>4. SumOf(<<truesize(p)>>) = truesize(p)
  <2>1. SumOf(<<>>) \in Nat /\ SumOf(Append(<<>>, truesize(p))) = SumOf(<<>>) + truesize(p)
    BY <1>1, <1>3, SumAppend
  <2>2. SumOf(Append(<<>>, truesize(p))) = truesize(p)
    BY <1>1, <2>1, SumEmpty
  <2> QED BY <1>3, <2>2
<1>5. SumOf(Sizes(<<p>>)) = SumOf(<<truesize(p)>>)
  <2>1. /\ Sizes(<<p>>) \in Seq(Nat) /\ Len(Sizes(<<p>>)) = 1
        /\ \A k \in 1..1 : Sizes(<<p>>)[k] = truesize(<<p>>[k])
    BY <1>2, SizesType
  <2>2. <<truesize(p)>> \in Seq(Nat) /\ Len(<<truesize(p)>>) = 1 /\ <<truesize(p)>>[1] = truesize(p)
    BY <1>1
  <2>3. \A k \in 1..1 : Sizes(<<p>>)[k] = <<truesize(p)>>[k]
    BY <1>2, <2>1, <2>2
  <2> QED BY <2>1, <2>2, <2>3, SameSum
<1>6. Sizes(<<>>) = <<>>
  <2>1. Sizes(<<>>) \in Seq(Nat) /\ Len(Sizes(<<>>)) = 0
    BY <1>2, SizesType
  <2>2. <<>> \in Seq(Nat) /\ Len(<<>>) = 0
    OBVIOUS
  <2>3. \A k \in 1..Len(Sizes(<<>>)) : Sizes(<<>>)[k] = <<>>[k]
    BY <2>1
  <2> QED BY <2>1, <2>2, <2>3, SeqEqual
<1> QED BY <1>1, <1>4, <1>5, <1>6, SumEmpty DEF Total

\* t is s with p put in at i.
Inserts(s, i, p, t) ==
  /\ t \in Seq(Segments) /\ Len(t) = Len(s) + 1
  /\ t[i] = p
  /\ \A k \in 1..(i - 1) : t[k] = s[k]
  /\ \A k \in (i + 1)..(Len(s) + 1) : t[k] = s[k - 1]
  /\ Total(t) = Total(s) + truesize(p)

\* That is what InsertAt returns.
LEMMA Inserted ==
  ASSUME NEW s \in Seq(Segments), NEW p \in Segments, NEW i \in 1..(Len(s) + 1)
  PROVE  Inserts(s, i, p, InsertAt(s, i, p))
<1> DEFINE a == SubSeq(s, 1, i - 1)
           b == SubSeq(s, i, Len(s))
           m == a \o <<p>>
           t == m \o b
<1>1. Len(s) \in Nat /\ i \in Int /\ i >= 1 /\ i <= Len(s) + 1 /\ \A k \in 1..Len(s) : s[k] \in Segments
  OBVIOUS
<1>2. /\ a \in Seq(Segments) /\ Len(a) = i - 1 /\ \A k \in 1..(i - 1) : a[k] = s[k]
      /\ b \in Seq(Segments) /\ Len(b) = Len(s) - i + 1 /\ \A k \in 1..(Len(s) - i + 1) : b[k] = s[i + k - 1]
  BY <1>1, SubSeqProperties
<1> HIDE DEF a, b
<1>3. <<p>> \in Seq(Segments) /\ Len(<<p>>) = 1 /\ <<p>>[1] = p
  OBVIOUS
<1>4. /\ m \in Seq(Segments) /\ Len(m) = i
      /\ \A k \in 1..i : m[k] = IF k <= i - 1 THEN a[k] ELSE <<p>>[k - (i - 1)]
  <2>1. /\ m \in Seq(Segments) /\ Len(m) = Len(a) + 1
        /\ \A k \in 1..(Len(a) + 1) : m[k] = IF k <= Len(a) THEN a[k] ELSE <<p>>[k - Len(a)]
    BY <1>2, <1>3, ConcatProperties
  <2>2. Len(a) = i - 1 /\ Len(a) + 1 = i
    BY <1>1, <1>2
  <2> QED BY <2>1, <2>2
<1>5. /\ m[i] = p
      /\ \A k \in 1..(i - 1) : m[k] = s[k]
  <2>1. i \in 1..i /\ ~(i <= i - 1) /\ i - (i - 1) = 1
    BY <1>1
  <2>2. m[i] = p
    BY <1>3, <1>4, <2>1
  <2>3. \A k \in 1..(i - 1) : k \in 1..i /\ k <= i - 1
    BY <1>1
  <2> QED BY <1>2, <1>4, <2>2, <2>3
<1> HIDE DEF m
<1>6. /\ t \in Seq(Segments) /\ Len(t) = Len(s) + 1
      /\ \A k \in 1..(Len(s) + 1) : t[k] = IF k <= i THEN m[k] ELSE b[k - i]
  <2>1. /\ t \in Seq(Segments) /\ Len(t) = Len(m) + Len(b)
        /\ \A k \in 1..(Len(m) + Len(b)) : t[k] = IF k <= Len(m) THEN m[k] ELSE b[k - Len(m)]
    BY <1>2, <1>4, ConcatProperties
  <2>2. Len(m) = i /\ Len(m) + Len(b) = Len(s) + 1
    BY <1>1, <1>2, <1>4
  <2> QED BY <2>1, <2>2
<1> HIDE DEF t
<1>7. /\ t[i] = p
      /\ \A k \in 1..(i - 1) : t[k] = s[k]
  <2>1. i \in 1..(Len(s) + 1) /\ i <= i
    BY <1>1
  <2>2. \A k \in 1..(i - 1) : k \in 1..(Len(s) + 1) /\ k <= i
    BY <1>1
  <2> QED BY <1>5, <1>6, <2>1, <2>2
<1>8. ASSUME NEW k \in (i + 1)..(Len(s) + 1) PROVE t[k] = s[k - 1]
  <2>1. k \in 1..(Len(s) + 1) /\ ~(k <= i) /\ k - i \in 1..(Len(s) - i + 1) /\ i + (k - i) - 1 = k - 1
    BY <1>1
  <2>2. t[k] = b[k - i]
    BY <1>6, <2>1
  <2> QED BY <1>2, <2>1, <2>2
<1>9. s = a \o b
  <2>1. /\ a \o b \in Seq(Segments) /\ Len(a \o b) = Len(a) + Len(b)
        /\ \A k \in 1..(Len(a) + Len(b)) : (a \o b)[k] = IF k <= Len(a) THEN a[k] ELSE b[k - Len(a)]
    BY <1>2, ConcatProperties
  <2>2. Len(a) + Len(b) = Len(s)
    BY <1>1, <1>2
  <2>3. ASSUME NEW k \in 1..Len(s) PROVE s[k] = (a \o b)[k]
    <3>1. CASE k <= i - 1
      <4>1. k \in 1..(i - 1) /\ k <= Len(a)
        BY <1>1, <1>2, <3>1
      <4> QED BY <1>2, <2>1, <2>2, <4>1
    <3>2. CASE k > i - 1
      <4>1. k - (i - 1) \in 1..(Len(s) - i + 1) /\ ~(k <= Len(a)) /\ k - Len(a) = k - (i - 1)
            /\ i + (k - (i - 1)) - 1 = k
        BY <1>1, <1>2, <3>2
      <4>2. (a \o b)[k] = b[k - (i - 1)]
        BY <2>1, <2>2, <4>1
      <4> DEFINE j == k - (i - 1)
      <4>6. (a \o b)[k] = b[j]
        BY <4>2
      <4>3. j \in 1..(Len(s) - i + 1) /\ i + j - 1 = k
        BY <4>1
      <4> HIDE DEF j
      <4>4. b[j] = s[i + j - 1]
        BY <1>2, <4>3
      <4>5. b[j] = s[k]
        BY <4>3, <4>4
      <4> QED BY <4>5, <4>6
    <3>3. k <= i - 1 \/ k > i - 1
      BY <1>1
    <3> QED BY <3>1, <3>2, <3>3
  <2>4. Len(a \o b) = Len(s)
    BY <2>1, <2>2
  <2> QED BY <2>1, <2>3, <2>4, SeqEqual
<1>10. Total(t) = Total(s) + truesize(p)
  <2>1. Total(t) = Total(m) + Total(b)
    BY <1>2, <1>4, TotalConcat DEF t
  <2>2. Total(m) = Total(a) + Total(<<p>>)
    BY <1>2, <1>3, TotalConcat DEF m
  <2>3. Total(s) = Total(a) + Total(b) /\ Total(a) \in Nat /\ Total(b) \in Nat
    BY <1>2, <1>9, TotalConcat
  <2> QED BY <2>1, <2>2, <2>3, TotalOne
<1>11. t = InsertAt(s, i, p)
  BY DEF InsertAt, t, m, a, b
<1>12. Inserts(s, i, p, t)
  BY <1>6, <1>7, <1>8, <1>10 DEF Inserts
<1> QED BY <1>11, <1>12

\* A list without its head.
LEMMA Beheaded ==
  ASSUME NEW s \in Seq(Segments), s # <<>>
  PROVE  /\ Head(s) = s[1] /\ s[1] \in Segments /\ Len(s) \in Nat /\ Len(s) > 0
         /\ Tail(s) \in Seq(Segments) /\ Len(Tail(s)) = Len(s) - 1
         /\ \A k \in 1..Len(Tail(s)) : Tail(s)[k] = s[k + 1]
         /\ Total(Tail(s)) = Total(s) - truesize(s[1])
<1>1. /\ Head(s) = s[1] /\ s[1] \in Segments /\ Len(s) \in Nat /\ Len(s) > 0
      /\ Tail(s) \in Seq(Segments) /\ Len(Tail(s)) = Len(s) - 1
      /\ \A k \in 1..Len(Tail(s)) : Tail(s)[k] = s[k + 1]
  BY HeadTailProperties
<1> DEFINE t == Tail(s)
           x == s[1]
<1>2. <<x>> \in Seq(Segments) /\ Len(<<x>>) = 1 /\ <<x>>[1] = x
  BY <1>1
<1>3. s = <<x>> \o t
  <2>1. /\ <<x>> \o t \in Seq(Segments) /\ Len(<<x>> \o t) = 1 + Len(t)
        /\ \A k \in 1..(1 + Len(t)) : (<<x>> \o t)[k] = IF k <= 1 THEN <<x>>[k] ELSE t[k - 1]
    BY <1>1, <1>2, ConcatProperties
  <2>2. ASSUME NEW k \in 1..Len(s) PROVE s[k] = (<<x>> \o t)[k]
    <3>1. CASE k = 1
      BY <1>1, <1>2, <2>1, <3>1
    <3>2. CASE k > 1
      <4>1. k - 1 \in 1..Len(t) /\ ~(k <= 1) /\ k \in 1..(1 + Len(t)) /\ (k - 1) + 1 = k
        BY <1>1, <3>2
      <4> QED BY <1>1, <2>1, <4>1
    <3> QED BY <3>1, <3>2
  <2>3. Len(s) = 1 + Len(t)
    BY <1>1
  <2> QED BY <2>1, <2>2, <2>3, SeqEqual
<1>4. Total(s) = Total(<<x>>) + Total(t) /\ Total(t) \in Nat
  BY <1>1, <1>2, <1>3, TotalConcat
<1>5. Total(<<x>>) = truesize(x) /\ truesize(x) \in Nat
  BY <1>1, TotalOne
<1> HIDE DEF t, x
<1>6. Total(t) = Total(s) - truesize(x)
  BY <1>4, <1>5
<1> QED BY <1>1, <1>6 DEF t, x

\* The list of h: its members were let through (they are in g) inside a window
\* behind acknowledgement a, they are sorted and accounted for, and a FIN
\* among them has been noted.
Members(h, g, a) ==
  /\ \A k \in 1..Len(h.list) :
       /\ Cut(h.list[k]) /\ Bytes(h.list[k]) \subseteq g
       /\ h.list[k].pos + h.list[k].len <= a + Window + 1
       /\ h.list[k].pos <= At(h) + Half
  /\ \A k, l \in 1..Len(h.list) : k <= l => h.list[k].pos <= h.list[l].pos
  /\ h.rmem_alloc = Total(h.list)
  /\ (\E k \in 1..Len(h.list) : h.list[k].fin = 1) => h.state = "CLOSING" \/ At(h) = N

\* Byte b waits in the list.
Listed(h, b) == \E k \in 1..Len(h.list) : b \in Bytes(h.list[k])

\* What holds while the list is drained: everything let through is in the
\* stream or in the list, and the head is not further behind than a segment.
Loop(h, g, a) ==
  /\ Streams(h) /\ Members(h, g, a)
  /\ \A k \in 1..Len(h.list) : At(h) <= h.list[k].pos + MaxLen
  /\ At(h) <= a + Window + 1
  /\ 0..(At(h) - 1) \subseteq g
  /\ \A b \in g : b >= At(h) => Listed(h, b)

\* How tcp_queue sees a segment that is not too far behind: ahead only when
\* it is by less than half a turn.
LEMMA Looks ==
  ASSUME N < Mod, NEW h, Streams(h), NEW p \in Segments, Cut(p),
         At(h) - p.pos <= MaxLen + Window + 1
  PROVE  /\ after(seq(p), EXP_SEQ(h)) <=> p.pos > At(h) /\ p.pos - At(h) <= Half
         /\ New(h, p) <=> p.pos + p.len + p.fin > At(h) /\ (p.pos + p.len + p.fin) - At(h) <= Half
<1> DEFINE r == At(h)
           pos == p.pos
           end == p.pos + p.len + p.fin
<1>1. /\ r \in Int /\ r >= 0 /\ r <= N /\ Stands(EXP_SEQ(h), r)
  BY HalfFields, Widths
<1>2. /\ pos \in Int /\ pos >= 0 /\ pos <= N /\ Stands(seq(p), pos)
      /\ end \in Int /\ end >= pos /\ end <= N + 1 /\ Stands(End(p), end)
  <2>1. /\ p.pos \in Nat /\ p.len \in Nat /\ p.fin \in 0..1 /\ p.pos + p.len <= N /\ N \in Nat
        /\ Stands(seq(p), p.pos) /\ Stands(End(p), p.pos + p.len + p.fin)
    BY SegmentFields, Widths DEF Cut
  <2> QED BY <2>1
<1>3. r - pos <= MaxLen + Window + 1
  OBVIOUS
<1> HIDE DEF r, pos, end
<1>4. /\ Mod \in Int /\ Half \in Int /\ Half > 1 /\ Mod = 2 * Half /\ N \in Nat
      /\ MaxLen \in Nat /\ Window \in Nat /\ 2 * Window + MaxLen + 1 < Half
  BY Widths
<1>5. (r - pos) \in (-Mod)..(Half - 1) /\ (r - end) \in (-Mod)..(Half - 1)
  BY <1>1, <1>2, <1>3, <1>4
<1>6. after(seq(p), EXP_SEQ(h)) <=> (r - pos) \in (-Half)..(-1)
  BY <1>1, <1>2, <1>5, Before DEF after
<1>7. New(h, p) <=> (r - end) \in (-Half)..(-1)
  BY <1>1, <1>2, <1>5, Before DEF New, after
<1>8. (r - pos) \in (-Half)..(-1) <=> pos > r /\ pos - r <= Half
  BY <1>1, <1>2, <1>4
<1>9. (r - end) \in (-Half)..(-1) <=> end > r /\ end - r <= Half
  BY <1>1, <1>2, <1>4
<1> QED BY <1>6, <1>7, <1>8, <1>9 DEF r, pos, end

\* A turn of the loop ends it, or takes the head out and keeps the rest in
\* order.
LEMMA Dequeued ==
  ASSUME N < Mod, NEW g \in SUBSET Nat, NEW a \in Int, NEW h, Loop(h, g, a), h.list # <<>>
  PROVE  IF h.list[1].pos > At(h)
           THEN Dequeue(h) = h
           ELSE /\ Loop(Dequeue(h), g, a) /\ At(h) <= At(Dequeue(h))
                /\ Len(Dequeue(h).list) = Len(h.list) - 1
                /\ Ended(h) => Ended(Dequeue(h))
<1> DEFINE x == h.list[1]
           t == Tail(h.list)
           r == At(h)
<1>1. Streams(h) /\ Members(h, g, a)
  BY DEF Loop
<1>2. /\ h.list \in Seq(Segments) /\ r \in Int /\ r >= 0 /\ r <= N /\ h \in Halves
      /\ h.state \in {"ESTABLISHED", "CLOSING", "FIN_SENT", "FIN_CONFIRMED"}
  BY <1>1, HalfFields, Widths DEF Streams
<1>3. /\ Head(h.list) = x /\ x \in Segments /\ Len(h.list) \in Nat /\ Len(h.list) > 0
      /\ t \in Seq(Segments) /\ Len(t) = Len(h.list) - 1
      /\ \A k \in 1..Len(t) : t[k] = h.list[k + 1]
      /\ Total(t) = Total(h.list) - truesize(x)
  BY <1>2, Beheaded
<1> HIDE DEF t
<1>4. /\ 1 \in 1..Len(h.list)
      /\ Cut(x) /\ Bytes(x) \subseteq g
      /\ x.pos + x.len <= a + Window + 1 /\ x.pos <= r + Half /\ r <= x.pos + MaxLen
  BY <1>1, <1>3 DEF Members, Loop
<1>5. /\ x.pos \in Nat /\ x.len \in Nat /\ x.len <= MaxLen /\ x.fin \in 0..1 /\ x.pos + x.len <= N
      /\ (x.fin = 1 => x.pos + x.len = N)
  BY <1>3, <1>4, SegmentFields DEF Cut
<1>6. /\ Half \in Int /\ N \in Nat /\ MaxLen \in Nat /\ Window \in Nat /\ 2 * Window + MaxLen + 1 < Half
  BY Widths
<1>7. /\ after(seq(x), EXP_SEQ(h)) <=> x.pos > r /\ x.pos - r <= Half
      /\ New(h, x) <=> x.pos + x.len + x.fin > r /\ (x.pos + x.len + x.fin) - r <= Half
  <2>1. r - x.pos <= MaxLen + Window + 1
    <3> DEFINE pos == x.pos
    <3>1. r <= pos + MaxLen /\ pos \in Int /\ r \in Int
      BY <1>2, <1>4, <1>5
    <3>2. r - pos <= MaxLen + Window + 1
      <4> HIDE DEF pos, r
      <4> QED BY <1>6, <3>1
    <3> QED BY <3>2
  <2> QED BY <1>1, <1>3, <1>4, <2>1, Looks
<1> HIDE DEF x
<1>8. CASE x.pos > r
  <2>1. after(seq(x), EXP_SEQ(h))
    BY <1>2, <1>4, <1>5, <1>6, <1>7, <1>8
  <2>2. Dequeue(h) = h
    BY <1>3, <2>1 DEF Dequeue
  <2> QED BY <1>8, <2>2 DEF x
<1>9. CASE ~(x.pos > r)
  <2> DEFINE m == IF New(h, x) THEN add_from_skb(h, x) ELSE h
             q == Dequeue(h)
  <2>1. ~after(seq(x), EXP_SEQ(h)) /\ x.pos <= r
    BY <1>2, <1>5, <1>7, <1>9
  <2>2. New(h, x) <=> x.pos + x.len + x.fin > r
    BY <1>2, <1>4, <1>5, <1>6, <1>7, <2>1
  <2>3. q = [m EXCEPT !.list = Tail(@), !.rmem_alloc = @ - truesize(x)]
    BY <1>3, <2>1 DEF Dequeue
  <2>4. /\ Streams(m) /\ m.list = h.list /\ m.rmem_alloc = h.rmem_alloc
        /\ r <= At(m) /\ x.pos + x.len <= At(m) /\ (At(m) = r \/ At(m) = x.pos + x.len)
        /\ m.state = h.state \/ (m.state = "FIN_SENT" /\ At(m) = N)
    <3>1. CASE New(h, x)
      <4>1. Fits(h, x)
        BY <1>2, <1>4, <1>5, <1>6, <2>1, <2>2, <3>1 DEF Fits
      <4>2. Takes(h, x, m)
        BY <1>1, <1>3, <1>4, <3>1, <4>1, Added
      <4>3. x.pos + x.len >= r
        BY <1>2, <1>5, <2>2, <3>1
      <4> HIDE DEF m
      <4>4. Streams(m) /\ At(m) = x.pos + x.len /\ m.list = h.list /\ m.rmem_alloc = h.rmem_alloc
            /\ m.state = IF x.fin = 1 THEN "FIN_SENT" ELSE h.state
        BY <4>2 DEF Takes
      <4> QED BY <1>5, <4>3, <4>4
    <3>2. CASE ~New(h, x)
      <4>1. m = h
        BY <3>2
      <4>2. x.pos + x.len <= r
        BY <1>2, <1>5, <2>2, <3>2
      <4> HIDE DEF m
      <4> QED BY <1>1, <1>2, <4>1, <4>2
    <3> QED BY <3>1, <3>2
  <2> HIDE DEF m, q
  <2>5. /\ m \in Halves /\ m.rmem_alloc \in Int /\ At(m) \in Int /\ At(m) <= N
    BY <2>4, HalfFields, Widths DEF Streams
  <2>6. truesize(x) \in Nat
    BY <1>5 DEF truesize
  <2>7. /\ q \in Halves /\ q.list = t /\ q.rmem_alloc = h.rmem_alloc - truesize(x)
        /\ q.count = m.count /\ q.urg_count = m.urg_count /\ q.urg_seen = m.urg_seen
        /\ q.urg_ptr = m.urg_ptr /\ q.out = m.out /\ q.state = m.state
    <3>1. q = [m EXCEPT !.list = t, !.rmem_alloc = h.rmem_alloc - truesize(x)]
      BY <2>3, <2>4 DEF t
    <3>2. h.rmem_alloc - truesize(x) \in Int
      BY <2>4, <2>5, <2>6
    <3> QED BY <1>3, <2>5, <3>1, <3>2 DEF Halves
  <2>8. At(q) = At(m)
    BY <2>7 DEF At
  <2>9. Streams(q)
    BY <2>4, <2>7, <2>8 DEF Streams, Ended
  <2>10. \A k \in 1..Len(q.list) : /\ k + 1 \in 1..Len(h.list) /\ k \in 1..Len(t) /\ 1 <= k + 1
                                   /\ q.list[k] = h.list[k + 1]
    BY <1>3, <2>7
  <2>11. ASSUME NEW k \in 1..Len(q.list)
         PROVE  /\ Cut(q.list[k]) /\ Bytes(q.list[k]) \subseteq g
                /\ q.list[k].pos + q.list[k].len <= a + Window + 1
                /\ q.list[k].pos <= At(q) + Half
                /\ At(q) <= q.list[k].pos + MaxLen
    <3> DEFINE y == q.list[k]
    <3>1. y = h.list[k + 1] /\ k + 1 \in 1..Len(h.list) /\ y \in Segments
      BY <1>2, <2>10
    <3>2. /\ Cut(y) /\ Bytes(y) \subseteq g /\ y.pos + y.len <= a + Window + 1
          /\ y.pos <= r + Half /\ x.pos <= y.pos /\ r <= y.pos + MaxLen
      <4> HIDE DEF y
      <4>1. x.pos <= y.pos
        BY <1>1, <1>4, <2>10, <3>1 DEF Members, x
      <4> QED BY <1>1, <3>1, <4>1 DEF Members, Loop
    <3> HIDE DEF y
    <3>3. y.pos \in Nat
      BY <3>1, SegmentFields
    <3>4. y.pos <= At(q) + Half /\ At(q) <= y.pos + MaxLen
      <4> DEFINE yp == y.pos
                 xp == x.pos
                 xl == x.len
                 s == At(q)
      <4>1. /\ yp <= r + Half /\ xp <= yp /\ r <= yp + MaxLen /\ yp \in Int
            /\ xp \in Int /\ xl \in Int /\ xl <= MaxLen
        BY <1>5, <3>2, <3>3
      <4>2. r <= s /\ (s = r \/ s = xp + xl) /\ s \in Int /\ r \in Int
        BY <1>2, <2>4, <2>5, <2>8
      <4>3. yp <= s + Half /\ s <= yp + MaxLen
        <5> HIDE DEF yp, xp, xl, s, r
        <5> QED BY <1>6, <4>1, <4>2
      <4> QED BY <4>3
    <3> QED BY <3>2, <3>4 DEF y
  <2>12. \A k, l \in 1..Len(q.list) : k <= l => q.list[k].pos <= q.list[l].pos
    <3> TAKE k, l \in 1..Len(q.list)
    <3>1. /\ k + 1 \in 1..Len(h.list) /\ l + 1 \in 1..Len(h.list) /\ (k <= l => k + 1 <= l + 1)
          /\ q.list[k] = h.list[k + 1] /\ q.list[l] = h.list[l + 1]
      BY <1>3, <2>7, <2>10
    <3> QED BY <1>1, <3>1 DEF Members
  <2>13. q.rmem_alloc = Total(q.list)
    BY <1>1, <1>3, <2>7 DEF Members
  <2>14. ASSUME NEW k \in 1..Len(q.list), q.list[k].fin = 1
         PROVE  q.state = "CLOSING" \/ At(q) = N
    <3>1. h.state = "CLOSING" \/ At(h) = N
      BY <1>1, <2>10, <2>14 DEF Members
    <3> QED BY <1>2, <1>6, <2>4, <2>5, <2>7, <2>8, <3>1
  <2>15. Members(q, g, a)
    BY <2>11, <2>12, <2>13, <2>14 DEF Members
  <2>16. At(q) <= a + Window + 1
    BY <1>4, <2>4, <2>8 DEF Loop
  <2>17. 0..(At(q) - 1) \subseteq g
    <3> SUFFICES ASSUME NEW i \in 0..(At(q) - 1) PROVE i \in g
      OBVIOUS
    <3>1. i \in 0..(r - 1) \/ i \in x.pos..(x.pos + x.len - 1)
      BY <1>2, <1>5, <2>1, <2>4, <2>5, <2>8
    <3> QED BY <1>4, <3>1 DEF Loop, Bytes
  <2>18. ASSUME NEW b \in g, b >= At(q) PROVE Listed(q, b)
    <3>1. PICK k \in 1..Len(h.list) : b \in Bytes(h.list[k])
      <4>1. b >= r => Listed(h, b)
        BY DEF Loop
      <4>2. b \in Int => b >= r
        BY <1>2, <2>4, <2>5, <2>8, <2>18
      <4>3. b \in Int
        OBVIOUS
      <4> QED BY <4>1, <4>2, <4>3 DEF Listed
    <3>2. b \in Int
      <4>1. h.list[k].pos \in Int /\ h.list[k].len \in Int
        BY <1>2, SegmentFields
      <4> QED BY <3>1, <4>1 DEF Bytes
    <3>3. k # 1
      <4> SUFFICES ASSUME k = 1 PROVE FALSE
        OBVIOUS
      <4>1. b \in x.pos..(x.pos + x.len - 1)
        BY <3>1 DEF Bytes, x
      <4> QED BY <1>5, <2>4, <2>5, <2>8, <2>18, <3>2, <4>1
    <3>4. k - 1 \in 1..Len(q.list) /\ (k - 1) + 1 = k
      BY <1>3, <2>7, <3>3
    <3>5. q.list[k - 1] = h.list[k]
      BY <2>10, <3>4
    <3> QED BY <3>1, <3>4, <3>5 DEF Listed
  <2>19. Loop(q, g, a)
    BY <2>9, <2>11, <2>15, <2>16, <2>17, <2>18 DEF Loop
  <2>20. /\ At(h) <= At(q) /\ Len(q.list) = Len(h.list) - 1
         /\ Ended(h) => Ended(q)
    BY <1>3, <2>4, <2>7, <2>8 DEF Ended
  <2> QED BY <1>9, <2>19, <2>20 DEF q, x
<1> QED BY <1>8, <1>9

\* turn[k] is h after k turns of the loop.
TurnsOf(h, n, turn) == turn = [k \in 0..n |-> IF k = 0 THEN h ELSE Dequeue(turn[k - 1])]

\* The loop can be run, so that Turns(h) is what its recursion says.
LEMMA TurnsExist ==
  ASSUME NEW h, h.list \in Seq(Segments)
  PROVE  TurnsOf(h, Len(h.list), Turns(h))
<1> DEFINE T == {n \in Nat : \E turn : TurnsOf(h, n, turn)}
<1>1. 0 \in T
  <2> DEFINE turn == [k \in 0..0 |-> h]
  <2>1. turn = [k \in 0..0 |-> IF k = 0 THEN h ELSE Dequeue(turn[k - 1])]
    OBVIOUS
  <2> HIDE DEF turn
  <2>2. TurnsOf(h, 0, turn)
    BY <2>1 DEF TurnsOf
  <2> QED BY <2>2
<1>2. ASSUME NEW n \in T PROVE n + 1 \in T
  <2>1. n \in Nat /\ n + 1 \in Nat
    OBVIOUS
  <2>2. PICK turn : TurnsOf(h, n, turn)
    OBVIOUS
  <2> DEFINE more == [k \in 0..(n + 1) |-> IF k = n + 1 THEN Dequeue(turn[n]) ELSE turn[k]]
  <2>3. \A k \in 0..n : turn[k] = IF k = 0 THEN h ELSE Dequeue(turn[k - 1])
    BY <2>2 DEF TurnsOf
  <2>4. ASSUME NEW k \in 0..(n + 1)
        PROVE  more[k] = IF k = 0 THEN h ELSE Dequeue(more[k - 1])
    <3>1. CASE k = n + 1
      <4>1. k # 0 /\ k - 1 = n /\ k - 1 \in 0..(n + 1) /\ k - 1 # n + 1
        BY <2>1, <3>1
      <4>2. more[k] = Dequeue(turn[n])
        BY <3>1
      <4>3. more[k - 1] = turn[n]
        BY <4>1
      <4> QED BY <4>1, <4>2, <4>3
    <3>2. CASE k # n + 1
      <4>1. k \in 0..n
        BY <2>1, <3>2
      <4>2. more[k] = turn[k]
        BY <3>2
      <4>3. k # 0 => k - 1 \in 0..(n + 1) /\ k - 1 # n + 1
        BY <2>1, <4>1
      <4>4. k # 0 => more[k - 1] = turn[k - 1]
        BY <4>3
      <4> HIDE DEF more
      <4> QED BY <2>3, <4>1, <4>2, <4>4
    <3> QED BY <3>1, <3>2
  <2>5. more = [k \in 0..(n + 1) |-> more[k]]
    OBVIOUS
  <2> HIDE DEF more
  <2>6. TurnsOf(h, n + 1, more)
    BY <2>4, <2>5 DEF TurnsOf
  <2> QED BY <2>1, <2>6
<1>3. T = Nat
  <2> HIDE DEF T
  <2>1. T \in SUBSET Nat
    BY DEF T
  <2> QED BY <1>1, <1>2, <2>1, SetInduction
<1>4. \E turn : TurnsOf(h, Len(h.list), turn)
  <2>1. Len(h.list) \in T
    <3>1. Len(h.list) \in Nat
      OBVIOUS
    <3> HIDE DEF T
    <3> QED BY <1>3, <3>1
  <2> QED BY <2>1
<1>5. Turns(h) = CHOOSE turn : TurnsOf(h, Len(h.list), turn)
  BY DEF Turns, TurnsOf
<1> QED BY <1>4, <1>5

\* The loop ends with nothing in the list but what is ahead of the stream.
LEMMA DrainedLoop ==
  ASSUME N < Mod, NEW g \in SUBSET Nat, NEW a \in Int, NEW h, Loop(h, g, a)
  PROVE  LET d == Drained(h)
         IN  /\ Loop(d, g, a) /\ At(h) <= At(d)
             /\ \A k \in 1..Len(d.list) : d.list[k].pos > At(d)
             /\ Ended(h) => Ended(d)
<1> DEFINE L == Len(h.list)
           turn == Turns(h)
           T == {n \in Nat : n <= L =>
                   /\ Loop(turn[n], g, a) /\ At(h) <= At(turn[n])
                   /\ Ended(h) => Ended(turn[n])
                   /\ \/ Len(turn[n].list) = L - n
                      \/ turn[n].list # <<>> /\ turn[n].list[1].pos > At(turn[n])}
<1>1. h.list \in Seq(Segments) /\ L \in Nat /\ At(h) \in Int
  BY HalfFields DEF Loop
<1>2. \A k \in 0..L : turn[k] = IF k = 0 THEN h ELSE Dequeue(turn[k - 1])
  <2>1. TurnsOf(h, L, turn)
    BY <1>1, TurnsExist
  <2> HIDE DEF turn
  <2> QED BY <2>1 DEF TurnsOf
<1>8. Drained(h) = turn[L]
  BY DEF Drained
<1> HIDE DEF turn
<1>3. 0 \in T
  <2>1. turn[0] = h
    BY <1>1, <1>2
  <2> QED BY <1>1, <2>1
<1>4. ASSUME NEW n \in T PROVE n + 1 \in T
  <2>1. n \in Nat /\ n + 1 \in Nat
    OBVIOUS
  <2> DEFINE m == n + 1
             x == turn[n]
             y == turn[n + 1]
  <2>2. ASSUME m <= L
        PROVE  /\ Loop(y, g, a) /\ At(h) <= At(y)
               /\ Ended(h) => Ended(y)
               /\ \/ Len(y.list) = L - m
                  \/ y.list # <<>> /\ y.list[1].pos > At(y)
    <3>1. n <= L /\ m \in 0..L /\ m # 0 /\ m - 1 = n
      BY <1>1, <2>1, <2>2
    <3>2. /\ Loop(x, g, a) /\ At(h) <= At(x)
          /\ Ended(h) => Ended(x)
          /\ \/ Len(x.list) = L - n
             \/ x.list # <<>> /\ x.list[1].pos > At(x)
      BY <3>1
    <3>3. y = Dequeue(x)
      <4>1. turn[m] = Dequeue(turn[m - 1])
        BY <1>2, <3>1
      <4> QED BY <3>1, <4>1
    <3> HIDE DEF x, y, T
    <3>4. x.list \in Seq(Segments) /\ At(x) \in Int
      BY <3>2, HalfFields DEF Loop
    <3>5. x.list # <<>>
      <4>1. CASE Len(x.list) = L - n
        <5>1. L - n # 0
          BY <1>1, <2>1, <2>2
        <5>2. Len(<<>>) = 0
          OBVIOUS
        <5> QED BY <4>1, <5>1, <5>2
      <4> QED BY <3>2, <4>1
    <3>6. IF x.list[1].pos > At(x)
            THEN Dequeue(x) = x
            ELSE /\ Loop(Dequeue(x), g, a) /\ At(x) <= At(Dequeue(x))
                 /\ Len(Dequeue(x).list) = Len(x.list) - 1
                 /\ Ended(x) => Ended(Dequeue(x))
      BY <3>2, <3>5, Dequeued
    <3>7. CASE x.list[1].pos > At(x)
      BY <3>2, <3>3, <3>5, <3>6, <3>7
    <3>8. CASE ~(x.list[1].pos > At(x))
      <4>1. /\ Loop(y, g, a) /\ At(x) <= At(y) /\ Len(y.list) = Len(x.list) - 1
            /\ Ended(x) => Ended(y)
        BY <3>3, <3>6, <3>8
      <4>2. Len(x.list) = L - n
        BY <3>2, <3>8
      <4>3. At(y) \in Int
        BY <4>1, HalfFields DEF Loop
      <4>4. At(h) <= At(y)
        BY <1>1, <3>2, <3>4, <4>1, <4>3
      <4>5. Len(y.list) = L - m
        BY <1>1, <2>1, <4>1, <4>2
      <4> QED BY <3>2, <4>1, <4>4, <4>5
    <3> QED BY <3>7, <3>8
  <2> QED BY <2>1, <2>2
<1>5. T = Nat
  <2> HIDE DEF T
  <2>1. T \in SUBSET Nat
    BY DEF T
  <2> QED BY <1>3, <1>4, <2>1, SetInduction
<1> DEFINE d == turn[L]
<1>6. /\ Loop(d, g, a) /\ At(h) <= At(d)
      /\ Ended(h) => Ended(d)
      /\ \/ Len(d.list) = L - L
         \/ d.list # <<>> /\ d.list[1].pos > At(d)
  <2>1. L \in T /\ L <= L
    BY <1>1, <1>5
  <2> HIDE DEF L
  <2> QED BY <2>1
<1> HIDE DEF d
<1>7. ASSUME NEW k \in 1..Len(d.list) PROVE d.list[k].pos > At(d)
  <2>1. d.list \in Seq(Segments) /\ At(d) \in Int /\ Members(d, g, a)
    BY <1>6, HalfFields DEF Loop
  <2>2. Len(d.list) # L - L
    BY <1>1, <2>1
  <2>3. d.list[1].pos > At(d) /\ 1 \in 1..Len(d.list) /\ 1 <= k
    BY <1>6, <2>1, <2>2
  <2>4. d.list[1].pos <= d.list[k].pos
    BY <2>1, <2>3 DEF Members
  <2>5. d.list[1].pos \in Int /\ d.list[k].pos \in Int
    <3>1. d.list[1] \in Segments /\ d.list[k] \in Segments
      BY <2>1, <2>3
    <3> QED BY <3>1, SegmentFields
  <2> QED BY <2>1, <2>3, <2>4, <2>5
<1> QED BY <1>6, <1>7, <1>8 DEF d

\* A set of positions has a last one.
LEMMA MaxOf ==
  ASSUME NEW n \in Nat, NEW S \in SUBSET (1..n), S # {}
  PROVE  Max(S) \in S /\ \A y \in S : y <= Max(S)
<1> DEFINE T == {m \in Nat : \A y \in S : y <= m}
<1>1. T \in SUBSET Nat /\ n \in T
  OBVIOUS
<1>2. PICK x \in T : \A m \in T : x <= m
  <2> HIDE DEF T
  <2>1. T # {}
    BY <1>1
  <2> QED BY <1>1, <2>1, LeastNumber
<1>3. x \in Nat /\ \A y \in S : y <= x
  BY <1>2
<1>4. x \in S
  <2> SUFFICES ASSUME x \notin S PROVE FALSE
    OBVIOUS
  <2>1. PICK z \in S : TRUE
    OBVIOUS
  <2>2. z >= 1 /\ z \in Int /\ z <= x
    BY <1>3
  <2>3. x - 1 \in Nat
    BY <1>3, <2>2
  <2>4. \A y \in S : y <= x - 1
    BY <1>3
  <2>5. x - 1 \in T
    BY <2>3, <2>4
  <2>6. x <= x - 1
    BY <1>2, <2>5
  <2> QED BY <1>3, <2>6
<1>5. \E m \in S : \A y \in S : m >= y
  BY <1>3, <1>4
<1>6. Max(S) \in S /\ \A y \in S : Max(S) >= y
  <2> DEFINE P(m) == m \in S /\ \A y \in S : m >= y
  <2>1. Max(S) = CHOOSE m \in S : \A y \in S : m >= y
    BY DEF Max
  <2> QED BY <1>5, <2>1
<1> QED BY <1>6

\* q is h with a segment behind the gap in its list.
Waits(h, g, a, p, q) ==
  /\ Streams(q) /\ At(q) = At(h) /\ q.out = h.out
  /\ Members(q, g \cup Bytes(p), a)
  /\ \A k \in 1..Len(q.list) : q.list[k].pos > At(q)
  /\ \A b : Listed(h, b) \/ b \in Bytes(p) => Listed(q, b)
  /\ ~Ended(h)

\* A segment behind a gap takes its place in the list.
LEMMA Enqueued ==
  ASSUME N < Mod, NEW g \in SUBSET Nat, NEW a \in Int, NEW h, Streams(h), Members(h, g, a),
         \A k \in 1..Len(h.list) : h.list[k].pos > At(h),
         NEW p \in Segments, Cut(p), p.pos > At(h), p.pos <= At(h) + Half,
         p.pos + p.len <= a + Window + 1
  PROVE  Waits(h, g, a, p, Enqueue(h, p))
<1> DEFINE L == Len(h.list)
           r == At(h)
           before_p == {k \in 1..L : ~after(seq(h.list[k]), seq(p))}
           at == IF before_p = {} THEN 1 ELSE Max(before_p) + 1
           t == InsertAt(h.list, at, p)
           q == Enqueue(h, p)
<1>1. /\ h.list \in Seq(Segments) /\ L \in Nat /\ r \in Int /\ r >= 0 /\ r <= N /\ h \in Halves
      /\ h.rmem_alloc \in Int
      /\ h.state \in {"ESTABLISHED", "CLOSING", "FIN_SENT", "FIN_CONFIRMED"}
  BY HalfFields, Widths DEF Streams
<1>2. /\ p.pos \in Nat /\ p.len \in Nat /\ p.fin \in 0..1 /\ p.pos + p.len <= N /\ Stands(seq(p), p.pos)
  BY SegmentFields DEF Cut
<1>3. /\ Mod \in Int /\ Half \in Int /\ Half > 1 /\ Mod = 2 * Half /\ N \in Nat
  BY Widths
<1>4. q = [h EXCEPT !.list = t, !.rmem_alloc = h.rmem_alloc + truesize(p),
                    !.state = IF p.fin = 1 THEN "CLOSING" ELSE h.state]
  BY DEF Enqueue
<1> HIDE DEF q
<1>5. \A k \in 1..L : h.list[k] \in Segments /\ h.list[k].pos \in Int /\ h.list[k].pos > r /\ h.list[k].pos <= r + Half
  <2> TAKE k \in 1..L
  <2>1. h.list[k] \in Segments
    BY <1>1
  <2> QED BY <2>1, SegmentFields DEF Members
<1>6. ASSUME NEW k \in 1..L
      PROVE  after(seq(h.list[k]), seq(p)) <=> h.list[k].pos > p.pos
  <2> DEFINE y == h.list[k].pos
             pos == p.pos
  <2>1. Stands(seq(h.list[k]), y)
    BY <1>5, SegmentFields
  <2>2. y \in Int /\ y > r /\ y <= r + Half /\ pos \in Int /\ pos > r /\ pos <= r + Half
    BY <1>2, <1>5
  <2>3. (pos - y) \in (-Mod)..(Half - 1)
    <3> HIDE DEF y, pos, r
    <3> QED BY <1>1, <1>3, <2>2
  <2>4. after(seq(h.list[k]), seq(p)) <=> (pos - y) \in (-Half)..(-1)
    <3> HIDE DEF y
    <3> QED BY <1>2, <2>1, <2>2, <2>3, Before DEF after
  <2>5. (pos - y) \in (-Half)..(-1) <=> y > pos
    <3> HIDE DEF y, pos, r
    <3> QED BY <1>1, <1>3, <2>2
  <2> QED BY <2>4, <2>5
<1>7. \A k \in 1..L : k \in before_p <=> h.list[k].pos <= p.pos
  BY <1>2, <1>5, <1>6
<1> HIDE DEF before_p
<1>8. before_p \in SUBSET (1..L)
  BY DEF before_p
<1>9. \A k, l \in 1..L : k <= l => h.list[k].pos <= h.list[l].pos
  BY DEF Members
<1>10. /\ at \in 1..(L + 1)
       /\ \A k \in 1..(at - 1) : k \in 1..L /\ h.list[k].pos <= p.pos
       /\ \A k \in at..L : k \in 1..L /\ p.pos <= h.list[k].pos
  <2>1. CASE before_p = {}
    <3>1. at = 1
      BY <2>1
    <3>2. \A k \in 1..L : p.pos <= h.list[k].pos
      BY <1>2, <1>5, <1>7, <2>1
    <3> HIDE DEF at
    <3> QED BY <1>1, <3>1, <3>2
  <2>2. CASE before_p # {}
    <3>1. at = Max(before_p) + 1
      BY <2>2
    <3> DEFINE m == Max(before_p)
    <3>2. m \in before_p /\ \A y \in before_p : y <= m
      BY <1>1, <1>8, <2>2, MaxOf
    <3> HIDE DEF m
    <3>3. m \in 1..L /\ at = m + 1
      BY <1>8, <3>1, <3>2 DEF m
    <3> HIDE DEF at
    <3>4. ASSUME NEW k \in 1..(at - 1) PROVE k \in 1..L /\ h.list[k].pos <= p.pos
      <4>1. k \in 1..L /\ k <= m
        BY <1>1, <3>3
      <4>2. h.list[k].pos <= h.list[m].pos /\ h.list[m].pos <= p.pos
        BY <1>7, <1>9, <3>2, <3>3, <4>1
      <4>3. h.list[k].pos \in Int /\ h.list[m].pos \in Int
        BY <1>5, <3>3, <4>1
      <4> QED BY <1>2, <4>1, <4>2, <4>3
    <3>5. ASSUME NEW k \in at..L PROVE k \in 1..L /\ p.pos <= h.list[k].pos
      <4>1. k \in 1..L /\ k > m
        BY <1>1, <3>3
      <4>2. k \notin before_p
        <5>1. m \in Int /\ k \in Int
          BY <3>3, <4>1
        <5> QED BY <3>2, <4>1, <5>1
      <4> QED BY <1>2, <1>5, <1>7, <4>1, <4>2
    <3>6. at \in 1..(L + 1)
      BY <1>1, <3>3
    <3> QED BY <3>4, <3>5, <3>6
  <2> QED BY <2>1, <2>2
<1> HIDE DEF at
<1>11. /\ t \in Seq(Segments) /\ Len(t) = L + 1 /\ t[at] = p
       /\ \A k \in 1..(at - 1) : t[k] = h.list[k]
       /\ \A k \in (at + 1)..(L + 1) : t[k] = h.list[k - 1]
       /\ Total(t) = Total(h.list) + truesize(p)
  <2>1. Inserts(h.list, at, p, t)
    BY <1>1, <1>10, Inserted
  <2> HIDE DEF t
  <2> QED BY <2>1 DEF Inserts
<1> HIDE DEF t
<1>12. /\ q \in Halves /\ q.list = t /\ q.rmem_alloc = h.rmem_alloc + truesize(p)
       /\ q.state = (IF p.fin = 1 THEN "CLOSING" ELSE h.state)
       /\ q.count = h.count /\ q.urg_count = h.urg_count /\ q.urg_seen = h.urg_seen
       /\ q.urg_ptr = h.urg_ptr /\ q.out = h.out
  <2>1. h.rmem_alloc + truesize(p) \in Int
    <3>1. truesize(p) \in Nat /\ h.rmem_alloc \in Int
      BY <1>1, TotalOne
    <3> QED BY <3>1
  <2> DEFINE z == h.rmem_alloc + truesize(p)
  <2> HIDE DEF z
  <2>2. z \in Int /\ q = [h EXCEPT !.list = t, !.rmem_alloc = z,
                                   !.state = IF p.fin = 1 THEN "CLOSING" ELSE h.state]
    BY <1>4, <2>1 DEF z
  <2>3. /\ q \in Halves /\ q.list = t /\ q.rmem_alloc = z
        /\ q.state = (IF p.fin = 1 THEN "CLOSING" ELSE h.state)
        /\ q.count = h.count /\ q.urg_count = h.urg_count /\ q.urg_seen = h.urg_seen
        /\ q.urg_ptr = h.urg_ptr /\ q.out = h.out
    BY <1>1, <1>11, <2>2 DEF Halves
  <2> QED BY <2>3 DEF z
<1>13. At(q) = r
  BY <1>12 DEF At
<1>14. ~Ended(h) /\ ~Ended(q)
  <2>1. r # N
    BY <1>1, <1>2
  <2>2. ~Ended(h)
    BY <2>1 DEF Streams
  <2> QED BY <1>12, <2>2 DEF Ended
<1>15. Streams(q)
  BY <1>12, <1>13, <1>14 DEF Streams
\* A member of the new list is p, or one of the old.
<1>16. ASSUME NEW k \in 1..(L + 1)
       PROVE  \/ k = at /\ t[k] = p
              \/ k < at /\ k \in 1..L /\ t[k] = h.list[k] /\ h.list[k].pos <= p.pos
              \/ k > at /\ k - 1 \in 1..L /\ t[k] = h.list[k - 1] /\ p.pos <= h.list[k - 1].pos
  <2>1. CASE k = at
    BY <1>11, <2>1
  <2>2. CASE k < at
    <3>1. k \in 1..(at - 1)
      BY <1>1, <1>10, <2>2
    <3> QED BY <1>10, <1>11, <2>2, <3>1
  <2>3. CASE k > at
    <3>1. k \in (at + 1)..(L + 1) /\ k - 1 \in at..L
      BY <1>1, <1>10, <2>3
    <3> QED BY <1>10, <1>11, <2>3, <3>1
  <2>4. k \in Int /\ at \in Int
    BY <1>1, <1>10
  <2> QED BY <2>1, <2>2, <2>3, <2>4
<1>17. ASSUME NEW k \in 1..Len(q.list)
       PROVE  /\ Cut(q.list[k]) /\ Bytes(q.list[k]) \subseteq g \cup Bytes(p)
              /\ q.list[k].pos + q.list[k].len <= a + Window + 1
              /\ q.list[k].pos <= At(q) + Half
              /\ q.list[k].pos > At(q)
  <2>1. k \in 1..(L + 1)
    BY <1>11, <1>12
  <2>2. t[k] = p \/ \E l \in 1..L : t[k] = h.list[l]
    BY <1>16, <2>1
  <2>3. CASE t[k] = p
    BY <1>12, <1>13, <2>3
  <2>4. CASE \E l \in 1..L : t[k] = h.list[l]
    BY <1>12, <1>13, <2>4 DEF Members
  <2> QED BY <2>2, <2>3, <2>4
<1>18. ASSUME NEW k \in 1..Len(q.list), NEW l \in 1..Len(q.list), k <= l
       PROVE  q.list[k].pos <= q.list[l].pos
  <2>1. k \in 1..(L + 1) /\ l \in 1..(L + 1) /\ at \in Int /\ k \in Int /\ l \in Int
    BY <1>1, <1>10, <1>11, <1>12
  <2>2. CASE k = at
    <3>1. l = at \/ l > at
      BY <1>18, <2>1, <2>2
    <3> QED BY <1>2, <1>12, <1>16, <2>1, <2>2, <3>1
  <2>3. CASE k < at /\ l = at
    BY <1>12, <1>16, <2>1, <2>3
  <2>4. CASE k < at /\ l < at
    <3>1. t[k] = h.list[k] /\ t[l] = h.list[l] /\ k \in 1..L /\ l \in 1..L
      BY <1>16, <2>1, <2>4
    <3> QED BY <1>9, <1>12, <1>18, <3>1
  <2>5. CASE k < at /\ l > at
    <3>1. /\ t[k] = h.list[k] /\ t[l] = h.list[l - 1] /\ k \in 1..L /\ l - 1 \in 1..L
          /\ h.list[k].pos <= p.pos /\ p.pos <= h.list[l - 1].pos
      BY <1>16, <2>1, <2>5
    <3>2. h.list[k].pos \in Int /\ h.list[l - 1].pos \in Int
      BY <1>5, <3>1
    <3> DEFINE x == h.list[k].pos
               y == h.list[l - 1].pos
               pos == p.pos
    <3>3. x \in Int /\ y \in Int /\ pos \in Int /\ x <= pos /\ pos <= y
      BY <1>2, <3>1, <3>2
    <3>4. x <= y
      <4> HIDE DEF x, y, pos
      <4> QED BY <3>3
    <3> QED BY <1>12, <3>1, <3>4
  <2>6. CASE k > at
    <3>1. l > at
      BY <1>18, <2>1, <2>6
    <3>2. t[k] = h.list[k - 1] /\ t[l] = h.list[l - 1] /\ k - 1 \in 1..L /\ l - 1 \in 1..L
      BY <1>16, <2>1, <2>6, <3>1
    <3>3. k - 1 <= l - 1
      BY <1>18, <2>1
    <3> QED BY <1>9, <1>12, <3>2, <3>3
  <2> QED BY <2>1, <2>2, <2>3, <2>4, <2>5, <2>6
<1>19. q.rmem_alloc = Total(q.list)
  BY <1>11, <1>12 DEF Members
<1>20. ASSUME NEW k \in 1..Len(q.list), q.list[k].fin = 1
       PROVE  q.state = "CLOSING" \/ At(q) = N
  <2>1. k \in 1..(L + 1)
    BY <1>11, <1>12
  <2>2. t[k] = p \/ \E l \in 1..L : t[k] = h.list[l]
    BY <1>16, <2>1
  <2>3. CASE t[k] = p
    BY <1>12, <1>20, <2>3
  <2>4. CASE \E l \in 1..L : t[k] = h.list[l]
    <3>1. h.state = "CLOSING" \/ At(h) = N
      BY <1>12, <1>20, <2>4 DEF Members
    <3> QED BY <1>12, <1>13, <3>1
  <2> QED BY <2>2, <2>3, <2>4
<1>21. Members(q, g \cup Bytes(p), a)
  BY <1>17, <1>18, <1>19, <1>20 DEF Members
<1>22. ASSUME NEW b, Listed(h, b) \/ b \in Bytes(p) PROVE Listed(q, b)
  <2>1. CASE b \in Bytes(p)
    <3>1. at \in 1..Len(q.list) /\ q.list[at] = p
      BY <1>10, <1>11, <1>12
    <3> QED BY <2>1, <3>1 DEF Listed
  <2>2. CASE Listed(h, b)
    <3>1. PICK k \in 1..L : b \in Bytes(h.list[k])
      BY <2>2 DEF Listed
    <3>2. CASE k < at
      <4>1. k \in 1..(at - 1) /\ k \in 1..Len(q.list)
        BY <1>1, <1>10, <1>11, <1>12, <3>2
      <4>2. q.list[k] = h.list[k]
        BY <1>11, <1>12, <4>1
      <4> QED BY <3>1, <4>1, <4>2 DEF Listed
    <3>3. CASE k >= at
      <4>1. k + 1 \in (at + 1)..(L + 1) /\ k + 1 \in 1..Len(q.list) /\ (k + 1) - 1 = k
        BY <1>1, <1>10, <1>11, <1>12, <3>3
      <4>2. q.list[k + 1] = h.list[k]
        BY <1>11, <1>12, <4>1
      <4> QED BY <3>1, <4>1, <4>2 DEF Listed
    <3>4. k \in Int /\ at \in Int
      BY <1>1, <1>10
    <3> QED BY <3>2, <3>3, <3>4
  <2> QED BY <1>22, <2>1, <2>2
<1> HIDE DEF r
<1>23. Waits(h, g, a, p, q)
  BY <1>12, <1>13, <1>14, <1>15, <1>17, <1>21, <1>22 DEF Waits, r
<1> QED BY <1>23 DEF q

-----------------------------------------------------------------------------
(* process_tcp and tcp_queue.                                              *)

\* What every segment and acknowledgement keeps true of the stream h, the
\* bytes g let through and the acknowledgement a: the list is behind a gap, the
\* stream has what was let through up to there and no more, and the rest is
\* in the list, unless the receiver acknowledged what is missing.
Keeps(h, g, a) ==
  /\ Streams(h) /\ Members(h, g, a)
  /\ \A k \in 1..Len(h.list) : h.list[k].pos > At(h)
  /\ At(h) <= a + Window + 1
  /\ 0..(At(h) - 1) \subseteq g /\ At(h) \notin g
  /\ At(h) + MaxLen < a \/ \A b \in g : b >= At(h) => Listed(h, b)

\* A segment that passes the window test ends where the receiver is, or
\* behind.
LEMMA Windowed ==
  ASSUME N < Mod, ack \in Int, NEW p \in Segments, OnWire(p), InWindow(p)
  PROVE  Cut(p) /\ ack <= p.pos + p.len /\ p.pos + p.len <= ack + Window + 1
<1>1. /\ p.pos \in Nat /\ p.len \in Nat /\ p.len <= MaxLen
      /\ Stands(seq(p), p.pos) /\ Stands(seq(p) + p.len, p.pos + p.len)
  BY SegmentFields
<1>2. /\ Mod \in Int /\ Half \in Int /\ Half > 1 /\ Mod = 2 * Half
      /\ MaxLen \in Nat /\ Window \in Nat /\ 2 * Window + MaxLen + 1 < Half
  BY Widths
<1>3. Cut(p) /\ p.pos + p.len <= ack + Window + 1 /\ p.pos >= ack - 2 * Window
  BY DEF OnWire, Cut, Bytes
<1>4. Stands(Number(ack), ack)
  BY NumberStands
<1>5. CASE p.len = 0 /\ seq(p) = Number(ack)
  <2> SUFFICES ASSUME p.pos < ack PROVE FALSE
    BY <1>1, <1>3, <1>5
  <2>1. (p.pos - ack) \in (-Mod)..(-1)
    BY <1>1, <1>2, <1>3
  <2>2. (seq(p) - Number(ack)) % Mod = (p.pos - ack) + Mod
    BY <1>1, <1>4, <2>1, Difference
  <2>3. seq(p) - Number(ack) = 0
    BY <1>4, <1>5 DEF Stands
  <2>4. 0 % Mod = 0
    <3>1. 0 \in 0..(Mod - 1) /\ 0 = Mod * 0 + 0
      BY <1>2
    <3> QED BY <3>1, Remainder
  <2> QED BY <1>1, <1>2, <1>3, <2>2, <2>3, <2>4
<1>6. CASE ~before(seq(p) + p.len, Number(ack))
  <2>1. ((p.pos + p.len) - ack) \in (-Mod)..(Half - 1) /\ p.pos + p.len \in Int
    BY <1>1, <1>2, <1>3
  <2>2. ~(((p.pos + p.len) - ack) \in (-Half)..(-1))
    BY <1>1, <1>4, <1>6, <2>1, Before
  <2>3. p.pos + p.len >= ack
    BY <1>1, <1>2, <1>3, <2>1, <2>2
  <2> QED BY <1>3, <2>3
<1> QED BY <1>5, <1>6 DEF InWindow

\* A segment with new bytes starts the loop, and what passes the window test
\* there is not behind a gap.
LEMMA StartsLoop ==
  ASSUME N < Mod, NEW g \in SUBSET Nat, NEW a \in Int, NEW h, Keeps(h, g, a),
         NEW p \in Segments, Cut(p), Fits(h, p), a <= p.pos + p.len, p.pos + p.len <= a + Window + 1
  PROVE  LET m == add_from_skb(h, p)
         IN  /\ Loop(m, g \cup Bytes(p), a) /\ At(h) <= At(m)
             /\ Ended(h) => Ended(m)
             /\ ~(At(h) + MaxLen < a)
<1> DEFINE m == add_from_skb(h, p)
           r == At(h)
           gg == g \cup Bytes(p)
<1>1. Streams(h) /\ Members(h, g, a)
  BY DEF Keeps
<1>2. /\ h.list \in Seq(Segments) /\ r \in Int /\ r >= 0 /\ r <= N
      /\ h.state \in {"ESTABLISHED", "CLOSING", "FIN_SENT", "FIN_CONFIRMED"}
  BY <1>1, HalfFields, Widths
<1>3. Takes(h, p, m)
  BY <1>1, Added
<1> HIDE DEF m
<1>4. /\ Streams(m) /\ At(m) = p.pos + p.len /\ m.list = h.list /\ m.rmem_alloc = h.rmem_alloc
      /\ m.state = IF p.fin = 1 THEN "FIN_SENT" ELSE h.state
  BY <1>3 DEF Takes
<1>5. /\ p.pos \in Int /\ p.pos >= 0 /\ p.len \in Int /\ p.len >= 0 /\ p.len <= MaxLen /\ p.fin \in 0..1
      /\ p.pos + p.len <= N /\ (p.fin = 1 => p.pos + p.len = N)
  BY SegmentFields DEF Cut
<1>6. p.pos <= r /\ p.pos + p.len + p.fin > r
  BY DEF Fits
<1>7. /\ Half \in Int /\ N \in Nat /\ MaxLen \in Nat /\ Window \in Nat
  BY Widths
<1> DEFINE s == At(m)
           pos == p.pos
           len == p.len
<1>8. /\ s = pos + len /\ r <= s /\ s <= r + MaxLen /\ s \in Int /\ pos <= r
  <2>1. /\ s = pos + len /\ pos \in Int /\ len \in Int /\ len <= MaxLen /\ p.fin \in 0..1 /\ pos <= r
        /\ pos + len + p.fin > r
    BY <1>4, <1>5, <1>6
  <2> HIDE DEF s, pos, len, r
  <2> QED BY <1>2, <1>7, <2>1
<1>9. ~(r + MaxLen < a)
  <2>1. a <= s
    BY <1>8
  <2> HIDE DEF s, r, pos, len
  <2> QED BY <1>2, <1>7, <1>8, <2>1
<1>10. ASSUME NEW k \in 1..Len(m.list)
       PROVE  /\ Cut(m.list[k]) /\ Bytes(m.list[k]) \subseteq gg
              /\ m.list[k].pos + m.list[k].len <= a + Window + 1
              /\ m.list[k].pos <= s + Half
              /\ s <= m.list[k].pos + MaxLen
  <2> DEFINE y == m.list[k]
  <2>1. y = h.list[k] /\ k \in 1..Len(h.list) /\ y \in Segments
    BY <1>2, <1>4
  <2> HIDE DEF y
  <2>2. Cut(y) /\ Bytes(y) \subseteq g /\ y.pos + y.len <= a + Window + 1 /\ y.pos <= r + Half
    BY <1>1, <2>1 DEF Members
  <2>3. y.pos > r
    BY <2>1 DEF Keeps
  <2>4. y.pos <= s + Half /\ s <= y.pos + MaxLen
    <3> DEFINE z == y.pos
    <3>1. z \in Int /\ z > r /\ z <= r + Half
      BY <2>1, <2>2, <2>3, SegmentFields
    <3>2. z <= s + Half /\ s <= z + MaxLen
      <4> HIDE DEF z, s, r, pos, len
      <4> QED BY <1>2, <1>7, <1>8, <3>1
    <3> QED BY <3>2
  <2> QED BY <2>2, <2>4 DEF y
<1>11. ASSUME NEW k \in 1..Len(m.list), m.list[k].fin = 1
       PROVE  m.state = "CLOSING" \/ s = N
  <2>1. h.state = "CLOSING" \/ r = N
    BY <1>1, <1>4, <1>11 DEF Members
  <2>2. r = N => s = N
    <3>1. s <= N
      BY <1>4 DEF Streams
    <3> HIDE DEF s, r, pos, len
    <3> QED BY <1>7, <1>8, <3>1
  <2>3. p.fin # 1 => m.state = h.state
    BY <1>4
  <2>4. p.fin = 1 => s = N
    BY <1>4, <1>5
  <2> QED BY <2>1, <2>2, <2>3, <2>4
<1>12. Members(m, gg, a)
  <2>1. \A k, l \in 1..Len(m.list) : k <= l => m.list[k].pos <= m.list[l].pos
    BY <1>1, <1>4 DEF Members
  <2>2. m.rmem_alloc = Total(m.list)
    BY <1>1, <1>4 DEF Members
  <2> QED BY <1>10, <1>11, <2>1, <2>2 DEF Members
<1>13. 0..(s - 1) \subseteq gg
  <2> SUFFICES ASSUME NEW i \in 0..(s - 1) PROVE i \in gg
    OBVIOUS
  <2>1. i \in 0..(r - 1) \/ i \in pos..(pos + len - 1)
    <3>1. pos \in Int /\ len \in Int
      BY <1>5
    <3> HIDE DEF s, r, pos, len
    <3> QED BY <1>2, <1>8, <3>1
  <2>2. 0..(r - 1) \subseteq g
    BY DEF Keeps
  <2> QED BY <2>1, <2>2 DEF Bytes
<1>14. ASSUME NEW b \in gg, b >= s PROVE Listed(m, b)
  <2>1. b \notin Bytes(p)
    <3> SUFFICES ASSUME b \in pos..(pos + len - 1) PROVE FALSE
      BY DEF Bytes
    <3>1. pos \in Int /\ len \in Int
      BY <1>5
    <3> HIDE DEF s, r, pos, len
    <3> QED BY <1>8, <1>14, <3>1
  <2>2. b \in g /\ b \in Int
    BY <2>1
  <2>3. b >= r
    <3> HIDE DEF s, r, pos, len
    <3> QED BY <1>2, <1>8, <1>14, <2>2
  <2>4. Listed(h, b)
    BY <1>9, <2>2, <2>3 DEF Keeps
  <2> QED BY <1>4, <2>4 DEF Listed
<1>15. s <= a + Window + 1
  BY <1>8
<1>16. Loop(m, gg, a)
  BY <1>4, <1>10, <1>12, <1>13, <1>14, <1>15 DEF Loop
<1>17. Ended(h) => Ended(m)
  BY <1>4 DEF Ended
<1> QED BY <1>8, <1>9, <1>16, <1>17 DEF m

\* Whatever tcp_queue does with a segment: d is what it makes of h.
Queues(h, g, a, p, d) ==
  /\ Keeps(d, g \cup Bytes(p), a) /\ At(h) <= At(d)
  /\ Ended(h) => Ended(d)
  /\ At(h) + MaxLen < a => d.out = h.out /\ At(d) = At(h)

\* tcp_queue does that with every segment that passed the window test.
LEMMA Queued ==
  ASSUME N < Mod, NEW g \in SUBSET Nat, NEW a \in Int, NEW h, Keeps(h, g, a),
         NEW p \in Segments, Cut(p), a <= p.pos + p.len, p.pos + p.len <= a + Window + 1
  PROVE  Queues(h, g, a, p, tcp_queue(h, p))
<1> DEFINE r == At(h)
           pos == p.pos
           len == p.len
           end == p.pos + p.len + p.fin
           gg == g \cup Bytes(p)
           d == tcp_queue(h, p)
<1>1. /\ Streams(h) /\ Members(h, g, a) /\ r <= a + Window + 1 /\ 0..(r - 1) \subseteq g /\ r \notin g
      /\ \A k \in 1..Len(h.list) : h.list[k].pos > r
      /\ r + MaxLen < a \/ \A b \in g : b >= r => Listed(h, b)
  BY DEF Keeps
<1>2. r \in Int /\ r >= 0 /\ r <= N
  BY <1>1, HalfFields, Widths
<1>3. /\ pos \in Int /\ pos >= 0 /\ len \in Int /\ len >= 0 /\ len <= MaxLen /\ p.fin \in 0..1
      /\ end = pos + len + p.fin /\ a <= pos + len /\ pos + len <= a + Window + 1
  BY SegmentFields
<1>4. /\ Half \in Int /\ Half > 1 /\ N \in Nat /\ MaxLen \in Nat /\ Window \in Nat
      /\ 2 * Window + MaxLen + 1 < Half
  BY Widths
<1>5. r - pos <= MaxLen + Window + 1
  <2> HIDE DEF r, pos, len, end
  <2> QED BY <1>1, <1>2, <1>3, <1>4
<1>6. /\ after(seq(p), EXP_SEQ(h)) <=> pos > r /\ pos - r <= Half
      /\ New(h, p) <=> end > r /\ end - r <= Half
  BY <1>1, <1>5, Looks
<1>7. gg \in SUBSET Nat
  <2>1. \A i \in pos..(pos + len - 1) : i \in Nat
    <3> HIDE DEF pos, len, end
    <3> QED BY <1>3
  <2> QED BY <2>1 DEF Bytes
<1>8. CASE pos > r /\ pos - r <= Half
  <2>1. d = Enqueue(h, p)
    BY <1>6, <1>8 DEF tcp_queue
  <2>2. pos <= r + Half
    <3> HIDE DEF r, pos, len, end
    <3> QED BY <1>2, <1>3, <1>4, <1>8
  <2>3. /\ Streams(d) /\ At(d) = r /\ d.out = h.out
        /\ Members(d, gg, a)
        /\ \A k \in 1..Len(d.list) : d.list[k].pos > At(d)
        /\ \A b : Listed(h, b) \/ b \in Bytes(p) => Listed(d, b)
        /\ ~Ended(h)
    <3>2. p.pos > At(h) /\ p.pos <= At(h) + Half /\ p.pos + p.len <= a + Window + 1
      BY <1>8, <2>2
    <3>3. Streams(h) /\ Members(h, g, a) /\ \A k \in 1..Len(h.list) : h.list[k].pos > At(h)
      BY DEF Keeps
    <3>4. Waits(h, g, a, p, Enqueue(h, p))
      BY <3>2, <3>3, Enqueued
    <3>1. Waits(h, g, a, p, d)
      BY <2>1, <3>4
    <3> HIDE DEF d
    <3> QED BY <3>1 DEF Waits
  <2> HIDE DEF d
  <2>4. r \notin Bytes(p)
    <3> SUFFICES r \notin pos..(pos + len - 1)
      BY DEF Bytes
    <3> HIDE DEF r, pos, len, end
    <3> QED BY <1>2, <1>3, <1>8
  <2>5. r + MaxLen < a \/ \A b \in gg : b >= r => Listed(d, b)
    <3> SUFFICES ASSUME ~(r + MaxLen < a), NEW b \in gg, b >= r PROVE Listed(d, b)
      OBVIOUS
    <3>1. b \in Bytes(p) \/ b \in g
      OBVIOUS
    <3>2. b \in g => Listed(h, b)
      BY DEF Keeps
    <3> HIDE DEF r, gg
    <3> QED BY <2>3, <3>1, <3>2
  <2>6. Keeps(d, gg, a)
    BY <1>1, <2>3, <2>4, <2>5 DEF Keeps
  <2>7. At(h) <= At(d)
    BY <1>2, <2>3
  <2>8. Queues(h, g, a, p, d)
    BY <2>3, <2>6, <2>7 DEF Queues
  <2> QED BY <2>8 DEF d
<1>9. CASE pos <= r /\ New(h, p)
  <2> DEFINE m == add_from_skb(h, p)
  <2>1. d = Drained(m)
    <3>1. ~(pos > r)
      <4> HIDE DEF r, pos, len, end
      <4> QED BY <1>2, <1>3, <1>9
    <3> QED BY <1>6, <1>9, <3>1 DEF tcp_queue
  <2>2. Fits(h, p)
    BY <1>5, <1>6, <1>9 DEF Fits
  <2>3. /\ Loop(m, gg, a) /\ At(h) <= At(m)
        /\ Ended(h) => Ended(m)
        /\ ~(At(h) + MaxLen < a)
    BY <1>3, <2>2, StartsLoop
  <2> HIDE DEF m
  <2> HIDE DEF gg
  <2>4. /\ Loop(d, gg, a) /\ At(m) <= At(d)
        /\ \A k \in 1..Len(d.list) : d.list[k].pos > At(d)
        /\ Ended(m) => Ended(d)
    BY <1>7, <2>1, <2>3, DrainedLoop
  <2> HIDE DEF d
  <2>5. /\ Streams(d) /\ Members(d, gg, a) /\ At(d) <= a + Window + 1 /\ 0..(At(d) - 1) \subseteq gg
        /\ \A b \in gg : b >= At(d) => Listed(d, b)
    BY <2>4 DEF Loop
  <2>6. At(d) \in Int /\ At(m) \in Int /\ d.list \in Seq(Segments)
    BY <2>3, <2>5, HalfFields DEF Loop
  <2>7. At(d) \notin gg
    <3> SUFFICES ASSUME At(d) \in gg PROVE FALSE
      OBVIOUS
    <3>1. Listed(d, At(d))
      BY <2>5, <2>6
    <3>2. PICK k \in 1..Len(d.list) : At(d) \in Bytes(d.list[k])
      BY <3>1 DEF Listed
    <3>3. d.list[k] \in Segments
      BY <2>6
    <3> DEFINE y == d.list[k]
    <3>4. y.pos \in Int /\ y.len \in Int /\ y.pos > At(d) /\ At(d) \in y.pos..(y.pos + y.len - 1)
      BY <2>4, <3>2, <3>3, SegmentFields DEF Bytes
    <3> HIDE DEF y
    <3> QED BY <2>6, <3>4
  <2>8. Keeps(d, gg, a)
    BY <2>4, <2>5, <2>7 DEF Keeps
  <2>9. At(h) <= At(d)
    BY <1>2, <2>3, <2>4, <2>6
  <2>10. Queues(h, g, a, p, d)
    BY <2>3, <2>4, <2>8, <2>9 DEF Queues, gg
  <2> QED BY <2>10 DEF d
<1>10. CASE pos <= r /\ ~New(h, p)
  <2>1. d = h
    <3>1. ~(pos > r)
      <4> HIDE DEF r, pos, len, end
      <4> QED BY <1>2, <1>3, <1>10
    <3> QED BY <1>6, <1>10, <3>1 DEF tcp_queue
  <2>2. pos + len <= r
    <3>1. ~(end > r /\ end - r <= Half) /\ pos <= r
      BY <1>6, <1>10
    <3> HIDE DEF r, pos, len, end
    <3> QED BY <1>2, <1>3, <1>4, <3>1
  <2>3. Bytes(p) \subseteq g
    <3>1. pos..(pos + len - 1) \subseteq 0..(r - 1)
      <4> HIDE DEF r, pos, len, end
      <4> QED BY <1>2, <1>3, <2>2
    <3> QED BY <1>1, <3>1 DEF Bytes
  <2>4. gg = g
    BY <2>3
  <2>5. At(h) <= At(h)
    BY <1>2
  <2> QED BY <2>1, <2>4, <2>5 DEF Queues
<1>11. CASE pos - r > Half
  <2>1. end > r /\ ~(end - r <= Half) /\ ~(pos - r <= Half) /\ pos > r /\ r + MaxLen < a
    <3> HIDE DEF r, pos, len, end
    <3> QED BY <1>2, <1>3, <1>4, <1>11
  <2>2. d = h
    BY <1>6, <2>1 DEF tcp_queue
  <2>3. r \notin Bytes(p)
    <3> SUFFICES r \notin pos..(pos + len - 1)
      BY DEF Bytes
    <3> HIDE DEF r, pos, len, end
    <3> QED BY <1>2, <1>3, <2>1
  <2>4. Members(h, gg, a)
    <3>1. \A k \in 1..Len(h.list) : Bytes(h.list[k]) \subseteq gg
      BY <1>1 DEF Members
    <3> QED BY <1>1, <3>1 DEF Members
  <2>5. Keeps(h, gg, a)
    BY <1>1, <2>1, <2>3, <2>4 DEF Keeps
  <2>6. At(h) <= At(h)
    BY <1>2
  <2> QED BY <2>2, <2>5, <2>6 DEF Queues
<1>12. \/ pos > r /\ pos - r <= Half
       \/ pos <= r
       \/ pos - r > Half
  <2> HIDE DEF r, pos, len, end
  <2> QED BY <1>2, <1>3, <1>4
<1> QED BY <1>8, <1>9, <1>10, <1>11, <1>12

\* A list without members has size 0.
LEMMA TotalEmpty == Total(<<>>) = 0
<1>1. <<>> \in Seq(Segments) /\ Len(<<>>) = 0 /\ <<>> \in Seq(Nat)
  OBVIOUS
<1>2. /\ Sizes(<<>>) \in Seq(Nat) /\ Len(Sizes(<<>>)) = 0
      /\ \A k \in 1..Len(<<>>) : Sizes(<<>>)[k] = truesize(<<>>[k])
  BY <1>1, SizesType
<1>3. SumOf(Sizes(<<>>)) = SumOf(<<>>)
  <2>1. Len(Sizes(<<>>)) = Len(<<>>)
    BY <1>1, <1>2
  <2>2. \A k \in 1..Len(Sizes(<<>>)) : Sizes(<<>>)[k] = <<>>[k]
    BY <1>2
  <2> QED BY <1>1, <1>2, <2>1, <2>2, SameSum
<1> QED BY <1>3, SumEmpty DEF Total

\* prune_queue leaves the stream where it is.
LEMMA Pruned ==
  ASSUME NEW g \in SUBSET Nat, NEW a \in Int, NEW h, Keeps(h, g, a)
  PROVE  LET q == prune_queue(h)
         IN  /\ Keeps(q, 0..(At(h) - 1), a) /\ At(q) = At(h) /\ q.out = h.out
             /\ q.rmem_alloc = 0 /\ q.state = h.state
<1> DEFINE q == prune_queue(h)
<1>1. Streams(h) /\ At(h) <= a + Window + 1 /\ h \in Halves /\ At(h) \in Int
  BY HalfFields DEF Keeps, Streams
<1>2. <<>> \in Seq(Segments) /\ Len(<<>>) = 0
  OBVIOUS
<1>3. /\ q \in Halves /\ q.list = <<>> /\ q.rmem_alloc = 0
      /\ q.count = h.count /\ q.urg_count = h.urg_count /\ q.urg_seen = h.urg_seen
      /\ q.urg_ptr = h.urg_ptr /\ q.out = h.out /\ q.state = h.state
  <2> DEFINE none == <<>>
             zero == 0
  <2>3. h \in Halves
    BY <1>1
  <2>1. q = [h EXCEPT !.list = none, !.rmem_alloc = zero] /\ none \in Seq(Segments) /\ zero \in Int
    BY <1>2 DEF prune_queue
  <2> HIDE DEF none, zero, q
  <2>2. /\ q \in Halves /\ q.list = none /\ q.rmem_alloc = zero
        /\ q.count = h.count /\ q.urg_count = h.urg_count /\ q.urg_seen = h.urg_seen
        /\ q.urg_ptr = h.urg_ptr /\ q.out = h.out /\ q.state = h.state
    BY <2>1, <2>3 DEF Halves
  <2> QED BY <2>2 DEF none, zero
<1> HIDE DEF q
<1>4. At(q) = At(h)
  BY <1>3 DEF At
<1>5. Streams(q)
  BY <1>1, <1>3, <1>4 DEF Streams, Ended
<1>6. Total(<<>>) = 0
  BY TotalEmpty
<1>7. \A k \in 1..Len(q.list) : FALSE
  BY <1>2, <1>3
<1>8. Members(q, 0..(At(h) - 1), a)
  BY <1>3, <1>6, <1>7 DEF Members
<1>9. At(q) \notin 0..(At(h) - 1) /\ 0..(At(q) - 1) \subseteq 0..(At(h) - 1)
  BY <1>1, <1>4
<1>10. \A b \in 0..(At(h) - 1) : ~(b >= At(q))
  BY <1>1, <1>4
<1>11. Keeps(q, 0..(At(h) - 1), a)
  BY <1>1, <1>4, <1>5, <1>7, <1>8, <1>9, <1>10 DEF Keeps
<1> QED BY <1>3, <1>4, <1>11 DEF q

-----------------------------------------------------------------------------
(* The invariant.                                                          *)

\* What every reachable state has: the stream, the list and the bytes let
\* through fit together, and the purge has kept the list within its memory.
IInv ==
  /\ Keeps(half, got, ack)
  /\ ack \in 0..(N + 1) /\ got \subseteq 0..(N - 1)
  /\ half.rmem_alloc <= RmemLimit

\* The invariant holds when the connection starts.
LEMMA Initially == Init => IInv
<1> SUFFICES ASSUME Init PROVE IInv
  OBVIOUS
<1>1. /\ half.count = 0 /\ half.urg_count = 0 /\ half.urg_seen = FALSE /\ half.urg_ptr = 0
      /\ half.list = <<>> /\ half.rmem_alloc = 0 /\ half.out = <<>> /\ half.state = "ESTABLISHED"
      /\ ack = 0 /\ got = {}
  BY DEF Init
<1>2. half \in Halves
  <2>1. <<>> \in Seq(Segments) /\ <<>> \in Seq(0..(N - 1))
    OBVIOUS
  <2> DEFINE none == <<>>
             zero == 0
             off == FALSE
             st == "ESTABLISHED"
  <2>2. /\ half = [count |-> zero, urg_count |-> zero, urg_seen |-> off, urg_ptr |-> zero,
                  list |-> none, rmem_alloc |-> zero, out |-> none, state |-> st]
        /\ zero \in Nat /\ zero \in Int /\ off \in BOOLEAN
        /\ none \in Seq(Segments) /\ none \in Seq(0..(N - 1))
        /\ st \in {"ESTABLISHED", "CLOSING", "FIN_SENT", "FIN_CONFIRMED"}
    BY <2>1 DEF Init
  <2> HIDE DEF none, zero, off, st
  <2> QED BY <2>2 DEF Halves
<1>3. At(half) = 0
  BY <1>1 DEF At
<1>4. N \in Nat /\ Window \in Nat /\ RmemLimit \in Nat
  BY Widths
<1>5. Len(half.list) = 0 /\ Len(half.out) = 0
  BY <1>1
<1>6. Skipped(0) = 0
  <2>1. \A u \in Urgent : u \in 0..(N - 1)
    BY Widths
  <2> QED BY <2>1, <1>4 DEF Skipped
<1>7. Streams(half)
  BY <1>1, <1>2, <1>3, <1>4, <1>5, <1>6 DEF Streams, Ended
<1>8. Members(half, got, ack)
  BY <1>1, <1>5, TotalEmpty DEF Members
<1>9. Keeps(half, got, ack)
  BY <1>1, <1>3, <1>4, <1>5, <1>7, <1>8 DEF Keeps
<1> QED BY <1>1, <1>4, <1>9 DEF IInv

\* What a segment of the sender does: tcp_queue, then the purge of a list
\* that is over its memory.
LEMMA SegmentStep ==
  ASSUME N < Mod, IInv, NEW p \in Segments, Segment(p)
  PROVE  /\ IInv' /\ At(half) <= At(half') /\ (Ended(half) => Ended(half'))
         /\ Gap => half'.out = half.out /\ At(half') = At(half)
<1> DEFINE h == tcp_queue(half, p)
           gg == got \cup Bytes(p)
           zz == 0..(At(h) - 1)
<1>1. Keeps(half, got, ack) /\ ack \in 0..(N + 1) /\ got \subseteq 0..(N - 1) /\ got \in SUBSET Nat
  BY DEF IInv
<1>2. N \in Nat /\ RmemLimit \in Nat /\ ack \in Int
  BY <1>1, Widths
<1>3. Cut(p) /\ ack <= p.pos + p.len /\ p.pos + p.len <= ack + Window + 1
  BY <1>2, Windowed DEF Segment
<1>4. Queues(half, got, ack, p, h)
  BY <1>1, <1>2, <1>3, Queued
<1>5. gg \subseteq 0..(N - 1)
  <2>1. p.pos \in Nat /\ p.len \in Nat /\ p.pos + p.len <= N
    BY <1>3, SegmentFields DEF Cut
  <2>2. \A i \in p.pos..(p.pos + p.len - 1) : i \in 0..(N - 1)
    BY <1>2, <2>1
  <2> QED BY <1>1, <2>2 DEF Bytes
<1>6. /\ Keeps(h, gg, ack) /\ At(half) <= At(h) /\ (Ended(half) => Ended(h))
      /\ At(half) + MaxLen < ack => h.out = half.out /\ At(h) = At(half)
  BY <1>4 DEF Queues
<1>7. At(h) \in 0..N /\ h.rmem_alloc \in Int
  BY <1>6, HalfFields DEF Keeps
<1>8. /\ half' = IF h.rmem_alloc > RmemLimit THEN prune_queue(h) ELSE h
      /\ got' = IF h.rmem_alloc > RmemLimit THEN zz ELSE gg
      /\ ack' = ack
  <2>1. zz = 0..(h.count + h.urg_count - 1) /\ gg = got \cup (p.pos..(p.pos + p.len - 1))
    <3>1. gg = got \cup (p.pos..(p.pos + p.len - 1))
      BY DEF Bytes
    <3>2. At(h) = h.count + h.urg_count
      BY DEF At
    <3>3. h.count \in Nat /\ h.urg_count \in 0..1
      BY <1>6, HalfFields DEF Keeps
    <3> HIDE DEF h, gg
    <3>4. At(h) - 1 = h.count + h.urg_count - 1
      BY <3>2, <3>3
    <3> QED BY <3>1, <3>4
  <2>2. /\ half' = IF h.rmem_alloc > RmemLimit THEN prune_queue(h) ELSE h
        /\ got' = IF h.rmem_alloc > RmemLimit THEN 0..(h.count + h.urg_count - 1)
                                             ELSE got \cup (p.pos..(p.pos + p.len - 1))
        /\ ack' = ack
    BY DEF Segment
  <2> HIDE DEF h, zz, gg
  <2> QED BY <2>1, <2>2
<1>9. Gap <=> At(half) + MaxLen < ack
  BY DEF Gap, Reached, At
<1> HIDE DEF h, gg
<1>10. CASE h.rmem_alloc > RmemLimit
  <2> DEFINE q == prune_queue(h)
  <2>1. gg \in SUBSET Nat
    BY <1>5
  <2>2. /\ Keeps(q, zz, ack) /\ At(q) = At(h) /\ q.out = h.out
        /\ q.rmem_alloc = 0 /\ q.state = h.state
    BY <1>2, <1>6, <2>1, Pruned
  <2>3. half' = q /\ got' = zz /\ ack' = ack
    BY <1>8, <1>10
  <2>4. zz \subseteq 0..(N - 1)
    BY <1>2, <1>7
  <2>5. Ended(h) => Ended(q)
    BY <2>2 DEF Ended
  <2> HIDE DEF q, zz
  <2>6. /\ Keeps(half', got', ack') /\ ack' \in 0..(N + 1) /\ got' \subseteq 0..(N - 1)
        /\ half'.rmem_alloc <= RmemLimit
    BY <1>1, <1>2, <2>2, <2>3, <2>4
  <2>7. IInv'
    BY <2>6 DEF IInv
  <2> QED BY <1>6, <1>9, <2>2, <2>3, <2>5, <2>7
<1>11. CASE ~(h.rmem_alloc > RmemLimit)
  <2>1. half' = h /\ got' = gg /\ ack' = ack
    BY <1>8, <1>11
  <2>2. h.rmem_alloc <= RmemLimit
    BY <1>2, <1>7, <1>11
  <2>3. /\ Keeps(half', got', ack') /\ ack' \in 0..(N + 1) /\ got' \subseteq 0..(N - 1)
        /\ half'.rmem_alloc <= RmemLimit
    BY <1>1, <1>5, <1>6, <2>1, <2>2
  <2>4. IInv'
    BY <2>3 DEF IInv
  <2> QED BY <1>6, <1>9, <2>1, <2>4
<1> QED BY <1>10, <1>11

\* An acknowledgement never takes the window back.
LEMMA Forward ==
  ASSUME ack \in 0..(N + 1), NEW n \in 0..(N + 1), n \in (ack - Window)..(ack + Window)
  PROVE  handle_ack(n) >= ack /\ handle_ack(n) \in 0..(N + 1)
<1>1. /\ Mod \in Int /\ Half \in Int /\ Half > 1 /\ Mod = 2 * Half /\ N \in Nat
      /\ Window \in Nat /\ MaxLen \in Nat /\ 2 * Window + MaxLen + 1 < Half
  BY Widths
<1>2. n \in Int /\ ack \in Int /\ n - ack >= -Window /\ n - ack <= Window
  BY <1>1
<1>3. Stands(Number(n), n) /\ Stands(Number(ack), ack)
  BY <1>2, NumberStands
<1> DEFINE d == (Number(n) - Number(ack)) % Mod
<1>4. d \in 1..(Half - 1) => n >= ack
  <2> SUFFICES ASSUME n < ack PROVE ~(d \in 1..(Half - 1))
    BY <1>2
  <2>1. (n - ack) \in (-Mod)..(-1)
    BY <1>1, <1>2
  <2>2. d = (n - ack) + Mod
    BY <1>2, <1>3, <2>1, Difference
  <2> HIDE DEF d
  <2> QED BY <1>1, <1>2, <2>2
<1> HIDE DEF d
<1>5. handle_ack(n) = IF d \in 1..(Half - 1) THEN n ELSE ack
  BY DEF handle_ack, d
<1> QED BY <1>2, <1>4, <1>5

\* What a segment of the receiver does: the window moves on, and a FIN that
\* is effective is confirmed.
LEMMA AcknowledgeStep ==
  ASSUME N < Mod, IInv, NEW n \in 0..(N + 1), Acknowledge(n)
  PROVE  /\ IInv' /\ At(half') = At(half) /\ (Ended(half) => Ended(half'))
         /\ half'.out = half.out /\ (Gap => Gap')
<1> DEFINE st == IF half.state = "FIN_SENT" THEN "FIN_CONFIRMED" ELSE half.state
           h == [half EXCEPT !.state = st]
<1>1. /\ Keeps(half, got, ack) /\ ack \in 0..(N + 1) /\ got \subseteq 0..(N - 1)
      /\ half.rmem_alloc <= RmemLimit
  BY DEF IInv
<1>2. Streams(half) /\ half \in Halves
  BY <1>1 DEF Keeps, Streams
<1>3. half' = h /\ got' = got /\ ack' = handle_ack(n)
  BY DEF Acknowledge
<1>4. PICK b : b = handle_ack(n)
  OBVIOUS
<1>5. b >= ack /\ b \in 0..(N + 1)
  BY <1>1, <1>4, Forward DEF Acknowledge
<1>6. /\ ack \in Int /\ b \in Int /\ Window \in Nat /\ N \in Nat /\ MaxLen \in Nat
      /\ At(half) \in Int
  BY <1>1, <1>2, <1>5, HalfFields, Widths
<1>7. /\ st \in {"ESTABLISHED", "CLOSING", "FIN_SENT", "FIN_CONFIRMED"}
      /\ st \in {"FIN_SENT", "FIN_CONFIRMED"} <=> half.state \in {"FIN_SENT", "FIN_CONFIRMED"}
      /\ half.state = "CLOSING" => st = "CLOSING"
  BY <1>2, HalfFields
<1> HIDE DEF st
<1>8. /\ h \in Halves /\ h.count = half.count /\ h.urg_count = half.urg_count
      /\ h.urg_seen = half.urg_seen /\ h.urg_ptr = half.urg_ptr /\ h.list = half.list
      /\ h.rmem_alloc = half.rmem_alloc /\ h.out = half.out /\ h.state = st
  BY <1>2, <1>7 DEF Halves
<1> HIDE DEF h
<1>9. At(h) = At(half) /\ (Ended(h) <=> Ended(half))
  BY <1>7, <1>8 DEF At, Ended
<1>10. Streams(h)
  BY <1>2, <1>8, <1>9 DEF Streams
<1>11. Members(half, got, ack)
  BY <1>1 DEF Keeps
<1>12. Members(h, got, b)
  <2>1. \A k \in 1..Len(half.list) : half.list[k].pos + half.list[k].len <= b + Window + 1
    <3> SUFFICES ASSUME NEW k \in 1..Len(half.list)
                 PROVE  half.list[k].pos + half.list[k].len <= b + Window + 1
      OBVIOUS
    <3>1. half.list \in Seq(Segments)
      BY <1>2, HalfFields
    <3>2. half.list[k] \in Segments
      BY <3>1
    <3>3. half.list[k].pos \in Nat /\ half.list[k].len \in Nat
      BY <3>2, SegmentFields
    <3>4. half.list[k].pos + half.list[k].len <= ack + Window + 1
      BY <1>11 DEF Members
    <3> DEFINE e == half.list[k].pos + half.list[k].len
    <3>5. e \in Int /\ e <= ack + Window + 1
      BY <3>3, <3>4
    <3> HIDE DEF e
    <3>6. e <= b + Window + 1
      BY <1>5, <1>6, <3>5
    <3> QED BY <3>6 DEF e
  <2>2. \A k \in 1..Len(half.list) :
          /\ Cut(half.list[k]) /\ Bytes(half.list[k]) \subseteq got
          /\ half.list[k].pos <= At(half) + Half
    BY <1>11 DEF Members
  <2>3. \A k, l \in 1..Len(half.list) : k <= l => half.list[k].pos <= half.list[l].pos
    BY <1>11 DEF Members
  <2>4. half.rmem_alloc = Total(half.list)
    BY <1>11 DEF Members
  <2>5. (\E k \in 1..Len(half.list) : half.list[k].fin = 1) => half.state = "CLOSING" \/ At(half) = N
    BY <1>11 DEF Members
  <2> QED BY <1>7, <1>8, <1>9, <2>1, <2>2, <2>3, <2>4, <2>5 DEF Members
<1>13. At(h) <= b + Window + 1
  <2>1. At(half) <= ack + Window + 1
    BY <1>1 DEF Keeps
  <2> QED BY <1>5, <1>6, <1>9, <2>1
<1>14. At(half) + MaxLen < ack => At(h) + MaxLen < b
  BY <1>5, <1>6, <1>9
<1>15. \A c : Listed(half, c) => Listed(h, c)
  BY <1>8 DEF Listed
<1>16. Keeps(h, got, b)
  <2>1. \A k \in 1..Len(half.list) : half.list[k].pos > At(half)
    BY <1>1 DEF Keeps
  <2>2. 0..(At(half) - 1) \subseteq got /\ At(half) \notin got
    BY <1>1 DEF Keeps
  <2>3. At(half) + MaxLen < ack \/ \A c \in got : c >= At(half) => Listed(half, c)
    BY <1>1 DEF Keeps
  <2>4. At(h) + MaxLen < b \/ \A c \in got : c >= At(h) => Listed(h, c)
    BY <1>9, <1>14, <1>15, <2>3
  <2>5. \A k \in 1..Len(h.list) : h.list[k].pos > At(h)
    BY <1>8, <1>9, <2>1
  <2> QED BY <1>9, <1>10, <1>12, <1>13, <2>2, <2>4, <2>5 DEF Keeps
<1>17. /\ Keeps(half', got', ack') /\ ack' \in 0..(N + 1) /\ got' \subseteq 0..(N - 1)
       /\ half'.rmem_alloc <= RmemLimit
  BY <1>1, <1>3, <1>4, <1>5, <1>8, <1>16
<1>18. IInv'
  BY <1>17 DEF IInv
<1>19. Gap => Gap'
  <2>1. Gap <=> At(half) + MaxLen < ack
    BY DEF Gap, Reached, At
  <2>2. Gap' <=> At(half') + MaxLen < ack'
    BY DEF Gap, Reached, At
  <2> QED BY <1>3, <1>4, <1>14, <2>1, <2>2
<1> QED BY <1>3, <1>8, <1>9, <1>18, <1>19

\* What a step may do: the stream only goes on, an end stays an end, and
\* behind an acknowledged gap nothing is given any more.
Goes ==
  /\ IInv' /\ At(half) <= At(half') /\ (Ended(half) => Ended(half'))
  /\ Gap => Gap' /\ half'.out = half.out

\* The invariant is inductive, and every step goes on.
LEMMA Inductive ==
  ASSUME N < Mod, IInv, [Next]_vars
  PROVE  Goes
<1>1. At(half) \in Int
  BY HalfFields DEF IInv, Keeps
<1>2. ASSUME NEW p \in Segments, Segment(p) PROVE Goes
  <2>1. /\ IInv' /\ At(half) <= At(half') /\ (Ended(half) => Ended(half'))
        /\ Gap => half'.out = half.out /\ At(half') = At(half)
    BY <1>2, SegmentStep
  <2>2. ack' = ack
    BY <1>2 DEF Segment
  <2>3. Gap => Gap'
    <3>1. Gap <=> At(half) + MaxLen < ack
      BY DEF Gap, Reached, At
    <3>2. Gap' <=> At(half') + MaxLen < ack'
      BY DEF Gap, Reached, At
    <3> QED BY <2>1, <2>2, <3>1, <3>2
  <2> QED BY <2>1, <2>3 DEF Goes
<1>3. ASSUME UNCHANGED vars PROVE Goes
  <2>1. half' = half /\ ack' = ack /\ got' = got
    BY <1>3 DEF vars
  <2>2. IInv'
    BY <2>1 DEF IInv
  <2>3. Gap => Gap'
    BY <2>1 DEF Gap, Reached
  <2> QED BY <1>1, <2>1, <2>2, <2>3 DEF Goes
<1>4. ASSUME NEW p \in Segments, Rejected(p) PROVE Goes
  BY <1>3, <1>4 DEF Rejected
<1>5. ASSUME NEW n \in 0..(N + 1), Acknowledge(n) PROVE Goes
  <2>1. /\ IInv' /\ At(half') = At(half) /\ (Ended(half) => Ended(half'))
        /\ half'.out = half.out /\ (Gap => Gap')
    BY <1>5, AcknowledgeStep
  <2> QED BY <1>1, <2>1 DEF Goes
<1> QED BY <1>2, <1>3, <1>4, <1>5 DEF Next

-----------------------------------------------------------------------------
(* The theorems, for streams shorter than the 2^W numbers.                 *)

\* The invariant says what the list is.
LEMMA IsSound == IInv => ListSound
<1> SUFFICES ASSUME IInv PROVE ListSound
  OBVIOUS
<1>1. /\ Keeps(half, got, ack) /\ ack \in 0..(N + 1) /\ got \subseteq 0..(N - 1)
      /\ half.rmem_alloc <= RmemLimit
  BY DEF IInv
<1>2. Streams(half) /\ Members(half, got, ack)
  BY <1>1 DEF Keeps
<1>3. /\ half.count \in Nat /\ half.urg_count \in 0..1 /\ half.list \in Seq(Segments)
      /\ half.rmem_alloc \in Int /\ half.out \in Seq(0..(N - 1))
      /\ half.state \in {"ESTABLISHED", "CLOSING", "FIN_SENT", "FIN_CONFIRMED"}
      /\ At(half) \in Int
  BY <1>2, HalfFields
<1>4. RmemLimit \in Nat /\ MaxLen \in Nat
  BY Widths
<1>5. half.urg_count \in 0..Cardinality(Urgent)
  <2>1. IsFiniteSet(Urgent) /\ Cardinality(Urgent) \in Nat
    <3>1. IsFiniteSet(0..(N - 1))
      BY Widths, FS_Interval
    <3> QED BY <3>1, Widths, FS_Subset, FS_CardinalityType
  <2>2. Urgent # {} => Cardinality(Urgent) # 0
    BY <2>1, FS_EmptySet
  <2>3. half.urg_count # 0 => Urgent # {}
    BY <1>2 DEF Streams, Skipped
  <2> QED BY <1>3, <2>1, <2>2, <2>3
<1>6. half.rmem_alloc = Total(half.list) /\ half.rmem_alloc >= 0
  <2>1. half.rmem_alloc = Total(half.list)
    BY <1>2 DEF Members
  <2>2. Sizes(half.list) \in Seq(Nat)
    BY <1>3, SizesType
  <2>3. Total(half.list) \in Nat
    BY <2>2, SumAppend DEF Total
  <2> QED BY <2>1, <2>3
<1>7. half.rmem_alloc \in 0..(RmemLimit + MaxLen + 1)
  BY <1>1, <1>3, <1>4, <1>6
<1>8. Len(half.out) = half.count
  BY <1>2 DEF Streams
<1>9. TypeOK
  BY <1>1, <1>3, <1>5, <1>7, <1>8 DEF TypeOK
<1>10. \A k \in 1..Len(half.list) : half.list[k].pos > Reached
  BY <1>1 DEF Keeps, Reached, At
<1>11. \A k \in 2..Len(half.list) : half.list[k - 1].pos <= half.list[k].pos
  <2> TAKE k \in 2..Len(half.list)
  <2>1. k - 1 \in 1..Len(half.list) /\ k \in 1..Len(half.list) /\ k - 1 <= k
    BY <1>3
  <2> QED BY <1>2, <2>1 DEF Members
<1>12. half.rmem_alloc = SumOf([k \in 1..Len(half.list) |-> truesize(half.list[k])])
  BY <1>6 DEF Total, Sizes
<1> QED BY <1>9, <1>10, <1>11, <1>12 DEF ListSound

\* The list of tcp_queue is sorted, ahead of the stream and accounted for,
\* for every order, overlap and loss of segments (ListSound).
THEOREM ListAlwaysSound == N < Mod => (Spec => []ListSound)
<1> SUFFICES ASSUME N < Mod PROVE Spec => []ListSound
  OBVIOUS
<1>1. Init => IInv
  BY Initially
<1>2. IInv /\ [Next]_vars => IInv'
  BY Inductive DEF Goes
<1>3. IInv => ListSound
  BY IsSound
<1> QED BY <1>1, <1>2, <1>3, PTL DEF Spec

\* The invariant says where the stream is.
LEMMA IsReassembled == IInv => Reassembled
<1> SUFFICES ASSUME IInv PROVE Reassembled
  OBVIOUS
<1>1. Streams(half) /\ Members(half, got, ack) /\ 0..(At(half) - 1) \subseteq got /\ At(half) \notin got
      /\ \A k \in 1..Len(half.list) : half.list[k].pos > At(half)
  BY DEF IInv, Keeps
<1>2. At(half) \in 0..N /\ At(half) \in Int /\ N \in Nat /\ half.list \in Seq(Segments)
  BY <1>1, HalfFields, Widths
<1>3. Reached = At(half)
  BY DEF Reached, At
<1>4. ASSUME NEW i \in 0..N PROVE i = At(half) <=> (i \notin got /\ 0..(i - 1) \subseteq got)
  <2>1. CASE i = At(half)
    BY <1>1, <2>1
  <2>2. CASE i < At(half)
    <3>1. i \in 0..(At(half) - 1)
      BY <1>2, <2>2
    <3> QED BY <1>1, <1>2, <2>2, <3>1
  <2>3. CASE i > At(half)
    <3>1. At(half) \in 0..(i - 1)
      BY <1>2, <2>3
    <3> QED BY <1>1, <1>2, <2>3, <3>1
  <2> QED BY <1>2, <2>1, <2>2, <2>3
<1>5. half.state \in {"FIN_SENT", "FIN_CONFIRMED"} => At(half) = N
  BY <1>1 DEF Streams, Ended
<1>6. ASSUME NEW k \in 1..Len(half.list), half.list[k].fin = 1
      PROVE  half.state = "CLOSING" /\ At(half) < N
  <2>1. half.list[k] \in Segments
    BY <1>2
  <2>2. half.list[k].pos \in 0..N /\ half.list[k].pos > At(half)
    BY <1>1, <2>1, SegmentFields
  <2>3. At(half) < N
    BY <1>2, <2>2
  <2>4. half.state = "CLOSING" \/ At(half) = N
    BY <1>1, <1>6 DEF Members
  <2> QED BY <1>2, <2>3, <2>4
<1> QED BY <1>3, <1>4, <1>5, <1>6 DEF Reassembled

\* The stream has reached exactly the first byte that was not let through,
\* and a FIN takes effect only behind the last byte (Reassembled).
THEOREM AlwaysReassembled == N < Mod => (Spec => []Reassembled)
<1> SUFFICES ASSUME N < Mod PROVE Spec => []Reassembled
  OBVIOUS
<1>1. Init => IInv
  BY Initially
<1>2. IInv /\ [Next]_vars => IInv'
  BY Inductive DEF Goes
<1>3. IInv => Reassembled
  BY IsReassembled
<1> QED BY <1>1, <1>2, <1>3, PTL DEF Spec

\* A gap that the receiver acknowledged stops the stream for good
\* (GapIsFinal).
THEOREM GapAlwaysFinal == N < Mod => (Spec => GapIsFinal)
<1> SUFFICES ASSUME N < Mod PROVE Spec => GapIsFinal
  OBVIOUS
<1>1. Init => IInv
  BY Initially
<1>2. IInv /\ [Next]_vars => IInv'
  BY Inductive DEF Goes
<1>3. IInv /\ [Next]_vars => [Gap => Gap' /\ half'.out = half.out]_vars
  BY Inductive DEF Goes
<1> QED BY <1>1, <1>2, <1>3, PTL DEF Spec, GapIsFinal

-----------------------------------------------------------------------------
(* What tcp_callback is given implements ByteStream.                       *)

\* How many bytes of the stream there are up to one of them.
LEMMA BandCount ==
  /\ Stream!Band = (0..(N - 1)) \ Urgent
  /\ Cardinality(Stream!Band) = N - Skipped(N)
  /\ \A i \in Stream!Band : Cardinality({j \in Stream!Band : j <= i}) = (i + 1) - Skipped(i)
<1>1. N \in Nat /\ Urgent \subseteq 0..(N - 1)
  BY Widths
<1>2. Stream!Band = (0..(N - 1)) \ Urgent
  BY DEF Stream!Band
<1>3. ASSUME NEW n \in 0..N, n \notin Urgent \/ n = N
      PROVE  Cardinality((0..(n - 1)) \ Urgent) = n - Skipped(n)
  <2>1. n \in Nat /\ n - 1 \in Int /\ 0 \in Int
    BY <1>1
  <2>2. IsFiniteSet(0..(n - 1)) /\ Cardinality(0..(n - 1)) = n
    <3>1. /\ IsFiniteSet(0..(n - 1))
          /\ Cardinality(0..(n - 1)) = IF 0 > n - 1 THEN 0 ELSE (n - 1) - 0 + 1
      BY <2>1, FS_Interval
    <3> QED BY <2>1, <3>1
  <2>3. CASE \E u \in Urgent : u < n
    <3>1. PICK u \in Urgent : u < n
      BY <2>3
    <3>2. Skipped(n) = 1
      BY <2>3 DEF Skipped
    <3>3. u \in 0..(n - 1)
      BY <1>1, <2>1, <3>1
    <3>4. (0..(n - 1)) \ Urgent = (0..(n - 1)) \ {u}
      BY OneUrgent
    <3>5. Cardinality((0..(n - 1)) \ {u}) = n - 1
      BY <2>2, <3>3, FS_RemoveElement
    <3> QED BY <3>2, <3>4, <3>5
  <2>4. CASE ~\E u \in Urgent : u < n
    <3>1. Skipped(n) = 0
      BY <2>4 DEF Skipped
    <3>2. (0..(n - 1)) \ Urgent = 0..(n - 1)
      BY <2>1, <2>4
    <3>3. Cardinality((0..(n - 1)) \ Urgent) = Cardinality(0..(n - 1))
      BY <3>2, Zenon
    <3> DEFINE c == Cardinality((0..(n - 1)) \ Urgent)
    <3>4. c = n
      BY <2>2, <3>3
    <3> HIDE DEF c
    <3>5. c = n - Skipped(n)
      BY <2>1, <3>1, <3>4
    <3> QED BY <3>5 DEF c
  <2> QED BY <2>3, <2>4
<1>4. Cardinality(Stream!Band) = N - Skipped(N)
  <2>1. N \in 0..N
    BY <1>1
  <2> QED BY <1>2, <1>3, <2>1
<1>5. ASSUME NEW i \in Stream!Band
      PROVE  Cardinality({j \in Stream!Band : j <= i}) = (i + 1) - Skipped(i)
  <2>1. i \in 0..(N - 1) /\ i \notin Urgent
    BY <1>2
  <2>2. {j \in Stream!Band : j <= i} = (0..((i + 1) - 1)) \ Urgent
    BY <1>1, <1>2, <2>1
  <2>3. Skipped(i + 1) = Skipped(i)
    <3>1. \A u \in Urgent : u < i + 1 <=> u < i
      BY <1>1, <2>1
    <3> QED BY <3>1 DEF Skipped
  <2>4. CASE i + 1 \notin Urgent
    <3>1. i + 1 \in 0..N
      BY <1>1, <2>1
    <3> QED BY <1>3, <2>2, <2>3, <2>4, <3>1
  <2>5. CASE i + 1 \in Urgent
    <3>1. i + 1 \in 0..(N - 1) /\ ~\E u \in Urgent : u < i + 1
      BY <1>1, <2>1, <2>5, OneUrgent
    <3>2. (0..((i + 1) - 1)) \ Urgent = 0..i
      BY <1>1, <2>1, <3>1
    <3>3. Cardinality(0..i) = IF 0 > i THEN 0 ELSE i - 0 + 1
      <4>1. i \in Int /\ 0 \in Int
        BY <1>1, <2>1
      <4> QED BY <4>1, FS_Interval
    <3>4. Skipped(i) = 0
      BY <2>3, <3>1 DEF Skipped
    <3> DEFINE c == Cardinality({j \in Stream!Band : j <= i})
    <3>5. c = Cardinality(0..i)
      BY <2>2, <3>2, Zenon
    <3> HIDE DEF c
    <3>6. c = (i + 1) - Skipped(i)
      BY <2>1, <3>3, <3>4, <3>5
    <3> QED BY <3>6 DEF c
  <2> QED BY <2>4, <2>5
<1> QED BY <1>2, <1>4, <1>5

\* The stream without its urgent byte, byte by byte.
LEMMA InBandIs ==
  Stream!InBand = [k \in 1..(N - Skipped(N)) |-> k - 1 + Skipped(k)]
<1>1. N \in Nat /\ Urgent \subseteq 0..(N - 1)
  BY Widths
<1>0. \A S : Stream!Cardinality(S) = Cardinality(S)
  BY DEF Stream!Cardinality, Cardinality
<1> DEFINE rank(i) == Stream!Cardinality({j \in Stream!Band : j <= i})
<1>2. ASSUME NEW k \in 1..(N - Skipped(N))
      PROVE  (CHOOSE i \in Stream!Band : rank(i) = k) = k - 1 + Skipped(k)
  <2> DEFINE b == k - 1 + Skipped(k)
  <2>1. /\ k \in Int /\ k >= 1 /\ k <= N /\ (Skipped(N) = 1 => k <= N - 1)
        /\ Skipped(N) \in 0..1 /\ Skipped(k) \in 0..1
    <3>1. Skipped(N) \in 0..1
      BY <1>1, SkippedOf
    <3>2. k \in Int
      BY <1>1, <3>1
    <3>3. Skipped(k) \in 0..1
      BY <3>2, SkippedOf
    <3> QED BY <1>1, <3>1, <3>2, <3>3
  <2>2. b \in Stream!Band /\ b \in Int /\ Skipped(b) = Skipped(k)
    <3>1. CASE \E u \in Urgent : u < k
      <4>1. PICK u \in Urgent : u < k
        BY <3>1
      <4>2. u \in 0..(N - 1)
        BY <1>1
      <4>3. Skipped(k) = 1 /\ Skipped(N) = 1
        BY <1>1, <4>1, <4>2 DEF Skipped
      <4>4. b = k
        BY <2>1, <4>3
      <4> HIDE DEF b
      <4>5. b \in 0..(N - 1) /\ b # u
        BY <1>1, <2>1, <4>1, <4>2, <4>3, <4>4
      <4>6. b \in Stream!Band
        BY <4>5, BandCount, OneUrgent
      <4> QED BY <2>1, <4>4, <4>6
    <3>2. CASE ~\E u \in Urgent : u < k
      <4>1. Skipped(k) = 0
        BY <3>2 DEF Skipped
      <4>2. b = k - 1
        BY <2>1, <4>1
      <4> HIDE DEF b
      <4>3. b \in 0..(N - 1) /\ b < k
        BY <1>1, <2>1, <4>2
      <4>4. \A u \in Urgent : ~(u < b)
        BY <1>1, <2>1, <3>2, <4>3
      <4>5. Skipped(b) = 0
        BY <4>4 DEF Skipped
      <4>6. b \notin Urgent
        BY <3>2, <4>3
      <4> QED BY <4>1, <4>3, <4>5, <4>6, BandCount
    <3> QED BY <3>1, <3>2
  <2>3. rank(b) = k
    <3>1. rank(b) = (b + 1) - Skipped(b)
      BY <1>0, <2>2, BandCount
    <3> QED BY <2>1, <2>2, <3>1
  <2>4. ASSUME NEW i \in Stream!Band, rank(i) = k PROVE i = b
    <3>1. (i + 1) - Skipped(i) = k
      BY <1>0, <2>4, BandCount
    <3>2. i \in 0..(N - 1) /\ i \notin Urgent
      BY BandCount
    <3>3. Skipped(i) \in 0..1
      BY <1>1, <3>2, SkippedOf
    <3>4. CASE Skipped(i) = 1
      <4>1. i = k
        BY <1>1, <2>1, <3>1, <3>2, <3>4
      <4> QED BY <2>1, <3>4, <4>1
    <3>5. CASE Skipped(i) = 0
      <4>1. i = k - 1
        BY <1>1, <2>1, <3>1, <3>2, <3>5
      <4>2. \A u \in Urgent : ~(u < i) /\ u # i
        BY <3>2, <3>5 DEF Skipped
      <4>3. \A u \in Urgent : ~(u < k)
        BY <1>1, <2>1, <4>1, <4>2
      <4>4. Skipped(k) = 0
        BY <4>3 DEF Skipped
      <4> QED BY <2>1, <4>1, <4>4
    <3> QED BY <3>3, <3>4, <3>5
  <2> HIDE DEF rank, b
  <2>5. (CHOOSE i \in Stream!Band : rank(i) = k) = b
    BY <2>2, <2>3, <2>4
  <2> QED BY <2>5 DEF b
<1>3. Stream!InBand = [k \in 1..Stream!Cardinality(Stream!Band) |-> CHOOSE i \in Stream!Band : rank(i) = k]
  BY DEF Stream!InBand
<1>4. Stream!Cardinality(Stream!Band) = N - Skipped(N)
  BY <1>0, BandCount
<1> HIDE DEF rank
<1> QED BY <1>2, <1>3, <1>4

\* Two sequences with the same members are the same.
LEMMA SameSeq ==
  ASSUME NEW S, NEW s \in Seq(S), NEW t \in Seq(S), Len(s) = Len(t),
         \A k \in 1..Len(s) : s[k] = t[k]
  PROVE  s = t
OBVIOUS

\* The sender's stream as a sequence.
LEMMA InBandSeq ==
  /\ Stream!InBand \in Seq(Int) /\ Len(Stream!InBand) = N - Skipped(N)
  /\ \A k \in 1..(N - Skipped(N)) : Stream!InBand[k] = k - 1 + Skipped(k)
<1>1. N \in Nat /\ Urgent \subseteq 0..(N - 1)
  BY Widths
<1>2. N - Skipped(N) \in Nat
  <2>1. Skipped(N) \in 0..1
    BY <1>1, SkippedOf
  <2>2. Skipped(N) = 1 => N > 0
    BY <1>1 DEF Skipped
  <2> QED BY <1>1, <2>1, <2>2
<1> DEFINE m == N - Skipped(N)
<1>3. \A k \in 1..m : k - 1 + Skipped(k) \in Int
  <2> TAKE k \in 1..m
  <2>1. k \in Int
    BY <1>2
  <2>2. Skipped(k) \in 0..1
    BY <2>1, SkippedOf
  <2> QED BY <2>1, <2>2
<1>4. Stream!InBand = [k \in 1..m |-> k - 1 + Skipped(k)] /\ m \in Nat
  BY <1>2, InBandIs
<1> HIDE DEF m
<1>5. /\ Stream!InBand \in Seq(Int) /\ Len(Stream!InBand) = m
      /\ \A k \in 1..m : Stream!InBand[k] = k - 1 + Skipped(k)
  BY <1>3, <1>4
<1> QED BY <1>5 DEF m

\* What has been given is the start of the sender's stream, all of it when
\* the stream has ended.
LEMMA Given ==
  ASSUME NEW h, Streams(h)
  PROVE  /\ h.out = SubSeq(Stream!InBand, 1, h.count) /\ h.count \in Nat
         /\ h.count <= Len(Stream!InBand)
         /\ Ended(h) => h.count = Len(Stream!InBand)
<1> DEFINE c == h.count
           m == Len(Stream!InBand)
           s == SubSeq(Stream!InBand, 1, c)
<1>1. /\ c \in Nat /\ h.urg_count = Skipped(At(h)) /\ At(h) = c + h.urg_count /\ At(h) \in 0..N
      /\ h.out \in Seq(0..(N - 1)) /\ Len(h.out) = c
      /\ \A k \in 1..c : h.out[k] = k - 1 + Skipped(k)
      /\ Ended(h) => At(h) = N
  <2>1. /\ h.urg_count = Skipped(At(h)) /\ Len(h.out) = c
        /\ \A k \in 1..Len(h.out) : h.out[k] = k - 1 + Skipped(k)
        /\ Ended(h) => At(h) = N
    BY DEF Streams
  <2> QED BY <2>1, HalfFields DEF At
<1>2. N \in Nat /\ Urgent \subseteq 0..(N - 1)
  BY Widths
<1>3. /\ m = N - Skipped(N) /\ Skipped(N) \in 0..1 /\ Stream!InBand \in Seq(Int)
      /\ \A k \in 1..m : Stream!InBand[k] = k - 1 + Skipped(k)
  BY <1>2, InBandSeq, SkippedOf
<1>4. c <= m /\ (Ended(h) => c = m)
  <2>1. CASE Urgent = {}
    <3>1. Skipped(N) = 0 /\ Skipped(At(h)) = 0
      BY <2>1 DEF Skipped
    <3> HIDE DEF c, m
    <3> QED BY <1>1, <1>2, <1>3, <3>1
  <2>2. CASE Urgent # {}
    <3>1. PICK u : u \in Urgent
      BY <2>2
    <3>2. u \in 0..(N - 1)
      BY <1>2, <3>1
    <3>3. Skipped(N) = 1
      BY <1>2, <3>1, <3>2 DEF Skipped
    <3>4. Skipped(At(h)) = IF u < At(h) THEN 1 ELSE 0
      <4>1. At(h) \in Int
        BY <1>1
      <4> QED BY <3>1, <4>1, SkippedOf
    <3> HIDE DEF c, m
    <3> QED BY <1>1, <1>2, <1>3, <3>2, <3>3, <3>4
  <2> QED BY <2>1, <2>2
<1>5. s \in Seq(Int) /\ Len(s) = c /\ \A k \in 1..c : s[k] = Stream!InBand[k]
  <2> DEFINE b == Stream!InBand
  <2>1. b \in Seq(Int) /\ c \in Nat /\ c <= Len(b)
    BY <1>1, <1>3, <1>4
  <2> HIDE DEF b, c
  <2>2. /\ SubSeq(b, 1, c) \in Seq(Int) /\ Len(SubSeq(b, 1, c)) = c
        /\ \A k \in 1..c : SubSeq(b, 1, c)[k] = b[k]
    BY <2>1
  <2> QED BY <2>2 DEF b
<1> HIDE DEF c, m, s
<1>6. \A k \in 1..c : h.out[k] = s[k]
  <2> TAKE k \in 1..c
  <2>1. k \in 1..m
    BY <1>1, <1>2, <1>3, <1>4
  <2> QED BY <1>1, <1>3, <1>5, <2>1
<1>7. h.out = s
  <2>1. h.out \in Seq(Int)
    BY <1>1, <1>2
  <2>2. Len(h.out) = Len(s) /\ \A k \in 1..Len(h.out) : h.out[k] = s[k]
    BY <1>1, <1>5, <1>6
  <2> QED BY <1>5, <2>1, <2>2, SameSeq
<1> QED BY <1>1, <1>4, <1>7 DEF c, m, s

\* How much has been given goes with where the stream is.
LEMMA GivenMore ==
  ASSUME NEW h, NEW d, Streams(h), Streams(d), At(h) <= At(d)
  PROVE  h.count <= d.count
<1>1. /\ h.count \in Nat /\ h.urg_count = Skipped(At(h)) /\ At(h) = h.count + h.urg_count /\ At(h) \in Int
      /\ d.count \in Nat /\ d.urg_count = Skipped(At(d)) /\ At(d) = d.count + d.urg_count /\ At(d) \in Int
  BY HalfFields DEF Streams, At
<1>2. CASE Urgent = {}
  <2>1. Skipped(At(h)) = 0 /\ Skipped(At(d)) = 0
    BY <1>2 DEF Skipped
  <2> QED BY <1>1, <2>1
<1>3. CASE Urgent # {}
  <2>1. PICK u : u \in Urgent
    BY <1>3
  <2>2. u \in Int
    BY <2>1, Widths
  <2>3. /\ Skipped(At(h)) = IF u < At(h) THEN 1 ELSE 0
        /\ Skipped(At(d)) = IF u < At(d) THEN 1 ELSE 0
    BY <1>1, <2>1, SkippedOf
  <2> QED BY <1>1, <2>2, <2>3
<1> QED BY <1>2, <1>3

\* The initial state is one of ByteStream.
LEMMA StreamInit == Init => Stream!Init
<1> SUFFICES ASSUME Init PROVE Stream!Init
  OBVIOUS
<1>1. half.out = <<>> /\ half.state = "ESTABLISHED"
  BY DEF Init
<1> QED BY <1>1 DEF Stream!Init

\* Every step of reassembly is a step of ByteStream, or none: what is given
\* grows along the sender's stream, and nothing follows the end.
LEMMA StreamStep ==
  ASSUME N < Mod, IInv, [Next]_vars
  PROVE  \/ Stream!Deliver
         \/ UNCHANGED <<half.out, half.state \in {"FIN_SENT", "FIN_CONFIRMED"}>>
<1>1. IInv' /\ At(half) <= At(half') /\ (Ended(half) => Ended(half'))
  BY Inductive DEF Goes
<1>2. Streams(half) /\ Streams(half')
  BY <1>1 DEF IInv, Keeps
<1> DEFINE h == half
           d == half'
           b == Stream!InBand
<1>3. /\ h.out = SubSeq(b, 1, h.count) /\ h.count \in Nat /\ h.count <= Len(b)
      /\ Ended(h) => h.count = Len(b)
  BY <1>2, Given
<1>4. /\ d.out = SubSeq(b, 1, d.count) /\ d.count \in Nat /\ d.count <= Len(b)
      /\ Ended(d) => d.count = Len(b)
  BY <1>2, Given
<1>5. h.count <= d.count
  BY <1>1, <1>2, GivenMore
<1>6. Len(h.out) = h.count
  BY <1>2 DEF Streams
<1>7. b \in Seq(Int) /\ Len(b) \in Nat
  BY InBandSeq
<1>8. Ended(d) => d.out = b
  <2> HIDE DEF b, d
  <2>1. SubSeq(b, 1, Len(b)) = b
    BY <1>7
  <2> QED BY <1>4, <2>1
<1>9. CASE Ended(h)
  <2>1. d.out = h.out
    BY <1>1, <1>3, <1>4, <1>9
  <2> QED BY <1>1, <1>9, <2>1 DEF Ended
<1>10. CASE ~Ended(h)
  <2>1. \E k \in Len(h.out)..Len(b) : d.out = SubSeq(b, 1, k)
    <3>1. d.count \in Len(h.out)..Len(b)
      <4> HIDE DEF h, b, d
      <4> QED BY <1>3, <1>4, <1>5, <1>6, <1>7
    <3> QED BY <1>4, <3>1
  <2>2. Ended(d) \in {FALSE, d.out = b}
    <3>1. Ended(d) \in BOOLEAN /\ (d.out = b) \in BOOLEAN
      BY DEF Ended
    <3>2. Ended(d) = FALSE \/ Ended(d) = (d.out = b)
      BY <1>8, <3>1
    <3> QED BY <3>2
  <2> QED BY <1>10, <2>1, <2>2 DEF Stream!Deliver, Ended
<1> QED BY <1>9, <1>10

\* Reassembly implements ByteStream: tcp_callback gets the sender's bytes in
\* order, each once, and the end of the stream behind all of them, however
\* segments were lost, repeated, overlapped, reordered and purged
\* (DeliversStream).
THEOREM AlwaysDeliversStream == N < Mod => (Spec => DeliversStream)
<1> SUFFICES ASSUME N < Mod PROVE Spec => DeliversStream
  OBVIOUS
<1>1. Init => IInv
  BY Initially
<1>2. IInv /\ [Next]_vars => IInv'
  BY Inductive DEF Goes
<1>3. Init => Stream!Init
  BY StreamInit
<1>4. IInv /\ [Next]_vars =>
        [Stream!Deliver]_<<half.out, half.state \in {"FIN_SENT", "FIN_CONFIRMED"}>>
  BY StreamStep
<1> QED BY <1>1, <1>2, <1>3, <1>4, PTL DEF Spec, DeliversStream, Stream!Spec

=============================================================================
