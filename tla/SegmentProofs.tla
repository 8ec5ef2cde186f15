---------------------------- MODULE SegmentProofs ----------------------------
(***************************************************************************)
(* The shared segment.  The writer of the log ring never stores outside    *)
(* it, for every capacity and every set of message lengths, and a follower *)
(* that keeps up prints every record whole, in every interleaving of its   *)
(* loads with the writer's stores and over every number of laps: it is in  *)
(* the current lap or in the one before, past all that the writer is about *)
(* to overwrite.  The table of requests per second is exact, for every     *)
(* RPS_N, every number of requests, seconds and deaths, in whichever order *)
(* the two stores that take a slot over are emitted.                       *)
(***************************************************************************)
EXTENDS Segment, SumsProofs

-----------------------------------------------------------------------------
(* The log ring.                                                           *)

\* What holds while a message is being pushed: a rewind leaves the writer at
\* the start, and a message is only stored where it leaves room for a mark.
Room ==
  /\ p + 2 <= Cap
  /\ wpc # "idle" => size \in Sizes
  /\ wpc = "life" => p = 0
  /\ wpc \in {"size", "text", "publish"} => size + p + 4 < Cap

\* The inductive invariant.
RingInv == TypeOK /\ Room

\* show_log writes no shared word, and prints only records that were pushed.
LEMMA ReaderReads ==
  ASSUME TypeOK, Reader
  PROVE  UNCHANGED <<mem, p, life, wpc, size, recs>> /\ last' \in Nat
<1>1. CASE CmpLife \/ CmpPos \/ LoadLen \/ CmpLap \/ CmpOvertaken \/ Restart
  BY <1>1 DEF TypeOK, CmpLife, CmpPos, LoadLen, CmpLap, CmpOvertaken, Restart
<1>2. CASE Show
  <2>1. last' = last \/ (Whole(RecordAt(rd.p)) /\ last' = RecordAt(rd.p))
    BY <1>2 DEF Show
  <2>2. Whole(RecordAt(rd.p)) => RecordAt(rd.p) \in Nat
    BY DEF TypeOK, Whole
  <2> QED BY <1>2, <2>1, <2>2 DEF TypeOK, Show
<1> QED BY <1>1, <1>2 DEF Reader

\* The initial state, and every store of status_logpush and push_data, leaves
\* the writer inside the segment with a length and a lap number in range.
LEMMA RingInductive ==
  /\ Init => RingInv
  /\ RingInv /\ [Next]_vars => RingInv'
<1> USE StatusLogAssumption
<1>1. Init => RingInv
  BY DEF Init, RingInv, TypeOK, Room
<1>2. ASSUME RingInv, [Next]_vars PROVE RingInv'
  <2> USE <1>2 DEF RingInv
  <2> Sizes \subseteq Nat /\ \A n \in Sizes : n + 4 < Cap
    OBVIOUS
  <2>1. ASSUME NEW n \in Sizes, Push(n) PROVE RingInv'
    BY <2>1 DEF TypeOK, Room, Push, Wraps
  <2>2. CASE StoreMark
    BY <2>2 DEF TypeOK, Room, StoreMark
  <2>3. CASE Rewind
    BY <2>3 DEF TypeOK, Room, Rewind
  <2>4. CASE NextLife
    <3>1. (life + 1) % Lives \in 0..(Lives - 1)
      BY DEF TypeOK
    <3> QED BY <2>4, <3>1 DEF TypeOK, Room, NextLife
  <2>5. CASE StoreSize
    BY <2>5 DEF TypeOK, Room, StoreSize
  <2>6. CASE StoreText
    BY <2>6 DEF TypeOK, Room, StoreText
  <2>7. CASE Publish
    BY <2>7 DEF TypeOK, Room, Publish
  <2>8. CASE Reader
    BY <2>8, ReaderReads DEF TypeOK, Room
  <2>9. CASE UNCHANGED vars
    BY <2>9 DEF TypeOK, Room, vars
  <2> QED BY <1>2, <2>1, <2>2, <2>3, <2>4, <2>5, <2>6, <2>7, <2>8, <2>9 DEF Next, Writer
<1> QED BY <1>1, <1>2

\* The ring's words keep their types: in particular stat->life stays in range
\* and every pushed length is one of a message.
THEOREM RingTypes == Spec => []TypeOK
<1>1. RingInv => TypeOK
  BY DEF RingInv
<1> QED BY RingInductive, <1>1, PTL DEF Spec

\* No store of status_logpush leaves the segment, neither the end-of-lap mark
\* nor a message with its length and NUL, whatever lengths are pushed.
THEOREM WriterStaysInside == Spec => []WriterInBounds
<1>1. RingInv => WriterInBounds
  BY StatusLogAssumption DEF RingInv, TypeOK, Room, WriterInBounds
<1> QED BY RingInductive, <1>1, PTL DEF Spec

-----------------------------------------------------------------------------
(* The follower of the log ring.                                           *)

\* The records that are published.
Pushed == IF wpc \in {"text", "publish"} THEN Len(recs) - 1 ELSE Len(recs)

\* Record r lies whole at offset o.
Lies(o, r) == \A j \in 0..(recs[r] + 2) : mem[o + j] = <<r, j>>

\* Records a..b lie whole and behind each other from f[a] to f[b + 1].
Laid(f, a, b) ==
  /\ f \in [Nat -> Nat]
  /\ \A r \in a..b : f[r + 1] = f[r] + recs[r] + 3 /\ Lies(f[r], r)
  /\ \A r \in a..b : \A q \in (r + 1)..(b + 1) : f[r + 1] <= f[q]

\* The current lap: records c.. up to stat->p.
Lap(c, f) == c \in 1..(Pushed + 1) /\ f[c] = 0 /\ f[Pushed + 1] = p /\ Laid(f, c, Pushed)

\* What the writer has stored behind stat->p and not yet published.
Storing ==
  /\ wpc = "rewind" => mem[p] = <<Mark, 0>> /\ mem[p + 1] = <<Mark, 1>>
  /\ wpc \in {"text", "publish"} =>
       /\ Len(recs) > 0 /\ recs[Len(recs)] = size
       /\ mem[p] = <<Len(recs), 0>> /\ mem[p + 1] = <<Len(recs), 1>>
  /\ wpc = "publish" => \A j \in 2..(size + 2) : mem[p + j] = <<Len(recs), j>>

\* The reader stands at record k, and what it holds is of one of those up to b.
Reading(k, b) ==
  /\ k - 1 <= last /\ rd.pc # "fault"
  /\ rd.pc \in {"lap", "overtaken", "print"} => k <= b /\ rd.l = recs[k] + 1

\* It is in the current lap, or at the end of it; before a rewind it is past
\* what the next lap will start with.
OnLap(c, f, k) ==
  /\ wpc # "life" /\ rd.i = life
  /\ k \in c..(Pushed + 1) /\ rd.p = f[k]
  /\ Reading(k, Pushed)
  /\ rd.pc = "len" => k <= Pushed
  /\ rd.pc # "overtaken"
  /\ rd.pc = "restart" => k = c
  /\ wpc \in {"mark", "rewind"} => rd.p >= size + 3

\* Its lap number is the one before the current one.
LapBefore == life = IF wpc = "life" THEN rd.i ELSE (rd.i + 1) % Lives

\* It is past everything the writer is about to store.
Ahead == rd.p >= IF wpc = "idle" THEN p ELSE p + size + 3

\* It is in the lap before, whose records k..c-1 and mark are still there, and
\* past everything the writer is about to store.
Behind(c, e, k) ==
  /\ wpc \notin {"mark", "rewind"}
  /\ LapBefore
  /\ k \in 1..c /\ rd.p = e[k]
  /\ Laid(e, k, c - 1)
  /\ e[c] + 2 <= Cap /\ mem[e[c]] = <<Mark, 0>> /\ mem[e[c] + 1] = <<Mark, 1>>
  /\ Reading(k, c - 1)
  /\ rd.pc = "restart" => k = c
  /\ Ahead

\* Where each record of a lap lies.
Offsets == [Nat -> Nat]

\* It has slipped: it may stand anywhere, but all records before the current
\* lap are printed, and the writer does not end this lap before it starts over.
Slipped(c) ==
  /\ wpc \notin {"mark", "rewind"}
  /\ LapBefore
  /\ c - 1 <= last

\* A follower that has not slipped is in one of the two laps.
Followed(c, f) ==
  IF rd.slip
    THEN Slipped(c)
    ELSE \/ \E k \in Nat : OnLap(c, f, k)
         \/ \E e \in Offsets, k \in Nat : Behind(c, e, k)

Followers == [pc : {"restart", "life", "pos", "len", "lap", "overtaken", "print", "fault"},
              i : 0..(Lives - 1), p : Nat, l : Nat, slip : BOOLEAN]

\* The types, and what the writer is doing.
Shared ==
  /\ RingInv
  /\ mem \in [0..(Cap - 1) -> (-1..Len(recs)) \X Nat]
  /\ rd \in Followers
  /\ Storing

\* The inductive invariant.
FollowInv == Shared /\ \E c \in Nat, f \in Offsets : Lap(c, f) /\ Followed(c, f)

\* The bounds of everything.
LEMMA Bounds ==
  ASSUME RingInv
  PROVE  /\ Cap \in Nat /\ LogBuf \in Nat /\ Lives \in Nat /\ Lives > 1 /\ MaxLag \in Nat
         /\ Sizes \subseteq Nat /\ (\A n \in Sizes : 1 <= n /\ n <= LogBuf - 1)
         /\ MaxLag + 2 * LogBuf + 5 <= Cap /\ LogBuf + 4 < Cap
         /\ p \in Nat /\ size \in Nat /\ life \in 0..(Lives - 1) /\ last \in Nat
         /\ recs \in Seq(Sizes) /\ Len(recs) \in Nat
         /\ \A r \in 1..Len(recs) : recs[r] \in Sizes /\ recs[r] \in Nat
<1>1. /\ Cap \in Nat /\ LogBuf \in Nat /\ Lives \in Nat /\ Lives > 1 /\ MaxLag \in Nat
      /\ MaxLag + 2 * LogBuf + 5 <= Cap /\ LogBuf + 4 < Cap
      /\ Sizes \subseteq 1..(LogBuf - 1)
  BY StatusLogAssumption, KeepsUpAssumption
<1>2. Sizes \subseteq Nat /\ (\A n \in Sizes : 1 <= n /\ n <= LogBuf - 1)
  BY <1>1
<1>3. /\ p \in Nat /\ size \in Sizes \cup {0} /\ life \in 0..(Lives - 1) /\ last \in Nat
      /\ recs \in Seq(Sizes)
  BY DEF RingInv, TypeOK
<1>4. /\ Len(recs) \in Nat /\ \A r \in 1..Len(recs) : recs[r] \in Sizes
  BY <1>3
<1>5. size \in Nat
  <2>1. Sizes \cup {0} \subseteq Nat
    BY <1>2
  <2> QED BY <1>3, <2>1
<1>6. ASSUME NEW r \in 1..Len(recs) PROVE recs[r] \in Nat
  BY <1>2, <1>4
<1> QED BY <1>1, <1>2, <1>3, <1>4, <1>5, <1>6

\* Where the records of a run lie.
LEMMA LaidBounds ==
  ASSUME NEW f, NEW a \in Nat, NEW b \in Nat, Laid(f, a, b), RingInv, 1 <= a, b <= Len(recs)
  PROVE  \A r \in a..b :
           /\ f[a] \in Nat /\ f[r] \in Nat /\ f[r + 1] \in Nat /\ f[b + 1] \in Nat
           /\ recs[r] \in Sizes /\ recs[r] \in Nat
           /\ f[a] <= f[r] /\ f[r + 1] = f[r] + recs[r] + 3 /\ f[r + 1] <= f[b + 1]
<1> TAKE r \in a..b
<1>1. Len(recs) \in Nat
  BY Bounds
<1>2. /\ a \in Nat /\ r \in Nat /\ r + 1 \in Nat /\ b + 1 \in Nat /\ a \in a..b
      /\ r + 1 \in (r + 1)..(b + 1) /\ b + 1 \in (r + 1)..(b + 1) /\ r \in 1..Len(recs)
      /\ a \in 1..Len(recs)
  BY <1>1
<1>3. f[a] \in Nat /\ f[r] \in Nat /\ f[r + 1] \in Nat /\ f[b + 1] \in Nat /\ f[a + 1] \in Nat
  BY <1>2 DEF Laid
<1>4. recs[r] \in Sizes /\ recs[r] \in Nat /\ recs[a] \in Nat
  BY <1>2, Bounds
<1>5. f[r + 1] = f[r] + recs[r] + 3 /\ f[r + 1] <= f[b + 1] /\ f[a + 1] = f[a] + recs[a] + 3
  BY <1>2 DEF Laid
<1>6. f[a] <= f[r]
  <2>1. CASE r = a
    BY <1>3, <2>1
  <2>2. CASE r # a
    <3>1. r \in (a + 1)..(b + 1)
      BY <1>2, <2>2
    <3>2. f[a + 1] <= f[r]
      BY <1>2, <3>1 DEF Laid
    <3> HIDE DEF Laid
    <3> DEFINE x == f[a]
               y == f[a + 1]
               z == f[r]
               n == recs[a]
    <3>3. x \in Nat /\ y \in Nat /\ z \in Nat /\ n \in Nat /\ y = x + n + 3 /\ y <= z
      BY <1>3, <1>4, <1>5, <3>2
    <3> HIDE DEF x, y, z, n
    <3>4. x <= z
      BY <3>3
    <3> QED BY <3>4 DEF x, z
  <2> QED BY <2>1, <2>2
<1> QED BY <1>3, <1>4, <1>5, <1>6

\* A run of records extends forward.
LEMMA LaidSpan ==
  ASSUME NEW f, NEW a \in Nat, NEW b \in Nat, Laid(f, a, b), RingInv, 1 <= a, a <= b,
         b <= Len(recs)
  PROVE  f[a] \in Nat /\ f[b + 1] \in Nat /\ f[a] <= f[b + 1]
<1>1. a \in a..b
  OBVIOUS
<1>2. /\ f[a] \in Nat /\ f[a + 1] \in Nat /\ f[b + 1] \in Nat /\ recs[a] \in Nat
      /\ f[a + 1] = f[a] + recs[a] + 3 /\ f[a + 1] <= f[b + 1]
  BY <1>1, LaidBounds
<1> DEFINE x == f[a]
           y == f[a + 1]
           z == f[b + 1]
           n == recs[a]
<1>3. x \in Nat /\ y \in Nat /\ z \in Nat /\ n \in Nat /\ y = x + n + 3 /\ y <= z
  BY <1>2
<1> HIDE DEF x, y, z, n
<1>4. x <= z
  BY <1>3
<1> QED BY <1>3, <1>4 DEF x, z

\* Stores elsewhere leave a run of records alone.
LEMMA LaidKept ==
  ASSUME NEW f, NEW a \in Nat, NEW b \in Nat, Laid(f, a, b), RingInv, 1 <= a, b <= Len(recs),
         \A r \in a..b : recs'[r] = recs[r],
         \A x \in f[a]..(f[b + 1] - 1) : mem'[x] = mem[x]
  PROVE  Laid(f, a, b)'
<1>1. ASSUME NEW r \in a..b
      PROVE  f[r + 1] = f[r] + recs'[r] + 3 /\ Lies(f[r], r)'
  <2>1. /\ f[a] \in Nat /\ f[r] \in Nat /\ f[r + 1] \in Nat /\ f[b + 1] \in Nat /\ recs[r] \in Nat
        /\ f[a] <= f[r] /\ f[r + 1] = f[r] + recs[r] + 3 /\ f[r + 1] <= f[b + 1]
    BY LaidBounds
  <2>2. ASSUME NEW j \in 0..(recs[r] + 2) PROVE mem'[f[r] + j] = <<r, j>>
    <3> HIDE DEF Laid
    <3> DEFINE x == f[r]
               lo == f[a]
               hi == f[b + 1]
               y == f[r + 1]
               n == recs[r]
    <3>1. /\ x \in Nat /\ lo \in Nat /\ hi \in Nat /\ y \in Nat /\ n \in Nat
          /\ lo <= x /\ y = x + n + 3 /\ y <= hi /\ j \in 0..(n + 2)
      BY <2>1
    <3>2. f[r] + j \in f[a]..(f[b + 1] - 1)
      <4> HIDE DEF x, lo, hi, y, n
      <4>1. x + j \in lo..(hi - 1)
        BY <3>1
      <4> QED BY <4>1 DEF x, lo, hi
    <3>3. mem[f[r] + j] = <<r, j>>
      BY DEF Laid, Lies
    <3> QED BY <3>2, <3>3
  <2>3. recs'[r] = recs[r]
    OBVIOUS
  <2>4. Lies(f[r], r)'
    BY <2>2, <2>3 DEF Lies
  <2> QED BY <2>1, <2>3, <2>4
<1> QED BY <1>1 DEF Laid

\* A run of records without its first one.
LEMMA LaidRest ==
  ASSUME NEW f, NEW a \in Nat, NEW b \in Nat, Laid(f, a, b), NEW k \in Nat, a <= k
  PROVE  Laid(f, k, b)
<1>1. k..b \subseteq a..b
  OBVIOUS
<1> QED BY <1>1 DEF Laid

\* A run of records and the one that is stored behind it.
LEMMA LaidMore ==
  ASSUME NEW f, NEW a \in Nat, NEW b \in Nat, Laid(f, a, b), RingInv, 1 <= a, a <= b + 1,
         b + 1 \in 1..Len(recs),
         Lies(f[b + 1], b + 1)
  PROVE  Laid([f EXCEPT ![b + 2] = f[b + 1] + recs[b + 1] + 3], a, b + 1)
<1> DEFINE g == [f EXCEPT ![b + 2] = f[b + 1] + recs[b + 1] + 3]
<1> HIDE DEF g
<1>1. f \in [Nat -> Nat] /\ b + 1 \in Nat /\ b + 2 \in Nat /\ recs[b + 1] \in Nat
  <2>1. f \in [Nat -> Nat]
    BY DEF Laid
  <2>2. recs[b + 1] \in Nat
    BY Bounds
  <2>3. b + 1 \in Nat
    OBVIOUS
  <2>4. b + 2 \in Nat
    OBVIOUS
  <2> QED BY <2>1, <2>2, <2>3, <2>4
<1>2. f[b + 1] \in Nat /\ f[b + 1] + recs[b + 1] + 3 \in Nat
  <2>1. f[b + 1] \in Nat
    BY <1>1
  <2> DEFINE x == f[b + 1]
             n == recs[b + 1]
  <2>2. x \in Nat /\ n \in Nat
    BY <1>1, <2>1
  <2> HIDE DEF x, n
  <2>3. x + n + 3 \in Nat
    BY <2>2
  <2> QED BY <2>1, <2>3 DEF x, n
<1>3. /\ g \in [Nat -> Nat] /\ g[b + 2] = f[b + 1] + recs[b + 1] + 3
      /\ \A r \in Nat : r # b + 2 => g[r] = f[r]
  BY <1>1, <1>2 DEF g
<1>4. ASSUME NEW r \in a..(b + 1)
      PROVE  /\ g[r + 1] = g[r] + recs[r] + 3
             /\ Lies(g[r], r)
  <2>1. r \in Nat /\ r <= b + 1
    OBVIOUS
  <2>2. r \in Nat /\ r # b + 2 /\ g[r] = f[r]
    <3>1. r # b + 2
      BY <2>1
    <3> QED BY <1>3, <2>1, <3>1
  <2>3. CASE r = b + 1
    BY <1>1, <1>3, <2>2, <2>3
  <2>4. CASE r # b + 1
    <3>1. r \in a..b /\ r + 1 \in Nat /\ r + 1 # b + 2
      BY <2>4
    <3>2. g[r + 1] = f[r + 1]
      BY <1>3, <3>1
    <3> QED BY <2>2, <3>1, <3>2 DEF Laid
  <2> QED BY <2>3, <2>4
<1>5. ASSUME NEW r \in a..(b + 1), NEW q \in (r + 1)..(b + 1 + 1) PROVE g[r + 1] <= g[q]
  <2>1. r \in Nat /\ q \in Nat /\ r + 1 \in Nat /\ q <= b + 2
    OBVIOUS
  <2>2. CASE q = r + 1
    <3>1. g[q] \in Nat
      BY <1>3, <2>1
    <3> QED BY <2>2, <3>1
  <2>3. CASE q # r + 1 /\ q # b + 2
    <3>1. r \in a..b /\ q \in (r + 1)..(b + 1) /\ r + 1 # b + 2
      BY <2>1, <2>3
    <3>2. f[r + 1] <= f[q]
      BY <3>1 DEF Laid
    <3> QED BY <1>3, <2>1, <2>3, <3>1, <3>2
  <2>4. CASE q # r + 1 /\ q = b + 2
    <3>1. r \in a..b /\ b + 1 \in (r + 1)..(b + 1) /\ r + 1 # b + 2
      BY <2>1, <2>4
    <3>2. f[r + 1] <= f[b + 1] /\ f[r + 1] \in Nat
      BY <1>1, <2>1, <3>1 DEF Laid
    <3> DEFINE x == f[r + 1]
               y == f[b + 1]
               n == recs[b + 1]
    <3>3. x \in Nat /\ y \in Nat /\ n \in Nat /\ x <= y /\ g[b + 2] = y + n + 3
      BY <1>1, <1>2, <1>3, <3>2
    <3> HIDE DEF x, y, n
    <3>4. x <= g[b + 2]
      BY <3>3
    <3>5. g[r + 1] = x
      BY <1>3, <2>1, <3>1 DEF x
    <3> QED BY <2>4, <3>4, <3>5
  <2> QED BY <2>1, <2>2, <2>3, <2>4
<1>6. Laid(g, a, b + 1)
  BY <1>3, <1>4, <1>5 DEF Laid
<1> QED BY <1>6 DEF g

\* What show_log finds at the start of a record.
LEMMA RecordFound ==
  ASSUME NEW f, NEW a \in Nat, NEW b \in Nat, Laid(f, a, b), RingInv, 1 <= a, b <= Len(recs)
  PROVE  \A k \in a..b :
           /\ RecordAt(f[k]) = k /\ recs[k] + 1 <= LogBuf
           /\ recs[k] \in Nat /\ f[k] + 2 < f[b + 1]
           /\ \A j \in 2..(recs[k] + 2) : mem[f[k] + j] = <<k, j>>
<1> TAKE k \in a..b
<1>1. /\ f[k] \in Nat /\ f[b + 1] \in Nat /\ recs[k] \in Nat /\ recs[k] \in Sizes
      /\ f[k + 1] = f[k] + recs[k] + 3 /\ f[k + 1] <= f[b + 1]
  BY LaidBounds
<1>2. \A j \in 0..(recs[k] + 2) : mem[f[k] + j] = <<k, j>>
  BY DEF Laid, Lies
<1>3. 0 \in 0..(recs[k] + 2) /\ 1 \in 0..(recs[k] + 2) /\ f[k] + 0 = f[k]
  BY <1>1
<1>4. mem[f[k]] = <<k, 0>> /\ mem[f[k] + 1] = <<k, 1>>
  BY <1>2, <1>3
<1>5. RecordAt(f[k]) = k
  BY <1>4 DEF RecordAt
<1> DEFINE n == recs[k]
           y == f[k + 1]
           hi == f[b + 1]
<1>6. recs[k] + 1 <= LogBuf
  <2>1. n \in Nat /\ n <= LogBuf - 1 /\ LogBuf \in Nat
    BY <1>1, Bounds
  <2> HIDE DEF n
  <2>2. n + 1 <= LogBuf
    BY <2>1
  <2> QED BY <2>2 DEF n
<1>7. \A j \in 2..(recs[k] + 2) : mem[f[k] + j] = <<k, j>>
  BY <1>2
<1>8. f[k] + 2 < f[b + 1]
  <2> DEFINE x == f[k]
  <2>1. x \in Nat /\ n \in Nat /\ y \in Nat /\ hi \in Nat /\ y = x + n + 3 /\ y <= hi
    <3>1. f[k + 1] \in Nat
      BY LaidBounds
    <3> QED BY <1>1, <3>1
  <2> HIDE DEF n, x, y, hi
  <2>2. x + 2 < hi
    BY <2>1
  <2> QED BY <2>2 DEF x, hi
<1> QED BY <1>1, <1>5, <1>6, <1>7, <1>8

\* The length that it loads there.
LEMMA LengthFound ==
  ASSUME NEW f, NEW a \in Nat, NEW b \in Nat, Laid(f, a, b), RingInv, 1 <= a, b <= Len(recs)
  PROVE  \A k \in a..b : Lengths(f[k]) = {recs[k] + 1}
<1> TAKE k \in a..b
<1>1. RecordAt(f[k]) = k
  BY RecordFound
<1> QED BY <1>1 DEF Lengths, Mark

\* What it finds at the end of a lap.
LEMMA MarkFound ==
  ASSUME NEW o, mem[o] = <<Mark, 0>>, mem[o + 1] = <<Mark, 1>>
  PROVE  Lengths(o) = {LogBuf + 1}
<1>1. RecordAt(o) = Mark
  BY DEF RecordAt
<1> QED BY <1>1 DEF Lengths, Mark

\* The records of the current lap lie in front of stat->p.
LEMMA Places ==
  ASSUME RingInv, Storing, NEW c, NEW f, Lap(c, f)
  PROVE  /\ Pushed \in Nat /\ Pushed <= Len(recs) /\ c \in Nat /\ c >= 1 /\ c <= Pushed + 1
         /\ \A k \in c..(Pushed + 1) : f[k] \in Nat /\ f[k] <= p
         /\ \A k \in c..Pushed : f[k] < p /\ f[k + 1] = f[k] + recs[k] + 3
<1>1. Len(recs) \in Nat /\ p \in Nat
  BY Bounds
<1>2. Pushed \in Nat /\ Pushed <= Len(recs)
  BY <1>1 DEF Storing, Pushed
<1>3. c \in 1..(Pushed + 1) /\ f[Pushed + 1] = p /\ Laid(f, c, Pushed)
  BY DEF Lap
<1> HIDE DEF Pushed
<1>4. c \in Nat /\ c >= 1 /\ c <= Pushed + 1
  BY <1>2, <1>3
<1>5. ASSUME NEW k \in c..Pushed
      PROVE  f[k] \in Nat /\ f[k] < p /\ f[k + 1] = f[k] + recs[k] + 3
  <2>1. /\ f[k] \in Nat /\ f[k + 1] \in Nat /\ f[Pushed + 1] \in Nat /\ recs[k] \in Nat
        /\ f[k + 1] = f[k] + recs[k] + 3 /\ f[k + 1] <= f[Pushed + 1]
    BY <1>2, <1>3, <1>4, LaidBounds
  <2> DEFINE x == f[k]
             y == f[k + 1]
             n == recs[k]
  <2>2. x \in Nat /\ y \in Nat /\ n \in Nat /\ y = x + n + 3 /\ y <= p
    BY <1>3, <2>1
  <2> HIDE DEF x, y, n
  <2>3. x < p
    BY <1>1, <2>2
  <2> QED BY <2>1, <2>3 DEF x
<1>6. ASSUME NEW k \in c..(Pushed + 1) PROVE f[k] \in Nat /\ f[k] <= p
  <2>1. CASE k = Pushed + 1
    BY <1>1, <1>3, <2>1
  <2>2. CASE k # Pushed + 1
    <3>1. k \in c..Pushed
      BY <1>2, <1>4, <2>2
    <3>2. f[k] \in Nat /\ f[k] < p
      BY <1>5, <3>1
    <3> DEFINE x == f[k]
    <3>3. x \in Nat /\ x < p
      BY <3>2
    <3> HIDE DEF x
    <3>4. x <= p
      BY <1>1, <3>3
    <3> QED BY <3>2, <3>4 DEF x
  <2> QED BY <2>1, <2>2
<1> QED BY <1>2, <1>4, <1>5, <1>6

\* Which stores leave the current lap as it is.
LEMMA LapKept ==
  ASSUME RingInv, Storing, NEW c, NEW f, Lap(c, f), p' = p, Pushed' = Pushed,
         \A r \in 1..Pushed : recs'[r] = recs[r],
         \A a \in 0..(p - 1) : mem'[a] = mem[a]
  PROVE  Lap(c, f)'
<1>1. /\ Pushed \in Nat /\ Pushed <= Len(recs) /\ c \in Nat /\ c >= 1
  BY Places
<1>2. c \in 1..(Pushed + 1) /\ f[c] = 0 /\ f[Pushed + 1] = p /\ Laid(f, c, Pushed)
  BY DEF Lap
<1>3. PICK b \in Nat : b = Pushed
  BY <1>1
<1>4. b <= Len(recs) /\ Laid(f, c, b) /\ \A r \in c..b : recs'[r] = recs[r]
  BY <1>1, <1>2, <1>3
<1>5. \A x \in f[c]..(f[b + 1] - 1) : mem'[x] = mem[x]
  BY <1>2, <1>3
<1> HIDE DEF Pushed
<1>6. Laid(f, c, b)'
  BY <1>1, <1>4, <1>5, LaidKept
<1>7. Laid(f, c, Pushed)'
  BY <1>3, <1>6
<1> QED BY <1>2, <1>7 DEF Lap

\* What the three stores into the ring leave alone: everything in front of
\* stat->p, and everything behind the message that is being pushed.
LEMMA StoresApart ==
  ASSUME Shared, StoreMark \/ StoreSize \/ StoreText
  PROVE  /\ \A a \in 0..(p - 1) : mem'[a] = mem[a]
         /\ \A a \in (p + size + 3)..(Cap - 1) : mem'[a] = mem[a]
         /\ mem' \in [0..(Cap - 1) -> (-1..Len(recs')) \X Nat]
<1>1. /\ Cap \in Nat /\ p \in Nat /\ size \in Nat /\ Len(recs) \in Nat /\ recs \in Seq(Sizes)
      /\ p + 2 <= Cap /\ RingInv
  BY Bounds DEF Shared, RingInv, Room
<1>2. mem \in [0..(Cap - 1) -> (-1..Len(recs)) \X Nat]
  BY DEF Shared
<1>3. ASSUME NEW r \in Nat, NEW lo \in Nat, NEW hi \in Nat, hi <= size + 2, r <= Len(recs'),
             Len(recs') \in Nat, Len(recs) <= Len(recs'), mem' = Store(p, r, lo, hi)
      PROVE  /\ \A a \in 0..(p - 1) : mem'[a] = mem[a]
             /\ \A a \in (p + size + 3)..(Cap - 1) : mem'[a] = mem[a]
             /\ mem' \in [0..(Cap - 1) -> (-1..Len(recs')) \X Nat]
  <2>1. (-1..Len(recs)) \X Nat \subseteq (-1..Len(recs')) \X Nat
    BY <1>1, <1>3
  <2>2. mem \in [0..(Cap - 1) -> (-1..Len(recs')) \X Nat] /\ DOMAIN mem = 0..(Cap - 1)
    BY <1>2, <2>1
  <2>3. mem' = [a \in 0..(Cap - 1) |-> IF a \in (p + lo)..(p + hi) THEN <<r, a - p>> ELSE mem[a]]
    BY <1>3, <2>2 DEF Store
  <2>4. \A a \in 0..(p - 1) : a \in 0..(Cap - 1) /\ a \notin (p + lo)..(p + hi)
    BY <1>1
  <2>5. \A a \in (p + size + 3)..(Cap - 1) : a \in 0..(Cap - 1) /\ a \notin (p + lo)..(p + hi)
    BY <1>1, <1>3
  <2>6. \A a \in 0..(Cap - 1) : a \in (p + lo)..(p + hi) => a - p \in Nat
    BY <1>1
  <2>7. r \in -1..Len(recs')
    BY <1>3
  <2>8. mem' \in [0..(Cap - 1) -> (-1..Len(recs')) \X Nat]
    BY <2>2, <2>3, <2>6, <2>7
  <2>9. \A a \in 0..(p - 1) : mem'[a] = mem[a]
    BY <2>3, <2>4
  <2>10. \A a \in (p + size + 3)..(Cap - 1) : mem'[a] = mem[a]
    BY <2>3, <2>5
  <2> QED BY <2>8, <2>9, <2>10
<1>4. CASE StoreMark
  <2>1. mem' = Store(p, Mark, 0, 1) /\ recs' = recs /\ Mark \in Nat /\ Mark <= Len(recs) /\ 1 <= size + 2
    BY <1>1, <1>4 DEF StoreMark, Mark
  <2> QED BY <1>1, <1>3, <2>1
<1>5. CASE StoreSize
  <2>1. mem' = Store(p, Len(recs'), 0, 1) /\ recs' = Append(recs, size) /\ size \in Sizes
    BY <1>5 DEF StoreSize, Shared, RingInv, Room
  <2>2. Len(recs') = Len(recs) + 1 /\ 1 <= size + 2
    BY <1>1, <2>1
  <2>3. Len(recs') \in Nat /\ Len(recs) <= Len(recs') /\ Len(recs') <= Len(recs')
    BY <1>1, <2>2
  <2> QED BY <1>3, <2>1, <2>2, <2>3
<1>6. CASE StoreText
  <2>1. mem' = Store(p, Len(recs), 2, size + 2) /\ recs' = recs /\ size + 2 \in Nat
    BY <1>1, <1>6 DEF StoreText
  <2>2. Len(recs') \in Nat /\ Len(recs) <= Len(recs') /\ 2 \in Nat /\ size + 2 <= size + 2
    BY <1>1, <2>1
  <2> QED BY <1>1, <1>3, <2>1, <2>2
<1> QED BY <1>4, <1>5, <1>6

\* The bytes of a record are those the writer stored.
LEMMA StoringNext == Shared /\ [Next]_vars => Storing'
<1> SUFFICES ASSUME Shared, [Next]_vars PROVE Storing'
  OBVIOUS
<1>1. /\ Cap \in Nat /\ p \in Nat /\ size \in Nat /\ Len(recs) \in Nat /\ recs \in Seq(Sizes)
      /\ p + 2 <= Cap /\ RingInv
  BY Bounds DEF Shared, RingInv, Room
<1>2. mem \in [0..(Cap - 1) -> (-1..Len(recs)) \X Nat]
  BY DEF Shared
<1>3. DOMAIN mem = 0..(Cap - 1)
  BY <1>2
<1>4. /\ p \in 0..(Cap - 1) /\ p \in (p + 0)..(p + 1) /\ p - p = 0
       /\ p + 1 \in 0..(Cap - 1) /\ p + 1 \in (p + 0)..(p + 1) /\ (p + 1) - p = 1
  BY <1>1
<1>5. CASE StoreMark
  <2>1. mem' = Store(p, Mark, 0, 1) /\ p' = p /\ wpc' = "rewind" /\ Mark \in Nat
    BY <1>1, <1>5 DEF StoreMark, Mark
  <2>2. mem' = [a \in 0..(Cap - 1) |-> IF a \in (p + 0)..(p + 1) THEN <<Mark, a - p>> ELSE mem[a]]
    BY <1>3, <2>1 DEF Store
  <2>3. mem'[p] = <<Mark, 0>> /\ mem'[p + 1] = <<Mark, 1>>
    BY <1>4, <2>2
  <2> QED BY <1>1, <2>1, <2>3 DEF Storing
<1>6. CASE StoreSize
  <2>1. /\ mem' = Store(p, Len(recs'), 0, 1) /\ p' = p /\ wpc' = "text" /\ size' = size
        /\ recs' = Append(recs, size) /\ size \in Sizes
    BY <1>6 DEF StoreSize, Shared, RingInv, Room
  <2>2. Len(recs') = Len(recs) + 1 /\ recs'[Len(recs')] = size
    BY <1>1, <2>1
  <2>3. Len(recs') \in Nat
    BY <1>1, <2>2
  <2>4. mem' = [a \in 0..(Cap - 1) |-> IF a \in (p + 0)..(p + 1) THEN <<Len(recs'), a - p>> ELSE mem[a]]
    BY <1>3, <2>1 DEF Store
  <2>5. mem'[p] = <<Len(recs'), 0>> /\ mem'[p + 1] = <<Len(recs'), 1>>
    BY <1>4, <2>4
  <2>6. Len(recs') > 0
    BY <1>1, <2>2
  <2> QED BY <1>1, <2>1, <2>2, <2>5, <2>6 DEF Storing
<1>7. CASE StoreText
  <2>1. /\ mem' = Store(p, Len(recs), 2, size + 2) /\ p' = p /\ wpc' = "publish" /\ size' = size
        /\ recs' = recs /\ size + 2 \in Nat /\ wpc = "text"
    BY <1>1, <1>7 DEF StoreText
  <2>2. p + size + 4 < Cap
    BY <1>1, <2>1 DEF RingInv, Room
  <2> DEFINE new == [a \in 0..(Cap - 1) |->
                       IF a \in (p + 2)..(p + (size + 2)) THEN <<Len(recs), a - p>> ELSE mem[a]]
  <2>3. mem' = new
    BY <1>3, <2>1 DEF Store
  <2>4. \A a \in 0..(Cap - 1) : a \notin (p + 2)..(p + (size + 2)) => new[a] = mem[a]
    OBVIOUS
  <2>5. ASSUME NEW j \in 2..(size + 2) PROVE new[p + j] = <<Len(recs), j>>
    <3>1. p + j \in 0..(Cap - 1) /\ p + j \in (p + 2)..(p + (size + 2)) /\ (p + j) - p = j
      BY <1>1, <2>2
    <3> QED BY <3>1
  <2> HIDE DEF new
  <2>6. /\ p \in 0..(Cap - 1) /\ p \notin (p + 2)..(p + (size + 2))
        /\ p + 1 \in 0..(Cap - 1) /\ p + 1 \notin (p + 2)..(p + (size + 2))
    BY <1>1
  <2>7. mem'[p] = mem[p] /\ mem'[p + 1] = mem[p + 1]
    BY <2>3, <2>4, <2>6
  <2>8. /\ Len(recs) > 0 /\ recs[Len(recs)] = size
        /\ mem[p] = <<Len(recs), 0>> /\ mem[p + 1] = <<Len(recs), 1>>
    BY <2>1 DEF Shared, Storing
  <2> QED BY <2>3, <2>1, <2>7, <2>8, <2>5 DEF Storing
<1>8. ASSUME NEW n \in Sizes, Push(n) PROVE Storing'
  BY <1>8 DEF Push, Storing
<1>9. CASE Rewind \/ NextLife \/ Publish
  BY <1>9 DEF Rewind, NextLife, Publish, Storing
<1>10. CASE Reader
  <2>1. wpc' = wpc /\ mem' = mem /\ recs' = recs /\ p' = p /\ size' = size
    BY <1>1, <1>10, ReaderReads DEF RingInv
  <2> QED BY <2>1 DEF Shared, Storing
<1>11. CASE UNCHANGED vars
  BY <1>11 DEF Shared, Storing, vars
<1> QED BY <1>5, <1>6, <1>7, <1>8, <1>9, <1>10, <1>11 DEF Next, Writer

\* What show_log keeps in its variables.
LEMMA LoadType == Shared /\ rd.p + 2 <= Cap => Lengths(rd.p) \subseteq Nat
<1> SUFFICES ASSUME Shared, rd.p + 2 <= Cap PROVE Lengths(rd.p) \subseteq Nat
  OBVIOUS
<1>1. /\ Cap \in Nat /\ LogBuf \in Nat /\ Len(recs) \in Nat /\ RingInv
      /\ \A r \in 1..Len(recs) : recs[r] \in Nat
  BY Bounds DEF Shared
<1>2. rd.p \in Nat /\ mem \in [0..(Cap - 1) -> (-1..Len(recs)) \X Nat]
  BY DEF Shared, Followers
<1>3. rd.p \in 0..(Cap - 1)
  BY <1>1, <1>2
<1>4. mem[rd.p] \in (-1..Len(recs)) \X Nat
  BY <1>2, <1>3
<1>5. mem[rd.p][1] \in -1..Len(recs)
  BY <1>4
<1>6. RecordAt(rd.p) = mem[rd.p][1] \/ RecordAt(rd.p) = -2
  BY DEF RecordAt
<1> DEFINE r == RecordAt(rd.p)
<1>7. r \in -2..Len(recs)
  BY <1>1, <1>5, <1>6
<1>8. /\ Lengths(rd.p) = CASE r = Mark -> {LogBuf + 1}
                           [] r > 0    -> {recs[r] + 1}
                           [] r = -1   -> {0}
                           [] OTHER    -> 0..(LogBuf + 1)
  BY DEF Lengths
<1> HIDE DEF r
<1>9. r > 0 => recs[r] \in Nat
  BY <1>1, <1>7
<1> DEFINE n == recs[r]
<1>10. r > 0 => n \in Nat
  BY <1>9
<1>11. CASE r = Mark
  BY <1>1, <1>8, <1>11 DEF Mark
<1>12. CASE r # Mark /\ r > 0
  <2>1. Lengths(rd.p) = {n + 1}
    BY <1>7, <1>8, <1>12
  <2> HIDE DEF n
  <2> QED BY <1>10, <1>12, <2>1
<1>13. CASE r # Mark /\ ~(r > 0)
  BY <1>1, <1>7, <1>8, <1>13
<1> QED BY <1>11, <1>12, <1>13

\* The types of the ring and of show_log, and what the writer has stored,
\* are kept by every step.
LEMMA SharedNext == Shared /\ [Next]_vars => Shared'
<1> SUFFICES ASSUME Shared, [Next]_vars PROVE Shared'
  OBVIOUS
<1>1. RingInv /\ rd \in Followers /\ mem \in [0..(Cap - 1) -> (-1..Len(recs)) \X Nat]
  BY DEF Shared
<1>2. RingInv' /\ Storing'
  BY <1>1, RingInductive, StoringNext
<1>3. mem' \in [0..(Cap - 1) -> (-1..Len(recs')) \X Nat]
  <2>1. CASE StoreMark \/ StoreSize \/ StoreText
    BY <2>1, StoresApart
  <2>2. ASSUME NEW n \in Sizes, Push(n) PROVE mem' = mem /\ recs' = recs
    BY <2>2 DEF Push
  <2>3. CASE Rewind \/ NextLife \/ Publish
    BY <1>1, <2>3 DEF Rewind, NextLife, Publish
  <2>4. CASE Reader
    <3>1. mem' = mem /\ recs' = recs
      BY <1>1, <2>4, ReaderReads DEF RingInv
    <3> QED BY <1>1, <3>1
  <2>5. CASE UNCHANGED vars
    BY <1>1, <2>5 DEF vars
  <2> QED BY <1>1, <2>1, <2>2, <2>3, <2>4, <2>5 DEF Next, Writer
<1>4. rd' \in Followers
  <2>1. CASE Writer \/ UNCHANGED vars
    <3>1. rd' = rd
      BY <2>1 DEF Writer, Push, StoreMark, Rewind, NextLife, StoreSize, StoreText, Publish, vars
    <3> QED BY <1>1, <3>1
  <2>2. CASE CmpLife \/ CmpPos \/ CmpLap \/ CmpOvertaken
    BY <1>1, <2>2 DEF Followers, CmpLife, CmpPos, CmpLap, CmpOvertaken, Goto
  <2>3. CASE LoadLen
    <3>1. CASE rd.p + 2 > Cap
      BY <1>1, <2>3, <3>1 DEF Followers, LoadLen, Goto
    <3>2. CASE ~(rd.p + 2 > Cap)
      <4>1. rd.p \in Nat /\ Cap \in Nat
        BY <1>1, Bounds DEF Followers
      <4>2. rd.p + 2 <= Cap
        BY <3>2, <4>1
      <4>3. PICK l \in Lengths(rd.p) :
              rd' = [rd EXCEPT !.l = l, !.pc = IF l > LogBuf THEN "restart" ELSE "lap"]
        BY <2>3, <3>2 DEF LoadLen
      <4>4. l \in Nat
        BY <4>2, <4>3, LoadType
      <4> QED BY <1>1, <4>3, <4>4 DEF Followers
    <3> QED BY <3>1, <3>2
  <2>4. CASE Restart
    <3>1. life \in 0..(Lives - 1)
      BY <1>1, Bounds
    <3>2. (wpc = "life") \in BOOLEAN
      OBVIOUS
    <3> QED BY <2>4, <3>1, <3>2 DEF Followers, Restart
  <2>5. CASE Show
    <3>1. rd.p \in Nat /\ rd.l \in Nat /\ rd' = [rd EXCEPT !.pc = "life", !.p = rd.p + 2 + rd.l]
      BY <1>1, <2>5 DEF Followers, Show
    <3>2. rd.p + 2 + rd.l \in Nat
      BY <3>1
    <3> QED BY <1>1, <3>1, <3>2 DEF Followers
  <2> QED BY <2>1, <2>2, <2>3, <2>4, <2>5 DEF Next, Reader
<1> QED BY <1>2, <1>3, <1>4 DEF Shared

-----------------------------------------------------------------------------
(* The steps of the writer.                                                *)

\* A step that publishes nothing and leaves the follower alone.
Steady ==
  /\ rd' = rd /\ last' = last /\ Pushed' = Pushed
  /\ \A r \in 1..Pushed : recs'[r] = recs[r]

\* What such a step must not do to a follower in the current lap.
LEMMA OnLapKept ==
  ASSUME NEW c \in Nat, NEW f, NEW k \in Nat, 1 <= c, Pushed \in Nat,
         OnLap(c, f, k), Steady, life' = life, wpc' # "life",
         wpc' \in {"mark", "rewind"} => rd.p >= size' + 3
  PROVE  OnLap(c, f, k)'
<1> HIDE DEF Pushed
<1>1. /\ rd' = rd /\ last' = last /\ Pushed' = Pushed
      /\ \A r \in 1..Pushed : recs'[r] = recs[r]
  BY DEF Steady
<1>2. k \in c..(Pushed + 1) /\ rd.p = f[k] /\ rd.i = life /\ Reading(k, Pushed)
  BY DEF OnLap
<1>3. k <= Pushed => recs'[k] = recs[k]
  BY <1>1, <1>2
<1>4. Reading(k, Pushed)'
  BY <1>1, <1>2, <1>3 DEF Reading
<1> QED BY <1>1, <1>2, <1>4 DEF OnLap

\* The ring stays as it is from where the follower stands.
Untouched == \A a \in (rd.p)..(Cap - 1) : mem'[a] = mem[a]

\* The records of the lap before lie in front of its mark.
LEMMA PlacesBefore ==
  ASSUME NEW c \in Nat, NEW e, NEW k \in 1..c, RingInv, c - 1 <= Len(recs),
         Laid(e, k, c - 1)
  PROVE  e[k] \in Nat /\ e[c] \in Nat /\ e[k] <= e[c]
<1>1. k \in Nat /\ 1 <= k /\ k <= c
  OBVIOUS
<1>2. CASE k = c
  <2>1. e[c] \in Nat
    BY DEF Laid
  <2> QED BY <1>2, <2>1
<1>3. CASE k # c
  <2>1. PICK b \in Nat : b = c - 1
    BY <1>1, <1>3
  <2>2. b + 1 = c /\ k \in k..b /\ Laid(e, k, b) /\ b <= Len(recs)
    BY <1>1, <1>3, <2>1
  <2>3. e[k] \in Nat /\ e[b + 1] \in Nat /\ e[k] <= e[b + 1]
    BY <1>1, <2>2, LaidSpan
  <2> QED BY <2>2, <2>3
<1> QED BY <1>2, <1>3

\* And to one in the lap before.
LEMMA BehindKept ==
  ASSUME NEW c, NEW e, NEW k, c \in 1..(Pushed + 1), Shared, Pushed <= Len(recs),
         Pushed \in Nat, Behind(c, e, k), Steady, wpc' \notin {"mark", "rewind"},
         LapBefore', Ahead', Untouched
  PROVE  Behind(c, e, k)'
<1> HIDE DEF Pushed
<1>1. /\ rd' = rd /\ last' = last /\ Pushed' = Pushed
      /\ \A r \in 1..Pushed : recs'[r] = recs[r]
  BY DEF Steady
<1>2. /\ k \in 1..c /\ rd.p = e[k] /\ Laid(e, k, c - 1) /\ Reading(k, c - 1)
      /\ e[c] + 2 <= Cap /\ mem[e[c]] = <<Mark, 0>> /\ mem[e[c] + 1] = <<Mark, 1>>
      /\ rd.pc = "restart" => k = c
  BY DEF Behind
<1>3. /\ RingInv /\ c \in Nat /\ k \in Nat /\ c - 1 \in Nat /\ 1 <= k /\ c - 1 <= Len(recs)
      /\ c - 1 <= Pushed /\ Cap \in Nat /\ Len(recs) \in Nat
  BY <1>2, Bounds DEF Shared
<1>4. e[k] \in Nat /\ e[c] \in Nat /\ e[k] <= e[c]
  BY <1>2, <1>3, PlacesBefore
<1>5. mem'[e[c]] = <<Mark, 0>> /\ mem'[e[c] + 1] = <<Mark, 1>>
  <2> DEFINE x == e[k]
             z == e[c]
  <2>1. /\ x \in Nat /\ z \in Nat /\ x <= z /\ z + 2 <= Cap
        /\ \A a \in x..(Cap - 1) : mem'[a] = mem[a]
        /\ mem[z] = <<Mark, 0>> /\ mem[z + 1] = <<Mark, 1>>
    BY <1>2, <1>4 DEF Untouched
  <2> HIDE DEF x, z
  <2>2. z \in x..(Cap - 1) /\ z + 1 \in x..(Cap - 1)
    BY <1>3, <2>1
  <2>3. mem'[z] = <<Mark, 0>> /\ mem'[z + 1] = <<Mark, 1>>
    BY <2>1, <2>2
  <2> QED BY <2>3 DEF z
<1>6. Laid(e, k, c - 1)'
  <2>1. PICK b \in Nat : b = c - 1
    BY <1>3
  <2>2. /\ Laid(e, k, b) /\ b <= Len(recs) /\ \A r \in k..b : recs'[r] = recs[r]
    BY <1>1, <1>2, <1>3, <2>1
  <2>3. b + 1 = c
    BY <1>3, <2>1
  <2>4. \A x \in e[k]..(e[b + 1] - 1) : mem'[x] = mem[x]
    <3> DEFINE lo == e[k]
               hi == e[c]
    <3>1. lo \in Nat /\ hi \in Nat /\ hi + 2 <= Cap /\ \A a \in lo..(Cap - 1) : mem'[a] = mem[a]
      BY <1>2, <1>4 DEF Untouched
    <3> HIDE DEF lo, hi
    <3>2. \A x \in lo..(hi - 1) : x \in lo..(Cap - 1)
      BY <1>3, <3>1
    <3>3. \A x \in lo..(hi - 1) : mem'[x] = mem[x]
      BY <3>1, <3>2
    <3> QED BY <2>3, <3>3 DEF lo, hi
  <2>5. Laid(e, k, b)'
    BY <1>3, <2>2, <2>4, LaidKept
  <2> QED BY <2>1, <2>5
<1>7. Reading(k, c - 1)'
  <2>1. k <= c - 1 => recs'[k] = recs[k]
    BY <1>1, <1>2, <1>3
  <2> QED BY <1>1, <1>2, <2>1 DEF Reading
<1> QED BY <1>1, <1>2, <1>5, <1>6, <1>7 DEF Behind

\* The lap number changes with every rewind.
LEMMA LapNumbers ==
  ASSUME Shared
  PROVE  (rd.i + 1) % Lives # rd.i /\ rd.i \in Nat /\ rd.p \in Nat /\ life \in Nat
<1>1. Lives \in Nat /\ Lives > 1 /\ life \in 0..(Lives - 1)
  BY Bounds DEF Shared
<1>2. rd.i \in 0..(Lives - 1) /\ rd.p \in Nat
  BY DEF Shared, Followers
<1>3. \A i \in 0..(Lives - 1) : (i + 1) % Lives # i
  <2>1. ASSUME NEW i \in 0..(Lives - 1) PROVE (i + 1) % Lives # i
    <3>1. CASE i + 1 < Lives
      BY <1>1, <3>1
    <3>2. CASE i + 1 = Lives
      BY <1>1, <3>2
    <3> QED BY <1>1, <3>1, <3>2
  <2> QED BY <2>1
<1> QED BY <1>1, <1>2, <1>3

\* Where a follower stands.
LEMMA Standing ==
  ASSUME Shared, NEW c, NEW f, Lap(c, f)
  PROVE  /\ \A k \in Nat : OnLap(c, f, k) => rd.p <= p
         /\ \A e \in Offsets, k \in Nat : Behind(c, e, k) => rd.p + 2 <= Cap
<1>1. RingInv /\ Storing /\ p \in Nat /\ Cap \in Nat /\ rd.p \in Nat
  BY Bounds DEF Shared, Followers
<1>2. /\ Pushed \in Nat /\ Pushed <= Len(recs) /\ c \in Nat /\ c >= 1 /\ c <= Pushed + 1
      /\ \A k \in c..(Pushed + 1) : f[k] \in Nat /\ f[k] <= p
  BY <1>1, Places
<1> HIDE DEF Pushed
<1>3. ASSUME NEW k \in Nat, OnLap(c, f, k) PROVE rd.p <= p
  BY <1>2, <1>3 DEF OnLap
<1>4. ASSUME NEW e \in Offsets, NEW k \in Nat, Behind(c, e, k) PROVE rd.p + 2 <= Cap
  <2>1. k \in 1..c /\ rd.p = e[k] /\ Laid(e, k, c - 1) /\ e[c] + 2 <= Cap
    BY <1>4 DEF Behind
  <2>2. Len(recs) \in Nat /\ c - 1 <= Len(recs)
    BY <1>1, <1>2, Bounds
  <2>3. e[k] \in Nat /\ e[c] \in Nat /\ e[k] <= e[c]
    BY <1>1, <1>2, <2>1, <2>2, PlacesBefore
  <2> DEFINE z == e[c]
  <2>4. rd.p <= z /\ z \in Nat /\ z + 2 <= Cap
    BY <2>1, <2>3
  <2> HIDE DEF z
  <2> QED BY <1>1, <2>4
<1> QED BY <1>3, <1>4

\* status_logpush decides where the message goes: in front of a follower of
\* the lap before, and only after a rewind in front of the current one.
LEMMA PushKeeps ==
  ASSUME Shared, NEW c, NEW f, Lap(c, f), Followed(c, f), NEW n \in Sizes, Push(n)
  PROVE  Lap(c, f)' /\ Followed(c, f)'
<1>1. /\ Cap \in Nat /\ LogBuf \in Nat /\ MaxLag \in Nat /\ p \in Nat /\ n \in Nat
      /\ n <= LogBuf - 1 /\ MaxLag + 2 * LogBuf + 5 <= Cap /\ rd.p \in Nat /\ Len(recs) \in Nat
      /\ RingInv /\ Storing
  BY Bounds DEF Shared, Followers
<1>2. /\ wpc = "idle" /\ Lag <= MaxLag /\ size' = n /\ wpc' = (IF Wraps(n) THEN "mark" ELSE "size")
      /\ mem' = mem /\ p' = p /\ life' = life /\ recs' = recs /\ rd' = rd /\ last' = last
  BY DEF Push
<1>3. wpc' \in {"mark", "size"} /\ (wpc' = "mark" => n + p + 4 >= Cap)
  BY <1>2 DEF Wraps
<1>4. Pushed = Len(recs) /\ Pushed' = Pushed
  BY <1>2, <1>3 DEF Pushed
<1>5. Steady
  BY <1>2, <1>4 DEF Steady
<1>6. Lap(c, f)'
  BY <1>1, <1>2, <1>4, LapKept
<1>7. /\ c \in Nat /\ c >= 1 /\ c <= Pushed + 1
  BY <1>1, Places
<1>8. ASSUME NEW k \in Nat, OnLap(c, f, k) PROVE OnLap(c, f, k)'
  <2>1. rd.i = life
    BY <1>8 DEF OnLap
  <2>2. p - rd.p <= MaxLag /\ rd.p <= p
    BY <1>2, <1>8, <2>1, Standing DEF Lag
  <2>3. wpc' \in {"mark", "rewind"} => rd.p >= size' + 3
    BY <1>1, <1>2, <1>3, <2>2
  <2> QED BY <1>1, <1>2, <1>3, <1>4, <1>5, <1>7, <1>8, <2>3, OnLapKept
<1>9. ASSUME NEW e \in Offsets, NEW k \in Nat, Behind(c, e, k), ~rd.slip PROVE Behind(c, e, k)'
  <2>1. life = (rd.i + 1) % Lives /\ rd.p >= p
    BY <1>2, <1>9 DEF Behind, LapBefore, Ahead
  <2>2. p + Cap - rd.p <= MaxLag
    BY <1>2, <1>9, <2>1, LapNumbers DEF Lag
  <2>3. rd.p + 2 <= Cap
    BY <1>9, Standing
  <2>4. ~(n + p + 4 >= Cap) /\ rd.p >= p + n + 3
    BY <1>1, <2>2, <2>3
  <2>5. wpc' = "size"
    BY <1>3, <2>4
  <2>6. LapBefore' /\ Ahead' /\ Untouched
    BY <1>2, <2>1, <2>4, <2>5 DEF LapBefore, Ahead, Untouched
  <2> QED BY <1>1, <1>4, <1>5, <1>7, <1>9, <2>5, <2>6, BehindKept
<1>10. ASSUME rd.slip, Slipped(c) PROVE Slipped(c)'
  <2>1. life = (rd.i + 1) % Lives /\ rd.i # life /\ c - 1 <= last
    BY <1>2, <1>10, LapNumbers DEF Slipped, LapBefore
  <2>2. p <= MaxLag
    BY <1>2, <1>10, <2>1 DEF Lag
  <2>3. ~(n + p + 4 >= Cap)
    BY <1>1, <2>2
  <2>4. wpc' = "size"
    BY <1>3, <2>3
  <2> QED BY <1>2, <2>1, <2>4 DEF Slipped, LapBefore
<1>11. Followed(c, f)'
  BY <1>2, <1>8, <1>9, <1>10 DEF Followed
<1> QED BY <1>6, <1>11

\* The stores into the ring and the one to stat->life hit no byte that the
\* follower has yet to read.
LEMMA StoreKeeps ==
  ASSUME Shared, NEW c, NEW f, Lap(c, f), Followed(c, f),
         StoreMark \/ StoreSize \/ StoreText \/ NextLife
  PROVE  Lap(c, f)' /\ Followed(c, f)'
<1>1. /\ Cap \in Nat /\ p \in Nat /\ size \in Nat /\ rd.p \in Nat /\ Len(recs) \in Nat
      /\ recs \in Seq(Sizes) /\ RingInv /\ Storing /\ size \in Sizes
  BY Bounds DEF Shared, Followers, RingInv, Room, StoreMark, StoreSize, StoreText, NextLife
<1>2. p' = p /\ size' = size /\ rd' = rd /\ last' = last
  BY DEF StoreMark, StoreSize, StoreText, NextLife
<1>3. /\ \A a \in 0..(p - 1) : mem'[a] = mem[a]
      /\ \A a \in (p + size + 3)..(Cap - 1) : mem'[a] = mem[a]
  <2>1. CASE StoreMark \/ StoreSize \/ StoreText
    BY <2>1, StoresApart
  <2>2. CASE NextLife
    BY <2>2 DEF NextLife
  <2> QED BY <2>1, <2>2
<1>4. Pushed' = Pushed /\ \A r \in 1..Pushed : recs'[r] = recs[r]
  <2>1. CASE StoreSize
    <3>1. wpc = "size" /\ wpc' = "text" /\ recs' = Append(recs, size)
      BY <2>1 DEF StoreSize
    <3>2. Len(recs') = Len(recs) + 1 /\ \A r \in 1..Len(recs) : recs'[r] = recs[r]
      BY <1>1, <3>1
    <3>3. Pushed = Len(recs) /\ Pushed' = Len(recs') - 1
      BY <3>1 DEF Pushed
    <3> QED BY <1>1, <3>2, <3>3
  <2>2. CASE StoreMark \/ StoreText \/ NextLife
    BY <2>2 DEF StoreMark, StoreText, NextLife, Pushed
  <2> QED BY <2>1, <2>2
<1>5. Steady
  BY <1>2, <1>4 DEF Steady
<1>6. Lap(c, f)'
  BY <1>1, <1>2, <1>3, <1>4, LapKept
<1>7. /\ Pushed \in Nat /\ Pushed <= Len(recs) /\ c \in Nat /\ c >= 1 /\ c <= Pushed + 1
  BY <1>1, Places
<1>8. ASSUME NEW k \in Nat, OnLap(c, f, k) PROVE OnLap(c, f, k)'
  <2>1. wpc # "life" /\ (wpc \in {"mark", "rewind"} => rd.p >= size + 3)
    BY <1>8 DEF OnLap
  <2>2. life' = life /\ wpc' # "life" /\ (wpc' \in {"mark", "rewind"} => rd.p >= size' + 3)
    BY <1>2, <2>1 DEF StoreMark, StoreSize, StoreText, NextLife
  <2> QED BY <1>4, <1>5, <1>7, <1>8, <2>2, OnLapKept
<1>9. ASSUME NEW e \in Offsets, NEW k \in Nat, Behind(c, e, k) PROVE Behind(c, e, k)'
  <2>1. wpc \notin {"mark", "rewind"} /\ LapBefore /\ Ahead
    BY <1>9 DEF Behind
  <2>2. wpc \in {"size", "text", "life"} /\ wpc' \in {"size", "text", "publish"}
    BY <2>1 DEF StoreMark, StoreSize, StoreText, NextLife
  <2>3. rd.p >= p + size + 3
    BY <2>1, <2>2 DEF Ahead
  <2>4. Ahead'
    BY <1>2, <2>2, <2>3 DEF Ahead
  <2>5. LapBefore'
    BY <1>2, <2>1, <2>2 DEF LapBefore, StoreMark, StoreSize, StoreText, NextLife
  <2>6. Untouched
    BY <1>1, <1>3, <2>3 DEF Untouched
  <2>7. c \in 1..(Pushed + 1) /\ wpc' \notin {"mark", "rewind"}
    BY <1>7, <2>2
  <2> QED BY <1>5, <1>7, <1>9, <2>4, <2>5, <2>6, <2>7, BehindKept
<1>10. ASSUME Slipped(c) PROVE Slipped(c)'
  <2>1. wpc \notin {"mark", "rewind"} /\ LapBefore /\ c - 1 <= last
    BY <1>10 DEF Slipped
  <2>2. wpc \in {"size", "text", "life"} /\ wpc' \in {"size", "text", "publish"}
    BY <2>1 DEF StoreMark, StoreSize, StoreText, NextLife
  <2>3. LapBefore'
    BY <1>2, <2>1, <2>2 DEF LapBefore, StoreMark, StoreSize, StoreText, NextLife
  <2> QED BY <1>2, <2>1, <2>2, <2>3 DEF Slipped
<1>11. Followed(c, f)'
  BY <1>2, <1>8, <1>9, <1>10 DEF Followed
<1> QED BY <1>6, <1>11

\* A rewind starts a new lap; a follower of the current one, which is past
\* what the new lap starts with, is now in the lap before.
LEMMA RewindKeeps ==
  ASSUME Shared, NEW c, NEW f \in Offsets, Lap(c, f), Followed(c, f), Rewind
  PROVE  \E c2 \in Nat, g \in Offsets : Lap(c2, g)' /\ Followed(c2, g)'
<1>1. /\ Cap \in Nat /\ p \in Nat /\ size \in Nat /\ rd.p \in Nat /\ Len(recs) \in Nat
      /\ RingInv /\ Storing /\ p + 2 <= Cap
  BY Bounds DEF Shared, Followers, RingInv, Room
<1>2. /\ wpc = "rewind" /\ wpc' = "life" /\ p' = 0 /\ mem' = mem /\ life' = life
      /\ size' = size /\ recs' = recs /\ rd' = rd /\ last' = last
  BY DEF Rewind
<1>3. Pushed = Len(recs) /\ Pushed' = Pushed
  BY <1>2 DEF Pushed
<1>4. /\ c \in Nat /\ c >= 1 /\ c <= Pushed + 1
      /\ f[Pushed + 1] = p /\ f[c] = 0 /\ Laid(f, c, Pushed)
  BY <1>1, Places DEF Lap
<1> HIDE DEF Pushed
<1>5. PICK c2 \in Nat : c2 = Pushed + 1
  BY <1>1, <1>3
<1> DEFINE g == [f EXCEPT ![c2] = 0]
<1>6. g \in Offsets /\ g[c2] = 0
  BY <1>5 DEF Offsets
<1>7. Lap(c2, g)'
  <2>1. c2 \in 1..(Pushed + 1) /\ g[Pushed + 1] = 0
    BY <1>1, <1>3, <1>5, <1>6
  <2>2. \A r : r \notin c2..Pushed
    BY <1>1, <1>3, <1>5
  <2>3. g \in [Nat -> Nat]
    BY <1>6 DEF Offsets
  <2> HIDE DEF g
  <2>4. Laid(g, c2, Pushed)'
    BY <1>3, <2>2, <2>3 DEF Laid
  <2> QED BY <1>2, <1>3, <1>6, <2>1, <2>4 DEF Lap
<1>8. ASSUME NEW k \in Nat, OnLap(c, f, k) PROVE Behind(c2, f, k)'
  <2>1. /\ rd.i = life /\ k \in c..(Pushed + 1) /\ rd.p = f[k] /\ Reading(k, Pushed)
        /\ (rd.pc = "restart" => k = c) /\ rd.p >= size + 3
    BY <1>2, <1>8 DEF OnLap
  <2>2. k \in 1..c2 /\ c2 - 1 = Pushed /\ c <= k
    BY <1>1, <1>3, <1>4, <1>5, <2>1
  <2>3. Laid(f, k, Pushed)
    BY <1>4, <2>2, LaidRest
  <2>4. Laid(f, k, c2 - 1)'
    BY <1>2, <1>3, <2>2, <2>3 DEF Laid, Lies
  <2>5. f[c2] = p /\ mem[p] = <<Mark, 0>> /\ mem[p + 1] = <<Mark, 1>>
    BY <1>1, <1>2, <1>4, <1>5 DEF Storing
  <2>6. rd.pc # "restart"
    BY <1>1, <1>4, <2>1
  <2>7. Reading(k, c2 - 1)'
    BY <1>2, <2>1, <2>2 DEF Reading
  <2>8. LapBefore' /\ Ahead'
    BY <1>1, <1>2, <2>1 DEF LapBefore, Ahead
  <2> QED BY <1>1, <1>2, <2>1, <2>2, <2>4, <2>5, <2>6, <2>7, <2>8 DEF Behind
<1>9. ~Slipped(c) /\ ~ \E e \in Offsets, k \in Nat : Behind(c, e, k)
  BY <1>2 DEF Slipped, Behind
<1>10. Followed(c2, g)'
  BY <1>2, <1>8, <1>9 DEF Followed
<1> HIDE DEF g
<1> QED BY <1>6, <1>7, <1>10

\* Publishing moves stat->p behind the message and takes it into the lap.
LEMMA PublishKeeps ==
  ASSUME Shared, NEW c, NEW f \in Offsets, Lap(c, f), Followed(c, f), Publish
  PROVE  \E g \in Offsets : Lap(c, g)' /\ Followed(c, g)'
<1>1. /\ Cap \in Nat /\ p \in Nat /\ size \in Nat /\ rd.p \in Nat /\ Len(recs) \in Nat
      /\ RingInv /\ Storing
  BY Bounds DEF Shared, Followers
<1>2. /\ wpc = "publish" /\ wpc' = "idle" /\ p' = p + (size + 1) + 2 /\ mem' = mem
      /\ life' = life /\ size' = size /\ recs' = recs /\ rd' = rd /\ last' = last
  BY DEF Publish
<1>3. /\ Len(recs) > 0 /\ recs[Len(recs)] = size /\ mem[p] = <<Len(recs), 0>>
      /\ mem[p + 1] = <<Len(recs), 1>>
      /\ \A j \in 2..(size + 2) : mem[p + j] = <<Len(recs), j>>
  BY <1>1, <1>2 DEF Storing
<1>4. Pushed = Len(recs) - 1 /\ Pushed' = Len(recs)
  BY <1>2 DEF Pushed
<1>5. /\ c \in Nat /\ c >= 1 /\ c <= Pushed + 1 /\ Pushed \in Nat
      /\ f[Pushed + 1] = p /\ f[c] = 0 /\ Laid(f, c, Pushed)
  BY <1>1, Places DEF Lap
<1> HIDE DEF Pushed
<1>6. PICK b \in Nat : b = Pushed
  BY <1>5
<1>7. b + 1 = Len(recs) /\ b + 1 \in 1..Len(recs) /\ Pushed' = b + 1
  BY <1>1, <1>3, <1>4, <1>6
<1>8. recs[b + 1] = size /\ f[b + 1] = p
  BY <1>3, <1>5, <1>6, <1>7
<1>9. Lies(f[b + 1], b + 1)
  <2>1. ASSUME NEW j \in 0..(size + 2) PROVE mem[p + j] = <<Len(recs), j>>
    <3>1. CASE j = 0
      BY <1>1, <1>3, <3>1
    <3>2. CASE j = 1
      BY <1>1, <1>3, <3>2
    <3>3. CASE j # 0 /\ j # 1
      <4>1. j \in 2..(size + 2)
        BY <1>1, <3>3
      <4> QED BY <1>3, <4>1
    <3> QED BY <3>1, <3>2, <3>3
  <2> QED BY <1>7, <1>8, <2>1 DEF Lies
<1>10. p' = p + size + 3 /\ p + size + 3 \in Nat
  BY <1>1, <1>2
<1>11. PICK g \in Offsets : g = [f EXCEPT ![b + 2] = p']
  <2>1. f \in [Nat -> Nat] /\ b + 2 \in Nat /\ p' \in Nat
    BY <1>10 DEF Offsets
  <2>2. [f EXCEPT ![b + 2] = p'] \in Offsets
    BY <2>1 DEF Offsets
  <2> QED BY <2>2
<1>12. /\ g[b + 2] = p' /\ \A r \in Nat : r # b + 2 => g[r] = f[r]
  BY <1>11 DEF Offsets
<1>13. Laid(g, c, b + 1)
  <2>1. Laid(f, c, b) /\ 1 <= c /\ c <= b + 1
    BY <1>5, <1>6
  <2>2. Laid([f EXCEPT ![b + 2] = f[b + 1] + recs[b + 1] + 3], c, b + 1)
    BY <1>1, <1>5, <1>7, <1>9, <2>1, LaidMore
  <2>3. f[b + 1] + recs[b + 1] + 3 = p'
    BY <1>8, <1>10
  <2> QED BY <1>11, <2>2, <2>3
<1>14. Lap(c, g)'
  <2>1. c \in 1..(b + 1 + 1) /\ c # b + 2 /\ b + 1 + 1 = b + 2
    BY <1>5, <1>6
  <2>2. Laid(g, c, b + 1)'
    BY <1>2, <1>13 DEF Laid, Lies
  <2>3. g[c] = 0
    BY <1>5, <1>12, <2>1
  <2> QED BY <1>7, <1>12, <2>1, <2>2, <2>3 DEF Lap
<1>15. ASSUME NEW k \in Nat, OnLap(c, f, k) PROVE OnLap(c, g, k)'
  <2>1. /\ rd.i = life /\ k \in c..(Pushed + 1) /\ rd.p = f[k] /\ Reading(k, Pushed)
        /\ (rd.pc = "restart" => k = c) /\ rd.pc # "overtaken" /\ (rd.pc = "len" => k <= Pushed)
    BY <1>15 DEF OnLap
  <2>2. k \in c..(b + 1 + 1) /\ k # b + 2 /\ (k <= Pushed => k <= b + 1)
    BY <1>5, <1>6, <2>1
  <2>3. g[k] = f[k]
    BY <1>12, <2>2
  <2>4. Reading(k, Pushed)'
    BY <1>2, <1>7, <2>1, <2>2 DEF Reading
  <2> QED BY <1>2, <1>7, <2>1, <2>2, <2>3, <2>4 DEF OnLap
<1>16. ASSUME NEW e \in Offsets, NEW k \in Nat, Behind(c, e, k) PROVE Behind(c, e, k)'
  <2>1. /\ k \in 1..c /\ rd.p = e[k] /\ Laid(e, k, c - 1) /\ Reading(k, c - 1)
        /\ e[c] + 2 <= Cap /\ mem[e[c]] = <<Mark, 0>> /\ mem[e[c] + 1] = <<Mark, 1>>
        /\ (rd.pc = "restart" => k = c) /\ LapBefore /\ Ahead
    BY <1>16 DEF Behind
  <2>2. Laid(e, k, c - 1)' /\ Reading(k, c - 1)'
    BY <1>2, <2>1 DEF Laid, Lies, Reading
  <2>3. LapBefore' /\ Ahead'
    BY <1>2, <1>10, <2>1 DEF LapBefore, Ahead
  <2> QED BY <1>2, <2>1, <2>2, <2>3 DEF Behind
<1>17. ASSUME Slipped(c) PROVE Slipped(c)'
  BY <1>2, <1>17 DEF Slipped, LapBefore
<1>18. Followed(c, g)'
  BY <1>2, <1>12, <1>15, <1>16, <1>17 DEF Followed
<1> QED BY <1>14, <1>18

-----------------------------------------------------------------------------
(* The steps of the reader.                                                *)

\* The reader stands where record k lies; a run ends inside the ring.
StandsAt(f, k) == rd.p = f[k]
Inside(f, b) == f[b + 1] <= Cap

\* At a record of a run show_log loads the length of that record.
LEMMA LoadRecord ==
  ASSUME NEW f, NEW a \in Nat, NEW b \in Nat, NEW k \in a..b, Shared, Laid(f, a, b), 1 <= a,
         b <= Len(recs), Inside(f, b), StandsAt(f, k), LoadLen
  PROVE  rd' = [rd EXCEPT !.l = recs[k] + 1, !.pc = "lap"]
<1>1. RingInv /\ Cap \in Nat /\ LogBuf \in Nat /\ rd.p \in Nat
  BY Bounds DEF Shared, Followers
<1>2. RingInv
  BY DEF Shared
<1>3. /\ Lengths(f[k]) = {recs[k] + 1} /\ recs[k] + 1 <= LogBuf
      /\ recs[k] \in Nat /\ f[k] + 2 < f[b + 1]
  <2>1. Lengths(f[k]) = {recs[k] + 1}
    BY <1>2, LengthFound
  <2>2. recs[k] + 1 <= LogBuf
    <3>1. \A q \in a..b : recs[q] + 1 <= LogBuf
      BY <1>2, RecordFound
    <3> QED BY <3>1
  <2>3. recs[k] \in Nat
    BY <1>2, RecordFound
  <2>4. f[k] + 2 < f[b + 1]
    BY <1>2, RecordFound
  <2> QED BY <2>1, <2>2, <2>3, <2>4
<1>4. /\ Lengths(rd.p) = {recs[k] + 1} /\ recs[k] + 1 <= LogBuf
      /\ recs[k] \in Nat /\ rd.p + 2 < f[b + 1] /\ f[b + 1] <= Cap
  BY <1>3 DEF StandsAt, Inside
<1>5. f[b + 1] \in Nat
  BY DEF Laid
<1> DEFINE z == f[b + 1]
           n == recs[k] + 1
<1>6. z \in Nat /\ z <= Cap /\ rd.p + 2 < z /\ n \in Nat /\ n <= LogBuf /\ Lengths(rd.p) = {n}
  BY <1>4, <1>5
<1> HIDE DEF z, n
<1>7. ~(rd.p + 2 > Cap) /\ ~(n > LogBuf)
  BY <1>1, <1>6
<1>8. \E l \in Lengths(rd.p) :
        rd' = [rd EXCEPT !.l = l, !.pc = IF l > LogBuf THEN "restart" ELSE "lap"]
  BY <1>7 DEF LoadLen
<1>9. rd' = [rd EXCEPT !.l = n, !.pc = IF n > LogBuf THEN "restart" ELSE "lap"]
  BY <1>6, <1>8
<1>10. rd' = [rd EXCEPT !.l = n, !.pc = "lap"]
  BY <1>7, <1>9
<1> QED BY <1>10 DEF n

\* And with that length it prints the whole record and is at the next one.
LEMMA ShowRecord ==
  ASSUME NEW f, NEW a \in Nat, NEW b \in Nat, NEW k \in a..b, Shared, Laid(f, a, b), 1 <= a,
         b <= Len(recs), StandsAt(f, k), rd.l = recs[k] + 1
  PROVE  /\ RecordAt(rd.p) = k /\ Whole(k)
         /\ Show => /\ rd' = [rd EXCEPT !.pc = "life", !.p = f[k + 1]]
                    /\ k - 1 <= last => k <= last'
         /\ f[k + 1] \in Nat /\ rd.p <= f[k + 1]
<1>1. RingInv /\ Len(recs) \in Nat /\ rd.p \in Nat /\ last \in Nat
  BY Bounds DEF Shared, Followers
<1>2. /\ RecordAt(f[k]) = k /\ recs[k] \in Nat
      /\ \A j \in 2..(recs[k] + 2) : mem[f[k] + j] = <<k, j>>
  BY <1>1, RecordFound
<1>3. /\ RecordAt(rd.p) = k /\ recs[k] \in Nat
      /\ \A j \in 2..(recs[k] + 2) : mem[rd.p + j] = <<k, j>>
  BY <1>2 DEF StandsAt
<1>4. k \in 1..Len(recs) /\ k \in Nat
  BY <1>1
<1>5. f[k + 1] = f[k] + recs[k] + 3 /\ f[k] \in Nat /\ f[k + 1] \in Nat
  <2>1. f[k + 1] = f[k] + recs[k] + 3
    BY <1>1, LaidBounds
  <2>2. f[k] \in Nat
    BY <1>1, LaidBounds
  <2>3. f[k + 1] \in Nat
    BY <1>1, LaidBounds
  <2> QED BY <2>1, <2>2, <2>3
<1> DEFINE n == recs[k]
           y == f[k + 1]
<1>6. /\ n \in Nat /\ y \in Nat /\ rd.l = n + 1 /\ y = rd.p + n + 3
      /\ \A j \in 2..(n + 2) : mem[rd.p + j] = <<k, j>>
  BY <1>3, <1>5 DEF StandsAt
<1> HIDE DEF n, y
<1> DEFINE l == rd.l
<1>7. rd.l + 1 = n + 2 /\ rd.p + 2 + rd.l = y /\ rd.p <= y
  <2>1. l = n + 1 /\ n \in Nat /\ y = rd.p + n + 3 /\ rd.p \in Nat
    BY <1>1, <1>6
  <2> HIDE DEF l
  <2>2. l + 1 = n + 2 /\ rd.p + 2 + l = y /\ rd.p <= y
    BY <2>1
  <2> QED BY <2>2 DEF l
<1>8. Whole(k)
  <2>1. rd.l = recs[k] + 1
    OBVIOUS
  <2>2. \A j \in 2..(rd.l + 1) : mem[rd.p + j] = <<k, j>>
    BY <1>6, <1>7
  <2> QED BY <1>4, <2>1, <2>2 DEF Whole
<1>9. ASSUME Show
      PROVE  rd' = [rd EXCEPT !.pc = "life", !.p = y] /\ (k - 1 <= last => k <= last')
  <2>1. rd' = [rd EXCEPT !.pc = "life", !.p = rd.p + 2 + rd.l]
    BY <1>9 DEF Show
  <2>2. last' = IF Whole(k) /\ k = last + 1 THEN k ELSE last
    BY <1>3, <1>9 DEF Show
  <2>3. last' = IF k = last + 1 THEN k ELSE last
    BY <1>8, <2>2
  <2>4. k - 1 <= last => k <= last'
    BY <1>1, <1>4, <2>3
  <2> QED BY <1>7, <2>1, <2>4
<1> QED BY <1>3, <1>6, <1>7, <1>8, <1>9 DEF y

\* A follower in the current lap stays there.
LEMMA OnLapReads ==
  ASSUME Shared, NEW c, NEW f, Lap(c, f), NEW k \in Nat, OnLap(c, f, k), Reader
  PROVE  \E k2 \in Nat : OnLap(c, f, k2)'
<1>1. /\ RingInv /\ Storing /\ Cap \in Nat /\ p \in Nat /\ size \in Nat /\ p + 2 <= Cap
      /\ rd \in Followers /\ Len(recs) \in Nat /\ last \in Nat
  BY Bounds DEF Shared, RingInv, Room
<1>2. UNCHANGED <<mem, p, life, wpc, size, recs>> /\ Pushed' = Pushed
  BY <1>1, ReaderReads DEF RingInv, Pushed
<1>3. /\ c \in Nat /\ c >= 1 /\ c <= Pushed + 1 /\ Pushed \in Nat /\ Pushed <= Len(recs)
      /\ f[Pushed + 1] = p /\ f[c] = 0 /\ Laid(f, c, Pushed)
  BY <1>1, Places DEF Lap
<1> HIDE DEF Pushed
<1>4. PICK b \in Nat : b = Pushed
  BY <1>3
<1>5. Laid(f, c, b) /\ b <= Len(recs) /\ f[b + 1] <= Cap
  BY <1>1, <1>3, <1>4
<1>6. /\ wpc # "life" /\ rd.i = life /\ k \in c..(Pushed + 1) /\ rd.p = f[k]
      /\ Reading(k, Pushed) /\ (rd.pc = "len" => k <= Pushed) /\ rd.pc # "overtaken"
      /\ (rd.pc = "restart" => k = c)
      /\ (wpc \in {"mark", "rewind"} => rd.p >= size + 3)
  BY DEF OnLap
<1>7. /\ k - 1 <= last /\ rd.pc # "fault"
      /\ rd.pc \in {"lap", "overtaken", "print"} => k <= Pushed /\ rd.l = recs[k] + 1
  BY <1>6 DEF Reading
<1>8. CASE CmpLife \/ CmpPos \/ CmpLap \/ CmpOvertaken
  <2>1. last' = last /\ \E pc \in {"life", "pos", "len", "print"} : rd' = [rd EXCEPT !.pc = pc]
    BY <1>6, <1>8 DEF CmpLife, CmpPos, CmpLap, CmpOvertaken, Goto
  <2>2. rd'.i = rd.i /\ rd'.p = rd.p /\ rd'.l = rd.l /\ rd'.pc \in {"life", "pos", "len", "print"}
    BY <1>1, <2>1 DEF Followers
  <2>3. rd'.pc = "len" => k <= Pushed
    <3>1. CASE CmpPos
      <4>1. rd'.pc = "len" => rd.p # p
        BY <1>1, <3>1 DEF CmpPos, Goto, Followers
      <4> QED BY <1>3, <1>6, <4>1
    <3>2. CASE CmpLife \/ CmpLap \/ CmpOvertaken
      <4>1. rd'.pc # "len"
        BY <1>1, <1>6, <3>2 DEF CmpLife, CmpLap, CmpOvertaken, Goto, Followers
      <4> QED BY <4>1
    <3> QED BY <1>8, <3>1, <3>2
  <2>4. rd'.pc = "print" => rd.pc \in {"lap", "overtaken"}
    BY <1>1, <1>8 DEF CmpLife, CmpPos, CmpLap, CmpOvertaken, Goto, Followers
  <2>5. Reading(k, Pushed)'
    BY <1>2, <1>7, <2>1, <2>2, <2>4 DEF Reading
  <2>6. OnLap(c, f, k)'
    BY <1>2, <1>6, <2>2, <2>3, <2>5 DEF OnLap
  <2> QED BY <2>6
<1>9. CASE LoadLen
  <2>1. k \in c..b
    <3>1. k <= Pushed /\ k \in c..(Pushed + 1)
      BY <1>6, <1>9 DEF LoadLen
    <3> QED BY <1>3, <1>4, <3>1
  <2>2. StandsAt(f, k) /\ Inside(f, b)
    BY <1>5, <1>6 DEF StandsAt, Inside
  <2>3. last' = last
    BY <1>9 DEF LoadLen
  <2>4. rd' = [rd EXCEPT !.l = recs[k] + 1, !.pc = "lap"]
    <3>1. c \in Nat /\ b \in Nat /\ 1 <= c /\ Laid(f, c, b) /\ b <= Len(recs)
      BY <1>3, <1>5
    <3> QED BY <1>9, <2>2, <2>1, <3>1, LoadRecord
  <2>5. rd' = [rd EXCEPT !.l = recs[k] + 1, !.pc = "lap"] /\ last' = last
    BY <2>3, <2>4
  <2>6. rd'.i = rd.i /\ rd'.p = rd.p /\ rd'.l = recs[k] + 1 /\ rd'.pc = "lap"
    BY <1>1, <2>5 DEF Followers
  <2>7. Reading(k, Pushed)'
    BY <1>2, <1>4, <1>7, <2>1, <2>5, <2>6 DEF Reading
  <2>8. OnLap(c, f, k)'
    BY <1>2, <1>6, <2>6, <2>7 DEF OnLap
  <2> QED BY <2>8
<1>10. CASE Restart
  <2>1. /\ k = c /\ last' = last
        /\ rd' = [pc |-> "life", i |-> life, p |-> 0, l |-> 0, slip |-> wpc = "life"]
    BY <1>6, <1>10 DEF Restart
  <2>2. rd'.i = life /\ rd'.p = f[c] /\ rd'.pc = "life"
    BY <1>3, <2>1
  <2>3. wpc \notin {"mark", "rewind"}
    BY <1>1, <1>3, <1>6, <2>1
  <2>4. Reading(c, Pushed)'
    BY <1>7, <2>1, <2>2 DEF Reading
  <2>5. OnLap(c, f, c)'
    BY <1>2, <1>3, <1>6, <2>1, <2>2, <2>3, <2>4 DEF OnLap
  <2> QED BY <1>3, <2>5
<1>11. CASE Show
  <2>1. k \in c..b /\ rd.l = recs[k] + 1
    BY <1>3, <1>4, <1>6, <1>7, <1>11 DEF Show
  <2>2. /\ rd' = [rd EXCEPT !.pc = "life", !.p = f[k + 1]] /\ k <= last'
        /\ f[k + 1] \in Nat /\ rd.p <= f[k + 1]
    BY <1>3, <1>5, <1>6, <1>7, <1>11, <2>1, ShowRecord DEF StandsAt
  <2>3. rd'.i = rd.i /\ rd'.p = f[k + 1] /\ rd'.pc = "life"
    BY <1>1, <2>2 DEF Followers
  <2>4. k + 1 \in c..(Pushed + 1) /\ k + 1 \in Nat /\ (k + 1) - 1 = k
    BY <1>3, <1>4, <2>1
  <2>5. Reading(k + 1, Pushed)'
    BY <2>2, <2>3, <2>4 DEF Reading
  <2>6. wpc \in {"mark", "rewind"} => rd'.p >= size + 3
    <3> DEFINE y == f[k + 1]
    <3>1. y \in Nat /\ rd.p <= y /\ rd'.p = y /\ rd.p \in Nat
      BY <1>1, <2>2, <2>3 DEF Followers
    <3> HIDE DEF y
    <3> QED BY <1>1, <1>6, <3>1
  <2>7. OnLap(c, f, k + 1)'
    BY <1>2, <1>6, <2>3, <2>4, <2>5, <2>6 DEF OnLap
  <2> QED BY <2>4, <2>7
<1> QED BY <1>8, <1>9, <1>10, <1>11 DEF Reader

\* At the mark of a lap it goes back to the start of the ring.
LEMMA LoadMark ==
  ASSUME Shared, NEW e, NEW c, rd.p = e[c], e[c] + 2 <= Cap,
         mem[e[c]] = <<Mark, 0>>, mem[e[c] + 1] = <<Mark, 1>>, LoadLen
  PROVE  rd' = [rd EXCEPT !.l = LogBuf + 1, !.pc = "restart"]
<1>1. Cap \in Nat /\ LogBuf \in Nat /\ rd.p \in Nat
  BY Bounds DEF Shared, Followers
<1>2. rd.p + 2 <= Cap /\ mem[rd.p] = <<Mark, 0>> /\ mem[rd.p + 1] = <<Mark, 1>>
  OBVIOUS
<1>3. Lengths(rd.p) = {LogBuf + 1}
  BY <1>2, MarkFound
<1>4. ~(rd.p + 2 > Cap) /\ LogBuf + 1 > LogBuf
  BY <1>1, <1>2
<1>5. \E l \in Lengths(rd.p) :
        rd' = [rd EXCEPT !.l = l, !.pc = IF l > LogBuf THEN "restart" ELSE "lap"]
  BY <1>4 DEF LoadLen
<1> QED BY <1>3, <1>4, <1>5

\* A follower in the lap before stays there or, at its mark, starts with the
\* current one.
LEMMA BehindReads ==
  ASSUME Shared, NEW c, NEW f, Lap(c, f), NEW e, NEW k \in Nat, Behind(c, e, k), ~rd.slip,
         Reader
  PROVE  \/ rd'.slip
         \/ \E k2 \in Nat : OnLap(c, f, k2)'
         \/ \E k2 \in Nat : Behind(c, e, k2)'
<1>1. /\ RingInv /\ Storing /\ Cap \in Nat /\ p \in Nat /\ size \in Nat
      /\ rd \in Followers /\ Len(recs) \in Nat /\ last \in Nat
  BY Bounds DEF Shared
<1>2. UNCHANGED <<mem, p, life, wpc, size, recs>> /\ Pushed' = Pushed
  BY <1>1, ReaderReads DEF RingInv, Pushed
<1>3. /\ c \in Nat /\ c >= 1 /\ c <= Pushed + 1 /\ Pushed \in Nat /\ Pushed <= Len(recs)
      /\ f[c] = 0
  BY <1>1, Places DEF Lap
<1> HIDE DEF Pushed
<1>4. /\ wpc \notin {"mark", "rewind"} /\ LapBefore /\ Ahead
      /\ k \in 1..c /\ rd.p = e[k] /\ Laid(e, k, c - 1) /\ Reading(k, c - 1)
      /\ e[c] + 2 <= Cap /\ mem[e[c]] = <<Mark, 0>> /\ mem[e[c] + 1] = <<Mark, 1>>
      /\ (rd.pc = "restart" => k = c)
  BY DEF Behind
<1>5. /\ k - 1 <= last /\ rd.pc # "fault"
      /\ rd.pc \in {"lap", "overtaken", "print"} => k <= c - 1 /\ rd.l = recs[k] + 1
  BY <1>4 DEF Reading
<1>6. rd.p >= p
  BY <1>1, <1>4 DEF Ahead, Followers
<1>7. PICK b \in Nat : b = c - 1
  BY <1>3
<1>8. b + 1 = c /\ Laid(e, k, b) /\ b <= Len(recs) /\ 1 <= k
  BY <1>1, <1>3, <1>4, <1>7
<1>9. CASE CmpLife \/ CmpPos \/ CmpLap \/ CmpOvertaken
  <2>1. last' = last /\ \E pc \in {"life", "pos", "len", "overtaken", "print"} : rd' = [rd EXCEPT !.pc = pc]
    BY <1>1, <1>6, <1>9 DEF CmpLife, CmpPos, CmpLap, CmpOvertaken, Goto, Followers
  <2>2. /\ rd'.i = rd.i /\ rd'.p = rd.p /\ rd'.l = rd.l
        /\ rd'.pc \in {"life", "pos", "len", "overtaken", "print"}
    BY <1>1, <2>1 DEF Followers
  <2>3. rd'.pc \in {"overtaken", "print"} => rd.pc \in {"lap", "overtaken"}
    BY <1>1, <1>9 DEF CmpLife, CmpPos, CmpLap, CmpOvertaken, Goto, Followers
  <2>4. Reading(k, c - 1)'
    BY <1>2, <1>5, <2>1, <2>2, <2>3 DEF Reading
  <2>5. LapBefore' /\ Ahead'
    BY <1>2, <1>4, <2>2 DEF LapBefore, Ahead
  <2>6. Laid(e, k, c - 1)'
    BY <1>2, <1>4 DEF Laid, Lies
  <2>7. Behind(c, e, k)'
    BY <1>2, <1>4, <2>2, <2>4, <2>5, <2>6 DEF Behind
  <2> QED BY <2>7
<1>10. CASE LoadLen /\ k # c
  <2>1. k \in k..b
    BY <1>3, <1>4, <1>7, <1>10
  <2>2. Inside(e, b) /\ StandsAt(e, k)
    <3>1. e[c] \in Nat /\ e[c] + 2 <= Cap
      BY <1>3, <1>4 DEF Laid
    <3> DEFINE z == e[c]
    <3>2. z \in Nat /\ z + 2 <= Cap
      BY <3>1
    <3> HIDE DEF z
    <3>3. z <= Cap
      BY <1>1, <3>2
    <3> QED BY <1>4, <1>8, <3>3 DEF z, Inside, StandsAt
  <2>3. last' = last
    BY <1>10 DEF LoadLen
  <2>4. rd' = [rd EXCEPT !.l = recs[k] + 1, !.pc = "lap"]
    <3>1. k \in Nat /\ b \in Nat /\ 1 <= k /\ Laid(e, k, b) /\ b <= Len(recs)
      BY <1>8
    <3> QED BY <1>10, <2>1, <2>2, <3>1, LoadRecord
  <2>5. rd'.i = rd.i /\ rd'.p = rd.p /\ rd'.l = recs[k] + 1 /\ rd'.pc = "lap"
    BY <1>1, <2>4 DEF Followers
  <2>6. Reading(k, c - 1)'
    BY <1>2, <1>5, <1>7, <2>1, <2>3, <2>5 DEF Reading
  <2>7. LapBefore' /\ Ahead' /\ Laid(e, k, c - 1)'
    BY <1>2, <1>4, <2>5 DEF LapBefore, Ahead, Laid, Lies
  <2>8. Behind(c, e, k)'
    BY <1>2, <1>4, <2>5, <2>6, <2>7 DEF Behind
  <2> QED BY <2>8
<1>11. CASE LoadLen /\ k = c
  <2>1. rd' = [rd EXCEPT !.l = LogBuf + 1, !.pc = "restart"] /\ last' = last
    BY <1>4, <1>11, LoadMark DEF LoadLen
  <2>2. rd'.i = rd.i /\ rd'.p = rd.p /\ rd'.pc = "restart"
    BY <1>1, <2>1 DEF Followers
  <2>3. Reading(k, c - 1)'
    BY <1>5, <2>1, <2>2 DEF Reading
  <2>4. LapBefore' /\ Ahead' /\ Laid(e, k, c - 1)'
    BY <1>2, <1>4, <2>2 DEF LapBefore, Ahead, Laid, Lies
  <2>5. Behind(c, e, k)'
    BY <1>2, <1>4, <1>11, <2>2, <2>3, <2>4 DEF Behind
  <2> QED BY <2>5
<1>12. CASE Restart
  <2>1. /\ k = c /\ last' = last
        /\ rd' = [pc |-> "life", i |-> life, p |-> 0, l |-> 0, slip |-> wpc = "life"]
    BY <1>4, <1>12 DEF Restart
  <2>2. rd'.i = life /\ rd'.p = f[c] /\ rd'.pc = "life" /\ rd'.slip = (wpc = "life")
    BY <1>3, <2>1
  <2>3. CASE wpc = "life"
    BY <2>2, <2>3
  <2>4. CASE wpc # "life"
    <3>1. Reading(c, Pushed)'
      BY <1>5, <2>1, <2>2 DEF Reading
    <3>2. c \in c..(Pushed + 1)
      BY <1>3
    <3>3. OnLap(c, f, c)'
      BY <1>2, <1>4, <2>2, <2>4, <3>1, <3>2 DEF OnLap
    <3> QED BY <1>3, <3>3
  <2> QED BY <2>3, <2>4
<1>13. CASE Show
  <2>1. k \in k..b /\ rd.l = recs[k] + 1
    BY <1>3, <1>4, <1>5, <1>7, <1>13 DEF Show
  <2>2. /\ rd' = [rd EXCEPT !.pc = "life", !.p = e[k + 1]] /\ k <= last'
        /\ e[k + 1] \in Nat /\ rd.p <= e[k + 1]
    <3>1. k \in Nat /\ b \in Nat /\ 1 <= k /\ Laid(e, k, b) /\ b <= Len(recs) /\ StandsAt(e, k)
      BY <1>4, <1>8 DEF StandsAt
    <3> QED BY <1>5, <1>13, <2>1, <3>1, ShowRecord
  <2>3. rd'.i = rd.i /\ rd'.p = e[k + 1] /\ rd'.pc = "life"
    BY <1>1, <2>2 DEF Followers
  <2>4. k + 1 \in 1..c /\ k + 1 \in Nat /\ (k + 1) - 1 = k /\ k <= k + 1
    BY <1>3, <1>4, <1>7, <2>1
  <2>5. Reading(k + 1, c - 1)'
    BY <2>2, <2>3, <2>4 DEF Reading
  <2>6. Laid(e, k + 1, c - 1)'
    <3>1. Laid(e, k + 1, b)
      BY <1>8, <2>4, LaidRest
    <3> QED BY <1>2, <1>7, <3>1 DEF Laid, Lies
  <2>7. LapBefore' /\ Ahead'
    <3> DEFINE y == e[k + 1]
    <3>1. y \in Nat /\ rd.p <= y /\ rd'.p = y /\ rd.p \in Nat
      BY <1>1, <2>2, <2>3 DEF Followers
    <3> HIDE DEF y
    <3>2. Ahead'
      BY <1>1, <1>2, <1>4, <3>1 DEF Ahead
    <3>3. LapBefore'
      BY <1>2, <1>4, <2>3 DEF LapBefore
    <3> QED BY <3>2, <3>3
  <2>8. Behind(c, e, k + 1)'
    BY <1>2, <1>4, <2>3, <2>4, <2>5, <2>6, <2>7 DEF Behind
  <2> QED BY <2>4, <2>8
<1> QED BY <1>9, <1>10, <1>11, <1>12, <1>13 DEF Reader

\* A follower slips, and ceases to, only where it starts over.
LEMMA SlipStays ==
  ASSUME rd \in Followers, Reader, ~Restart
  PROVE  rd'.slip = rd.slip /\ rd'.i = rd.i
<1>1. CASE CmpLife \/ CmpPos \/ CmpLap \/ CmpOvertaken
  BY <1>1 DEF CmpLife, CmpPos, CmpLap, CmpOvertaken, Goto, Followers
<1>2. CASE LoadLen
  BY <1>2 DEF LoadLen, Goto, Followers
<1>3. CASE Show
  BY <1>3 DEF Show, Followers
<1> QED BY <1>1, <1>2, <1>3 DEF Reader

\* What is printed stays printed.
LEMMA LastGrows ==
  ASSUME TypeOK, Reader
  PROVE  last \in Nat /\ last' \in Nat /\ last <= last'
<1>1. last \in Nat
  BY DEF TypeOK
<1>2. last' = last \/ last' = last + 1
  BY DEF Reader, CmpLife, CmpPos, LoadLen, CmpLap, CmpOvertaken, Restart, Show
<1> QED BY <1>1, <1>2

\* show_log changes no shared word, so the laps stay as they are.
LEMMA ReaderKeeps ==
  ASSUME Shared, NEW c, NEW f, Lap(c, f), Followed(c, f), Reader
  PROVE  Lap(c, f)' /\ Followed(c, f)'
<1>1. RingInv /\ Storing /\ rd \in Followers
  BY DEF Shared
<1>2. UNCHANGED <<mem, p, life, wpc, size, recs>> /\ Pushed' = Pushed
  BY <1>1, ReaderReads DEF RingInv, Pushed
<1>3. Lap(c, f)'
  BY <1>1, <1>2, LapKept
<1>4. c \in Nat /\ c >= 1 /\ c <= Pushed + 1 /\ Pushed \in Nat /\ f[c] = 0
  BY <1>1, Places DEF Lap
<1> HIDE DEF Pushed
<1>5. ASSUME Restart, wpc = "life", c - 1 <= last PROVE Followed(c, f)'
  <2>1. rd'.slip /\ rd'.i = life /\ last' = last
    BY <1>5 DEF Restart
  <2>2. Slipped(c)'
    BY <1>2, <1>5, <2>1 DEF Slipped, LapBefore
  <2> QED BY <2>1, <2>2 DEF Followed
<1>6. CASE rd.slip
  <2>1. wpc \notin {"mark", "rewind"} /\ LapBefore /\ c - 1 <= last
    BY <1>2, <1>6 DEF Followed, Slipped
  <2>2. CASE Restart /\ wpc # "life"
    <3>1. /\ rd' = [pc |-> "life", i |-> life, p |-> 0, l |-> 0, slip |-> wpc = "life"]
          /\ last' = last
      BY <2>2 DEF Restart
    <3>2. ~rd'.slip /\ rd'.i = life /\ rd'.p = f[c] /\ rd'.pc = "life"
      BY <1>4, <2>2, <3>1
    <3>3. Reading(c, Pushed)'
      BY <2>1, <3>1, <3>2 DEF Reading
    <3>4. OnLap(c, f, c)'
      BY <1>2, <1>4, <2>1, <2>2, <3>2, <3>3 DEF OnLap
    <3> QED BY <1>3, <1>4, <3>2, <3>4 DEF Followed
  <2>3. CASE ~Restart
    <3>1. rd'.slip /\ rd'.i = rd.i
      BY <1>1, <1>6, <2>3, SlipStays
    <3>2. c - 1 <= last'
      BY <1>1, <1>4, <2>1, LastGrows DEF RingInv
    <3>3. Slipped(c)'
      BY <1>2, <2>1, <3>1, <3>2 DEF Slipped, LapBefore
    <3> QED BY <1>3, <3>1, <3>3 DEF Followed
  <2> QED BY <1>3, <1>5, <2>1, <2>2, <2>3
<1>7. CASE ~rd.slip
  <2>1. ASSUME rd'.slip PROVE Restart /\ wpc = "life"
    <3>1. Restart
      BY <1>1, <1>7, <2>1, SlipStays
    <3> QED BY <2>1, <3>1 DEF Restart
  <2>2. ASSUME NEW k \in Nat, OnLap(c, f, k) PROVE Followed(c, f)'
    <3>1. ~rd'.slip
      BY <2>1, <2>2 DEF OnLap
    <3> QED BY <2>2, <3>1, OnLapReads DEF Followed
  <2>3. ASSUME NEW e \in Offsets, NEW k \in Nat, Behind(c, e, k) PROVE Followed(c, f)'
    <3>1. CASE rd'.slip
      <4>1. Restart /\ wpc = "life"
        BY <2>1, <3>1
      <4>2. k = c /\ k - 1 <= last
        BY <2>3, <4>1 DEF Behind, Reading, Restart
      <4> QED BY <1>5, <4>1, <4>2
    <3>2. CASE ~rd'.slip
      BY <1>7, <2>3, <3>2, BehindReads DEF Followed
    <3> QED BY <3>1, <3>2
  <2>4. \/ \E k \in Nat : OnLap(c, f, k)
        \/ \E e \in Offsets, k \in Nat : Behind(c, e, k)
    BY <1>7 DEF Followed
  <2> QED BY <1>3, <2>2, <2>3, <2>4
<1> QED BY <1>6, <1>7

\* The follower starts at the start of an empty ring.
LEMMA FollowInit == Init => FollowInv
<1> SUFFICES ASSUME Init PROVE FollowInv
  OBVIOUS
<1>1. /\ Cap \in Nat /\ Lives \in Nat /\ Lives > 0
  BY StatusLogAssumption
<1>2. /\ mem = [a \in 0..(Cap - 1) |-> Blank] /\ p = 0 /\ life = 0 /\ wpc = "idle" /\ size = 0
      /\ recs = <<>> /\ last = 0
      /\ rd = [pc |-> "restart", i |-> 0, p |-> 0, l |-> 0, slip |-> FALSE]
  BY DEF Init
<1>3. Len(recs) = 0 /\ Pushed = 0
  BY <1>2 DEF Pushed
<1>4. Shared
  <2>1. RingInv
    BY RingInductive
  <2>2. Blank \in (-1..Len(recs)) \X Nat
    BY <1>3 DEF Blank
  <2>3. mem \in [0..(Cap - 1) -> (-1..Len(recs)) \X Nat]
    BY <1>2, <2>2
  <2>4. rd \in Followers
    BY <1>1, <1>2 DEF Followers
  <2>5. Storing
    BY <1>2 DEF Storing
  <2> QED BY <2>1, <2>3, <2>4, <2>5 DEF Shared
<1>5. PICK f \in Offsets : f = [r \in Nat |-> 0]
  BY DEF Offsets
<1>6. f \in [Nat -> Nat] /\ f[1] = 0
  BY <1>5 DEF Offsets
<1> HIDE DEF Pushed
<1>7. Lap(1, f)
  <2>1. Laid(f, 1, Pushed)
    BY <1>3, <1>6 DEF Laid
  <2> QED BY <1>2, <1>3, <1>6, <2>1 DEF Lap
<1>8. OnLap(1, f, 1)
  BY <1>2, <1>3, <1>6 DEF OnLap, Reading
<1>9. Followed(1, f)
  <2>1. ~rd.slip
    BY <1>2
  <2> QED BY <1>8, <2>1 DEF Followed
<1> QED BY <1>4, <1>5, <1>7, <1>9 DEF FollowInv

\* Every store of the writer and every load of the reader keeps it.
LEMMA FollowNext == FollowInv /\ [Next]_vars => FollowInv'
<1> SUFFICES ASSUME FollowInv, [Next]_vars PROVE FollowInv'
  OBVIOUS
<1>1. Shared /\ Shared'
  BY SharedNext DEF FollowInv
<1>2. PICK c \in Nat, f \in Offsets : Lap(c, f) /\ Followed(c, f)
  BY DEF FollowInv
<1>3. \E c2 \in Nat, g \in Offsets : Lap(c2, g)' /\ Followed(c2, g)'
  <2>1. ASSUME NEW n \in Sizes, Push(n) PROVE Lap(c, f)' /\ Followed(c, f)'
    BY <1>1, <1>2, <2>1, PushKeeps
  <2>2. CASE StoreMark \/ StoreSize \/ StoreText \/ NextLife
    BY <1>1, <1>2, <2>2, StoreKeeps
  <2>3. CASE Rewind
    BY <1>1, <1>2, <2>3, RewindKeeps
  <2>4. CASE Publish
    BY <1>1, <1>2, <2>4, PublishKeeps
  <2>5. CASE Reader
    BY <1>1, <1>2, <2>5, ReaderKeeps
  <2>6. CASE UNCHANGED vars
    <3>1. UNCHANGED <<mem, p, life, wpc, size, recs, rd, last>>
      BY <2>6 DEF vars
    <3>2. Lap(c, f)'
      BY <1>2, <3>1 DEF Lap, Laid, Lies, Pushed
    <3>3. ASSUME NEW k \in Nat, OnLap(c, f, k) PROVE OnLap(c, f, k)'
      BY <3>1, <3>3 DEF OnLap, Reading, Pushed
    <3>4. ASSUME NEW e \in Offsets, NEW k \in Nat, Behind(c, e, k) PROVE Behind(c, e, k)'
      BY <3>1, <3>4 DEF Behind, Laid, Lies, LapBefore, Ahead, Reading
    <3>5. Followed(c, f)'
      BY <1>2, <3>1, <3>3, <3>4 DEF Followed, Slipped, LapBefore
    <3> QED BY <3>2, <3>5
  <2> QED BY <1>2, <2>1, <2>2, <2>3, <2>4, <2>5, <2>6 DEF Next, Writer
<1> QED BY <1>1, <1>3 DEF FollowInv

\* What the invariant says of a follower that is about to print.
LEMMA FollowSafe == FollowInv => FollowsTheLog
<1> SUFFICES ASSUME FollowInv, ~rd.slip
             PROVE  rd.pc # "fault" /\ (rd.pc = "print" => Whole(RecordAt(rd.p)) /\ RecordAt(rd.p) <= last + 1)
  BY DEF FollowInv, Shared, RingInv, FollowsTheLog
<1>1. /\ RingInv /\ Shared /\ Storing /\ Len(recs) \in Nat /\ last \in Nat
  BY Bounds DEF FollowInv, Shared
<1>2. PICK c \in Nat, f \in Offsets : Lap(c, f) /\ Followed(c, f)
  BY DEF FollowInv
<1>3. /\ c >= 1 /\ c <= Pushed + 1 /\ Pushed \in Nat /\ Pushed <= Len(recs) /\ Laid(f, c, Pushed)
  BY <1>1, <1>2, Places DEF Lap
<1> HIDE DEF Pushed
<1>4. ASSUME NEW a \in Nat, NEW b \in Nat, NEW g, NEW k \in Nat, Laid(g, a, b), 1 <= a, a <= k,
             b <= Len(recs), StandsAt(g, k), Reading(k, b)
      PROVE  rd.pc # "fault" /\ (rd.pc = "print" => Whole(RecordAt(rd.p)) /\ RecordAt(rd.p) <= last + 1)
  <2>1. k - 1 <= last /\ rd.pc # "fault" /\ (rd.pc = "print" => k <= b /\ rd.l = recs[k] + 1)
    BY <1>4 DEF Reading
  <2>2. ASSUME rd.pc = "print" PROVE RecordAt(rd.p) = k /\ Whole(k)
    <3>1. k \in a..b /\ rd.l = recs[k] + 1
      BY <1>4, <2>1, <2>2
    <3>2. RecordAt(rd.p) = k
      BY <1>1, <1>4, <3>1, ShowRecord
    <3>3. Whole(k)
      BY <1>1, <1>4, <3>1, ShowRecord
    <3> QED BY <3>2, <3>3
  <2> QED BY <1>1, <2>1, <2>2
<1>5. ASSUME NEW k \in Nat, OnLap(c, f, k)
      PROVE  rd.pc # "fault" /\ (rd.pc = "print" => Whole(RecordAt(rd.p)) /\ RecordAt(rd.p) <= last + 1)
  <2>1. k \in c..(Pushed + 1) /\ StandsAt(f, k) /\ Reading(k, Pushed)
    BY <1>5 DEF OnLap, StandsAt
  <2>2. c <= k
    BY <1>3, <2>1
  <2>3. PICK b \in Nat : b = Pushed
    BY <1>3
  <2>4. Laid(f, c, b) /\ b <= Len(recs) /\ Reading(k, b)
    BY <1>3, <2>1, <2>3
  <2> QED BY <1>3, <1>4, <2>1, <2>2, <2>4
<1>6. ASSUME NEW e \in Offsets, NEW k \in Nat, Behind(c, e, k)
      PROVE  rd.pc # "fault" /\ (rd.pc = "print" => Whole(RecordAt(rd.p)) /\ RecordAt(rd.p) <= last + 1)
  <2>1. k \in 1..c /\ StandsAt(e, k) /\ Reading(k, c - 1) /\ Laid(e, k, c - 1)
    BY <1>6 DEF Behind, StandsAt
  <2>2. PICK b \in Nat : b = c - 1
    BY <1>3
  <2>3. Laid(e, k, b) /\ b <= Len(recs) /\ Reading(k, b) /\ 1 <= k /\ k <= k
    BY <1>1, <1>3, <2>1, <2>2
  <2> QED BY <1>4, <2>1, <2>3
<1> QED BY <1>2, <1>5, <1>6 DEF Followed

\* "bscope -l" prints whole records and skips none, and never loads outside
\* the segment, for every ring in which what it has yet to read and two of the
\* longest records fit together (KeepsUpAssumption), and every interleaving of
\* its loads with the stores of status_logpush: unless it started over between
\* the two stores of a rewind.
THEOREM FollowerKeepsUp == Spec => []FollowsTheLog
BY FollowInit, FollowNext, FollowSafe, PTL DEF Spec

\* The ring of the whole segment is that of status.c alone: what is proved of
\* it above holds while "bscope -s" reads the other table too.
THEOREM RingInSegment == SegSpec => Spec
<1>1. SegInit => Init
  BY DEF SegInit
<1>2. [SegNext]_segvars => [Next]_vars
  BY DEF SegNext, Logcat, Stat, segvars, vars
<1> QED BY <1>1, <1>2, PTL DEF SegSpec, Spec

-----------------------------------------------------------------------------
(* The table of requests per second.                                       *)

\* The slots of the table.
Slots == 0..(RPS_N - 1)

\* What status_mon keeps in its variables.
Monitors ==
  [pc : {"off", "cmp", "minite", "all", "first", "done"}, ctime : Nat, i : Nat,
   minite_v : Nat, all_v : Nat, first : Nat, raced : BOOLEAN]

\* The types of the variables.
RpsTypes ==
  /\ clock \in RPS_N..MaxClock
  /\ rps \in [Slots -> [time : Nat, value : Nat]]
  /\ wr \in [pc : {"idle", "inc", "new", "value", "time"}, t : Nat]
  /\ cnt \in [Seconds -> Nat]
  /\ mon \in Monitors

\* The worker is between the two stores that take slot n over.
Taking(n) == wr.pc \in {"value", "time"} /\ Slot(wr.t) = n

\* A slot's time is one of its seconds or that of the untouched segment, no
\* counted second of the slot is newer, and its value is the count of it.
Table ==
  /\ cnt[0] = 0
  /\ \A n \in Slots :
       /\ rps[n].time <= clock
       /\ rps[n].time = 0 \/ Slot(rps[n].time) = n
       /\ \A u \in In(n) : u <= rps[n].time
       /\ ~Taking(n) /\ rps[n].time \notin torn =>
            rps[n].value = cnt[rps[n].time] /\ (rps[n].time # 0 => rps[n].value > 0)

\* What each point of request_begin knows of the slot it is about to write.
Worker ==
  wr.pc # "idle" =>
    /\ wr.t \in RPS_N..clock
    /\ wr.pc = "inc" => rps[Slot(wr.t)].time = wr.t
    /\ wr.pc = "new" => rps[Slot(wr.t)].time < wr.t
    /\ wr.pc = "value" => rps[Slot(wr.t)].time = wr.t /\ cnt[wr.t] = 0
    /\ wr.pc = "time" => rps[Slot(wr.t)].time < wr.t /\ rps[Slot(wr.t)].value = 1

\* The loop of status_mon is inside its range, and after an undisturbed look
\* the worker counts nothing that is older than the monitor's clock.
Undisturbed ==
  mon.pc # "off" =>
    /\ mon.ctime \in RPS_N..clock /\ mon.i \in 1..(RPS_N - 1)
    /\ ~mon.raced => wr.pc = "idle" \/ wr.t >= mon.ctime

\* What status_mon has added up so far: the seconds before mon.i, and mon.i
\* itself once it was added.  A slot whose time was right keeps it as long as
\* the second lasts.
Clean == ~mon.raced /\ Window(RPS_N - 1) \cap torn = {}
Adding ==
  Clean =>
    /\ mon.pc \in {"minite", "all"} /\ clock = mon.ctime => Here.time = T2
    /\ mon.pc \in {"cmp", "minite", "all"} => mon.all_v = Requests(mon.i - 1)
    /\ mon.pc \in {"cmp", "minite"} => mon.minite_v = Requests(Smaller(Minite, mon.i) - 1)
    /\ mon.pc = "minite" => mon.i < Minite
    /\ mon.pc = "all" => mon.minite_v = Requests(Smaller(Minite, mon.i + 1) - 1)
    /\ mon.pc \in {"first", "done"} => /\ mon.all_v = Requests(RPS_N - 1)
                                       /\ mon.minite_v = Requests(Smaller(Minite, RPS_N) - 1)

\* The older counted seconds of the slot that ShowFirst shows, and its number
\* as the count of the newest of them.
Old == {t \in In(Slot(mon.ctime - 1)) : t < mon.ctime}
FirstIsNewest ==
  mon.pc = "done" /\ ~mon.raced /\ torn = {} =>
    \/ Old = {} /\ mon.first = 0
    \/ \E m \in Old : (\A u \in Old : u <= m) /\ mon.first = cnt[m]

\* The inductive invariant of the table, and with the monitor's look at it.
TableInv == RpsTypes /\ Table /\ Worker
IInv == TableInv /\ Undisturbed /\ FirstIsNewest /\ Adding

\* A second has a slot of the table.
LEMMA SlotType == \A t \in Int : Slot(t) \in Slots
BY RpsAssumption DEF Slot, Slots

\* Quotient and remainder.
LEMMA Division ==
  ASSUME NEW N \in Int, N > 0, NEW t \in Int
  PROVE  t \div N \in Int /\ t % N \in 0..(N - 1) /\ t = N * (t \div N) + (t % N)
OBVIOUS

\* Seconds that are less than RPS_N apart do not share a slot.
LEMMA SlotsApart ==
  ASSUME NEW t \in Nat, NEW u \in Nat, t < u, u - t < RPS_N
  PROVE  Slot(t) # Slot(u)
<1> SUFFICES ASSUME u % RPS_N = t % RPS_N PROVE FALSE
  BY DEF Slot
<1> DEFINE q == t \div RPS_N
           r == u \div RPS_N
           d == r - q
<1>1. RPS_N \in Int /\ RPS_N > 1
  BY RpsAssumption
<1>2. q \in Int /\ t % RPS_N \in Int /\ t = RPS_N * q + (t % RPS_N)
  BY <1>1, Division
<1>3. r \in Int /\ u = RPS_N * r + (u % RPS_N)
  BY <1>1, Division
<1>4. d \in Int /\ u - t = RPS_N * d
  <2> HIDE DEF q, r
  <2>1. u - t = RPS_N * r - RPS_N * q
    BY <1>1, <1>2, <1>3
  <2> QED BY <1>1, <1>2, <1>3, <2>1
<1> HIDE DEF d
<1>5. CASE d >= 1
  <2>1. RPS_N * d >= RPS_N
    BY <1>1, <1>4, <1>5
  <2> QED BY <1>1, <1>4, <2>1
<1>6. CASE d <= 0
  <2>1. RPS_N * d <= 0
    BY <1>1, <1>4, <1>6
  <2> QED BY <1>4, <2>1
<1> QED BY <1>4, <1>5, <1>6

\* No slot is looked at yet.
LEMMA Initially == RpsInit => IInv
<1> SUFFICES ASSUME RpsInit PROVE IInv
  OBVIOUS
<1>1. /\ RPS_N \in Nat /\ RPS_N > 1 /\ MaxClock \in Nat /\ RPS_N <= MaxClock
      /\ clock = RPS_N /\ 0 \in Seconds
  BY RpsAssumption DEF RpsInit, Seconds
<1>2. wr = Idle /\ wr.pc = "idle" /\ mon.pc = "off" /\ mon \in Monitors
  BY DEF RpsInit, Idle, Monitors
<1>3. /\ \A n \in Slots : rps[n] = [time |-> 0, value |-> 0]
      /\ \A t \in Seconds : cnt[t] = 0
  BY DEF RpsInit, Slots
<1>4. RpsTypes
  <2>1. rps \in [Slots -> [time : Nat, value : Nat]] /\ cnt \in [Seconds -> Nat]
    BY DEF RpsInit, Slots
  <2>2. wr \in [pc : {"idle", "inc", "new", "value", "time"}, t : Nat]
    BY <1>2 DEF Idle
  <2>3. clock \in RPS_N..MaxClock
    BY <1>1
  <2> QED BY <1>2, <2>1, <2>2, <2>3 DEF RpsTypes
<1>5. Table
  <2>1. \A n \in Slots : In(n) = {}
    BY <1>3 DEF In
  <2>2. \A n \in Slots : rps[n].time = 0 /\ rps[n].value = 0
    BY <1>3
  <2> QED BY <1>1, <1>3, <2>1, <2>2 DEF Table
<1>6. Worker /\ Undisturbed /\ FirstIsNewest /\ Adding
  BY <1>2 DEF Worker, Undisturbed, FirstIsNewest, Adding
<1> QED BY <1>4, <1>5, <1>6 DEF IInv, TableInv

\* Where a second's slot is in the table, and what a seen second's slot holds.
LEMMA WorkerSlot ==
  ASSUME TableInv, wr.pc # "idle"
  PROVE  /\ wr.t \in Seconds /\ wr.t \in Nat /\ wr.t > 0 /\ Slot(wr.t) \in Slots
         /\ rps[Slot(wr.t)].time \in Nat /\ rps[Slot(wr.t)].value \in Nat
<1>1. wr.t \in RPS_N..clock /\ clock \in RPS_N..MaxClock
  BY DEF TableInv, RpsTypes, Worker
<1>2. wr.t \in Nat /\ wr.t > 0 /\ wr.t \in Seconds
  BY <1>1, RpsAssumption DEF Seconds
<1>3. Slot(wr.t) \in Slots
  BY <1>2, SlotType
<1> QED BY <1>2, <1>3 DEF TableInv, RpsTypes

\* A second more.
LEMMA SecondSafe == TableInv /\ Second => TableInv'
<1> SUFFICES ASSUME TableInv, Second PROVE TableInv'
  OBVIOUS
<1>1. /\ clock < MaxClock /\ clock' = clock + 1 /\ UNCHANGED <<rps, wr, mon, cnt, torn>>
      /\ clock \in RPS_N..MaxClock /\ RPS_N \in Int /\ MaxClock \in Int
  BY RpsAssumption DEF Second, TableInv, RpsTypes
<1>2. RpsTypes'
  BY <1>1 DEF TableInv, RpsTypes
<1>3. Table'
  <2>1. \A n \in Slots : rps[n].time \in Nat
    BY DEF TableInv, RpsTypes
  <2> QED BY <1>1, <2>1 DEF TableInv, Table, Taking, In
<1>4. Worker'
  BY <1>1 DEF TableInv, Worker
<1> QED BY <1>2, <1>3, <1>4 DEF TableInv

\* request_begin reads the clock and the slot.
LEMMA HitSafe == TableInv /\ Hit => TableInv'
<1> SUFFICES ASSUME TableInv, Hit PROVE TableInv'
  OBVIOUS
<1>1. /\ wr.pc = "idle" /\ UNCHANGED <<clock, rps, mon, cnt, torn>>
      /\ wr' = [pc |-> IF rps[Slot(clock)].time = clock THEN "inc" ELSE "new", t |-> clock]
  BY DEF Hit
<1>2. clock \in Nat /\ clock \in RPS_N..clock /\ Slot(clock) \in Slots
  BY RpsAssumption, SlotType DEF TableInv, RpsTypes
<1>3. RpsTypes'
  BY <1>1, <1>2 DEF TableInv, RpsTypes
<1>4. Table'
  BY <1>1 DEF TableInv, Table, Taking, In
<1>5. Worker'
  <2>1. rps[Slot(clock)].time \in Nat /\ rps[Slot(clock)].time <= clock
    BY <1>2 DEF TableInv, RpsTypes, Table
  <2> QED BY <1>1, <1>2, <2>1 DEF Worker
<1> QED BY <1>3, <1>4, <1>5 DEF TableInv

\* value++ on a slot that already counts this second.
LEMMA IncrementSafe == TableInv /\ Increment => TableInv'
<1> SUFFICES ASSUME TableInv, Increment PROVE TableInv'
  OBVIOUS
<1> DEFINE s == Slot(wr.t)
<1>1. /\ wr.pc = "inc" /\ wr' = Idle /\ UNCHANGED <<clock, mon, torn>>
      /\ rps' = [rps EXCEPT ![s].value = @ + 1] /\ cnt' = [cnt EXCEPT ![wr.t] = @ + 1]
  BY DEF Increment, Counted
<1>2. /\ wr.t \in Seconds /\ wr.t \in Nat /\ wr.t > 0 /\ s \in Slots
      /\ rps[s].time = wr.t
  BY <1>1, WorkerSlot DEF TableInv, Worker
<1>3. rps \in [Slots -> [time : Nat, value : Nat]] /\ cnt \in [Seconds -> Nat]
  BY DEF TableInv, RpsTypes
<1>4. /\ rps' \in [Slots -> [time : Nat, value : Nat]] /\ cnt' \in [Seconds -> Nat]
      /\ \A n \in Slots : rps'[n].time = rps[n].time
      /\ \A n \in Slots : n # s => rps'[n].value = rps[n].value
      /\ rps'[s].value = rps[s].value + 1
      /\ \A u \in Seconds : u # wr.t => cnt'[u] = cnt[u]
      /\ cnt'[wr.t] = cnt[wr.t] + 1
  BY <1>1, <1>2, <1>3
<1>5. RpsTypes'
  BY <1>1, <1>4 DEF TableInv, RpsTypes, Idle
<1>6. Table'
  <2>1. cnt'[0] = 0
    BY <1>2, <1>4, RpsAssumption DEF TableInv, Table, Seconds
  <2>2. ASSUME NEW n \in Slots
        PROVE  /\ rps'[n].time <= clock'
               /\ rps'[n].time = 0 \/ Slot(rps'[n].time) = n
               /\ rps'[n].time \notin torn' =>
                    rps'[n].value = cnt'[rps'[n].time] /\ (rps'[n].time # 0 => rps'[n].value > 0)
    <3>1. rps'[n].time = rps[n].time /\ rps[n].time \in Nat /\ rps[n].time <= clock /\ clock' = clock
          /\ (rps[n].time = 0 \/ Slot(rps[n].time) = n) /\ rps[n].value \in Nat
          /\ rps[n].time \in Seconds
      <4>1. rps'[n].time = rps[n].time /\ rps[n].time \in Nat /\ rps[n].value \in Nat /\ clock' = clock
        BY <1>1, <1>3, <1>4
      <4>2. rps[n].time <= clock /\ (rps[n].time = 0 \/ Slot(rps[n].time) = n)
        BY DEF TableInv, Table
      <4>3. clock \in Nat /\ clock <= MaxClock /\ MaxClock \in Nat
        BY RpsAssumption DEF TableInv, RpsTypes
      <4> QED BY <4>1, <4>2, <4>3 DEF Seconds
    <3>2. rps[n].time \notin torn =>
            rps[n].value = cnt[rps[n].time] /\ (rps[n].time # 0 => rps[n].value > 0)
      BY <1>1 DEF TableInv, Table, Taking
    <3>3. CASE n = s
      BY <1>1, <1>2, <1>3, <1>4, <3>1, <3>2, <3>3
    <3>4. CASE n # s
      <4>1. rps[n].time # wr.t
        BY <1>2, <3>1, <3>4
      <4> QED BY <1>1, <1>4, <3>1, <3>2, <3>4, <4>1
    <3> QED BY <3>3, <3>4
  <2>3. ASSUME NEW n \in Slots, NEW u \in In(n)' PROVE u <= rps'[n].time
    <3>1. u \in Seconds /\ Slot(u) = n /\ cnt'[u] > 0
      BY <2>3 DEF In, Seconds, Slot
    <3>2. CASE u = wr.t
      BY <1>2, <1>4, <3>1, <3>2
    <3>3. CASE u # wr.t
      <4>1. u \in In(n)
        BY <1>4, <3>1, <3>3 DEF In
      <4> QED BY <4>1, <1>4 DEF TableInv, Table
    <3> QED BY <3>2, <3>3
  <2> QED BY <2>1, <2>2, <2>3 DEF Table
<1>7. Worker'
  BY <1>1 DEF Worker, Idle
<1> QED BY <1>5, <1>6, <1>7 DEF TableInv

\* The first of the two stores: from here the slot is being taken.
LEMMA TakeSlotSafe == TableInv /\ TakeSlot => TableInv'
<1> SUFFICES ASSUME TableInv, TakeSlot PROVE TableInv'
  OBVIOUS
<1>0. PICK s \in Slots : s = Slot(wr.t)
  BY SlotType DEF TableInv, RpsTypes
<1>1. /\ wr.pc = "new" /\ UNCHANGED <<clock, mon, cnt, torn>>
      /\ \/ wr' = [wr EXCEPT !.pc = "value"] /\ rps' = [rps EXCEPT ![s].time = wr.t]
         \/ wr' = [wr EXCEPT !.pc = "time"] /\ rps' = [rps EXCEPT ![s].value = 1]
  BY <1>0 DEF TakeSlot
<1>2. /\ wr.t \in Seconds /\ wr.t \in Nat /\ wr.t > 0 /\ wr.t \in RPS_N..clock /\ s \in Slots
      /\ rps[s].time < wr.t /\ rps[s].time \in Nat /\ clock \in Nat /\ wr.t <= clock
  BY <1>0, <1>1, WorkerSlot, RpsAssumption DEF TableInv, RpsTypes, Worker
<1>3. rps \in [Slots -> [time : Nat, value : Nat]] /\ wr \in [pc : {"idle", "inc", "new", "value", "time"}, t : Nat]
  BY DEF TableInv, RpsTypes
<1>4. /\ rps' \in [Slots -> [time : Nat, value : Nat]] /\ wr' \in [pc : {"value", "time"}, t : Nat]
      /\ \A n \in Slots : n # s => rps'[n] = rps[n]
      /\ wr'.t = wr.t
      /\ \/ wr'.pc = "value" /\ rps'[s].time = wr.t
         \/ wr'.pc = "time" /\ rps'[s].time = rps[s].time /\ rps'[s].value = 1
  BY <1>1, <1>2, <1>3
<1>5. RpsTypes'
  BY <1>1, <1>4 DEF TableInv, RpsTypes
<1>6. cnt[wr.t] = 0
  <2>1. cnt[wr.t] \in Nat
    BY <1>2 DEF TableInv, RpsTypes
  <2>2. wr.t \notin In(s)
    BY <1>2 DEF TableInv, Table
  <2> QED BY <1>0, <2>1, <2>2, <1>2 DEF In
<1>7. Worker'
  BY <1>0, <1>1, <1>2, <1>4, <1>6 DEF Worker
<1>8. Table'
  <2>1. ASSUME NEW n \in Slots, n # s
        PROVE  /\ rps'[n].time <= clock'
               /\ rps'[n].time = 0 \/ Slot(rps'[n].time) = n
               /\ \A u \in In(n)' : u <= rps'[n].time
               /\ ~Taking(n)' /\ rps'[n].time \notin torn' =>
                    rps'[n].value = cnt'[rps'[n].time] /\ (rps'[n].time # 0 => rps'[n].value > 0)
    <3>1. ~Taking(n)
      BY <1>0, <2>1 DEF Taking
    <3> QED BY <2>1, <3>1, <1>1, <1>4 DEF TableInv, Table, In
  <2>2. Taking(s)'
    BY <1>0, <1>4 DEF Taking, Slot
  <2>3. rps'[s].time <= clock' /\ (rps'[s].time = 0 \/ Slot(rps'[s].time) = s)
    BY <1>0, <1>1, <1>2, <1>4 DEF TableInv, Table
  <2>4. ASSUME NEW u \in In(s)' PROVE u <= rps'[s].time
    <3>1. u \in Seconds /\ u \in In(s)
      BY <1>1, <2>4 DEF In
    <3>2. u \in Int /\ u <= rps[s].time
      BY <3>1, <1>2 DEF Seconds, TableInv, Table
    <3> QED BY <3>2, <1>2, <1>4
  <2>5. cnt'[0] = 0
    BY <1>1 DEF TableInv, Table
  <2> QED BY <2>1, <2>2, <2>3, <2>4, <2>5 DEF Table
<1> QED BY <1>5, <1>7, <1>8 DEF TableInv

\* The second: the slot counts one request of a second that had none.
LEMMA FillSlotSafe == TableInv /\ FillSlot => TableInv'
<1> SUFFICES ASSUME TableInv, FillSlot PROVE TableInv'
  OBVIOUS
<1>0. PICK s \in Slots : s = Slot(wr.t)
  BY SlotType DEF TableInv, RpsTypes
<1>1. /\ wr.pc \in {"value", "time"} /\ wr' = Idle /\ UNCHANGED <<clock, mon, torn>>
      /\ rps' = IF wr.pc = "value" THEN [rps EXCEPT ![s].value = 1] ELSE [rps EXCEPT ![s].time = wr.t]
      /\ cnt' = [cnt EXCEPT ![wr.t] = @ + 1]
  BY <1>0 DEF FillSlot, Counted
<1>2. /\ wr.t \in Seconds /\ wr.t \in Nat /\ wr.t > 0 /\ s \in Slots
      /\ rps[s].time <= wr.t /\ rps[s].time \in Nat /\ clock \in Nat /\ wr.t <= clock
      /\ wr.pc = "value" => rps[s].time = wr.t
      /\ wr.pc = "time" => rps[s].value = 1
  BY <1>0, <1>1, WorkerSlot, RpsAssumption DEF TableInv, RpsTypes, Worker
<1>3. rps \in [Slots -> [time : Nat, value : Nat]] /\ cnt \in [Seconds -> Nat]
  BY DEF TableInv, RpsTypes
<1>4. cnt[wr.t] = 0
  <2>1. wr.pc = "time" => wr.t \notin In(s)
    BY <1>0, <1>1, <1>2 DEF TableInv, Table, Worker
  <2>2. cnt[wr.t] \in Nat
    BY <1>2, <1>3
  <2>3. wr.pc = "value" => cnt[wr.t] = 0
    BY DEF TableInv, Worker
  <2> QED BY <1>0, <2>1, <2>2, <2>3, <1>1, <1>2 DEF In
<1>5. /\ rps' \in [Slots -> [time : Nat, value : Nat]] /\ cnt' \in [Seconds -> Nat]
      /\ \A n \in Slots : n # s => rps'[n] = rps[n]
      /\ rps'[s].time = wr.t /\ rps'[s].value = 1
      /\ \A u \in Seconds : u # wr.t => cnt'[u] = cnt[u]
      /\ cnt'[wr.t] = 1
  <2>1. CASE wr.pc = "value"
    BY <2>1, <1>1, <1>2, <1>3, <1>4
  <2>2. CASE wr.pc = "time"
    BY <2>2, <1>1, <1>2, <1>3, <1>4
  <2> QED BY <1>1, <2>1, <2>2
<1>6. RpsTypes' /\ Worker'
  BY <1>1, <1>5 DEF TableInv, RpsTypes, Worker, Idle
<1>7. ASSUME NEW n \in Slots, n # s
      PROVE  /\ rps'[n].time <= clock'
             /\ rps'[n].time = 0 \/ Slot(rps'[n].time) = n
             /\ \A u \in In(n)' : u <= rps'[n].time
             /\ rps'[n].time \notin torn' =>
                  rps'[n].value = cnt'[rps'[n].time] /\ (rps'[n].time # 0 => rps'[n].value > 0)
  <2>1. ~Taking(n) /\ rps'[n] = rps[n]
    BY <1>0, <1>5, <1>7 DEF Taking
  <2>2. /\ rps[n].time \in Nat /\ rps[n].time <= clock /\ (rps[n].time = 0 \/ Slot(rps[n].time) = n)
        /\ clock <= MaxClock /\ MaxClock \in Nat
    BY <1>3, RpsAssumption DEF TableInv, RpsTypes, Table
  <2>3. rps[n].time # wr.t /\ rps[n].time \in Seconds
    BY <1>0, <1>2, <1>7, <2>2 DEF Seconds
  <2>4. \A u \in In(n)' : u \in In(n)
    BY <1>0, <1>5, <1>7 DEF In, Seconds, Slot
  <2>5. \A u \in In(n)' : u <= rps'[n].time
    BY <2>1, <2>4 DEF TableInv, Table
  <2>6. rps[n].time \notin torn =>
          rps[n].value = cnt[rps[n].time] /\ (rps[n].time # 0 => rps[n].value > 0)
    BY <2>1 DEF TableInv, Table
  <2> QED BY <2>1, <2>2, <2>3, <2>5, <2>6, <1>1, <1>5
<1>8. ASSUME NEW u \in In(s)' PROVE u <= rps'[s].time
  <2>1. u \in Seconds /\ Slot(u) = s /\ cnt'[u] > 0
    BY <1>8 DEF In, Seconds, Slot
  <2>2. CASE u = wr.t
    BY <2>2, <1>2, <1>5
  <2>3. CASE u # wr.t
    <3>1. u \in In(s)
      BY <2>1, <2>3, <1>5 DEF In
    <3>2. u \in Int /\ u <= rps[s].time
      BY <2>1, <3>1, <1>2 DEF Seconds, TableInv, Table
    <3> QED BY <3>2, <1>2, <1>5
  <2> QED BY <2>2, <2>3
<1>9. cnt'[0] = 0
  BY <1>2, <1>5, RpsAssumption DEF TableInv, Table, Seconds
<1>10. Table'
  <2>1. rps'[s].time <= clock' /\ Slot(rps'[s].time) = s /\ rps'[s].value = cnt'[rps'[s].time] /\ rps'[s].value > 0
    BY <1>0, <1>1, <1>2, <1>5
  <2> QED BY <2>1, <1>7, <1>8, <1>9 DEF Table
<1> QED BY <1>6, <1>10 DEF TableInv

\* A worker killed between the two stores leaves the slot marked as torn.
LEMMA DieSafe == TableInv /\ Die => TableInv'
<1> SUFFICES ASSUME TableInv, Die PROVE TableInv'
  OBVIOUS
<1>1. /\ wr.pc # "idle" /\ wr' = Idle /\ UNCHANGED <<clock, rps, mon, cnt>>
      /\ torn' = IF wr.pc \in {"value", "time"} THEN torn \cup {rps[Slot(wr.t)].time} ELSE torn
  BY DEF Die
<1>2. RpsTypes' /\ Worker'
  BY <1>1 DEF TableInv, RpsTypes, Worker, Idle
<1>3. ASSUME NEW n \in Slots, rps[n].time \notin torn'
      PROVE  ~Taking(n) /\ rps[n].time \notin torn
  BY <1>1, <1>3 DEF Taking
<1> QED BY <1>1, <1>2, <1>3 DEF TableInv, Table, In

\* status_mon writes no slot.
LEMMA MonitorReads ==
  ASSUME TableInv, MonStart \/ CmpTime \/ AddMinite \/ AddAll \/ ShowFirst
  PROVE  TableInv' /\ UNCHANGED <<clock, rps, wr, cnt, torn>>
<1>1. UNCHANGED <<clock, rps, wr, cnt, torn>>
  BY DEF MonStart, CmpTime, AddMinite, AddAll, ShowFirst, Look
<1>2. Here.value \in Nat /\ rps[Slot(mon.ctime - 1)].value \in Nat
  <2>1. T2 \in Int /\ mon.ctime - 1 \in Int
    BY DEF TableInv, RpsTypes, Monitors, T2
  <2>2. Slot(T2) \in Slots /\ Slot(mon.ctime - 1) \in Slots
    BY <2>1, SlotType
  <2> QED BY <2>2 DEF TableInv, RpsTypes, Here
<1>3. mon' \in Monitors
  <2> mon \in Monitors /\ clock \in Nat
    BY RpsAssumption DEF TableInv, RpsTypes
  <2> DEFINE raced == mon.raced \/ Raced(mon.ctime)
  <2>0. raced \in BOOLEAN /\ Raced(clock) \in BOOLEAN
    BY DEF Raced, Monitors
  <2> HIDE DEF raced
  <2>1. CASE MonStart
    BY <2>0, <2>1 DEF MonStart, Monitors
  <2>2. ASSUME NEW m \in Monitors, Look(m), m.raced = mon.raced PROVE mon' \in Monitors
    BY <2>0, <2>2 DEF Look, Monitors, raced
  <2>3. \A m \in Monitors : NextSlot(m) \in Monitors /\ NextSlot(m).raced = m.raced
    <3> SUFFICES ASSUME NEW m \in Monitors
                 PROVE  NextSlot(m) \in Monitors /\ NextSlot(m).raced = m.raced
      OBVIOUS
    <3>1. /\ [m EXCEPT !.pc = "cmp", !.i = @ + 1] \in Monitors
          /\ [m EXCEPT !.pc = "cmp", !.i = @ + 1].raced = m.raced
      <4>1. m.i + 1 \in Nat
        BY DEF Monitors
      <4> QED BY <4>1 DEF Monitors
    <3>2. [m EXCEPT !.pc = "first"] \in Monitors /\ [m EXCEPT !.pc = "first"].raced = m.raced
      BY DEF Monitors
    <3>3. NextSlot(m) \in {[m EXCEPT !.pc = "cmp", !.i = @ + 1], [m EXCEPT !.pc = "first"]}
      BY Zenon DEF NextSlot
    <3> QED BY <3>1, <3>2, <3>3
  <2>4. CASE CmpTime
    <3>1. /\ [mon EXCEPT !.pc = "minite"] \in Monitors /\ [mon EXCEPT !.pc = "minite"].raced = mon.raced
          /\ [mon EXCEPT !.pc = "all"] \in Monitors /\ [mon EXCEPT !.pc = "all"].raced = mon.raced
      BY DEF Monitors
    <3> QED BY <2>2, <2>3, <2>4, <3>1 DEF CmpTime
  <2>5. CASE AddMinite
    <3> DEFINE m == [mon EXCEPT !.pc = "all", !.minite_v = @ + Here.value]
    <3>1. mon.minite_v + Here.value \in Nat
      BY <1>2 DEF Monitors
    <3>2. m \in Monitors /\ m.raced = mon.raced
      BY <3>1 DEF Monitors
    <3> QED BY <2>2, <2>5, <3>2 DEF AddMinite
  <2>6. CASE AddAll
    <3> DEFINE m == [mon EXCEPT !.all_v = @ + Here.value]
    <3>1. m \in Monitors /\ m.raced = mon.raced
      BY <1>2 DEF Monitors
    <3> QED BY <2>2, <2>3, <2>6, <3>1 DEF AddAll
  <2>7. CASE ShowFirst
    <3> DEFINE m == [mon EXCEPT !.pc = "done", !.first = rps[Slot(mon.ctime - 1)].value]
    <3>1. m \in Monitors /\ m.raced = mon.raced
      BY <1>2 DEF Monitors
    <3> QED BY <2>2, <2>7, <3>1 DEF ShowFirst
  <2> QED BY <2>1, <2>4, <2>5, <2>6, <2>7
<1>4. Table' /\ Worker'
  BY <1>1 DEF TableInv, Table, Worker, Taking, In
<1> QED BY <1>1, <1>3, <1>4 DEF TableInv, RpsTypes

\* No step of the worker, the clock or the monitor breaks the table.
LEMMA TableInductive == TableInv /\ [RpsNext]_rpsvars => TableInv'
<1>1. TableInv /\ UNCHANGED rpsvars => TableInv'
  BY DEF rpsvars, TableInv, RpsTypes, Table, Worker, Taking, In
<1> QED
  BY <1>1, SecondSafe, HitSafe, IncrementSafe, TakeSlotSafe, FillSlotSafe, DieSafe, MonitorReads
  DEF RpsNext

-----------------------------------------------------------------------------
(* status_mon's first number.                                              *)

\* What the worker's steps do to what the monitor has seen.
LEMMA WorkerSteps ==
  ASSUME TableInv, Second \/ Hit \/ Increment \/ TakeSlot \/ FillSlot \/ Die
  PROVE  /\ mon' = mon /\ torn \subseteq torn' /\ clock \in Int /\ clock' \in Int /\ clock <= clock'
         /\ wr'.pc = "idle" \/ wr'.t = clock \/ (wr.pc # "idle" /\ wr'.t = wr.t)
         /\ \A t \in Seconds : cnt'[t] # cnt[t] => wr.pc # "idle" /\ t = wr.t
<1> USE RpsAssumption DEF TableInv, RpsTypes
<1>1. CASE Second
  BY <1>1 DEF Second
<1>2. CASE Hit
  BY <1>2 DEF Hit
<1>3. CASE Increment
  BY <1>3 DEF Increment, Counted, Idle
<1>4. CASE TakeSlot
  BY <1>4 DEF TakeSlot
<1>5. CASE FillSlot
  BY <1>5 DEF FillSlot, Counted, Idle
<1>6. CASE Die
  BY <1>6 DEF Die, Idle
<1> QED BY <1>1, <1>2, <1>3, <1>4, <1>5, <1>6

\* A slot that no one is taking and that the current second does not use shows
\* the newest of its seconds.
LEMMA SlotShowsNewest ==
  ASSUME TableInv, torn = {}, mon.ctime \in RPS_N..clock, clock = mon.ctime,
         wr.pc = "idle" \/ wr.t >= mon.ctime
  PROVE  LET v == rps[Slot(mon.ctime - 1)].value
         IN  \/ Old = {} /\ v = 0
             \/ \E m \in Old : (\A u \in Old : u <= m) /\ v = cnt[m]
<1> PICK n \in Slots : n = Slot(mon.ctime - 1)
  BY SlotType, RpsAssumption DEF TableInv, RpsTypes, Monitors
<1>1. mon.ctime \in Nat /\ mon.ctime - 1 \in Nat /\ clock \in Nat /\ RPS_N \in Nat /\ mon.ctime > 0
  BY RpsAssumption DEF TableInv, RpsTypes
<1>2. Slot(mon.ctime) # n
  BY <1>1, RpsAssumption, SlotsApart
<1>3. ~Taking(n)
  BY <1>1, <1>2 DEF Taking, TableInv, Worker
<1> DEFINE t == rps[n].time
<1>4. /\ t \in Nat /\ t <= clock /\ (t = 0 \/ Slot(t) = n) /\ \A u \in In(n) : u <= t
      /\ rps[n].value = cnt[t] /\ (t # 0 => rps[n].value > 0) /\ cnt[0] = 0
  BY <1>3 DEF TableInv, Table, RpsTypes
<1>5. t # mon.ctime /\ t < mon.ctime /\ t \in Seconds
  <2>1. t # mon.ctime
    BY <1>1, <1>2, <1>4
  <2>2. clock <= MaxClock /\ MaxClock \in Nat
    BY RpsAssumption DEF TableInv, RpsTypes
  <2> HIDE DEF t
  <2> QED BY <1>1, <1>4, <2>1, <2>2 DEF Seconds
<1>6. \A u \in Old : u \in In(n) /\ u \in Nat /\ cnt[u] > 0
  BY DEF Old, In, Seconds
<1> HIDE DEF t
<1>7. CASE t = 0
  <2>1. \A u \in Old : FALSE
    BY <1>4, <1>6, <1>7
  <2> QED BY <2>1, <1>4, <1>7
<1>8. CASE t # 0
  <2>1. t \in Old
    BY <1>4, <1>5, <1>8 DEF Old, In
  <2> QED BY <2>1, <1>4, <1>6
<1> QED BY <1>7, <1>8

\* The worker's steps do not disturb an undisturbed look.
LEMMA WorkerUndisturbed ==
  ASSUME TableInv, Undisturbed, Second \/ Hit \/ Increment \/ TakeSlot \/ FillSlot \/ Die
  PROVE  Undisturbed'
<1>1. /\ mon' = mon /\ clock \in Int /\ clock' \in Int /\ clock <= clock'
      /\ wr'.pc = "idle" \/ wr'.t = clock \/ (wr.pc # "idle" /\ wr'.t = wr.t)
  BY WorkerSteps
<1>2. mon.ctime \in Int /\ RPS_N \in Int /\ wr.t \in Int
  BY RpsAssumption DEF TableInv, RpsTypes, Monitors
<1> QED BY <1>1, <1>2 DEF Undisturbed

\* A step of the loop on to the next slot, or out of it.
Advance ==
  \/ mon'.pc = "cmp" /\ mon'.i = mon.i + 1 /\ mon.i + 1 < RPS_N
  \/ mon'.pc = "first" /\ mon'.i = mon.i /\ ~(mon.i + 1 < RPS_N)

\* What an undisturbed look tells.
LEMMA NotRaced ==
  ASSUME NEW c \in Int, wr.t \in Int, ~Raced(c)
  PROVE  clock = c /\ (wr.pc = "idle" \/ wr.t >= c)
BY DEF Raced

\* What Look stores.
LEMMA Looked ==
  ASSUME mon \in Monitors, NEW m \in Monitors, m.raced = mon.raced, Look(m)
  PROVE  /\ mon'.pc = m.pc /\ mon'.ctime = m.ctime /\ mon'.i = m.i /\ mon'.minite_v = m.minite_v
         /\ mon'.all_v = m.all_v /\ mon'.first = m.first
         /\ (~mon'.raced => ~mon.raced /\ ~Raced(mon.ctime))
         /\ UNCHANGED <<clock, rps, wr, cnt, torn>>
BY DEF Look, Monitors

\* The next slot, whatever was added before.
LEMMA Advanced ==
  ASSUME mon \in Monitors, NEW m \in Monitors, m.raced = mon.raced, m.i = mon.i, m.ctime = mon.ctime,
         Look(NextSlot(m))
  PROVE  /\ Advance /\ mon'.ctime = mon.ctime
         /\ mon'.minite_v = m.minite_v /\ mon'.all_v = m.all_v
         /\ (~mon'.raced => ~mon.raced /\ ~Raced(mon.ctime))
         /\ UNCHANGED <<clock, rps, wr, cnt, torn>>
<1>1. m.i + 1 \in Nat
  BY DEF Monitors
<1>2. CASE m.i + 1 < RPS_N
  <2> DEFINE n == [m EXCEPT !.pc = "cmp", !.i = m.i + 1]
  <2>1. n \in Monitors /\ n.raced = mon.raced /\ n.i = m.i + 1 /\ n.pc = "cmp" /\ n.ctime = m.ctime
        /\ n.minite_v = m.minite_v /\ n.all_v = m.all_v
    BY <1>1 DEF Monitors
  <2>2. Look(n)
    BY <1>2 DEF NextSlot
  <2> HIDE DEF n
  <2> QED BY <1>2, <2>1, <2>2, Looked DEF Advance
<1>3. CASE ~(m.i + 1 < RPS_N)
  <2> DEFINE n == [m EXCEPT !.pc = "first"]
  <2>1. n \in Monitors /\ n.raced = mon.raced /\ n.i = m.i /\ n.pc = "first" /\ n.ctime = m.ctime
        /\ n.minite_v = m.minite_v /\ n.all_v = m.all_v
    BY DEF Monitors
  <2>2. Look(n)
    BY <1>3 DEF NextSlot
  <2> HIDE DEF n
  <2> QED BY <1>3, <2>1, <2>2, Looked DEF Advance
<1> QED BY <1>2, <1>3

\* The steps of status_mon after its first, field by field.
Moves ==
  /\ mon'.ctime = mon.ctime /\ (~mon'.raced => ~mon.raced /\ ~Raced(mon.ctime))
  /\ \/ /\ mon.pc = "cmp" /\ Here.time # T2 /\ Advance
        /\ mon'.minite_v = mon.minite_v /\ mon'.all_v = mon.all_v
     \/ /\ mon.pc = "cmp" /\ Here.time = T2 /\ mon'.i = mon.i
        /\ \/ mon'.pc = "minite" /\ mon.i < Minite
           \/ mon'.pc = "all" /\ ~(mon.i < Minite)
        /\ mon'.minite_v = mon.minite_v /\ mon'.all_v = mon.all_v
     \/ /\ mon.pc = "minite" /\ mon'.pc = "all" /\ mon'.i = mon.i
        /\ mon'.minite_v = mon.minite_v + Here.value /\ mon'.all_v = mon.all_v
     \/ /\ mon.pc = "all" /\ Advance
        /\ mon'.minite_v = mon.minite_v /\ mon'.all_v = mon.all_v + Here.value
     \/ /\ mon.pc = "first" /\ mon'.pc = "done" /\ mon'.i = mon.i
        /\ mon'.minite_v = mon.minite_v /\ mon'.all_v = mon.all_v
        /\ mon'.first = rps[Slot(mon.ctime - 1)].value

\* The steps of status_mon do that, and write nothing but its variables.
LEMMA MonitorMoves ==
  ASSUME TableInv, CmpTime \/ AddMinite \/ AddAll \/ ShowFirst
  PROVE  Moves /\ UNCHANGED <<clock, rps, wr, cnt, torn>>
<1>1. mon \in Monitors
  BY DEF TableInv, RpsTypes
<1>2. Here.value \in Nat /\ rps[Slot(mon.ctime - 1)].value \in Nat
  <2>1. T2 \in Int /\ mon.ctime - 1 \in Int
    BY <1>1 DEF Monitors, T2
  <2>2. Slot(T2) \in Slots /\ Slot(mon.ctime - 1) \in Slots
    BY <2>1, SlotType
  <2> QED BY <2>2 DEF TableInv, RpsTypes, Here
<1>3. CASE CmpTime
  <2>1. CASE Here.time # T2
    <3>1. mon.pc = "cmp" /\ Look(NextSlot(mon))
      BY <1>3, <2>1 DEF CmpTime
    <3> QED BY <1>1, <2>1, <3>1, Advanced DEF Moves
  <2>2. CASE Here.time = T2
    <3> DEFINE c == IF mon.i < Minite THEN "minite" ELSE "all"
               n == [mon EXCEPT !.pc = c]
    <3>1. mon.pc = "cmp" /\ Look(n)
      BY <1>3, <2>2 DEF CmpTime
    <3>2. \/ c = "minite" /\ mon.i < Minite
          \/ c = "all" /\ ~(mon.i < Minite)
      OBVIOUS
    <3> HIDE DEF c
    <3>3. n \in Monitors /\ n.raced = mon.raced /\ n.i = mon.i /\ n.pc = c /\ n.ctime = mon.ctime
          /\ n.minite_v = mon.minite_v /\ n.all_v = mon.all_v
      BY <1>1, <3>2 DEF Monitors
    <3> HIDE DEF n
    <3> QED BY <1>1, <2>2, <3>1, <3>2, <3>3, Looked DEF Moves
  <2> QED BY <2>1, <2>2
<1>4. CASE AddMinite
  <2> DEFINE v == mon.minite_v + Here.value
             n == [mon EXCEPT !.pc = "all", !.minite_v = v]
  <2>1. mon.pc = "minite" /\ Look(n)
    BY <1>4 DEF AddMinite
  <2>2. v \in Nat
    BY <1>1, <1>2 DEF Monitors
  <2> HIDE DEF v
  <2>3. n \in Monitors /\ n.raced = mon.raced /\ n.i = mon.i /\ n.pc = "all" /\ n.ctime = mon.ctime
        /\ n.minite_v = v /\ n.all_v = mon.all_v
    BY <1>1, <2>2 DEF Monitors
  <2> HIDE DEF n
  <2> QED BY <1>1, <2>1, <2>3, Looked DEF Moves, v
<1>5. CASE AddAll
  <2> DEFINE v == mon.all_v + Here.value
             n == [mon EXCEPT !.all_v = v]
  <2>1. mon.pc = "all" /\ Look(NextSlot(n))
    BY <1>5 DEF AddAll
  <2>2. v \in Nat
    BY <1>1, <1>2 DEF Monitors
  <2> HIDE DEF v
  <2>3. n \in Monitors /\ n.raced = mon.raced /\ n.i = mon.i /\ n.ctime = mon.ctime
        /\ n.minite_v = mon.minite_v /\ n.all_v = v
    BY <1>1, <2>2 DEF Monitors
  <2> HIDE DEF n
  <2> QED BY <1>1, <2>1, <2>3, Advanced DEF Moves, v
<1>6. CASE ShowFirst
  <2> DEFINE v == rps[Slot(mon.ctime - 1)].value
             n == [mon EXCEPT !.pc = "done", !.first = v]
  <2>1. mon.pc = "first" /\ Look(n)
    BY <1>6 DEF ShowFirst
  <2>2. n \in Monitors /\ n.raced = mon.raced /\ n.i = mon.i /\ n.pc = "done" /\ n.ctime = mon.ctime
        /\ n.minite_v = mon.minite_v /\ n.all_v = mon.all_v /\ n.first = v
    BY <1>1, <1>2 DEF Monitors
  <2> HIDE DEF n
  <2> QED BY <1>1, <2>1, <2>2, Looked DEF Moves
<1> QED BY <1>3, <1>4, <1>5, <1>6

\* The steps of status_mon keep it inside its loop.
LEMMA MonitorUndisturbed ==
  ASSUME TableInv, Undisturbed, MonStart \/ CmpTime \/ AddMinite \/ AddAll \/ ShowFirst
  PROVE  Undisturbed'
<1>1. RPS_N \in Int /\ RPS_N > 1 /\ clock \in RPS_N..MaxClock /\ wr.t \in Int
  BY RpsAssumption DEF TableInv, RpsTypes
<1>2. CASE MonStart
  <2>1. /\ mon'.ctime = clock /\ mon'.i = 1 /\ (~mon'.raced => ~Raced(clock))
        /\ UNCHANGED <<clock, wr>>
    BY <1>2 DEF MonStart
  <2>2. ~Raced(clock) => wr.pc = "idle" \/ wr.t >= clock
    BY <1>1, RpsAssumption, NotRaced
  <2>3. clock \in RPS_N..clock /\ 1 \in 1..(RPS_N - 1)
    BY <1>1, RpsAssumption
  <2> QED BY <2>1, <2>2, <2>3 DEF Undisturbed
<1>3. CASE CmpTime \/ AddMinite \/ AddAll \/ ShowFirst
  <2>1. Moves /\ UNCHANGED <<clock, wr>>
    BY <1>3, MonitorMoves
  <2>2. mon.pc # "off"
    BY <2>1 DEF Moves
  <2>3. mon'.ctime \in RPS_N..clock' /\ mon'.i \in 1..(RPS_N - 1)
    BY <1>1, <2>1, <2>2 DEF Moves, Advance, Undisturbed
  <2>4. mon.ctime \in Int
    BY <2>2 DEF Undisturbed
  <2>5. ~mon'.raced => wr.pc = "idle" \/ wr.t >= mon.ctime
    BY <1>1, <2>1, <2>4, RpsAssumption, NotRaced DEF Moves
  <2> QED BY <2>1, <2>3, <2>5 DEF Moves, Undisturbed
<1> QED BY <1>2, <1>3

-----------------------------------------------------------------------------
(* status_mon's averages.                                                  *)

\* The requests of one second more.
LEMMA RequestsNext ==
  ASSUME TableInv, Undisturbed, mon.pc # "off", NEW k \in 1..(RPS_N - 1)
  PROVE  Requests(k) = Requests(k - 1) + cnt[mon.ctime - k]
<1> DEFINE f == [i \in 1..(k - 1) |-> cnt[mon.ctime - i]]
           g == [i \in 1..k |-> cnt[mon.ctime - i]]
           x == cnt[mon.ctime - k]
<1>1. /\ RPS_N \in Nat /\ mon.ctime \in Nat /\ mon.ctime >= RPS_N /\ mon.ctime <= MaxClock
      /\ MaxClock \in Nat /\ cnt \in [Seconds -> Nat]
  BY RpsAssumption DEF Undisturbed, TableInv, RpsTypes, Monitors
<1>2. \A i \in 1..k : mon.ctime - i \in Seconds
  BY <1>1 DEF Seconds
<1>3. \A i \in 1..k : cnt[mon.ctime - i] \in Nat
  BY <1>1, <1>2
<1>4. k \in Nat /\ k - 1 \in Nat /\ (k - 1) + 1 = k /\ 1..(k - 1) \subseteq 1..k /\ k \in 1..k
  BY <1>1
<1>5. f \in Seq(Nat) /\ Len(f) = k - 1
  <2>1. f \in [1..(k - 1) -> Nat]
    BY <1>3, <1>4
  <2> QED BY <1>4, <2>1
<1>6. x \in Nat
  BY <1>3, <1>4
<1>7. g = Append(f, x)
  <2>0. Append(f, x) \in Seq(Nat) /\ Len(Append(f, x)) = k
    BY <1>4, <1>5, <1>6
  <2>1. Append(f, x) \in [1..k -> Nat]
    <3> DEFINE e == Append(f, x)
    <3>1. e \in Seq(Nat) /\ Len(e) = k
      BY <2>0
    <3> HIDE DEF e
    <3>2. e \in [1..Len(e) -> Nat]
      BY <3>1
    <3> QED BY <3>1, <3>2 DEF e
  <2>2. ASSUME NEW i \in 1..k PROVE Append(f, x)[i] = g[i]
    <3>1. CASE i = k
      BY <1>4, <1>5, <3>1
    <3>2. CASE i # k
      <4>1. i \in 1..(k - 1)
        BY <1>4, <3>2
      <4> QED BY <1>4, <1>5, <4>1
    <3> QED BY <3>1, <3>2
  <2> QED BY <2>1, <2>2
<1> HIDE DEF f, g, x
<1>8. SumOf(g) = SumOf(f) + x
  BY <1>5, <1>6, <1>7, SumAppend
<1> QED BY <1>8 DEF Requests, f, g, x

\* While no second has passed, a slot with another time than T2 has no request
\* of T2, and one with that time has the count of T2.
LEMMA SlotSeen ==
  ASSUME TableInv, Undisturbed, mon.pc # "off", Clean, clock = mon.ctime
  PROVE  /\ Here.time # T2 => cnt[T2] = 0
         /\ Here.time = T2 => Here.value = cnt[T2]
         /\ ~Taking(Slot(T2))
<1>1. /\ RPS_N \in Nat /\ clock \in Nat /\ clock >= RPS_N /\ clock <= MaxClock
      /\ MaxClock \in Nat /\ cnt \in [Seconds -> Nat] /\ mon.i \in 1..(RPS_N - 1)
  BY RpsAssumption DEF Undisturbed, TableInv, RpsTypes, Monitors
<1> DEFINE i == mon.i
<1>a. T2 = clock - i /\ i \in Int /\ 1 <= i /\ i <= RPS_N - 1
  BY <1>1 DEF T2
<1> HIDE DEF i
<1>2. T2 \in Nat /\ T2 \in Seconds /\ T2 < clock /\ clock - T2 < RPS_N /\ T2 # 0 /\ T2 = clock - i
  <2> DEFINE t == T2
  <2>1. t = clock - i
    BY <1>a
  <2> HIDE DEF t
  <2>2. t \in Nat /\ t <= MaxClock /\ t < clock /\ clock - t < RPS_N /\ t # 0
    BY <1>1, <1>a, <2>1
  <2>3. t \in Seconds
    BY <1>1, <2>2 DEF Seconds
  <2> QED BY <2>1, <2>2, <2>3 DEF t
<1>3. Slot(T2) # Slot(clock) /\ Slot(T2) \in Slots
  BY <1>1, <1>2, SlotsApart, SlotType
<1>4. ~Taking(Slot(T2))
  BY <1>1, <1>3 DEF Taking, Undisturbed, Clean, TableInv, Worker
<1> DEFINE t == Here.time
<1>5. /\ t \in Nat /\ t <= clock /\ (t = 0 \/ Slot(t) = Slot(T2))
      /\ \A u \in In(Slot(T2)) : u <= t
      /\ t \notin torn => Here.value = cnt[t]
  BY <1>3, <1>4 DEF TableInv, Table, RpsTypes, Here
<1> HIDE DEF t
<1>6. ASSUME t # T2, cnt[T2] # 0 PROVE FALSE
  <2>1. T2 \in In(Slot(T2))
    BY <1>1, <1>2, <1>6 DEF In
  <2>2. T2 <= t
    BY <1>5, <2>1
  <2>3. t \in Nat /\ T2 < t /\ t - T2 < RPS_N /\ Slot(t) = Slot(T2)
    BY <1>1, <1>2, <1>5, <1>6, <2>2
  <2> QED BY <1>2, <2>3, SlotsApart
<1>7. T2 \notin torn
  <2>1. T2 \in Window(RPS_N - 1)
    BY <1>1 DEF T2, Window
  <2> QED BY <2>1 DEF Clean
<1> QED BY <1>4, <1>5, <1>6, <1>7 DEF t

\* The worker's steps leave what status_mon has added up.
LEMMA WorkerAdding ==
  ASSUME TableInv, Undisturbed, Adding, Second \/ Hit \/ Increment \/ TakeSlot \/ FillSlot \/ Die
  PROVE  Adding'
<1>1. /\ mon' = mon /\ torn \subseteq torn' /\ clock \in Int /\ clock' \in Int /\ clock <= clock'
      /\ \A t \in Seconds : cnt'[t] # cnt[t] => wr.pc # "idle" /\ t = wr.t
  BY WorkerSteps
<1>2. CASE mon.pc = "off"
  BY <1>1, <1>2 DEF Adding
<1>3. CASE mon.pc # "off"
  <2>0. /\ RPS_N \in Nat /\ mon.ctime \in Nat /\ mon.ctime >= RPS_N /\ mon.ctime <= clock
        /\ clock <= MaxClock /\ MaxClock \in Nat /\ mon.i \in 1..(RPS_N - 1) /\ wr.t \in Nat
        /\ mon.i \in Nat /\ Minite \in Nat
    BY <1>3, RpsAssumption DEF Undisturbed, TableInv, RpsTypes, Monitors
  <2> SUFFICES ASSUME Clean' PROVE Adding'
    BY DEF Adding
  <2>1. Clean
    BY <1>1 DEF Clean, Window
  <2>2. wr.pc = "idle" \/ wr.t >= mon.ctime
    BY <1>3, <2>1 DEF Undisturbed, Clean
  <2>3. \A i \in 1..(RPS_N - 1) : cnt'[mon.ctime - i] = cnt[mon.ctime - i]
    <3> TAKE i \in 1..(RPS_N - 1)
    <3> DEFINE t == mon.ctime - i
    <3>0. i \in Int /\ 1 <= i /\ i < RPS_N
      BY <2>0
    <3>1. t \in Int /\ 0 <= t /\ t <= MaxClock /\ t < mon.ctime
      <4> DEFINE c == mon.ctime
      <4>0. clock \in Int
        BY <1>1
      <4>1. c \in Int /\ c >= RPS_N /\ c <= MaxClock
        BY <2>0, <4>0
      <4> HIDE DEF c
      <4>2. c - i \in Int /\ 0 <= c - i /\ c - i <= MaxClock /\ c - i < c
        BY <2>0, <3>0, <4>1
      <4> QED BY <4>2 DEF c
    <3>2. t \in Seconds
      BY <2>0, <3>1 DEF Seconds
    <3> HIDE DEF t
    <3>3. cnt'[t] = cnt[t]
      BY <1>1, <2>0, <2>2, <3>1, <3>2
    <3> QED BY <3>3 DEF t
  <2>4. ASSUME NEW k \in Int, k <= RPS_N - 1
        PROVE  Requests(k)' = Requests(k)
    <3>1. [i \in 1..k |-> cnt'[mon.ctime - i]] = [i \in 1..k |-> cnt[mon.ctime - i]]
      BY <2>0, <2>3, <2>4
    <3> QED BY <1>1, <3>1 DEF Requests
  <2>5. /\ Requests(mon.i - 1)' = Requests(mon.i - 1)
        /\ Requests(RPS_N - 1)' = Requests(RPS_N - 1)
        /\ Requests(Smaller(Minite, mon.i) - 1)' = Requests(Smaller(Minite, mon.i) - 1)
        /\ Requests(Smaller(Minite, mon.i + 1) - 1)' = Requests(Smaller(Minite, mon.i + 1) - 1)
        /\ Requests(Smaller(Minite, RPS_N) - 1)' = Requests(Smaller(Minite, RPS_N) - 1)
    BY <1>1, <2>0, <2>4 DEF Smaller
  <2>6. mon.pc \in {"minite", "all"} /\ clock' = mon.ctime => Here'.time = T2
    <3> SUFFICES ASSUME mon.pc \in {"minite", "all"}, clock' = mon.ctime PROVE Here'.time = T2
      OBVIOUS
    <3>1. clock = mon.ctime
      BY <1>1, <2>0
    <3>2. Here.time = T2
      BY <2>1, <3>1 DEF Adding
    <3>3. wr.pc # "idle" => wr.t = clock
      BY <2>0, <2>2, <3>1 DEF TableInv, Worker
    <3>4. T2 \in Nat /\ T2 < clock /\ clock - T2 < RPS_N
      BY <2>0, <3>1 DEF T2
    <3>5. Slot(T2) # Slot(clock) /\ Slot(T2) \in Slots
      BY <2>0, <3>1, <3>4, SlotsApart, SlotType
    <3>6. \A n \in Slots : wr.pc = "idle" \/ n # Slot(wr.t) => rps'[n] = rps[n]
      BY DEF Second, Hit, Increment, TakeSlot, FillSlot, Die, TableInv, RpsTypes
    <3>7. rps'[Slot(T2)] = rps[Slot(T2)]
      BY <3>3, <3>5, <3>6
    <3> QED BY <1>1, <3>2, <3>7 DEF Here, T2, Slot
  <2>7. T2' = T2
    BY <1>1 DEF T2
  <2> QED BY <1>1, <2>1, <2>5, <2>6, <2>7 DEF Adding
<1> QED BY <1>2, <1>3

\* Each look adds the second it is about, once.
LEMMA MonitorAdding ==
  ASSUME TableInv, Undisturbed, Adding, MonStart \/ CmpTime \/ AddMinite \/ AddAll \/ ShowFirst
  PROVE  Adding'
<1>0. RPS_N \in Nat /\ RPS_N > 1 /\ Minite \in Nat /\ clock \in Nat
  BY RpsAssumption DEF TableInv, RpsTypes
<1>1. CASE MonStart
  <2>1. mon'.pc = "cmp" /\ mon'.i = 1 /\ mon'.all_v = 0 /\ mon'.minite_v = 0
    BY <1>1 DEF MonStart
  <2>2. \A k \in Int : k <= 0 => Requests(k)' = 0
    <3> TAKE k \in Int
    <3>1. k <= 0 => [i \in 1..k |-> cnt'[mon'.ctime - i]] = <<>>
      OBVIOUS
    <3> QED BY <3>1, SumEmpty DEF Requests
  <2>3. Smaller(Minite, 1) - 1 \in Int /\ Smaller(Minite, 1) - 1 <= 0
    BY <1>0 DEF Smaller
  <2>4. Requests(0)' = 0 /\ Requests(Smaller(Minite, 1) - 1)' = 0
    BY <2>2, <2>3
  <2> QED BY <2>1, <2>4 DEF Adding
<1>2. CASE CmpTime \/ AddMinite \/ AddAll \/ ShowFirst
  <2>1. Moves /\ UNCHANGED <<clock, rps, wr, cnt, torn>>
    BY <1>2, MonitorMoves
  <2>2. mon.pc # "off"
    BY <2>1 DEF Moves
  <2> SUFFICES ASSUME Clean' PROVE Adding'
    BY DEF Adding
  <2>3. Clean /\ ~Raced(mon.ctime) /\ mon'.ctime = mon.ctime
    BY <2>1 DEF Moves, Clean, Window
  <2>4. clock = mon.ctime
    BY <2>3 DEF Raced
  <2>5. \A k \in Int : Requests(k)' = Requests(k)
    BY <2>1, <2>3 DEF Requests
  <2>6. PICK i \in 1..(RPS_N - 1) : i = mon.i
    BY <2>2 DEF Undisturbed
  <2>7. PICK c \in Nat : c = cnt[T2]
    <3>1. mon.ctime \in RPS_N..clock /\ clock <= MaxClock /\ MaxClock \in Nat
      BY <2>2, RpsAssumption DEF Undisturbed, TableInv, RpsTypes
    <3>2. mon.ctime - i \in Seconds
      BY <1>0, <3>1 DEF Seconds
    <3> QED BY <2>6, <3>2 DEF T2, TableInv, RpsTypes
  <2>8. mon.all_v \in Nat /\ mon.minite_v \in Nat /\ i \in Nat /\ i > 0 /\ i < RPS_N
    BY <1>0 DEF TableInv, RpsTypes, Monitors
  <2> DEFINE all(k) == Requests(k - 1)
             min(k) == Requests(Smaller(Minite, k) - 1)
  <2>9. all(i + 1) = all(i) + c
    <3>1. Requests(i) = Requests(i - 1) + cnt[mon.ctime - i]
      BY <2>2, RequestsNext
    <3>2. (i + 1) - 1 = i
      BY <2>8
    <3> QED BY <2>6, <2>7, <3>1, <3>2 DEF T2
  <2>10. /\ i < Minite => min(i) = all(i) /\ min(i + 1) = all(i + 1)
         /\ ~(i < Minite) => min(i + 1) = min(i)
    <3>1. i < Minite => Smaller(Minite, i) = i /\ Smaller(Minite, i + 1) = i + 1
      BY <1>0, <2>8 DEF Smaller
    <3>2. ~(i < Minite) => Smaller(Minite, i) = Minite /\ Smaller(Minite, i + 1) = Minite
      BY <1>0, <2>8 DEF Smaller
    <3> QED BY <3>1, <3>2
  <2>11. /\ mon.pc \in {"minite", "all"} => Here.time = T2
         /\ mon.pc \in {"cmp", "minite", "all"} => mon.all_v = all(i)
         /\ mon.pc \in {"cmp", "minite"} => mon.minite_v = min(i)
         /\ mon.pc = "minite" => i < Minite
         /\ mon.pc = "all" => mon.minite_v = min(i + 1)
         /\ mon.pc \in {"first", "done"} => mon.all_v = all(RPS_N) /\ mon.minite_v = min(RPS_N)
    BY <2>3, <2>4, <2>6 DEF Adding
  <2>12. (Here.time # T2 => c = 0) /\ (Here.time = T2 => Here.value = c)
    BY <2>2, <2>3, <2>4, <2>7, SlotSeen
  <2>13. ASSUME NEW k \in Nat
         PROVE  Requests(Smaller(Minite, k) - 1)' = min(k) /\ Requests(k - 1)' = all(k)
    BY <1>0, <2>5, <2>13 DEF Smaller
  <2>14. CASE Advance /\ mon'.all_v = all(i + 1) /\ mon'.minite_v = min(i + 1)
    <3>1. CASE mon'.pc = "cmp" /\ mon'.i = i + 1
      <4>1. Requests(mon.i - 1)' = all(i + 1) /\ Requests(Smaller(Minite, mon.i) - 1)' = min(i + 1)
        BY <2>8, <2>13, <3>1
      <4> HIDE DEF all, min
      <4> QED BY <2>14, <3>1, <4>1 DEF Adding
    <3>2. CASE mon'.pc = "first" /\ i + 1 = RPS_N
      <4>1. Requests(RPS_N - 1)' = all(i + 1) /\ Requests(Smaller(Minite, RPS_N) - 1)' = min(i + 1)
        BY <1>0, <2>13, <3>2
      <4> HIDE DEF all, min
      <4> QED BY <2>14, <3>2, <4>1 DEF Adding
    <3> QED BY <1>0, <2>6, <2>8, <2>14, <3>1, <3>2 DEF Advance
  <2>15. CASE /\ mon'.pc \in {"minite", "all"} /\ mon'.i = i /\ mon'.all_v = all(i) /\ Here.time = T2
              /\ mon'.pc = "minite" => mon'.minite_v = min(i) /\ i < Minite
              /\ mon'.pc = "all" => mon'.minite_v = min(i + 1)
    <3>1. /\ Requests(mon.i - 1)' = all(i) /\ Requests(Smaller(Minite, mon.i) - 1)' = min(i)
          /\ Requests(Smaller(Minite, mon.i + 1) - 1)' = min(i + 1)
      BY <2>8, <2>13, <2>15
    <3>2. (Here.time = T2)'
      BY <2>1, <2>3, <2>6, <2>15 DEF T2, Here, Slot
    <3> HIDE DEF all, min
    <3> QED BY <2>15, <3>1, <3>2 DEF Adding
  <2>16. CASE mon'.pc = "done" /\ mon'.all_v = all(RPS_N) /\ mon'.minite_v = min(RPS_N)
    <3>1. Requests(RPS_N - 1)' = all(RPS_N) /\ Requests(Smaller(Minite, RPS_N) - 1)' = min(RPS_N)
      BY <1>0, <2>13
    <3> HIDE DEF all, min
    <3> QED BY <2>16, <3>1 DEF Adding
  <2> HIDE DEF all, min
  <2>17. CASE mon.pc = "cmp" /\ Here.time # T2
    <3>1. Advance /\ mon'.all_v = mon.all_v /\ mon'.minite_v = mon.minite_v
      BY <2>1, <2>17 DEF Moves
    <3>2. all(i + 1) = all(i) /\ min(i + 1) = min(i)
      BY <2>8, <2>9, <2>10, <2>11, <2>12, <2>17
    <3> QED BY <2>11, <2>14, <2>17, <3>1, <3>2
  <2>18. CASE mon.pc = "cmp" /\ Here.time = T2
    <3>1. /\ mon'.i = i /\ mon'.all_v = mon.all_v /\ mon'.minite_v = mon.minite_v
          /\ \/ mon'.pc = "minite" /\ i < Minite
             \/ mon'.pc = "all" /\ ~(i < Minite)
      BY <2>1, <2>6, <2>18 DEF Moves
    <3> QED BY <2>10, <2>11, <2>15, <2>18, <3>1
  <2>19. CASE mon.pc = "minite"
    <3>1. /\ mon'.pc = "all" /\ mon'.i = i
          /\ mon'.minite_v = mon.minite_v + Here.value /\ mon'.all_v = mon.all_v
      BY <2>1, <2>6, <2>19 DEF Moves
    <3>2. mon'.minite_v = min(i + 1)
      BY <2>9, <2>10, <2>11, <2>12, <2>19, <3>1
    <3> QED BY <2>11, <2>15, <2>19, <3>1, <3>2
  <2>20. CASE mon.pc = "all"
    <3>1. Advance /\ mon'.minite_v = mon.minite_v /\ mon'.all_v = mon.all_v + Here.value
      BY <2>1, <2>20 DEF Moves
    <3> QED BY <2>9, <2>11, <2>12, <2>14, <2>20, <3>1
  <2>21. CASE mon.pc = "first"
    <3>1. mon'.pc = "done" /\ mon'.all_v = mon.all_v /\ mon'.minite_v = mon.minite_v
      BY <2>1, <2>21 DEF Moves
    <3> QED BY <2>11, <2>16, <2>21, <3>1
  <2> QED BY <2>1, <2>17, <2>18, <2>19, <2>20, <2>21 DEF Moves
<1> QED BY <1>1, <1>2

\* Worker, monitor and clock keep the invariant.
LEMMA Inductive == IInv /\ [RpsNext]_rpsvars => IInv'
<1> SUFFICES ASSUME IInv, [RpsNext]_rpsvars PROVE IInv'
  OBVIOUS
<1>1. TableInv /\ TableInv' /\ Undisturbed /\ Adding
  BY TableInductive DEF IInv
<1>2. CASE Second \/ Hit \/ Increment \/ TakeSlot \/ FillSlot \/ Die
  <2>1. /\ mon' = mon /\ torn \subseteq torn' /\ clock \in Int /\ clock' \in Int /\ clock <= clock'
        /\ wr'.pc = "idle" \/ wr'.t = clock \/ (wr.pc # "idle" /\ wr'.t = wr.t)
        /\ \A t \in Seconds : cnt'[t] # cnt[t] => wr.pc # "idle" /\ t = wr.t
    BY <1>1, <1>2, WorkerSteps
  <2>2. mon.ctime \in Int /\ RPS_N \in Int /\ wr.t \in Int
    BY <1>1, RpsAssumption DEF TableInv, RpsTypes, Monitors
  <2>3. Undisturbed' /\ Adding'
    BY <1>1, <1>2, WorkerUndisturbed, WorkerAdding
  <2>4. ASSUME mon.pc = "done", ~mon.raced PROVE Old' = Old /\ \A t \in Old : cnt'[t] = cnt[t]
    <3>1. \A t \in Seconds : t < mon.ctime => cnt'[t] = cnt[t]
      BY <2>1, <2>2, <2>4, <1>1 DEF Undisturbed
    <3>2. ASSUME NEW t \in Seconds PROVE t \in Old' <=> t \in Old
      BY <2>1, <3>1 DEF Old, In, Slot, Seconds
    <3> QED BY <3>1, <3>2 DEF Old, In, Seconds
  <2>5. FirstIsNewest'
    BY <2>1, <2>4 DEF IInv, FirstIsNewest
  <2> QED BY <1>1, <2>3, <2>5 DEF IInv
<1>3. CASE MonStart \/ CmpTime \/ AddMinite \/ AddAll \/ ShowFirst
  <2>1. UNCHANGED <<clock, rps, wr, cnt, torn>>
    BY <1>1, <1>3, MonitorReads
  <2>2. Undisturbed' /\ Adding'
    BY <1>1, <1>3, MonitorUndisturbed, MonitorAdding
  <2>3. CASE MonStart
    <3>1. mon'.pc = "cmp"
      BY <2>3 DEF MonStart
    <3> QED BY <1>1, <2>2, <3>1 DEF IInv, FirstIsNewest
  <2>4. CASE CmpTime \/ AddMinite \/ AddAll \/ ShowFirst
    <3>1. Moves
      BY <1>1, <2>4, MonitorMoves
    <3>2. CASE mon'.pc # "done"
      BY <1>1, <2>2, <3>2 DEF IInv, FirstIsNewest
    <3>3. CASE mon'.pc = "done"
      <4>1. /\ mon.pc = "first" /\ mon'.ctime = mon.ctime
            /\ mon'.first = rps[Slot(mon.ctime - 1)].value
            /\ (~mon'.raced => ~mon.raced /\ ~Raced(mon.ctime))
        BY <3>1, <3>3 DEF Moves, Advance
      <4>2. Old' = Old
        BY <2>1, <4>1 DEF Old, In, Slot, Seconds
      <4> SUFFICES ASSUME ~mon'.raced, torn = {}
                   PROVE  \/ Old = {} /\ mon'.first = 0
                          \/ \E m \in Old : (\A u \in Old : u <= m) /\ mon'.first = cnt[m]
        BY <1>1, <2>1, <2>2, <4>2 DEF IInv, FirstIsNewest
      <4>3. mon.ctime \in RPS_N..clock /\ wr.t \in Int /\ mon.ctime \in Int
        BY <1>1, <4>1 DEF Undisturbed, TableInv, RpsTypes, Monitors
      <4>4. clock = mon.ctime /\ (wr.pc = "idle" \/ wr.t >= mon.ctime)
        BY <4>1, <4>3, NotRaced
      <4> QED BY <1>1, <4>1, <4>3, <4>4, SlotShowsNewest
    <3> QED BY <3>2, <3>3
  <2> QED BY <1>3, <2>3, <2>4
<1>4. CASE UNCHANGED rpsvars
  BY <1>1, <1>4 DEF rpsvars, IInv, Undisturbed, FirstIsNewest, Old, In, Adding, Clean, Here, T2,
     Requests, Window
<1> QED BY <1>2, <1>3, <1>4 DEF RpsNext

\* The invariant holds whatever else the segment is used for.
LEMMA Invariant == SegSpec => []IInv
<1>1. SegInit => IInv
  BY Initially DEF SegInit
<1>2. IInv /\ [SegNext]_segvars => IInv'
  BY Inductive DEF SegNext, segvars, Logcat, Stat
<1> QED BY <1>1, <1>2, PTL DEF SegSpec

\* Between two requests every slot that no dying worker left half written has
\* the exact count of the newest second counted in it: no request is lost and
\* none of an older second is kept, in either order of the two stores.
THEOREM SlotsAreExact == SegSpec => []SlotExact
<1>1. IInv => SlotExact
  <2> SUFFICES ASSUME IInv, wr.pc = "idle", NEW n \in Slots, rps[n].time \notin torn
               PROVE  rps[n].value = cnt[rps[n].time] /\ \A u \in In(n) : u <= rps[n].time
    BY DEF SlotExact, IInv, TableInv, RpsTypes
  <2> QED BY DEF IInv, TableInv, Table, Taking
<1> QED BY <1>1, Invariant, PTL

\* The number status_mon prints first is that of the newest second before its
\* look that used the slot, exactly; 0 only if there was none.
THEOREM LastSecondIsNewest == SegSpec => []LastSecond
<1>1. IInv => LastSecond
  <2> SUFFICES ASSUME IInv, mon.pc = "done", ~mon.raced, torn = {}
               PROVE  mon.first = IF Old = {} THEN 0 ELSE cnt[Max(Old)]
    BY DEF LastSecond, Old
  <2>1. CASE Old = {}
    BY <2>1 DEF IInv, FirstIsNewest
  <2>2. CASE Old # {}
    <3>1. PICK m \in Old : (\A u \in Old : u <= m) /\ mon.first = cnt[m]
      BY <2>2 DEF IInv, FirstIsNewest
    <3>2. \A u \in Old : u \in Int
      BY DEF Old, In, Seconds
    <3>3. Max(Old) \in Old /\ \A u \in Old : u <= Max(Old)
      BY <3>1, <3>2 DEF Max
    <3>4. Max(Old) = m
      BY <3>1, <3>2, <3>3
    <3> QED BY <2>2, <3>1, <3>4
  <2> QED BY <2>1, <2>2
<1> QED BY <1>1, Invariant, PTL

\* The averages status_mon prints count each request of the last minute and of
\* the last RPS_N - 1 seconds exactly once, although it reads slot by slot while
\* the worker writes.
THEOREM AveragesAreExact == SegSpec => []MonitorExact
<1>1. IInv => MonitorExact
  BY DEF IInv, Adding, Clean, MonitorExact
<1> QED BY <1>1, Invariant, PTL
=============================================================================
