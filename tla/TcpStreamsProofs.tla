-------------------------- MODULE TcpStreamsProofs --------------------------
(***************************************************************************)
(* The table of TCP streams is sound and stat->conn counts the sessions,   *)
(* for every pool, every set of connections and services and every number  *)
(* of crashes.                                                             *)
(***************************************************************************)
EXTENDS TcpStreams, FiniteSetTheorems, SequenceTheorems, TLAPS

\* The types of a link, of a stream and of the table.
Link == Slots \cup {0}
Stream ==
  [addr : Conns \cup {NoAddr}, client : States, server : States, cfin : BOOLEAN, sfin : BOOLEAN,
   nids_state : {"none", "DATA"}, user : BOOLEAN, next_time : Link, prev_time : Link]
Tables ==
  [slot : [Slots -> Stream], tcp_num : Nat, latest : Link, oldest : Link, free : Seq(Slots)]

\* A list without repetitions, and its member k, 0 beyond its ends.
Distinct(s) == \A k, l \in 1..Len(s) : s[k] = s[l] => k = l
At(o, k) == IF k \in 1..Len(o) THEN o[k] ELSE 0

\* The age list of table t is o, in both directions.
Linked(t, o) ==
  /\ t.oldest = At(o, 1) /\ t.latest = At(o, Len(o))
  /\ \A k \in 1..Len(o) : /\ t.slot[o[k]].prev_time = At(o, k + 1)
                          /\ t.slot[o[k]].next_time = At(o, k - 1)

\* Every stream is on one of the two lists, once.
Listed(t, o) ==
  /\ o \in Seq(Slots) /\ Distinct(o) /\ Distinct(t.free)
  /\ \A i \in Slots : t.slot[i].addr # NoAddr <=> \E k \in 1..Len(o) : o[k] = i
  /\ \A i \in Slots : t.slot[i].addr = NoAddr <=> \E k \in 1..Len(t.free) : t.free[k] = i

\* tcp_num counts the list in use, and the pool is split between the two.
Counted(t, o) ==
  t.tcp_num = Len(o) /\ Len(t.free) + Len(o) = max_stream + 1 /\ Cardinality(Used(t)) = Len(o)

\* A connection has one stream.
OneEach(t) == \A i, j \in Used(t) : t.slot[i].addr = t.slot[j].addr => i = j

\* A session exists only past the handshake, and both FINs are not confirmed.
Session(x) ==
  /\ x.user => x.nids_state = "DATA" /\ x.client # "SYN_SENT"
  /\ ~Closed(x)

\* The streams with a session.
Open(t) == {i \in Used(t) : t.slot[i].user}

\* The table t is sound, with o as its age list.
Sound(t, o) ==
  /\ t \in Tables /\ Linked(t, o) /\ Listed(t, o) /\ Counted(t, o) /\ OneEach(t)
  /\ \A i \in Slots : Session(t.slot[i])

\* The inductive invariant.
IInv ==
  /\ Sound(tab, order)
  /\ conn \in Nat /\ dropped \in Nat /\ up \in BOOLEAN
  /\ conn = Cardinality(Open(tab)) + dropped

\* An element of a list without repetitions is removed: those behind it move
\* up by one.
LEMMA Removed ==
  ASSUME NEW S, NEW o \in Seq(S), NEW k \in 1..Len(o),
         \A m, l \in 1..Len(o) : o[m] = o[l] => m = l
  PROVE  /\ RemoveFirst(o, o[k]) \in Seq(S) /\ Len(RemoveFirst(o, o[k])) = Len(o) - 1
         /\ \A m \in 1..(Len(o) - 1) :
              RemoveFirst(o, o[k])[m] = IF m < k THEN o[m] ELSE o[m + 1]
<1>1. Len(o) \in Nat /\ k \in Int
  OBVIOUS
<1>2. SelectInSeq(o, LAMBDA v : v = o[k]) = k
  <2> DEFINE I == {i \in 1..Len(o) : o[i] = o[k]}
  <2>1. I = {k}
    OBVIOUS
  <2>2. Min(I) = k
    BY <1>1, <2>1 DEF Min
  <2> QED BY <2>1, <2>2 DEF SelectInSeq
<1>3. RemoveFirst(o, o[k]) = SubSeq(o, 1, k - 1) \o SubSeq(o, k + 1, Len(o))
  BY <1>2 DEF RemoveFirst, RemoveAt
<1> DEFINE a == SubSeq(o, 1, k - 1)
           b == SubSeq(o, k + 1, Len(o))
<1>4. a \in Seq(S) /\ Len(a) = k - 1 /\ \A m \in 1..(k - 1) : a[m] = o[m]
  BY <1>1, SubSeqProperties
<1>5. b \in Seq(S) /\ Len(b) = Len(o) - k /\ \A m \in 1..(Len(o) - k) : b[m] = o[k + m]
  BY <1>1, SubSeqProperties
<1> HIDE DEF a, b
<1>6. a \o b \in Seq(S) /\ Len(a \o b) = Len(a) + Len(b)
      /\ \A m \in 1..(Len(a) + Len(b)) : (a \o b)[m] = IF m <= Len(a) THEN a[m] ELSE b[m - Len(a)]
  <2> a \in Seq(S) /\ b \in Seq(S)
    BY <1>4, <1>5
  <2> QED BY ConcatProperties
<1>7. ASSUME NEW m \in 1..(Len(o) - 1)
      PROVE  (a \o b)[m] = IF m < k THEN o[m] ELSE o[m + 1]
  <2>1. CASE m < k
    BY <1>1, <1>4, <1>5, <1>6, <2>1
  <2>2. CASE ~(m < k)
    <3>1. (a \o b)[m] = b[m - (k - 1)]
      BY <1>1, <1>4, <1>5, <1>6, <2>2
    <3>2. m - (k - 1) \in 1..(Len(o) - k) /\ k + (m - (k - 1)) = m + 1
      BY <1>1, <2>2
    <3> QED BY <2>2, <3>1, <3>2, <1>5
  <2> QED BY <2>1, <2>2
<1>8. Len(a \o b) = Len(o) - 1
  BY <1>1, <1>4, <1>5, <1>6
<1> QED BY <1>3, <1>6, <1>7, <1>8 DEF a, b

\* The sets of streams are finite.
LEMMA Finite ==
  ASSUME NEW t
  PROVE  /\ IsFiniteSet(Used(t)) /\ Cardinality(Used(t)) \in Nat
         /\ IsFiniteSet(Open(t)) /\ Cardinality(Open(t)) \in Nat
<1>1. IsFiniteSet(Slots)
  BY FS_Interval, TcpStreamsAssumption DEF Slots
<1>2. Used(t) \in SUBSET Slots /\ Open(t) \in SUBSET Slots
  BY DEF Used, Open
<1> QED BY <1>1, <1>2, FS_Subset, FS_CardinalityType

\* A stream of the pool is an empty one.
LEMMA ZeroStream == Zero \in Stream /\ Session(Zero) /\ ~Zero.user /\ Zero.addr = NoAddr
BY DEF Zero, Stream, States, Link, Session, Closed

\* Members of a list, and the ends of it.
LEMMA AtIndex ==
  ASSUME NEW o \in Seq(Slots)
  PROVE  /\ 0 \notin Slots
         /\ \A m \in 1..Len(o) : At(o, m) = o[m] /\ At(o, m) \in Slots /\ At(o, m) # 0
         /\ \A m \in Int : At(o, m) \in Link /\ (m \notin 1..Len(o) => At(o, m) = 0)
         /\ Distinct(o) => \A m, l \in Int : At(o, m) = At(o, l) /\ At(o, m) # 0 => m = l
<1>1. 0 \notin Slots
  BY DEF Slots
<1>2. \A m \in 1..Len(o) : At(o, m) = o[m] /\ o[m] \in Slots
  BY DEF At
<1>3. \A m \in Int : m \notin 1..Len(o) => At(o, m) = 0
  BY DEF At
<1>4. ASSUME Distinct(o), NEW m \in Int, NEW l \in Int, At(o, m) = At(o, l), At(o, m) # 0 PROVE m = l
  <2>1. m \in 1..Len(o) /\ l \in 1..Len(o)
    BY <1>3, <1>4
  <2> QED BY <1>2, <1>4, <2>1 DEF Distinct
<1> QED BY <1>1, <1>2, <1>3, <1>4 DEF Link

\* nids_free_tcp_stream, field by field.
LEMMA FreeFields ==
  ASSUME NEW t \in Tables, NEW i \in Slots
  PROVE  LET u == nids_free_tcp_stream(t, i)
             x == t.slot[i]
         IN  /\ u.slot = [j \in Slots |->
                   CASE j = i           -> Zero
                     [] j = x.next_time -> [t.slot[j] EXCEPT !.prev_time = x.prev_time]
                     [] j = x.prev_time -> [t.slot[j] EXCEPT !.next_time = x.next_time]
                     [] OTHER           -> t.slot[j]]
             /\ u.tcp_num = t.tcp_num - 1
             /\ u.latest = IF t.latest = i THEN x.next_time ELSE t.latest
             /\ u.oldest = IF t.oldest = i THEN x.prev_time ELSE t.oldest
             /\ u.free = <<i>> \o t.free
             /\ /\ u.slot \in [Slots -> Stream] /\ u.tcp_num \in Nat /\ u.latest \in Link
                   /\ u.oldest \in Link /\ u.free \in Seq(Slots)
                => u \in Tables
<1> DEFINE x == t.slot[i]
           f == [j \in Slots |->
                   CASE j = i           -> Zero
                     [] j = x.next_time -> [t.slot[j] EXCEPT !.prev_time = x.prev_time]
                     [] j = x.prev_time -> [t.slot[j] EXCEPT !.next_time = x.next_time]
                     [] OTHER           -> t.slot[j]]
           u == [t EXCEPT !.slot = f,
                          !.oldest  = IF @ = i THEN x.prev_time ELSE @,
                          !.latest  = IF @ = i THEN x.next_time ELSE @,
                          !.free    = <<i>> \o @,
                          !.tcp_num = @ - 1]
<1>1. nids_free_tcp_stream(t, i) = u
  BY DEF nids_free_tcp_stream
<1> HIDE DEF f, x
<1>2. /\ u.slot = f /\ u.tcp_num = t.tcp_num - 1
      /\ u.latest = IF t.latest = i THEN x.next_time ELSE t.latest
      /\ u.oldest = IF t.oldest = i THEN x.prev_time ELSE t.oldest
      /\ u.free = <<i>> \o t.free
  BY DEF Tables
<1>3. /\ u.slot \in [Slots -> Stream] /\ u.tcp_num \in Nat /\ u.latest \in Link
      /\ u.oldest \in Link /\ u.free \in Seq(Slots)
      => u \in Tables
  BY DEF Tables
<1> HIDE DEF u
<1> QED BY <1>1, <1>2, <1>3 DEF f, x

\* Freeing a stream in use: it leaves the age list wherever it stands.
LEMMA FreeSound ==
  ASSUME NEW t, NEW o, Sound(t, o), NEW i \in Used(t)
  PROVE  LET u == nids_free_tcp_stream(t, i) IN
         /\ Sound(u, RemoveFirst(o, i))
         /\ Used(u) = Used(t) \ {i} /\ Open(u) = Open(t) \ {i}
         /\ \A j \in Used(u) : u.slot[j].addr = t.slot[j].addr
         /\ u.free # <<>>
<1> DEFINE u == nids_free_tcp_stream(t, i)
           x == t.slot[i]
           p == RemoveFirst(o, i)
<1>1. /\ t.slot \in [Slots -> Stream] /\ t.tcp_num \in Nat /\ t.latest \in Link /\ t.oldest \in Link
      /\ t.free \in Seq(Slots) /\ o \in Seq(Slots) /\ Len(o) \in Nat /\ Distinct(o)
      /\ i \in Slots /\ x \in Stream /\ x.addr # NoAddr
  BY DEF Sound, Tables, Listed, Used
<1>2. PICK k \in 1..Len(o) : o[k] = i
  BY <1>1 DEF Sound, Listed
<1>3. /\ p \in Seq(Slots) /\ Len(p) = Len(o) - 1
      /\ \A m \in 1..(Len(o) - 1) : p[m] = IF m < k THEN o[m] ELSE o[m + 1]
  BY <1>1, <1>2, Removed DEF Distinct
<1>4. x.next_time = At(o, k - 1) /\ x.prev_time = At(o, k + 1)
  BY <1>2 DEF Sound, Linked
<1>5. /\ \A m, l \in Int : At(o, m) = At(o, l) /\ At(o, m) # 0 => m = l
      /\ \A m \in 1..Len(o) : At(o, m) = o[m] /\ At(o, m) \in Slots /\ At(o, m) # 0
      /\ \A m \in Int : At(o, m) \in Link
      /\ 0 \notin Slots
  BY <1>1, AtIndex
<1>6. /\ u.slot = [j \in Slots |->
            CASE j = i           -> Zero
              [] j = x.next_time -> [t.slot[j] EXCEPT !.prev_time = x.prev_time]
              [] j = x.prev_time -> [t.slot[j] EXCEPT !.next_time = x.next_time]
              [] OTHER           -> t.slot[j]]
      /\ u.tcp_num = t.tcp_num - 1
      /\ u.latest = IF t.latest = i THEN x.next_time ELSE t.latest
      /\ u.oldest = IF t.oldest = i THEN x.prev_time ELSE t.oldest
      /\ u.free = <<i>> \o t.free
      /\ /\ u.slot \in [Slots -> Stream] /\ u.tcp_num \in Nat /\ u.latest \in Link
            /\ u.oldest \in Link /\ u.free \in Seq(Slots)
         => u \in Tables
  BY <1>1, FreeFields DEF Sound
<1> HIDE DEF u, x, p
<1>17. x.next_time # i /\ x.prev_time # i /\ (x.next_time = x.prev_time => x.next_time = 0)
  <2>1. At(o, k) = i /\ i # 0 /\ k \in Int /\ k - 1 \in Int /\ k + 1 \in Int /\ k - 1 # k + 1 /\ k # k - 1 /\ k # k + 1
    BY <1>1, <1>2, <1>5
  <2> QED BY <1>4, <1>5, <2>1
<1>18. /\ u.tcp_num = t.tcp_num - 1 /\ u.free = <<i>> \o t.free
       /\ u.latest = IF t.latest = i THEN x.next_time ELSE t.latest
       /\ u.oldest = IF t.oldest = i THEN x.prev_time ELSE t.oldest
  BY <1>6
<1>7. \A j \in Slots \ {i} :
        /\ u.slot[j] \in Stream
        /\ \A f \in {"addr", "client", "server", "cfin", "sfin", "nids_state", "user"} :
             u.slot[j][f] = t.slot[j][f]
        /\ u.slot[j].prev_time = IF j = x.next_time THEN x.prev_time ELSE t.slot[j].prev_time
        /\ u.slot[j].next_time =
             IF j = x.prev_time /\ j # x.next_time THEN x.next_time ELSE t.slot[j].next_time
  <2> SUFFICES ASSUME NEW j \in Slots \ {i}
               PROVE  /\ u.slot[j] \in Stream
                      /\ \A f \in {"addr", "client", "server", "cfin", "sfin", "nids_state", "user"} :
                           u.slot[j][f] = t.slot[j][f]
                      /\ u.slot[j].prev_time = IF j = x.next_time THEN x.prev_time ELSE t.slot[j].prev_time
                      /\ u.slot[j].next_time =
                           IF j = x.prev_time /\ j # x.next_time THEN x.next_time ELSE t.slot[j].next_time
    OBVIOUS
  <2>0. t.slot[j] \in Stream /\ x.next_time \in Link /\ x.prev_time \in Link
    BY <1>1 DEF Stream
  <2>1. CASE j = x.next_time
    <3>1. u.slot[j] = [t.slot[j] EXCEPT !.prev_time = x.prev_time]
      BY <1>6, <1>17, <2>1, <1>5
    <3> QED BY <2>0, <2>1, <3>1 DEF Stream
  <2>2. CASE j # x.next_time /\ j = x.prev_time
    <3>1. u.slot[j] = [t.slot[j] EXCEPT !.next_time = x.next_time]
      BY <1>6, <1>17, <2>2, <1>5
    <3> QED BY <2>0, <2>2, <3>1 DEF Stream
  <2>3. CASE j # x.next_time /\ j # x.prev_time
    <3>1. u.slot[j] = t.slot[j]
      BY <1>6, <2>3
    <3> QED BY <2>0, <2>3, <3>1 DEF Stream
  <2> QED BY <2>1, <2>2, <2>3
<1>8. u.slot[i] = Zero /\ u.slot \in [Slots -> Stream]
  <2>1. u.slot[i] = Zero /\ DOMAIN u.slot = Slots /\ u.slot = [j \in Slots |-> u.slot[j]]
    BY <1>1, <1>6, <1>17, <1>5
  <2>2. \A j \in Slots : u.slot[j] \in Stream
    BY <1>7, <2>1, ZeroStream
  <2> QED BY <2>1, <2>2
<1>9. /\ u.free \in Seq(Slots) /\ Len(u.free) = Len(t.free) + 1 /\ u.free # <<>> /\ Len(t.free) \in Nat
      /\ u.free[1] = i /\ \A m \in 1..Len(t.free) : u.free[m + 1] = t.free[m]
  <2>0. Len(t.free) \in Nat
    BY <1>1
  <2>1. <<i>> \in Seq(Slots) /\ Len(<<i>>) = 1 /\ <<i>>[1] = i /\ u.free = <<i>> \o t.free /\ Len(t.free) \in Nat
    BY <1>1, <1>18, <2>0
  <2>2. /\ u.free \in Seq(Slots) /\ Len(u.free) = 1 + Len(t.free)
        /\ \A m \in 1..(1 + Len(t.free)) : u.free[m] = IF m <= 1 THEN <<i>>[m] ELSE t.free[m - 1]
    <3> t.free \in Seq(Slots)
      BY <1>1
    <3> QED BY <2>1, ConcatProperties
  <2>3. \A m \in 1..Len(t.free) : u.free[m + 1] = t.free[m]
    <3> SUFFICES ASSUME NEW m \in 1..Len(t.free) PROVE u.free[m + 1] = t.free[m]
      OBVIOUS
    <3>1. m + 1 \in 1..(1 + Len(t.free)) /\ ~(m + 1 <= 1) /\ (m + 1) - 1 = m
      BY <2>1
    <3> QED BY <2>2, <3>1
  <2>4. u.free[1] = i /\ u.free # <<>>
    BY <2>1, <2>2
  <2> QED BY <2>1, <2>2, <2>3, <2>4
<1>10. u \in Tables
  <2>1. t.tcp_num - 1 \in Nat
    BY <1>1, <1>2 DEF Sound, Counted
  <2>2. x.next_time \in Link /\ x.prev_time \in Link
    BY <1>1 DEF Stream
  <2>3. u.tcp_num \in Nat /\ u.latest \in Link /\ u.oldest \in Link
    BY <1>1, <1>18, <2>1, <2>2
  <2> QED BY <2>3, <1>6, <1>8, <1>9
<1>11. Linked(u, p)
  <2>1. \A m \in 1..Len(o) : t.slot[o[m]].prev_time = At(o, m + 1) /\ t.slot[o[m]].next_time = At(o, m - 1)
    BY DEF Sound, Linked
  <2>2. k \in 1..Len(o) /\ Len(o) \in Nat /\ At(o, k) = i
    BY <1>1, <1>2, <1>5
  <2>3. \A m \in Int : At(p, m) = IF m < k THEN At(o, m) ELSE At(o, m + 1)
    BY <1>1, <1>2, <1>3 DEF At
  <2>4. t.oldest = At(o, 1) /\ t.latest = At(o, Len(o))
    BY DEF Sound, Linked
  <2>5. \A m, l \in Int : At(o, m) = At(o, l) /\ At(o, m) # 0 => m = l
    BY <1>1, <1>5
  <2>6. At(o, 1) = i <=> k = 1
    BY <1>1, <1>5, <2>2, <2>5
  <2>7. At(o, Len(o)) = i <=> k = Len(o)
    BY <1>1, <1>5, <2>2, <2>5
  <2>8. u.oldest = At(p, 1)
    BY <1>4, <1>18, <2>2, <2>3, <2>4, <2>6
  <2>9. u.latest = At(p, Len(p))
    <3>1. Len(p) \in Int /\ Len(p) = Len(o) - 1 /\ Len(p) + 1 = Len(o) /\ Len(o) - 1 \in Int
      BY <1>3, <2>2
    <3>2. CASE k = Len(o)
      BY <1>4, <1>18, <2>2, <2>3, <2>4, <2>7, <3>1, <3>2
    <3>3. CASE k # Len(o)
      <4>1. ~(Len(p) < k)
        BY <2>2, <3>1, <3>3
      <4> QED BY <1>18, <2>3, <2>4, <2>7, <3>1, <3>3, <4>1
    <3> QED BY <3>2, <3>3
  <2>10. ASSUME NEW q \in 1..Len(o), q # k
         PROVE  /\ u.slot[o[q]].prev_time = IF q = k - 1 THEN At(o, k + 1) ELSE At(o, q + 1)
                /\ u.slot[o[q]].next_time = IF q = k + 1 THEN At(o, k - 1) ELSE At(o, q - 1)
    <3>1. o[q] = At(o, q) /\ o[q] \in Slots /\ o[q] # 0 /\ q \in Int /\ k \in Int
      BY <1>5, <2>2
    <3>2. o[q] # i
      BY <2>2, <2>5, <2>10, <3>1
    <3>3. o[q] = x.next_time <=> q = k - 1
      BY <1>4, <2>2, <2>5, <3>1
    <3>4. o[q] = x.prev_time <=> q = k + 1
      BY <1>4, <2>2, <2>5, <3>1
    <3>5. q = k + 1 => q # k - 1
      BY <2>2
    <3> DEFINE y == o[q]
    <3>6. y \in Slots \ {i}
      BY <3>1, <3>2
    <3>7. /\ u.slot[y].prev_time = IF y = x.next_time THEN x.prev_time ELSE t.slot[y].prev_time
          /\ u.slot[y].next_time =
               IF y = x.prev_time /\ y # x.next_time THEN x.next_time ELSE t.slot[y].next_time
      BY <1>7, <3>6
    <3>8. t.slot[y].prev_time = At(o, q + 1) /\ t.slot[y].next_time = At(o, q - 1)
      BY <2>1
    <3> QED BY <1>4, <3>3, <3>4, <3>5, <3>7, <3>8
  <2>11. ASSUME NEW m \in 1..Len(p)
         PROVE  u.slot[p[m]].prev_time = At(p, m + 1) /\ u.slot[p[m]].next_time = At(p, m - 1)
    <3>1. CASE m < k
      <4>1. p[m] = o[m] /\ m \in 1..Len(o) /\ m # k /\ m # k + 1
        BY <1>3, <2>2, <3>1
      <4>2. At(p, m - 1) = At(o, m - 1) /\ At(p, m + 1) = IF m = k - 1 THEN At(o, k + 1) ELSE At(o, m + 1)
        <5>1. m \in Int /\ m + 1 \in Int /\ m - 1 \in Int /\ k \in Int
          BY <2>2
        <5>2. m - 1 < k /\ (m + 1 < k <=> m # k - 1) /\ (m = k - 1 => (m + 1) + 1 = k + 1)
          BY <5>1, <3>1
        <5> QED BY <2>3, <5>1, <5>2
      <4> QED BY <2>10, <4>1, <4>2
    <3>2. CASE ~(m < k)
      <4>1. p[m] = o[m + 1] /\ m + 1 \in 1..Len(o) /\ m + 1 # k /\ m + 1 # k - 1
        BY <1>3, <2>2, <3>2
      <4>2. At(p, m + 1) = At(o, (m + 1) + 1) /\ At(p, m - 1) = IF m + 1 = k + 1 THEN At(o, k - 1) ELSE At(o, (m + 1) - 1)
        <5>1. m \in Int /\ m + 1 \in Int /\ m - 1 \in Int /\ k \in Int
          BY <2>2
        <5>2. ~(m + 1 < k) /\ (m - 1 < k <=> m = k)
          BY <5>1, <3>2
        <5>3. m + 1 = k + 1 <=> m = k
          BY <5>1
        <5>4. (m + 1) - 1 = (m - 1) + 1
          BY <5>1
        <5> QED BY <2>3, <5>1, <5>2, <5>3, <5>4
      <4> QED BY <2>10, <4>1, <4>2
    <3> QED BY <3>1, <3>2
  <2> QED BY <2>8, <2>9, <2>11 DEF Linked
<1>12. Used(u) = Used(t) \ {i} /\ Open(u) = Open(t) \ {i} /\ \A j \in Used(u) : u.slot[j].addr = t.slot[j].addr
  BY <1>7, <1>8, ZeroStream DEF Used, Open
<1>13. OneEach(u)
  BY <1>12 DEF Sound, OneEach
<1>14. \A j \in Slots : Session(u.slot[j])
  BY <1>7, <1>8, ZeroStream DEF Sound, Session, Closed
<1>15. Counted(u, p)
  <2>1. Cardinality(Used(u)) = Cardinality(Used(t)) - 1
    BY <1>12, Finite, FS_RemoveElement
  <2>2. t.tcp_num = Len(o) /\ Len(t.free) + Len(o) = max_stream + 1 /\ Cardinality(Used(t)) = Len(o)
    BY DEF Sound, Counted
  <2>3. u.tcp_num = t.tcp_num - 1 /\ Len(p) = Len(o) - 1 /\ Len(o) \in Nat
    BY <1>1, <1>3, <1>18
  <2>4. Len(u.free) = Len(t.free) + 1 /\ Len(t.free) \in Nat /\ max_stream \in Nat
    BY <1>9, TcpStreamsAssumption
  <2>5. u.tcp_num = Len(p) /\ Cardinality(Used(u)) = Len(p)
    BY <2>1, <2>2, <2>3
  <2>6. Len(u.free) + Len(p) = max_stream + 1
    BY <2>2, <2>3, <2>4
  <2> QED BY <2>5, <2>6 DEF Counted
<1>16. Listed(u, p)
  <2>1. Distinct(p)
    BY <1>1, <1>2, <1>3 DEF Distinct
  <2>2. /\ \A m \in 1..Len(t.free) : t.free[m] # i /\ t.free[m] \in Slots
        /\ Distinct(t.free)
    <3>1. \A m \in 1..Len(t.free) : t.free[m] \in Slots
      BY <1>1
    <3>2. ~\E m \in 1..Len(t.free) : t.free[m] = i
      BY <1>1 DEF Sound, Listed, x
    <3> QED BY <3>1, <3>2 DEF Sound, Listed
  <2>3. \A m \in 1..Len(u.free) : m = 1 \/ (m - 1 \in 1..Len(t.free) /\ u.free[m] = t.free[m - 1])
    <3> SUFFICES ASSUME NEW m \in 1..Len(u.free), m # 1
                 PROVE  m - 1 \in 1..Len(t.free) /\ u.free[m] = t.free[m - 1]
      OBVIOUS
    <3>1. m - 1 \in 1..Len(t.free) /\ (m - 1) + 1 = m
      BY <1>9
    <3> QED BY <3>1, <1>9
  <2>4. Distinct(u.free)
    <3> SUFFICES ASSUME NEW m \in 1..Len(u.free), NEW l \in 1..Len(u.free), u.free[m] = u.free[l]
                 PROVE  m = l
      BY DEF Distinct
    <3>1. m = 1 <=> l = 1
      BY <1>9, <2>2, <2>3
    <3>2. ASSUME m # 1, l # 1 PROVE m - 1 = l - 1
      BY <2>2, <2>3, <3>2 DEF Distinct
    <3> QED BY <3>1, <3>2
  <2>5. ASSUME NEW j \in Slots PROVE u.slot[j].addr # NoAddr <=> \E m \in 1..Len(p) : p[m] = j
    <3>1. t.slot[j].addr # NoAddr <=> \E m \in 1..Len(o) : o[m] = j
      BY DEF Sound, Listed
    <3>2. u.slot[j].addr # NoAddr <=> (t.slot[j].addr # NoAddr /\ j # i)
      BY <1>7, <1>8, ZeroStream
    <3>3. ASSUME NEW m \in 1..Len(o), o[m] = j, j # i PROVE \E l \in 1..Len(p) : p[l] = j
      <4>1. m # k
        BY <1>2, <3>3
      <4>2. CASE m < k
        BY <1>1, <1>3, <3>3, <4>2
      <4>3. CASE m > k
        <5>1. m - 1 \in 1..Len(p) /\ ~(m - 1 < k) /\ (m - 1) + 1 = m
          BY <1>1, <1>3, <4>3
        <5> QED BY <1>3, <3>3, <5>1
      <4> QED BY <4>1, <4>2, <4>3
    <3>4. ASSUME NEW l \in 1..Len(p), p[l] = j PROVE j # i /\ \E m \in 1..Len(o) : o[m] = j
      <4>1. PICK m \in 1..Len(o) : p[l] = o[m] /\ m # k
        BY <1>1, <1>3
      <4> QED BY <1>2, <3>4, <4>1, <1>1 DEF Distinct
    <3> QED BY <3>1, <3>2, <3>3, <3>4
  <2>6. ASSUME NEW j \in Slots PROVE u.slot[j].addr = NoAddr <=> \E m \in 1..Len(u.free) : u.free[m] = j
    <3>1. t.slot[j].addr = NoAddr <=> \E m \in 1..Len(t.free) : t.free[m] = j
      BY DEF Sound, Listed
    <3>2. u.slot[j].addr = NoAddr <=> (t.slot[j].addr = NoAddr \/ j = i)
      BY <1>7, <1>8, ZeroStream
    <3>3. (\E m \in 1..Len(u.free) : u.free[m] = j) <=> (j = i \/ \E m \in 1..Len(t.free) : t.free[m] = j)
      <4>1. 1 \in 1..Len(u.free) /\ \A m \in 1..Len(t.free) : m + 1 \in 1..Len(u.free)
        BY <1>9
      <4> QED BY <1>9, <2>3, <4>1
    <3> QED BY <3>1, <3>2, <3>3
  <2> QED BY <1>3, <2>1, <2>4, <2>5, <2>6 DEF Listed
<1> QED BY <1>9, <1>10, <1>11, <1>12, <1>13, <1>14, <1>15, <1>16 DEF Sound, u, p

\* Insert, field by field.
LEMMA InsertFields ==
  ASSUME NEW t \in Tables, NEW c
  PROVE  LET u == Insert(t, c)
             i == Head(t.free)
         IN  /\ u.slot = [j \in Slots |->
                   CASE j = i        -> [Zero EXCEPT !.addr = c, !.client = "SYN_SENT",
                                                     !.next_time = t.latest]
                     [] j = t.latest -> [t.slot[j] EXCEPT !.prev_time = i]
                     [] OTHER        -> t.slot[j]]
             /\ u.tcp_num = t.tcp_num + 1 /\ u.latest = i
             /\ u.oldest = IF t.oldest = 0 THEN i ELSE t.oldest
             /\ u.free = Tail(t.free)
             /\ /\ u.slot \in [Slots -> Stream] /\ u.tcp_num \in Nat /\ u.latest \in Link
                   /\ u.oldest \in Link /\ u.free \in Seq(Slots)
                => u \in Tables
<1> DEFINE i == Head(t.free)
           f == [j \in Slots |->
                   CASE j = i        -> [Zero EXCEPT !.addr = c, !.client = "SYN_SENT",
                                                     !.next_time = t.latest]
                     [] j = t.latest -> [t.slot[j] EXCEPT !.prev_time = i]
                     [] OTHER        -> t.slot[j]]
           u == [t EXCEPT !.slot = f,
                          !.oldest  = IF @ = 0 THEN i ELSE @,
                          !.latest  = i,
                          !.free    = Tail(@),
                          !.tcp_num = @ + 1]
<1>1. Insert(t, c) = u
  BY DEF Insert
<1> HIDE DEF f, i
<1>2. /\ u.slot = f /\ u.tcp_num = t.tcp_num + 1 /\ u.latest = i
      /\ u.oldest = IF t.oldest = 0 THEN i ELSE t.oldest
      /\ u.free = Tail(t.free)
  BY DEF Tables
<1>3. /\ u.slot \in [Slots -> Stream] /\ u.tcp_num \in Nat /\ u.latest \in Link
      /\ u.oldest \in Link /\ u.free \in Seq(Slots)
      => u \in Tables
  BY DEF Tables
<1> HIDE DEF u
<1> QED BY <1>1, <1>2, <1>3 DEF f, i

\* Taking a stream from the free list for a new address tuple: it becomes the
\* youngest.
LEMMA InsertSound ==
  ASSUME NEW t, NEW o, Sound(t, o), t.free # <<>>, NEW c \in Conns,
         \A j \in Used(t) : t.slot[j].addr # c
  PROVE  LET u == Insert(t, c) IN
         /\ Sound(u, Append(o, u.latest)) /\ Open(u) = Open(t)
<1> DEFINE u == Insert(t, c)
           i == Head(t.free)
           n == Len(o)
           p == Append(o, i)
           new == [Zero EXCEPT !.addr = c, !.client = "SYN_SENT", !.next_time = t.latest]
<1>1. /\ t \in Tables /\ t.slot \in [Slots -> Stream] /\ t.tcp_num \in Nat /\ t.latest \in Link
      /\ t.oldest \in Link /\ t.free \in Seq(Slots) /\ o \in Seq(Slots) /\ n \in Nat
      /\ Distinct(o) /\ Distinct(t.free)
  BY DEF Sound, Tables, Listed
<1>2. /\ Len(t.free) \in Nat /\ Len(t.free) > 0 /\ i = t.free[1] /\ i \in Slots /\ Tail(t.free) \in Seq(Slots)
      /\ Len(Tail(t.free)) = Len(t.free) - 1
      /\ \A m \in 1..(Len(t.free) - 1) : Tail(t.free)[m] = t.free[m + 1]
  <2>1. t.free \in Seq(Slots) /\ t.free # <<>>
    BY <1>1
  <2>2. i = t.free[1] /\ i \in Slots /\ Tail(t.free) \in Seq(Slots) /\ Len(Tail(t.free)) = Len(t.free) - 1
    BY <2>1, HeadTailProperties
  <2>3. \A m \in 1..Len(Tail(t.free)) : Tail(t.free)[m] = t.free[m + 1]
    BY <2>1, HeadTailProperties
  <2>4. Len(t.free) \in Nat /\ Len(t.free) > 0
    BY <2>1
  <2> QED BY <2>2, <2>3, <2>4
<1>3. t.slot[i].addr = NoAddr
  <2>1. 1 \in 1..Len(t.free)
    BY <1>2
  <2> QED BY <1>2, <2>1 DEF Sound, Listed
<1>4. /\ u.slot = [j \in Slots |->
            CASE j = i        -> new
              [] j = t.latest -> [t.slot[j] EXCEPT !.prev_time = i]
              [] OTHER        -> t.slot[j]]
      /\ u.tcp_num = t.tcp_num + 1 /\ u.latest = i
      /\ u.oldest = IF t.oldest = 0 THEN i ELSE t.oldest
      /\ u.free = Tail(t.free)
      /\ /\ u.slot \in [Slots -> Stream] /\ u.tcp_num \in Nat /\ u.latest \in Link
            /\ u.oldest \in Link /\ u.free \in Seq(Slots)
         => u \in Tables
  BY <1>1, InsertFields
<1>5. /\ new \in Stream /\ new.addr = c /\ ~new.user /\ Session(new)
      /\ new.next_time = t.latest /\ new.prev_time = 0
  BY <1>1 DEF Zero, Stream, States, Link, Session, Closed
<1>6. c # NoAddr
  BY TcpStreamsAssumption DEF NoAddr
<1> HIDE DEF u, i, n, p, new
<1>7. /\ t.oldest = At(o, 1) /\ t.latest = At(o, n)
      /\ \A k \in 1..n : /\ t.slot[o[k]].prev_time = At(o, k + 1)
                         /\ t.slot[o[k]].next_time = At(o, k - 1)
  BY DEF Sound, Linked, n
<1>8. /\ \A m, l \in Int : At(o, m) = At(o, l) /\ At(o, m) # 0 => m = l
      /\ \A m \in 1..n : At(o, m) = o[m] /\ At(o, m) \in Slots /\ At(o, m) # 0
      /\ \A m \in Int : m \notin 1..n => At(o, m) = 0
      /\ 0 \notin Slots
  BY <1>1, AtIndex DEF n
<1>9. \A m \in 1..n : o[m] # i /\ t.slot[o[m]].addr # NoAddr
  BY <1>2, <1>3, <1>8 DEF Sound, Listed, n
<1>10. t.latest # i
  <2>1. n \in 1..n => t.latest = o[n] /\ o[n] # i
    BY <1>7, <1>8, <1>9
  <2>2. n \notin 1..n => t.latest = 0
    BY <1>1, <1>7, <1>8
  <2> QED BY <1>2, <1>8, <2>1, <2>2
<1>11. u.slot[i] = new
  BY <1>2, <1>4, <1>10
<1>12. \A j \in Slots \ {i} :
         /\ u.slot[j] \in Stream
         /\ \A f \in {"addr", "client", "server", "cfin", "sfin", "nids_state", "user", "next_time"} :
              u.slot[j][f] = t.slot[j][f]
         /\ u.slot[j].prev_time = IF j = t.latest THEN i ELSE t.slot[j].prev_time
  <2> SUFFICES ASSUME NEW j \in Slots \ {i}
               PROVE  /\ u.slot[j] \in Stream
                      /\ \A f \in {"addr", "client", "server", "cfin", "sfin", "nids_state", "user", "next_time"} :
                           u.slot[j][f] = t.slot[j][f]
                      /\ u.slot[j].prev_time = IF j = t.latest THEN i ELSE t.slot[j].prev_time
    OBVIOUS
  <2>0. t.slot[j] \in Stream /\ i \in Link
    BY <1>1, <1>2 DEF Link
  <2>1. CASE j = t.latest
    <3>1. u.slot[j] = [t.slot[j] EXCEPT !.prev_time = i]
      BY <1>4, <2>1
    <3> QED BY <2>0, <2>1, <3>1 DEF Stream
  <2>2. CASE j # t.latest
    <3>1. u.slot[j] = t.slot[j]
      BY <1>4, <2>2
    <3> QED BY <2>0, <2>2, <3>1 DEF Stream
  <2> QED BY <2>1, <2>2
<1>13. u \in Tables
  <2>1. u.slot = [j \in Slots |-> u.slot[j]]
    BY <1>4
  <2>2. \A j \in Slots : u.slot[j] \in Stream
    BY <1>5, <1>11, <1>12
  <2>3. u.slot \in [Slots -> Stream]
    BY <2>1, <2>2
  <2>4. u.tcp_num \in Nat /\ u.latest \in Link /\ u.oldest \in Link /\ u.free \in Seq(Slots)
    BY <1>1, <1>2, <1>4 DEF Link
  <2> QED BY <1>4, <2>3, <2>4
<1>14. /\ p \in Seq(Slots) /\ Len(p) = n + 1 /\ p[n + 1] = i /\ n \in Nat
       /\ \A m \in 1..n : p[m] = o[m]
  <2>1. o \in Seq(Slots) /\ i \in Slots
    BY <1>1, <1>2
  <2>2. p \in Seq(Slots) /\ Len(p) = Len(o) + 1 /\ p[Len(o) + 1] = i /\ \A m \in 1..Len(o) : p[m] = o[m]
    BY <2>1, AppendProperties DEF p
  <2> QED BY <1>1, <2>2 DEF n
<1>15. \A m \in Int : At(p, m) = IF m = n + 1 THEN i ELSE At(o, m)
  <2> SUFFICES ASSUME NEW m \in Int PROVE At(p, m) = IF m = n + 1 THEN i ELSE At(o, m)
    OBVIOUS
  <2>1. CASE m = n + 1
    BY <1>14, <2>1 DEF At
  <2>2. CASE m \in 1..n
    BY <1>14, <1>8, <2>2 DEF At
  <2>3. CASE m # n + 1 /\ m \notin 1..n
    BY <1>14, <1>8, <2>3 DEF At
  <2> QED BY <2>1, <2>2, <2>3
<1>16. Linked(u, p)
  <2>1. u.oldest = At(p, 1)
    <3>1. CASE n = 0
      BY <1>1, <1>4, <1>7, <1>8, <1>15, <3>1
    <3>2. CASE n # 0
      <4>1. 1 \in 1..n
        BY <1>14, <3>2
      <4>2. t.oldest # 0
        BY <1>7, <1>8, <4>1
      <4> QED BY <1>4, <1>7, <1>14, <1>15, <3>2, <4>2
    <3> QED BY <3>1, <3>2
  <2>2. u.latest = At(p, Len(p))
    BY <1>4, <1>14, <1>15
  <2>3. ASSUME NEW m \in 1..Len(p)
        PROVE  u.slot[p[m]].prev_time = At(p, m + 1) /\ u.slot[p[m]].next_time = At(p, m - 1)
    <3>1. CASE m = n + 1
      <4>1. p[m] = i /\ At(p, m + 1) = 0 /\ At(p, m - 1) = At(o, n)
        BY <1>14, <1>15, <1>8, <3>1
      <4> QED BY <1>5, <1>7, <1>11, <4>1
    <3>2. CASE m \in 1..n
      <4>1. p[m] = o[m] /\ o[m] \in Slots \ {i} /\ o[m] = At(o, m) /\ At(o, m) # 0
        BY <1>14, <1>8, <1>9, <3>2
      <4>2. u.slot[p[m]].next_time = At(p, m - 1)
        <5>1. At(p, m - 1) = At(o, m - 1)
          BY <1>14, <1>15, <3>2
        <5> QED BY <1>7, <1>12, <3>2, <4>1, <5>1
      <4>3. o[m] = t.latest <=> m = n
        BY <1>7, <1>8, <1>14, <3>2, <4>1
      <4>4. u.slot[p[m]].prev_time = IF m = n THEN i ELSE At(o, m + 1)
        BY <1>7, <1>12, <3>2, <4>1, <4>3
      <4>5. At(p, m + 1) = IF m = n THEN i ELSE At(o, m + 1)
        BY <1>14, <1>15, <3>2
      <4> QED BY <4>2, <4>4, <4>5
    <3> QED BY <3>1, <3>2, <1>14
  <2> QED BY <2>1, <2>2, <2>3 DEF Linked
<1>17. Used(u) = Used(t) \cup {i} /\ i \notin Used(t)
       /\ Open(u) = Open(t) /\ \A j \in Used(t) : u.slot[j].addr = t.slot[j].addr /\ j \in Slots \ {i}
  BY <1>2, <1>3, <1>5, <1>6, <1>11, <1>12 DEF Used, Open
<1>18. OneEach(u)
  BY <1>5, <1>11, <1>17 DEF Sound, OneEach
<1>19. \A j \in Slots : Session(u.slot[j])
  BY <1>5, <1>11, <1>12 DEF Sound, Session, Closed
<1>20. Counted(u, p)
  <2>1. Cardinality(Used(u)) = Cardinality(Used(t)) + 1
    BY <1>17, Finite, FS_AddElement
  <2>2. t.tcp_num = n /\ Len(t.free) + n = max_stream + 1 /\ Cardinality(Used(t)) = n
    BY DEF Sound, Counted, n
  <2>3. u.tcp_num = t.tcp_num + 1 /\ Len(u.free) = Len(t.free) - 1 /\ Len(t.free) \in Nat
    BY <1>2, <1>4
  <2>4. max_stream \in Nat /\ n \in Nat /\ Len(p) = n + 1
    BY <1>14, TcpStreamsAssumption
  <2>5. Len(u.free) + Len(p) = max_stream + 1
    <3> DEFINE f == Len(t.free)
    <3>1. f \in Nat /\ f + n = max_stream + 1 /\ Len(u.free) = f - 1
      BY <2>2, <2>3
    <3> HIDE DEF f
    <3>2. (f - 1) + (n + 1) = max_stream + 1
      BY <2>4, <3>1
    <3> QED BY <2>4, <3>1, <3>2
  <2> QED BY <2>1, <2>2, <2>3, <2>4, <2>5 DEF Counted
<1>21. Listed(u, p)
  <2>1. Distinct(p)
    <3> SUFFICES ASSUME NEW k \in 1..Len(p), NEW l \in 1..Len(p), p[k] = p[l] PROVE k = l
      BY DEF Distinct
    <3>1. CASE k \in 1..n /\ l \in 1..n
      BY <1>1, <1>14, <3>1 DEF Distinct, n
    <3>2. CASE k = n + 1 \/ l = n + 1
      BY <1>9, <1>14, <3>2
    <3> QED BY <1>14, <3>1, <3>2
  <2>2. /\ Len(u.free) = Len(t.free) - 1
        /\ \A m \in 1..Len(u.free) : u.free[m] = t.free[m + 1] /\ m + 1 \in 1..Len(t.free) /\ m + 1 # 1
    BY <1>2, <1>4
  <2>3. Distinct(u.free)
    <3> SUFFICES ASSUME NEW k \in 1..Len(u.free), NEW l \in 1..Len(u.free), u.free[k] = u.free[l] PROVE k = l
      BY DEF Distinct
    <3>1. k + 1 = l + 1
      BY <1>1, <2>2 DEF Distinct
    <3> QED BY <3>1
  <2>4. ASSUME NEW j \in Slots PROVE u.slot[j].addr # NoAddr <=> \E m \in 1..Len(p) : p[m] = j
    <3>1. t.slot[j].addr # NoAddr <=> \E m \in 1..n : o[m] = j
      BY DEF Sound, Listed, n
    <3>2. u.slot[j].addr # NoAddr <=> (t.slot[j].addr # NoAddr \/ j = i)
      BY <1>5, <1>6, <1>11, <1>12
    <3>3. (\E m \in 1..Len(p) : p[m] = j) <=> (j = i \/ \E m \in 1..n : o[m] = j)
      BY <1>14
    <3> QED BY <3>1, <3>2, <3>3
  <2>5. ASSUME NEW j \in Slots PROVE u.slot[j].addr = NoAddr <=> \E m \in 1..Len(u.free) : u.free[m] = j
    <3>1. t.slot[j].addr = NoAddr <=> \E m \in 1..Len(t.free) : t.free[m] = j
      BY DEF Sound, Listed
    <3>2. u.slot[j].addr = NoAddr <=> (t.slot[j].addr = NoAddr /\ j # i)
      BY <1>5, <1>6, <1>11, <1>12
    <3>3. ASSUME NEW m \in 1..Len(t.free), t.free[m] = j, j # i PROVE \E l \in 1..Len(u.free) : u.free[l] = j
      <4>1. m # 1 /\ m \in Int
        BY <1>2, <3>3
      <4>2. m - 1 \in 1..Len(u.free) /\ (m - 1) + 1 = m
        BY <1>2, <2>2, <4>1
      <4> QED BY <2>2, <3>3, <4>2
    <3>4. ASSUME NEW l \in 1..Len(u.free), u.free[l] = j PROVE j # i /\ \E m \in 1..Len(t.free) : t.free[m] = j
      <4>1. 1 \in 1..Len(t.free)
        BY <1>2
      <4>2. l + 1 \in 1..Len(t.free) /\ l + 1 # 1 /\ t.free[l + 1] = j
        BY <2>2, <3>4
      <4> QED BY <1>1, <1>2, <4>1, <4>2 DEF Distinct
    <3> QED BY <3>1, <3>2, <3>3, <3>4
  <2> QED BY <1>14, <2>1, <2>3, <2>4, <2>5 DEF Listed
<1> QED BY <1>4, <1>13, <1>16, <1>17, <1>18, <1>19, <1>20, <1>21 DEF Sound, u, i, p

\* A change of a stream's states leaves the lists alone.
LEMMA SetSound ==
  ASSUME NEW t, NEW o, Sound(t, o), NEW i \in Used(t), NEW x \in Stream, Session(x),
         x.addr = t.slot[i].addr, x.next_time = t.slot[i].next_time, x.prev_time = t.slot[i].prev_time
  PROVE  LET u == [t EXCEPT !.slot[i] = x] IN
         /\ Sound(u, o)
         /\ Open(u) = IF x.user THEN Open(t) \cup {i} ELSE Open(t) \ {i}
<1> DEFINE u == [t EXCEPT !.slot[i] = x]
<1>1. t \in Tables /\ i \in Slots /\ t.slot \in [Slots -> Stream] /\ t.slot[i].addr # NoAddr
  BY DEF Sound, Tables, Used
<1>2. /\ u \in Tables /\ u.slot = [t.slot EXCEPT ![i] = x]
      /\ u.tcp_num = t.tcp_num /\ u.latest = t.latest /\ u.oldest = t.oldest /\ u.free = t.free
  BY <1>1 DEF Tables
<1> HIDE DEF u
<1>3. u.slot[i] = x /\ \A j \in Slots : j # i => u.slot[j] = t.slot[j]
  BY <1>1, <1>2
<1>4. \A j \in Slots : /\ u.slot[j].addr = t.slot[j].addr
                       /\ u.slot[j].next_time = t.slot[j].next_time
                       /\ u.slot[j].prev_time = t.slot[j].prev_time
                       /\ Session(u.slot[j])
  BY <1>3 DEF Sound
<1>5. Used(u) = Used(t)
  BY <1>4 DEF Used
<1>6. Linked(u, o)
  <2>1. \A k \in 1..Len(o) : o[k] \in Slots
    BY DEF Sound, Listed
  <2> QED BY <2>1, <1>2, <1>4 DEF Sound, Linked
<1>7. Listed(u, o) /\ Counted(u, o) /\ OneEach(u)
  <2>1. Listed(u, o)
    BY <1>2, <1>4 DEF Sound, Listed
  <2>2. Counted(u, o)
    BY <1>2, <1>5 DEF Sound, Counted
  <2>3. \A j \in Used(t) : u.slot[j].addr = t.slot[j].addr
    BY <1>4 DEF Used
  <2>4. OneEach(u)
    BY <1>5, <2>3 DEF Sound, OneEach
  <2> QED BY <2>1, <2>2, <2>4
<1>8. Open(u) = IF x.user THEN Open(t) \cup {i} ELSE Open(t) \ {i}
  BY <1>1, <1>3, <1>5 DEF Open, Used
<1> QED BY <1>2, <1>4, <1>6, <1>7, <1>8 DEF Sound, u

-----------------------------------------------------------------------------
(* The actions.                                                            *)

\* A worker that has just started, after tcp_init.
LEMMA FreshSound == Sound(tcp_init, <<>>) /\ Open(tcp_init) = {}
<1> DEFINE t == tcp_init
<1>1. max_stream + 1 \in Nat /\ max_stream \in Nat
  BY TcpStreamsAssumption
<1>2. /\ t.slot = [i \in Slots |-> Zero] /\ t.tcp_num = 0 /\ t.latest = 0 /\ t.oldest = 0
      /\ t.free = [i \in Slots |-> i]
      /\ t = [slot |-> t.slot, tcp_num |-> t.tcp_num, latest |-> t.latest, oldest |-> t.oldest,
              free |-> t.free]
  BY DEF tcp_init
<1> HIDE DEF t
<1>3. t.free \in Seq(Slots) /\ Len(t.free) = max_stream + 1 /\ \A m \in 1..(max_stream + 1) : t.free[m] = m
  <2>1. t.free = [i \in 1..(max_stream + 1) |-> i]
    BY <1>2 DEF Slots
  <2>2. \A i \in 1..(max_stream + 1) : i \in Slots
    BY DEF Slots
  <2>3. t.free \in Seq(Slots)
    BY <1>1, <2>1, <2>2, IsASeq
  <2>4. DOMAIN t.free = 1..(max_stream + 1)
    BY <2>1
  <2>5. Len(t.free) = max_stream + 1
    BY <1>1, <2>3, <2>4, LenProperties
  <2> QED BY <2>1, <2>3, <2>5
<1>4. \A i \in Slots : t.slot[i] = Zero
  BY <1>2
<1>5. t \in Tables
  <2>1. t.slot \in [Slots -> Stream]
    BY <1>2, ZeroStream
  <2>2. t.tcp_num \in Nat /\ t.latest \in Link /\ t.oldest \in Link
    BY <1>2 DEF Link
  <2>3. t = [slot |-> t.slot, tcp_num |-> t.tcp_num, latest |-> t.latest, oldest |-> t.oldest,
             free |-> t.free]
    BY <1>2
  <2> QED BY <1>3, <2>1, <2>2, <2>3 DEF Tables
<1>6. Used(t) = {} /\ Open(t) = {}
  BY <1>4, ZeroStream DEF Used, Open
<1>7. Linked(t, <<>>)
  BY <1>2 DEF Linked, At
<1>8. Listed(t, <<>>)
  <2>1. Len(<<>>) = 0 /\ <<>> \in Seq(Slots) /\ Distinct(<<>>)
    BY DEF Distinct
  <2>2. Distinct(t.free)
    BY <1>3 DEF Distinct
  <2>3. \A i \in Slots : t.slot[i].addr = NoAddr
    BY <1>4, ZeroStream
  <2>4. \A i \in Slots : i \in 1..Len(t.free) /\ t.free[i] = i
    BY <1>3 DEF Slots
  <2> QED BY <2>1, <2>2, <2>3, <2>4 DEF Listed
<1>9. Counted(t, <<>>)
  BY <1>1, <1>2, <1>3, <1>6, FS_EmptySet DEF Counted
<1>10. OneEach(t) /\ \A i \in Slots : Session(t.slot[i])
  BY <1>4, <1>6, ZeroStream DEF OneEach
<1> QED BY <1>5, <1>6, <1>7, <1>8, <1>9, <1>10 DEF Sound, t

\* The empty table is in the invariant.
LEMMA Initially == Init => IInv
BY FreshSound, FS_EmptySet DEF Init, IInv

\* A stream ends, with its session if it has one.
LEMMA ReleaseSafe ==
  ASSUME IInv, NEW i \in Used(tab), Release(i),
         conn' = IF tab.slot[i].user THEN conn - 1 ELSE conn, dropped' = dropped, up' = up
  PROVE  IInv'
<1>1. Sound(tab', order') /\ Open(tab') = Open(tab) \ {i}
  BY FreeSound DEF IInv, Release
<1>2. Cardinality(Open(tab')) = IF tab.slot[i].user THEN Cardinality(Open(tab)) - 1 ELSE Cardinality(Open(tab))
  <2>1. i \in Open(tab) <=> tab.slot[i].user
    BY DEF Open
  <2> QED BY <1>1, <2>1, Finite, FS_RemoveElement
<1>3. Cardinality(Open(tab)) \in Nat /\ Cardinality(Open(tab')) \in Nat /\ dropped \in Nat
  BY Finite DEF IInv
<1> QED BY <1>1, <1>2, <1>3 DEF IInv

\* find_stream finds the stream of a known connection.
LEMMA FindsIt ==
  ASSUME NEW c, Known(c)
  PROVE  Find(c) \in Used(tab) /\ tab.slot[Find(c)].addr = c
BY DEF Known, Find

\* add_new_tcp: the pool never runs dry, and the oldest stream makes room.
LEMMA AddSafe ==
  ASSUME IInv, NEW c \in Conns, ~Known(c), Add(c), dropped' = dropped, up' = up
  PROVE  IInv'
<1>1. /\ Sound(tab, order) /\ order \in Seq(Slots) /\ Len(order) \in Nat
      /\ tab.tcp_num = Len(order) /\ Len(tab.free) + Len(order) = max_stream + 1
      /\ tab.free \in Seq(Slots) /\ Len(tab.free) \in Nat
  BY DEF IInv, Sound, Tables, Listed, Counted
<1>2. \A j \in Used(tab) : tab.slot[j].addr # c
  BY DEF Known
<1>3. CASE Crowded
  <2> DEFINE v == tab.oldest
             t == nids_free_tcp_stream(tab, v)
             o == RemoveFirst(order, v)
  <2>1. /\ conn' = IF tab.slot[v].user THEN conn - 1 ELSE conn
        /\ tab' = Insert(t, c) /\ order' = Append(o, tab'.latest)
    BY <1>3 DEF Add, Hangup, Listeners
  <2>2. v \in Used(tab)
    <3>1. Len(order) > max_stream /\ max_stream \in Nat
      BY <1>1, <1>3, TcpStreamsAssumption DEF Crowded
    <3>2. 1 \in 1..Len(order)
      BY <1>1, <3>1
    <3>3. v = order[1] /\ v \in Slots
      BY <1>1, <3>2, AtIndex DEF Sound, Linked
    <3> QED BY <3>2, <3>3 DEF IInv, Sound, Listed, Used
  <2>3. /\ Sound(t, o) /\ Used(t) = Used(tab) \ {v} /\ Open(t) = Open(tab) \ {v} /\ t.free # <<>>
        /\ \A j \in Used(t) : t.slot[j].addr = tab.slot[j].addr
    BY <1>1, <2>2, FreeSound
  <2> HIDE DEF v, t, o
  <2>4. \A j \in Used(t) : t.slot[j].addr # c
    BY <1>2, <2>3
  <2>5. Sound(tab', order') /\ Open(tab') = Open(tab) \ {v}
    BY <2>1, <2>3, <2>4, InsertSound
  <2>6. v \in Open(tab) <=> tab.slot[v].user
    BY <2>2 DEF Open
  <2>7. Cardinality(Open(tab')) = IF tab.slot[v].user THEN Cardinality(Open(tab)) - 1 ELSE Cardinality(Open(tab))
    BY <2>5, <2>6, Finite, FS_RemoveElement
  <2>8. Cardinality(Open(tab)) \in Nat /\ Cardinality(Open(tab')) \in Nat /\ dropped \in Nat
    BY Finite DEF IInv
  <2> QED BY <2>1, <2>5, <2>7, <2>8 DEF IInv
<1>4. CASE ~Crowded
  <2>1. tab' = Insert(tab, c) /\ order' = Append(order, tab'.latest) /\ conn' = conn
    BY <1>4 DEF Add
  <2>2. tab.free # <<>>
    <3>1. Len(order) <= max_stream /\ max_stream \in Nat
      BY <1>1, <1>4, TcpStreamsAssumption DEF Crowded
    <3>2. Len(tab.free) # 0
      BY <1>1, <3>1
    <3> QED BY <3>2
  <2>3. Sound(tab', order') /\ Open(tab') = Open(tab)
    BY <1>1, <1>2, <2>1, <2>2, InsertSound
  <2> QED BY <2>1, <2>3 DEF IInv
<1> QED BY <1>3, <1>4

\* A worker ends: its sessions stay counted.
LEMMA EndSafe ==
  ASSUME IInv, NEW n \in {0, 1}, tab' = tcp_init, order' = <<>>, conn' = conn + n,
         dropped' = dropped + Cardinality(OpenSessions) + n, up' \in BOOLEAN
  PROVE  IInv'
<1>1. OpenSessions = Open(tab)
  BY DEF OpenSessions, Open
<1>2. Cardinality(Open(tab)) \in Nat
  BY Finite
<1>3. Sound(tab', order') /\ Cardinality(Open(tab')) = 0
  BY FreshSound, FS_EmptySet
<1> QED BY <1>1, <1>2, <1>3 DEF IInv

\* A stream changes its states; a session starts when user becomes TRUE.
LEMMA SetSafe ==
  ASSUME IInv, NEW i \in Used(tab), NEW x \in Stream, Session(x), Set(i, x),
         x.addr = tab.slot[i].addr, x.next_time = tab.slot[i].next_time,
         x.prev_time = tab.slot[i].prev_time,
         tab.slot[i].user => x.user,
         conn' = IF x.user /\ ~tab.slot[i].user THEN conn + 1 ELSE conn,
         dropped' = dropped, up' = up
  PROVE  IInv'
<1>1. /\ Sound(tab', order')
      /\ Open(tab') = IF x.user THEN Open(tab) \cup {i} ELSE Open(tab) \ {i}
  BY SetSound DEF IInv, Set
<1>2. i \in Open(tab) <=> tab.slot[i].user
  BY DEF Open
<1>3. Cardinality(Open(tab')) =
        IF x.user /\ ~tab.slot[i].user THEN Cardinality(Open(tab)) + 1 ELSE Cardinality(Open(tab))
  <2>1. CASE x.user
    <3>1. Open(tab') = Open(tab) \cup {i}
      BY <1>1, <2>1
    <3>2. Cardinality(Open(tab')) = IF i \in Open(tab) THEN Cardinality(Open(tab)) ELSE Cardinality(Open(tab)) + 1
      BY <3>1, Finite, FS_AddElement
    <3> QED BY <1>2, <2>1, <3>2
  <2>2. CASE ~x.user
    <3>1. Open(tab') = Open(tab)
      BY <1>1, <1>2, <2>2
    <3> QED BY <2>2, <3>1
  <2> QED BY <2>1, <2>2
<1>4. Cardinality(Open(tab)) \in Nat /\ dropped \in Nat
  BY Finite DEF IInv
<1> QED BY <1>1, <1>3, <1>4 DEF IInv

\* The states of a stream after a segment with data or FIN.
LEMMA QueueStates ==
  ASSUME NEW x \in Stream, NEW from \in {"client", "server"}, NEW place, NEW fin \in BOOLEAN,
         x.user => x.nids_state = "DATA" /\ x.client # "SYN_SENT", ~Closed(x)
  PROVE  LET y == tcp_queue(x, from, place, fin) IN
         /\ y \in Stream /\ Session(y) /\ y.user = x.user /\ y.addr = x.addr
         /\ y.next_time = x.next_time /\ y.prev_time = x.prev_time
<1>1. ASSUME NEW state \in States
      PROVE  \A waits \in BOOLEAN :
               /\ Sender(state, waits, place, fin) \in {state, "FIN_SENT", "CLOSING"}
               /\ Sender(state, waits, place, fin) \in States
  BY DEF Sender, States
<1>2. \A waits \in BOOLEAN : Waits(waits, place, fin) \in BOOLEAN
  BY DEF Waits
<1>3. CASE from = "client"
  <2> DEFINE y == [x EXCEPT !.client = Sender(@, x.cfin, place, fin), !.cfin = Waits(@, place, fin)]
  <2>1. tcp_queue(x, from, place, fin) = y
    BY <1>3 DEF tcp_queue
  <2>2. Sender(x.client, x.cfin, place, fin) \in States /\ Waits(x.cfin, place, fin) \in BOOLEAN
        /\ Sender(x.client, x.cfin, place, fin) \in {x.client, "FIN_SENT", "CLOSING"}
    BY <1>1, <1>2 DEF Stream
  <2>3. /\ y \in Stream /\ y.user = x.user /\ y.addr = x.addr /\ y.next_time = x.next_time
        /\ y.prev_time = x.prev_time /\ y.server = x.server /\ y.nids_state = x.nids_state
        /\ y.client \in {x.client, "FIN_SENT", "CLOSING"}
    BY <2>2 DEF Stream
  <2> HIDE DEF y
  <2> QED BY <2>1, <2>3 DEF Session, Closed
<1>4. CASE from = "server"
  <2> DEFINE y == [x EXCEPT !.server = Sender(@, x.sfin, place, fin), !.sfin = Waits(@, place, fin)]
  <2>1. tcp_queue(x, from, place, fin) = y
    BY <1>4 DEF tcp_queue
  <2>2. Sender(x.server, x.sfin, place, fin) \in States /\ Waits(x.sfin, place, fin) \in BOOLEAN
        /\ Sender(x.server, x.sfin, place, fin) \in {x.server, "FIN_SENT", "CLOSING"}
    BY <1>1, <1>2 DEF Stream
  <2>3. /\ y \in Stream /\ y.user = x.user /\ y.addr = x.addr /\ y.next_time = x.next_time
        /\ y.prev_time = x.prev_time /\ y.client = x.client /\ y.nids_state = x.nids_state
        /\ y.server \in {x.server, "FIN_SENT", "CLOSING"}
    BY <2>2 DEF Stream
  <2> HIDE DEF y
  <2> QED BY <2>1, <2>3 DEF Session, Closed
<1> QED BY <1>3, <1>4

\* A segment past the SYN: it establishes, closes, is queued, or finds that
\* nobody listens.
LEMMA SegmentSafe ==
  ASSUME IInv, NEW c \in Conns, NEW from \in {"client", "server"},
         NEW ack \in {"none", "right", "other"}, NEW place, NEW fin \in BOOLEAN,
         Segment(c, from, ack, place, fin)
  PROVE  IInv'
<1> DEFINE i    == Find(c)
           x0   == tab.slot[i]
           est  == Handshake(x0, from, ack)
           x1   == IF est THEN Establish(x0, c) ELSE x0
           x2   == IF ack = "none" THEN x1 ELSE AckBy(x1, from)
           over == ack # "none" /\ Closed(x2)
<1>1. i \in Used(tab) /\ dropped' = dropped /\ up' = up
  BY FindsIt DEF Segment
<1>2. x0 \in Stream /\ Session(x0)
  BY <1>1 DEF IInv, Sound, Tables, Used
<1>3. \/ est /\ ~Listeners(x1) /\ Release(i) /\ UNCHANGED conn
      \/ over /\ Release(i) /\ Hangup(x2)
      \/ /\ ~over /\ Listeners(x1) /\ Set(i, tcp_queue(x2, from, place, fin))
         /\ conn' = IF est THEN conn + 1 ELSE conn
      \/ ~over /\ ~Listeners(x1) /\ ~est /\ Release(i) /\ UNCHANGED conn
  BY DEF Segment
<1> HIDE DEF i, x0
<1>4. est => from = "client" /\ ack = "right" /\ ~x0.user
  BY <1>2 DEF Handshake, Session
<1>5. /\ x1 \in Stream /\ x1.addr = x0.addr /\ x1.next_time = x0.next_time /\ x1.prev_time = x0.prev_time
      /\ x1.user => x1.nids_state = "DATA" /\ x1.client # "SYN_SENT"
      /\ ~Closed(x1) /\ (est => x1.client = "ESTABLISHED") /\ (~est => x1 = x0)
  <2>1. CASE est
    <3>1. x1 = [x0 EXCEPT !.client = "ESTABLISHED", !.server = "ESTABLISHED",
                          !.nids_state = "DATA", !.user = c \in Service]
      BY <2>1 DEF Establish
    <3> HIDE DEF x1, est
    <3> DEFINE b == c \in Service
    <3>2. b \in BOOLEAN /\ x1 = [x0 EXCEPT !.client = "ESTABLISHED", !.server = "ESTABLISHED",
                                          !.nids_state = "DATA", !.user = b]
      BY <3>1
    <3> HIDE DEF b
    <3>3. /\ x1 \in Stream /\ x1.addr = x0.addr /\ x1.next_time = x0.next_time
          /\ x1.prev_time = x0.prev_time /\ x1.nids_state = "DATA" /\ x1.client = "ESTABLISHED"
      BY <1>2, <3>2 DEF Stream, States
    <3> QED BY <2>1, <3>3 DEF Closed
  <2>2. CASE ~est
    BY <1>2, <2>2 DEF Session
  <2> QED BY <2>1, <2>2
<1> HIDE DEF x1, est
<1>6. /\ x2 \in Stream /\ x2.addr = x1.addr /\ x2.next_time = x1.next_time /\ x2.prev_time = x1.prev_time
      /\ x2.user = x1.user /\ x2.nids_state = x1.nids_state
      /\ x1.client # "SYN_SENT" => x2.client # "SYN_SENT"
      /\ ack = "none" => x2 = x1
      /\ from = "client" => x2.client = x1.client
  <2>1. CASE ack = "none"
    BY <1>5, <2>1
  <2>2. CASE ack # "none" /\ from = "client"
    <3>1. x2 = [x1 EXCEPT !.server = Confirm(@)]
      BY <2>2 DEF AckBy
    <3>2. Confirm(x1.server) \in States
      BY <1>5 DEF Confirm, Stream, States
    <3> HIDE DEF x2
    <3> QED BY <1>5, <2>2, <3>1, <3>2 DEF Stream
  <2>3. CASE ack # "none" /\ from = "server"
    <3>1. x2 = [x1 EXCEPT !.client = Confirm(@)]
      BY <2>3 DEF AckBy
    <3>2. Confirm(x1.client) \in States /\ (x1.client # "SYN_SENT" => Confirm(x1.client) # "SYN_SENT")
      BY <1>5 DEF Confirm, Stream, States
    <3> HIDE DEF x2
    <3> QED BY <1>5, <2>3, <3>1, <3>2 DEF Stream
  <2> QED BY <2>1, <2>2, <2>3
<1> HIDE DEF x2
<1>7. est => ~over
  BY <1>4, <1>5, <1>6 DEF Closed
<1>8. ~over => ~Closed(x2)
  BY <1>5, <1>6
<1> HIDE DEF over
<1>9. CASE est /\ ~Listeners(x1) /\ Release(i) /\ UNCHANGED conn
  BY <1>1, <1>4, <1>9, ReleaseSafe DEF x0
<1>10. CASE over /\ Release(i) /\ Hangup(x2)
  <2>1. x2.user = x0.user
    BY <1>5, <1>6, <1>7, <1>10
  <2> QED BY <1>1, <1>10, <2>1, ReleaseSafe DEF x0, Hangup, Listeners
<1>11. CASE ~over /\ Listeners(x1) /\ Set(i, tcp_queue(x2, from, place, fin))
            /\ conn' = IF est THEN conn + 1 ELSE conn
  <2> DEFINE y == tcp_queue(x2, from, place, fin)
  <2>1. /\ y \in Stream /\ Session(y) /\ y.user = x2.user /\ y.addr = x2.addr
        /\ y.next_time = x2.next_time /\ y.prev_time = x2.prev_time
    <3>1. x2.user => x2.nids_state = "DATA" /\ x2.client # "SYN_SENT"
      BY <1>5, <1>6
    <3>2. ~Closed(x2)
      BY <1>8, <1>11
    <3> QED BY <1>6, <3>1, <3>2, QueueStates
  <2>2. Set(i, y)
    BY <1>11
  <2> HIDE DEF y
  <2>3. y.user /\ (est <=> ~x0.user)
    BY <1>4, <1>5, <1>6, <1>11, <2>1 DEF Listeners
  <2>4. y.addr = x0.addr /\ y.next_time = x0.next_time /\ y.prev_time = x0.prev_time
    BY <1>5, <1>6, <2>1
  <2> QED BY <1>1, <1>11, <2>1, <2>2, <2>3, <2>4, SetSafe DEF x0
<1>12. CASE ~over /\ ~Listeners(x1) /\ ~est /\ Release(i) /\ UNCHANGED conn
  BY <1>1, <1>5, <1>12, ReleaseSafe DEF x0, Listeners
<1> QED BY <1>3, <1>9, <1>10, <1>11, <1>12

\* No packet, crash or restart breaks the invariant.
LEMMA Inductive == IInv /\ [Next]_vars => IInv'
<1> SUFFICES ASSUME IInv, [Next]_vars PROVE IInv'
  OBVIOUS
<1>1. ASSUME NEW c \in Conns, Syn(c) PROVE IInv'
  BY <1>1, AddSafe DEF Syn
<1>2. ASSUME NEW c \in Conns, SynAck(c) PROVE IInv'
  <2> DEFINE i == Find(c)
             x == tab.slot[i]
             y == [x EXCEPT !.server = "SYN_RECV"]
  <2>1. i \in Used(tab) /\ x.client = "SYN_SENT" /\ Set(i, y) /\ UNCHANGED <<conn, dropped, up>>
    BY <1>2, FindsIt DEF SynAck
  <2>2. x \in Stream /\ Session(x)
    BY <2>1 DEF IInv, Sound, Tables, Used
  <2> HIDE DEF i
  <2>3. /\ y \in Stream /\ y.user = x.user /\ y.addr = x.addr /\ y.next_time = x.next_time
        /\ y.prev_time = x.prev_time /\ y.client = "SYN_SENT" /\ y.server = "SYN_RECV" /\ ~x.user
    BY <2>1, <2>2 DEF Stream, States, Session
  <2>4. Session(y)
    BY <2>3 DEF Session, Closed
  <2> QED BY <2>1, <2>3, <2>4, SetSafe
<1>3. ASSUME NEW c \in Conns, Rst(c) PROVE IInv'
  <2> DEFINE i == Find(c)
             x == tab.slot[i]
  <2>1. /\ i \in Used(tab) /\ Release(i) /\ UNCHANGED <<dropped, up>>
        /\ IF x.nids_state = "DATA" THEN Hangup(x) ELSE UNCHANGED conn
    BY <1>3, FindsIt DEF Rst
  <2>2. x.user \in BOOLEAN /\ (x.user => x.nids_state = "DATA")
    BY <2>1 DEF IInv, Sound, Tables, Stream, Used, Session
  <2>3. conn' = IF x.user THEN conn - 1 ELSE conn
    BY <2>1, <2>2 DEF Hangup, Listeners
  <2> QED BY <2>1, <2>3, ReleaseSafe
<1>4. ASSUME NEW c \in Conns, Unreachable(c) PROVE IInv'
  BY <1>4, FindsIt, ReleaseSafe DEF Unreachable, Hangup, Listeners
<1>5. ASSUME NEW c \in Conns, ExitOrphaned(c) PROVE IInv'
  BY <1>5, EndSafe DEF ExitOrphaned
<1>6. CASE Restart
  <2>1. conn \in Nat /\ dropped + Cardinality(OpenSessions) \in Int
    BY Finite DEF IInv, OpenSessions, Open
  <2>2. conn' = conn + 0 /\ dropped' = dropped + Cardinality(OpenSessions) + 0
    BY <1>6, <2>1 DEF Restart, Forget
  <2> QED BY <1>6, <2>2, EndSafe DEF Restart, IInv
<1>7. CASE tcp_exit
  <2>1. conn \in Nat /\ dropped + Cardinality(OpenSessions) \in Int
    BY Finite DEF IInv, OpenSessions, Open
  <2>2. conn' = conn + 0 /\ dropped' = dropped + Cardinality(OpenSessions) + 0
    BY <1>7, <2>1 DEF tcp_exit, Forget
  <2> QED BY <1>7, <2>2, EndSafe DEF tcp_exit
<1>8. CASE UNCHANGED vars
  BY <1>8 DEF vars, IInv
<1> QED BY <1>1, <1>2, <1>3, <1>4, <1>5, <1>6, <1>7, <1>8, SegmentSafe DEF Next

-----------------------------------------------------------------------------

\* stat->conn is the number of sessions, those that went with their worker
\* included: every path out of the table hangs a session up exactly once.
THEOREM ConnAlwaysCounts == Spec => []ConnCounts
<1>1. IInv => ConnCounts
  BY DEF IInv, ConnCounts, OpenSessions, Open
<1> QED BY <1>1, Initially, Inductive, PTL DEF Spec

\* No connection stays in the table after both its FINs were confirmed.
THEOREM ClosedAlwaysFreed == Spec => []ClosedIsFreed
<1>1. IInv => ClosedIsFreed
  BY DEF IInv, Sound, Session, Closed, ClosedIsFreed, Used
<1> QED BY <1>1, Initially, Inductive, PTL DEF Spec

\* Whatever streams were freed, by whichever path: the age list is doubly
\* linked in the order of insertion, pool and free list complement each other
\* and there is always a stream to take when there is room.
THEOREM TableAlwaysSound == Spec => []TableSound
<1>1. ASSUME IInv PROVE TypeOK
  BY <1>1 DEF IInv, Sound, Tables, Stream, Link, TypeOK
<1>2. ASSUME IInv PROVE AgeListSound
  <2>1. order \in Seq(Slots) /\ Len(order) \in Nat
    BY <1>2 DEF IInv, Sound, Listed
  <2>2. Used(tab) = Range(order)
    <3>1. Range(order) = {order[k] : k \in 1..Len(order)}
      BY <2>1 DEF Range
    <3>2. \A i \in Slots : i \in Used(tab) <=> \E k \in 1..Len(order) : order[k] = i
      BY <1>2 DEF IInv, Sound, Listed, Used
    <3>3. \A k \in 1..Len(order) : order[k] \in Slots
      BY <2>1
    <3> QED BY <3>1, <3>2, <3>3 DEF Used
  <2>3. Linked(tab, order) /\ Cardinality(Used(tab)) = Len(order)
    BY <1>2 DEF IInv, Sound, Counted
  <2> QED BY <2>1, <2>2, <2>3 DEF AgeListSound, Linked, At
<1>3. ASSUME IInv PROVE PoolAccounted
  <2>1. tab.free \in Seq(Slots) /\ Len(tab.free) \in Nat /\ Len(order) \in Nat
    BY <1>3 DEF IInv, Sound, Tables, Listed
  <2>2. /\ tab.tcp_num = Len(order) /\ Len(tab.free) + Len(order) = max_stream + 1
        /\ Cardinality(Used(tab)) = Len(order)
    BY <1>3 DEF IInv, Sound, Counted
  <2>3. Range(tab.free) = Slots \ Used(tab)
    <3>1. Range(tab.free) = {tab.free[k] : k \in 1..Len(tab.free)}
      BY <2>1 DEF Range
    <3>2. \A i \in Slots : i \notin Used(tab) <=> \E k \in 1..Len(tab.free) : tab.free[k] = i
      BY <1>3 DEF IInv, Sound, Listed, Used
    <3>3. \A k \in 1..Len(tab.free) : tab.free[k] \in Slots
      BY <2>1
    <3> QED BY <3>1, <3>2, <3>3
  <2>4. ~Crowded => tab.free # <<>>
    <3> SUFFICES ASSUME ~Crowded PROVE Len(tab.free) # 0
      BY <2>1
    <3>1. Len(order) <= max_stream /\ max_stream \in Nat
      BY <2>1, <2>2, TcpStreamsAssumption DEF Crowded
    <3> QED BY <2>1, <2>2, <3>1
  <2> QED BY <1>3, <2>1, <2>2, <2>3, <2>4 DEF PoolAccounted, IInv, Sound, OneEach
<1>4. IInv => TableSound
  BY <1>1, <1>2, <1>3 DEF TableSound
<1> QED BY <1>4, Initially, Inductive, PTL DEF Spec
=============================================================================
