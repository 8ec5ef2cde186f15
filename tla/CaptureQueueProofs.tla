-------------------------- MODULE CaptureQueueProofs --------------------------
(***************************************************************************)
(* The two threads over cap_queue are safe for every queue_limit and every *)
(* number of packets.                                                      *)
(***************************************************************************)
EXTENDS CaptureQueue, SequenceTheorems, TLAPS

\* What is queued or was handed on was captured, and nothing is queued behind
\* the EOF_item.
Numbered ==
  /\ \A j \in 1..Len(cap_queue) : cap_queue[j] <= captured
  /\ \A i \in 1..Len(handed) : handed[i] \in 1..captured
  /\ \A j \in 1..Len(cap_queue) : cap_queue[j] = EOF_item => j = Len(cap_queue)

\* There is no EOF_item before Stop; from then on it is the last in the queue
\* until the processing thread has taken it and is over.
EofLast ==
  IF main \in {"loop", "stop"}
    THEN /\ worker # "over"
         /\ \A j \in 1..Len(cap_queue) : cap_queue[j] # EOF_item
    ELSE \/ worker = "over" /\ cap_queue = <<>>
         \/ worker # "over" /\ cap_queue # <<>> /\ cap_queue[Len(cap_queue)] = EOF_item

\* Until Stop the queue is over the limit by the blocked thread at most.
Limited ==
  IF main \in {"loop", "stop"} THEN Len(cap_queue) <= queue_limit + 2
                               ELSE Len(cap_queue) <= queue_limit + 3

\* The inductive invariant.
IInv == TypeOK /\ InOrder /\ Numbered /\ EofLast /\ Limited /\ TeardownSafe

\* The queue after a push and after a pop, item by item.
LEMMA Pushed ==
  ASSUME NEW q \in Seq(Nat), NEW x \in Nat
  PROVE  /\ Append(q, x) \in Seq(Nat) /\ Len(Append(q, x)) = Len(q) + 1
         /\ Append(q, x) # <<>>
         /\ \A j \in 1..(Len(q) + 1) : Append(q, x)[j] = IF j = Len(q) + 1 THEN x ELSE q[j]
BY AppendProperties

\* What g_async_queue_pop leaves of a queue.
LEMMA Popped ==
  ASSUME NEW q \in Seq(Nat), q # <<>>
  PROVE  /\ Tail(q) \in Seq(Nat) /\ Len(Tail(q)) = Len(q) - 1 /\ Len(q) \in Nat \ {0}
         /\ Head(q) = q[1] /\ Head(q) \in Nat
         /\ \A j \in 1..Len(Tail(q)) : Tail(q)[j] = q[j + 1]
BY HeadTailProperties

\* Both keep a queue increasing, if what is pushed is above what is there.
LEMMA IncreasingPushed ==
  ASSUME NEW q \in Seq(Nat), NEW x \in Nat, Increasing(q),
         \A j \in 1..Len(q) : q[j] # EOF_item /\ x # EOF_item => q[j] < x
  PROVE  Increasing(Append(q, x))
<1> DEFINE p == Append(q, x)
<1>1. Len(p) = Len(q) + 1 /\ Len(q) \in Nat /\ \A j \in 1..(Len(q) + 1) : p[j] = IF j = Len(q) + 1 THEN x ELSE q[j]
  BY Pushed
<1> HIDE DEF p
<1> SUFFICES ASSUME NEW i \in 1..Len(p), NEW j \in 1..Len(p), i < j, p[i] # EOF_item, p[j] # EOF_item
             PROVE  p[i] < p[j]
  BY DEF Increasing, p
<1>2. i \in 1..Len(q) /\ p[i] = q[i]
  BY <1>1
<1>3. CASE j = Len(q) + 1
  BY <1>1, <1>2, <1>3
<1>4. CASE j \in 1..Len(q)
  <2>1. p[j] = q[j]
    BY <1>1, <1>4
  <2> QED BY <2>1, <1>2, <1>4 DEF Increasing
<1> QED BY <1>1, <1>3, <1>4

\* Popping keeps the order, and what was popped came first.
LEMMA IncreasingPopped ==
  ASSUME NEW q \in Seq(Nat), q # <<>>, Increasing(q)
  PROVE  /\ Increasing(Tail(q))
         /\ Head(q) # EOF_item =>
              \A j \in 1..Len(Tail(q)) : Tail(q)[j] # EOF_item => Head(q) < Tail(q)[j]
<1> DEFINE t == Tail(q)
<1>1. /\ Len(t) = Len(q) - 1 /\ Len(q) \in Nat \ {0} /\ Head(q) = q[1]
      /\ \A j \in 1..Len(t) : t[j] = q[j + 1] /\ j + 1 \in 1..Len(q) /\ 1 < j + 1
  BY Popped
<1> HIDE DEF t
<1>2. Increasing(t)
  <2> SUFFICES ASSUME NEW i \in 1..Len(t), NEW j \in 1..Len(t), i < j, t[i] # EOF_item, t[j] # EOF_item
               PROVE  t[i] < t[j]
    BY DEF Increasing
  <2>1. t[i] = q[i + 1] /\ t[j] = q[j + 1] /\ i + 1 \in 1..Len(q) /\ j + 1 \in 1..Len(q) /\ i + 1 < j + 1
    BY <1>1
  <2> QED BY <2>1 DEF Increasing
<1>3. ASSUME Head(q) # EOF_item, NEW j \in 1..Len(t), t[j] # EOF_item
      PROVE  Head(q) < t[j]
  <2>1. 1 \in 1..Len(q) /\ Head(q) = q[1] /\ t[j] = q[j + 1] /\ j + 1 \in 1..Len(q) /\ 1 < j + 1
    BY <1>1
  <2> QED BY <2>1, <1>3 DEF Increasing
<1> QED BY <1>2, <1>3 DEF t

\* The queue, the threads and the table start in the invariant.
LEMMA Initially == Init => IInv
BY CaptureQueueAssumption
DEF Init, IInv, TypeOK, InOrder, Increasing, Numbered, EofLast, Limited, TeardownSafe, EOF_item

\* nids_pcap_handler pushes a number above all others, if the test lets it.
LEMMA HandlerSafe == IInv /\ (nids_pcap_handler \/ OutOfMemory) => IInv'
<1> SUFFICES ASSUME IInv, nids_pcap_handler \/ OutOfMemory PROVE IInv'
  OBVIOUS
<1> USE CaptureQueueAssumption DEF EOF_item
<1>1. CASE cap_queue' = cap_queue /\ UNCHANGED <<main, worker, item, handed>> /\ captured' = captured + 1
  BY <1>1 DEF IInv, TypeOK, InOrder, Increasing, Numbered, EofLast, Limited, TeardownSafe
<1>2. CASE /\ main = "loop" /\ ~Full /\ cap_queue' = Append(cap_queue, captured + 1)
           /\ UNCHANGED <<main, worker, item, handed>> /\ captured' = captured + 1
  <2>1. cap_queue \in Seq(Nat) /\ captured \in Nat /\ Len(cap_queue) \in Nat
    BY DEF IInv, TypeOK
  <2>2. /\ cap_queue' \in Seq(Nat) /\ Len(cap_queue') = Len(cap_queue) + 1
        /\ \A j \in 1..(Len(cap_queue) + 1) :
             cap_queue'[j] = IF j = Len(cap_queue) + 1 THEN captured + 1 ELSE cap_queue[j]
    BY <1>2, <2>1, Pushed
  <2>3. \A j \in 1..Len(cap_queue) :
          cap_queue[j] \in Nat /\ cap_queue[j] # EOF_item /\ cap_queue[j] <= captured
    BY <1>2, <2>1 DEF IInv, Numbered, EofLast
  <2>4. TypeOK'
    BY <1>2, <2>1, <2>2 DEF IInv, TypeOK
  <2>5. Increasing(cap_queue)'
    <3>1. Increasing(Append(cap_queue, captured + 1))
      BY <2>1, <2>3, IncreasingPushed DEF IInv, InOrder
    <3> QED BY <3>1, <1>2 DEF Increasing
  <2>6. Increasing(handed)'
    BY <1>2 DEF IInv, InOrder, Increasing
  <2>7. ASSUME NEW i \in 1..Len(handed'), NEW j \in 1..Len(cap_queue'), cap_queue'[j] # EOF_item
        PROVE  handed'[i] < cap_queue'[j]
    <3>1. i \in 1..Len(handed) /\ handed'[i] = handed[i] /\ handed[i] \in 1..captured
      BY <1>2, <2>7 DEF IInv, Numbered
    <3>2. CASE j = Len(cap_queue) + 1
      BY <3>1, <3>2, <2>1, <2>2
    <3>3. CASE j \in 1..Len(cap_queue)
      <4>1. cap_queue'[j] = cap_queue[j]
        BY <3>3, <2>1, <2>2
      <4> QED BY <3>1, <3>3, <4>1, <2>3 DEF IInv, InOrder
    <3> QED BY <3>2, <3>3, <2>1, <2>2
  <2>8. Numbered'
    BY <1>2, <2>1, <2>2, <2>3 DEF IInv, Numbered
  <2>9. EofLast'
    BY <1>2, <2>1, <2>2, <2>3 DEF IInv, EofLast
  <2>10. Limited' /\ TeardownSafe'
    BY <1>2, <2>1, <2>2 DEF Limited, TeardownSafe, Full, Length
  <2> QED BY <2>4, <2>5, <2>6, <2>7, <2>8, <2>9, <2>10 DEF IInv, InOrder
<1> QED BY <1>1, <1>2 DEF nids_pcap_handler, OutOfMemory, Push

\* The capturing thread's way to the teardown.
LEMMA StopSafe == IInv /\ (LoopEnds \/ Stop \/ nids_exit) => IInv'
<1> SUFFICES ASSUME IInv, LoopEnds \/ Stop \/ nids_exit PROVE IInv'
  OBVIOUS
<1> USE CaptureQueueAssumption DEF EOF_item
<1>1. CASE LoopEnds
  BY <1>1 DEF LoopEnds, IInv, TypeOK, InOrder, Increasing, Numbered, EofLast, Limited, TeardownSafe
<1>2. CASE Stop
  <2>1. /\ main = "stop" /\ main' = "drain" /\ cap_queue' = Append(cap_queue, EOF_item)
        /\ UNCHANGED <<captured, worker, item, handed>>
    BY <1>2 DEF Stop, Push
  <2>2. cap_queue \in Seq(Nat) /\ Len(cap_queue) \in Nat
    BY DEF IInv, TypeOK
  <2>3. /\ cap_queue' \in Seq(Nat) /\ cap_queue' # <<>> /\ Len(cap_queue') = Len(cap_queue) + 1
        /\ \A j \in 1..(Len(cap_queue) + 1) :
             cap_queue'[j] = IF j = Len(cap_queue) + 1 THEN EOF_item ELSE cap_queue[j]
    BY <2>1, <2>2, Pushed
  <2>4. \A j \in 1..Len(cap_queue) : cap_queue[j] # EOF_item /\ cap_queue[j] <= captured
    BY <2>1 DEF IInv, Numbered, EofLast
  <2>5. TypeOK' /\ Limited' /\ TeardownSafe'
    BY <2>1, <2>2, <2>3 DEF IInv, TypeOK, Limited, TeardownSafe
  <2>6. Increasing(cap_queue)'
    <3>1. Increasing(Append(cap_queue, EOF_item))
      BY <2>2, IncreasingPushed DEF IInv, InOrder
    <3> QED BY <3>1, <2>1 DEF Increasing
  <2>7. Increasing(handed)'
    BY <2>1 DEF IInv, InOrder, Increasing
  <2>8. ASSUME NEW i \in 1..Len(handed'), NEW j \in 1..Len(cap_queue'), cap_queue'[j] # EOF_item
        PROVE  handed'[i] < cap_queue'[j]
    <3>1. j \in 1..Len(cap_queue) /\ cap_queue'[j] = cap_queue[j]
      BY <2>2, <2>3, <2>8
    <3> QED BY <3>1, <2>1, <2>8 DEF IInv, InOrder
  <2>9. Numbered'
    BY <2>1, <2>2, <2>3, <2>4 DEF IInv, TypeOK, Numbered
  <2>10. EofLast'
    BY <2>1, <2>2, <2>3 DEF IInv, EofLast
  <2> QED BY <2>5, <2>6, <2>7, <2>8, <2>9, <2>10 DEF IInv, InOrder
<1>3. CASE nids_exit
  <2>1. TypeOK' /\ InOrder' /\ Numbered' /\ EofLast' /\ Limited'
    BY <1>3 DEF nids_exit, IInv, TypeOK, InOrder, Increasing, Numbered, EofLast, Limited
  <2>2. main = "drain" /\ Length <= 0 /\ UNCHANGED <<worker, cap_queue>>
    BY <1>3 DEF nids_exit
  <2>3. ASSUME worker # "over" PROVE worker = "waiting" /\ cap_queue = <<EOF_item>>
    <3>1. cap_queue # <<>> /\ cap_queue[Len(cap_queue)] = EOF_item
      BY <2>2, <2>3 DEF IInv, EofLast
    <3>2. cap_queue \in Seq(Nat) /\ Len(cap_queue) \in Int /\ Len(cap_queue) >= 1
      BY <3>1, Popped DEF IInv, TypeOK
    <3>3. worker = "waiting" /\ Len(cap_queue) = 1
      <4>1. Len(cap_queue) - (IF worker = "waiting" THEN 1 ELSE 0) <= 0
        BY <2>2 DEF Length
      <4>2. CASE worker = "waiting"
        <5> DEFINE n == Len(cap_queue)
        <5>1. n - 1 <= 0
          BY <4>1, <4>2
        <5> HIDE DEF n
        <5>2. n \in Int /\ n >= 1
          BY <3>2 DEF n
        <5>3. n = 1
          BY <5>1, <5>2
        <5> QED BY <5>3, <4>2 DEF n
      <4>3. CASE worker # "waiting"
        BY <4>1, <4>3, <3>2
      <4> QED BY <4>2, <4>3
    <3> QED BY <3>1, <3>2, <3>3
  <2> QED BY <2>1, <2>2, <2>3 DEF IInv, TeardownSafe
<1> QED BY <1>1, <1>2, <1>3

\* The processing thread takes the oldest item and is busy with it only while
\* the tables stand.
LEMMA WorkerSafe == IInv /\ (Block \/ Pop \/ Processed) => IInv'
<1> SUFFICES ASSUME IInv, Block \/ Pop \/ Processed PROVE IInv'
  OBVIOUS
<1> USE CaptureQueueAssumption DEF EOF_item
<1>1. CASE Block
  BY <1>1 DEF Block, IInv, TypeOK, InOrder, Increasing, Numbered, EofLast, Limited, TeardownSafe
<1>2. CASE Processed
  BY <1>2 DEF Processed, IInv, TypeOK, InOrder, Increasing, Numbered, EofLast, Limited, TeardownSafe
<1>3. CASE Pop
  <2>1. /\ cap_queue # <<>> /\ cap_queue \in Seq(Nat) /\ handed \in Seq(Nat) /\ captured \in Nat
        /\ Len(handed) \in Nat /\ worker \in {"pop", "waiting"}
        /\ cap_queue' = Tail(cap_queue) /\ captured' = captured /\ main' = main
    BY <1>3 DEF Pop, IInv, TypeOK
  <2>2. /\ cap_queue' \in Seq(Nat) /\ Len(cap_queue') = Len(cap_queue) - 1
        /\ Len(cap_queue) \in Nat \ {0} /\ Head(cap_queue) = cap_queue[1] /\ Head(cap_queue) \in Nat
        /\ \A j \in 1..Len(cap_queue') : cap_queue'[j] = cap_queue[j + 1]
    BY <2>1, Popped
  <2>3. CASE Head(cap_queue) = EOF_item
    <3>1. handed' = handed /\ item' = item /\ worker' = "over"
      BY <2>3, <1>3 DEF Pop
    <3>2. Len(cap_queue) = 1 /\ cap_queue[1] = EOF_item
      BY <2>2, <2>3 DEF IInv, Numbered
    <3>3. cap_queue' = <<>> /\ Len(cap_queue') = 0
      BY <2>2, <3>2
    <3>4. main \notin {"loop", "stop"}
      BY <3>2 DEF IInv, EofLast
    <3>5. TypeOK' /\ Limited' /\ EofLast' /\ TeardownSafe'
      BY <2>1, <3>1, <3>3, <3>4 DEF IInv, TypeOK, Limited, EofLast, TeardownSafe
    <3>6. InOrder' /\ Numbered'
      BY <2>1, <3>1, <3>3 DEF IInv, InOrder, Increasing, Numbered
    <3> QED BY <3>5, <3>6 DEF IInv
  <2>4. CASE Head(cap_queue) # EOF_item
    <3> DEFINE k == Head(cap_queue)
    <3>1. worker' = "busy" /\ item' = k /\ handed' = Append(handed, k)
      BY <2>4, <1>3 DEF Pop
    <3>2. k = cap_queue[1] /\ k \in 1..captured
      <4>1. 1 \in 1..Len(cap_queue)
        BY <2>2
      <4>2. cap_queue[1] <= captured
        BY <4>1 DEF IInv, Numbered
      <4> QED BY <4>2, <2>1, <2>2, <2>4
    <3>3. /\ handed' \in Seq(Nat) /\ Len(handed') = Len(handed) + 1
          /\ \A i \in 1..(Len(handed) + 1) : handed'[i] = IF i = Len(handed) + 1 THEN k ELSE handed[i]
      <4>1. k \in Nat
        BY <2>2
      <4> HIDE DEF k
      <4> QED BY <4>1, <3>1, <2>1, Pushed
    <3>4. TypeOK' /\ Limited'
      BY <2>1, <2>2, <3>1, <3>3 DEF IInv, TypeOK, Limited
    <3>5. \A i \in 1..Len(handed) : handed[i] < k
      BY <2>2, <2>4 DEF IInv, InOrder
    <3>6. Increasing(handed)'
      <4>1. Increasing(Append(handed, k))
        BY <2>1, <2>2, <3>5, IncreasingPushed DEF IInv, InOrder
      <4> QED BY <4>1, <3>1 DEF Increasing
    <3>7. Increasing(Tail(cap_queue))
          /\ \A j \in 1..Len(Tail(cap_queue)) : Tail(cap_queue)[j] # EOF_item => k < Tail(cap_queue)[j]
      BY <2>1, <2>4, IncreasingPopped DEF IInv, InOrder
    <3>8. Increasing(cap_queue)'
      BY <3>7, <2>1 DEF Increasing
    <3> HIDE DEF k
    <3>9. ASSUME NEW i \in 1..Len(handed'), NEW j \in 1..Len(cap_queue'), cap_queue'[j] # EOF_item
          PROVE  handed'[i] < cap_queue'[j]
      <4>1. CASE i = Len(handed) + 1
        BY <4>1, <2>1, <3>3, <3>7, <3>9
      <4>2. CASE i \in 1..Len(handed)
        <5>1. handed'[i] = handed[i]
          BY <4>2, <3>3, <2>1
        <5>2. j + 1 \in 1..Len(cap_queue) /\ cap_queue'[j] = cap_queue[j + 1]
          BY <2>2
        <5> QED BY <5>1, <5>2, <4>2, <3>9 DEF IInv, InOrder
      <4> QED BY <4>1, <4>2, <3>3, <2>1
    <3>10. Numbered'
      <4>1. \A j \in 1..Len(cap_queue') : j + 1 \in 1..Len(cap_queue) /\ cap_queue'[j] = cap_queue[j + 1]
        BY <2>2
      <4>2. \A j \in 1..Len(cap_queue') : cap_queue'[j] <= captured'
        BY <4>1, <2>1 DEF IInv, Numbered
      <4>3. \A j \in 1..Len(cap_queue') : cap_queue'[j] = EOF_item => j = Len(cap_queue')
        BY <4>1, <2>2 DEF IInv, Numbered
      <4>4. \A i \in 1..Len(handed') : handed'[i] \in 1..captured'
        <5> SUFFICES ASSUME NEW i \in 1..Len(handed') PROVE handed'[i] \in 1..captured
          BY <2>1
        <5>1. CASE i = Len(handed) + 1
          BY <5>1, <2>1, <3>2, <3>3
        <5>2. CASE i \in 1..Len(handed)
          <6>1. handed'[i] = handed[i]
            BY <5>2, <2>1, <3>3
          <6> QED BY <6>1, <5>2 DEF IInv, Numbered
        <5> QED BY <5>1, <5>2, <2>1, <3>3
      <4> QED BY <4>2, <4>3, <4>4 DEF Numbered
    <3>11. EofLast'
      <4>1. CASE main \in {"loop", "stop"}
        <5>1. \A j \in 1..Len(cap_queue') : j + 1 \in 1..Len(cap_queue) /\ cap_queue'[j] = cap_queue[j + 1]
          BY <2>2
        <5> QED BY <4>1, <5>1, <2>1, <3>1 DEF IInv, EofLast
      <4>2. CASE main \notin {"loop", "stop"}
        <5>1. cap_queue[Len(cap_queue)] = EOF_item
          BY <4>2, <2>1 DEF IInv, EofLast
        <5>2. Len(cap_queue) # 1
          BY <5>1, <2>2, <2>4
        <5>3. Len(cap_queue') \in 1..Len(cap_queue') /\ Len(cap_queue') + 1 = Len(cap_queue)
          BY <5>2, <2>2
        <5>4. cap_queue' # <<>> /\ cap_queue'[Len(cap_queue')] = EOF_item
          <6>1. \A j \in 1..Len(cap_queue') : cap_queue'[j] = cap_queue[j + 1]
            BY <2>2
          <6>2. cap_queue'[Len(cap_queue')] = cap_queue[Len(cap_queue') + 1]
            BY <5>3, <6>1
          <6>3. cap_queue' # <<>>
            BY <5>3
          <6> QED BY <5>1, <5>3, <6>2, <6>3
        <5> QED BY <5>4, <4>2, <2>1, <3>1 DEF EofLast
      <4> QED BY <4>1, <4>2
    <3>12. main # "down"
      <4>1. ASSUME main = "down" PROVE FALSE
        BY <4>1, <2>1, <2>4 DEF IInv, TeardownSafe
      <4> QED BY <4>1
    <3> QED BY <2>1, <3>4, <3>6, <3>8, <3>9, <3>10, <3>11, <3>12 DEF IInv, InOrder, TeardownSafe
  <2> QED BY <2>3, <2>4
<1> QED BY <1>1, <1>2, <1>3

\* No step of the two threads breaks the invariant.
LEMMA Inductive == IInv /\ [Next]_vars => IInv'
<1>1. IInv /\ UNCHANGED vars => IInv'
  BY DEF vars, IInv, TypeOK, InOrder, Increasing, Numbered, EofLast, Limited, TeardownSafe
<1> QED BY <1>1, HandlerSafe, StopSafe, WorkerSafe DEF Next, Done

-----------------------------------------------------------------------------

\* Packets reach defragmentation in the order of capture, each once at most,
\* however the threads interleave and whatever the limit drops.
THEOREM InOrderAlways == Spec => []InOrder
<1>1. IInv => InOrder
  BY DEF IInv
<1> QED BY <1>1, Initially, Inductive, PTL DEF Spec

\* nids_exit never frees the tables while a callback runs on them.
THEOREM TeardownIsSafe == Spec => []TeardownSafe
<1>1. IInv => TeardownSafe
  BY DEF IInv
<1> QED BY <1>1, Initially, Inductive, PTL DEF Spec

\* The queue is bounded by queue_limit + 3 for every limit.
THEOREM QueueBounded == Spec => []Bounded
<1>1. IInv => Bounded
  BY CaptureQueueAssumption DEF IInv, Limited, Bounded, TypeOK
<1> QED BY <1>1, Initially, Inductive, PTL DEF Spec
=============================================================================
