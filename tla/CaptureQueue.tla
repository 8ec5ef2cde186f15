---------------------------- MODULE CaptureQueue ----------------------------
(***************************************************************************)
(* The two threads of the worker (libnids.c with nids_params.multiproc = 1, *)
(* as start_nids sets it): pcap_loop's thread copies each packet into the  *)
(* GAsyncQueue cap_queue, a second thread pops them and runs the whole of  *)
(* defragmentation, reassembly and tcp_callback.  When pcap_loop ends the  *)
(* first thread tears the tables down.  Packets are numbered as captured.  *)
(***************************************************************************)
EXTENDS Integers, Sequences

CONSTANTS
  queue_limit,   \* nids_params.queue_limit
  MaxPackets     \* bound: packets captured

ASSUME CaptureQueueAssumption == queue_limit \in Nat /\ MaxPackets \in Nat

EOF_item == 0

VARIABLES
  captured,    \* packets nids_pcap_handler was called with
  cap_queue,   \* queued packets, and EOF_item at the end
  main,        \* the capturing thread: "loop", "stop", "drain", "down"
  worker,      \* the processing thread: "pop", "waiting", "busy", "over"
  item,        \* the packet call_ip_frag_procs is working on
  handed       \* packets handed to call_ip_frag_procs, in order

vars == <<captured, cap_queue, main, worker, item, handed>>

\* g_async_queue_push, under the queue's lock.
Push(x) == cap_queue' = Append(cap_queue, x)

\* g_async_queue_length: GLib subtracts the threads blocked in pop, and a
\* thread counts as blocked until it is scheduled again.
Length == Len(cap_queue) - (IF worker = "waiting" THEN 1 ELSE 0)

\* Mutant: the limit is not looked at.
Full_never == FALSE

Full == Length > queue_limit

\* Mutant: the queue is filled from the wrong end.
nids_pcap_handler_front ==
  /\ main = "loop" /\ captured < MaxPackets
  /\ captured' = captured + 1
  /\ cap_queue' = IF Full THEN cap_queue ELSE <<captured + 1>> \o cap_queue
  /\ UNCHANGED <<main, worker, item, handed>>

\* nids_pcap_handler: the test of the length and the push are one critical
\* section.  A packet is dropped when the queue is full or memory is short.
nids_pcap_handler ==
  /\ main = "loop" /\ captured < MaxPackets
  /\ captured' = captured + 1
  /\ IF Full THEN UNCHANGED cap_queue ELSE Push(captured + 1)
  /\ UNCHANGED <<main, worker, item, handed>>

OutOfMemory ==
  /\ main = "loop" /\ captured < MaxPackets
  /\ captured' = captured + 1
  /\ UNCHANGED <<cap_queue, main, worker, item, handed>>

\* pcap_loop returns (the interface went down).
LoopEnds ==
  /\ main = "loop" /\ main' = "stop"
  /\ UNCHANGED <<captured, cap_queue, worker, item, handed>>

\* STOP_CAP_QUEUE_PROCESS_THREAD: pushed whatever the length.
Stop ==
  /\ main = "stop" /\ main' = "drain"
  /\ Push(EOF_item)
  /\ UNCHANGED <<captured, worker, item, handed>>

\* Mutant: nids_exit does not wait for the queue.
nids_exit_hasty ==
  /\ main = "drain" /\ main' = "down"
  /\ UNCHANGED <<captured, cap_queue, worker, item, handed>>

\* nids_exit: poll until the length is no longer positive, then tcp_exit and the rest free
\* every table.
nids_exit ==
  /\ main = "drain" /\ Length <= 0 /\ main' = "down"
  /\ UNCHANGED <<captured, cap_queue, worker, item, handed>>

\* cap_queue_process_thread: g_async_queue_pop blocks on an empty queue.
Block ==
  /\ worker = "pop" /\ cap_queue = <<>> /\ worker' = "waiting"
  /\ UNCHANGED <<captured, cap_queue, main, item, handed>>

\* Mutant: a thread that was blocked throws away what woke it up.
Pop_wakeup ==
  /\ worker \in {"pop", "waiting"} /\ cap_queue # <<>>
  /\ cap_queue' = Tail(cap_queue)
  /\ CASE Head(cap_queue) = EOF_item -> worker' = "over" /\ UNCHANGED <<item, handed>>
       [] worker = "waiting" /\ Head(cap_queue) # EOF_item ->
            worker' = "pop" /\ UNCHANGED <<item, handed>>
       [] OTHER -> /\ worker' = "busy" /\ item' = Head(cap_queue)
                   /\ handed' = Append(handed, item')
  /\ UNCHANGED <<captured, main>>

Pop ==
  /\ worker \in {"pop", "waiting"} /\ cap_queue # <<>>
  /\ cap_queue' = Tail(cap_queue)
  /\ IF Head(cap_queue) = EOF_item
       THEN worker' = "over" /\ UNCHANGED <<item, handed>>
       ELSE /\ worker' = "busy" /\ item' = Head(cap_queue)
            /\ handed' = Append(handed, item')
  /\ UNCHANGED <<captured, main>>

\* call_ip_frag_procs returns; the copy is freed.
Processed ==
  /\ worker = "busy" /\ worker' = "pop"
  /\ UNCHANGED <<captured, cap_queue, main, item, handed>>

\* Both threads are done.
Done == main = "down" /\ worker = "over" /\ UNCHANGED vars

Init ==
  /\ captured = 0 /\ cap_queue = <<>>
  /\ main = "loop" /\ worker = "pop" /\ item = 0 /\ handed = <<>>

Next == \/ nids_pcap_handler \/ OutOfMemory \/ LoopEnds \/ Stop \/ nids_exit
        \/ Block \/ Pop \/ Processed
        \/ Done

Spec == Init /\ [][Next]_vars

\* Both threads run; nothing makes pcap_loop end.
FairSpec == Spec /\ WF_vars(Block \/ Pop \/ Processed) /\ WF_vars(Stop \/ nids_exit)

-----------------------------------------------------------------------------
(* Properties.                                                             *)

\* Type invariant.
TypeOK ==
  /\ captured \in Nat /\ cap_queue \in Seq(Nat) /\ handed \in Seq(Nat) /\ item \in Nat
  /\ main \in {"loop", "stop", "drain", "down"} /\ worker \in {"pop", "waiting", "busy", "over"}

\* Every packet is handed on at most once and in the order of capture,
\* however the threads interleave and whatever was dropped in between.
Increasing(f) ==
  \A i \in 1..Len(f), j \in 1..Len(f) :
    i < j /\ f[i] # EOF_item /\ f[j] # EOF_item => f[i] < f[j]
InOrder ==
  /\ Increasing(handed) /\ Increasing(cap_queue)
  /\ \A i \in 1..Len(handed), j \in 1..Len(cap_queue) :
       cap_queue[j] # EOF_item => handed[i] < cap_queue[j]

\* The tables are never freed under the processing thread: when nids_exit
\* stops polling the last callback has returned and at most the EOF_item is
\* left, although the length it polls may be 0 with an item in the queue.
TeardownSafe == main = "down" => worker # "busy" /\ (worker = "over" \/ cap_queue = <<EOF_item>>)

\* The queue outgrows the limit by two packets and the EOF_item at most: one
\* for the test (>, not >=), one for a blocked thread that is not yet awake.
Bounded == TypeOK /\ Len(cap_queue) <= queue_limit + 3

\* Every queued packet is eventually handed on, also when capturing ends.
Queued(k) == \E i \in 1..Len(cap_queue) : cap_queue[i] = k
EveryPacketHanded ==
  \A k \in 1..MaxPackets : Queued(k) ~> \E i \in 1..Len(handed) : handed[i] = k
=============================================================================
