----------------------------- MODULE TcpStreams -----------------------------
(***************************************************************************)
(* The table of TCP streams of libnids (tcp.c) and bscope's tcp_callback   *)
(* (main.c) on top of it: a fixed pool of struct tcp_stream, a free list,  *)
(* a list linked by age that picks the victim when the pool is full, the   *)
(* handshake, close, reset and eviction, and the count stat->conn that     *)
(* lives in shared memory and survives the worker.                         *)
(*                                                                         *)
(* A packet is what process_tcp tells apart: sequence numbers are reduced  *)
(* to where the segment falls ("old", "next" in order, "ahead"), windows,  *)
(* checksums and PAWS to the packets that are let through.                 *)
(***************************************************************************)
EXTENDS Naturals, Sequences, FiniteSets, SequencesExt

CONSTANTS
  Conns,        \* address tuples
  Service,      \* those test_in_service accepts
  max_stream,   \* 3 * n_tcp_streams / 4
  Traffic,      \* the kinds of segments that occur (see Places)
  NoFin,        \* bound: address tuples whose segments come in order, without FIN
  MaxCrashes    \* bound: workers killed and restarted

\* Where a segment falls: "old"; "next" in order; in order and closing the
\* gap before a queued FIN ("fills"); "ahead" of a gap; ahead, and the queue
\* outgrew 65535 bytes and was purged ("purges").
Places == {"old", "next", "fills", "ahead", "purges"}

ASSUME TcpStreamsAssumption ==
  /\ Service \subseteq Conns /\ NoFin \subseteq Conns /\ Traffic \subseteq Places
  /\ max_stream \in Nat /\ MaxCrashes \in Nat
  /\ <<"none">> \notin Conns         \* see NoAddr

Slots == 1..(max_stream + 1)      \* streams_pool

VARIABLES
  tab,       \* the pool, its lists and tcp_num
  conn,      \* stat->conn
  dropped,   \* sessions that went with a worker that was killed or ended
  order,     \* the streams in use, oldest first (not in the code)
  crashes,   \* workers killed so far
  up         \* the worker runs

vars == <<tab, conn, dropped, order, crashes, up>>

NoAddr == <<"none">>
Zero == [addr |-> NoAddr, client |-> "CLOSE", server |-> "CLOSE",
         cfin |-> FALSE, sfin |-> FALSE,      \* a FIN waits in the queue
         nids_state |-> "none", user |-> FALSE,
         next_time |-> 0, prev_time |-> 0]

\* tcp_init
tcp_init ==
  [slot |-> [i \in Slots |-> Zero], tcp_num |-> 0, latest |-> 0, oldest |-> 0,
   free |-> [i \in Slots |-> i]]

Used(t) == {i \in Slots : t.slot[i].addr # NoAddr}

OpenSessions == {i \in Used(tab) : tab.slot[i].user}

\* nids_find_tcp_stream; at most one stream has an address.
Find(c) == CHOOSE i \in Used(tab) : tab.slot[i].addr = c
Known(c) == \E i \in Used(tab) : tab.slot[i].addr = c

\* A stream has a listener exactly if tcp_callback made a session for it.
Listeners(x) == x.user

-----------------------------------------------------------------------------
(* The lists.                                                              *)

\* Mutant: the younger neighbour is not re-linked.
nids_free_tcp_stream_halflinked(t, i) ==
  LET x == t.slot[i]
  IN  [t EXCEPT !.slot = [j \in Slots |->
                  CASE j = i           -> Zero
                    [] j = x.next_time -> [t.slot[j] EXCEPT !.prev_time = x.prev_time]
                    [] OTHER           -> t.slot[j]],
                !.oldest  = IF @ = i THEN x.prev_time ELSE @,
                !.latest  = IF @ = i THEN x.next_time ELSE @,
                !.free    = <<i>> \o @,
                !.tcp_num = @ - 1]

\* nids_free_tcp_stream
nids_free_tcp_stream(t, i) ==
  LET x == t.slot[i]
  IN  [t EXCEPT !.slot = [j \in Slots |->
                  CASE j = i           -> Zero
                    [] j = x.next_time -> [t.slot[j] EXCEPT !.prev_time = x.prev_time]
                    [] j = x.prev_time -> [t.slot[j] EXCEPT !.next_time = x.next_time]
                    [] OTHER           -> t.slot[j]],
                !.oldest  = IF @ = i THEN x.prev_time ELSE @,
                !.latest  = IF @ = i THEN x.next_time ELSE @,
                !.free    = <<i>> \o @,
                !.tcp_num = @ - 1]

\* The second half of add_new_tcp: take a stream from the free list, put it
\* at the young end.
Insert(t, c) ==
  LET i == Head(t.free)
  IN  [t EXCEPT !.slot = [j \in Slots |->
                  CASE j = i        -> [Zero EXCEPT !.addr = c, !.client = "SYN_SENT",
                                                    !.next_time = t.latest]
                    [] j = t.latest -> [t.slot[j] EXCEPT !.prev_time = i]
                    [] OTHER        -> t.slot[j]],
                !.oldest  = IF @ = 0 THEN i ELSE @,
                !.latest  = i,
                !.free    = Tail(@),
                !.tcp_num = @ + 1]

\* tcp_callback with NIDS_CLOSE, NIDS_RESET or NIDS_TIMED_OUT, through the
\* listeners: stat->conn-- and session_close.
Hangup(x) == conn' = IF Listeners(x) THEN conn - 1 ELSE conn

Release(i) ==
  /\ tab' = nids_free_tcp_stream(tab, i)
  /\ order' = RemoveFirst(order, i)

Crowded == tab.tcp_num > max_stream

\* add_new_tcp: make room at the expense of the oldest stream.
Add(c) ==
  IF Crowded
    THEN LET v == tab.oldest IN
         /\ Hangup(tab.slot[v])
         /\ tab' = Insert(nids_free_tcp_stream(tab, v), c)
         /\ order' = Append(RemoveFirst(order, v), tab'.latest)
    ELSE /\ tab' = Insert(tab, c)
         /\ order' = Append(order, tab'.latest)
         /\ UNCHANGED conn

-----------------------------------------------------------------------------
(* process_tcp.                                                            *)

Set(i, x) == tab' = [tab EXCEPT !.slot[i] = x] /\ UNCHANGED order

Syn(c) ==
  /\ up /\ ~Known(c) /\ Add(c)
  /\ UNCHANGED <<dropped, crashes, up>>

SynAck(c) ==
  /\ up /\ Known(c)
  /\ LET i == Find(c) x == tab.slot[i] IN
     /\ x.client = "SYN_SENT" /\ x.server = "CLOSE"
     /\ Set(i, [x EXCEPT !.server = "SYN_RECV"])
  /\ UNCHANGED <<conn, dropped, crashes, up>>

\* Mutant: a reset frees the stream without telling the listeners.
Rst_silent(c) ==
  /\ up /\ Known(c)
  /\ Release(Find(c)) /\ UNCHANGED conn
  /\ UNCHANGED <<dropped, crashes, up>>

\* TH_RST: the callback only runs in state NIDS_DATA.
Rst(c) ==
  /\ up /\ Known(c)
  /\ LET i == Find(c) x == tab.slot[i] IN
     /\ Release(i)
     /\ IF x.nids_state = "DATA" THEN Hangup(x) ELSE UNCHANGED conn
  /\ UNCHANGED <<dropped, crashes, up>>

\* The ACK that completes the handshake.  tcp_callback with NIDS_JUST_EST:
\* test_in_service, stat->conn++, session_start, subscribe.
Establish(x, c) ==
  [x EXCEPT !.client = "ESTABLISHED", !.server = "ESTABLISHED",
            !.nids_state = "DATA", !.user = c \in Service]

\* handle_ack's companion: the acknowledged side's FIN is confirmed.
Confirm(state) == IF state = "FIN_SENT" THEN "FIN_CONFIRMED" ELSE state

AckBy(x, from) ==
  IF from = "client" THEN [x EXCEPT !.server = Confirm(@)]
                     ELSE [x EXCEPT !.client = Confirm(@)]

\* Mutant: the second FIN need not be confirmed.
Closed_early(x) == x.client = "FIN_CONFIRMED" /\ x.server = "FIN_SENT"

Closed(x) == x.client = "FIN_CONFIRMED" /\ x.server = "FIN_CONFIRMED"

\* tcp_queue and prune_queue: a FIN in order, or one that waited for this
\* segment, moves the sender to FIN_SENT, a FIN ahead of a gap to CLOSING.
Sender(state, waits, place, fin) ==
  CASE place = "fills" /\ waits               -> "FIN_SENT"
    [] place \in {"next", "fills"} /\ fin     -> "FIN_SENT"
    [] place \in {"ahead", "purges"} /\ fin   -> "CLOSING"
    [] OTHER                                  -> state

Waits(waits, place, fin) ==
  CASE place \in {"fills", "purges"} -> FALSE
    [] place = "ahead"               -> waits \/ fin
    [] OTHER                         -> waits

tcp_queue(x, from, place, fin) ==
  IF from = "client"
    THEN [x EXCEPT !.client = Sender(@, x.cfin, place, fin), !.cfin = Waits(@, place, fin)]
    ELSE [x EXCEPT !.server = Sender(@, x.sfin, place, fin), !.sfin = Waits(@, place, fin)]

Handshake(x, from, ack) ==
  from = "client" /\ ack = "right" /\ x.client = "SYN_SENT" /\ x.server = "SYN_RECV"

\* Inputs that differ: past the handshake every acknowledgement number has
\* the same effect, and without a FIN "old" and "ahead" have that of "next".
\* The streams in NoFin end by reset, eviction or not at all.
Tells(c, ack, place, fin) ==
  /\ ack = "other" => tab.slot[Find(c)].client = "SYN_SENT"
  /\ place \in {"old", "ahead"} => fin
  /\ c \in NoFin => place = "next" /\ ~fin

\* A segment that is neither SYN nor RST.  ack is "none", "right" (th_ack is
\* the server's initial sequence number) or "other".
Segment(c, from, ack, place, fin) ==
  /\ up /\ Known(c) /\ Tells(c, ack, place, fin)
  /\ LET i    == Find(c)
         x0   == tab.slot[i]
         est  == Handshake(x0, from, ack)
         x1   == IF est THEN Establish(x0, c) ELSE x0
         x2   == IF ack = "none" THEN x1 ELSE AckBy(x1, from)
         over == ack # "none" /\ Closed(x2)
     IN  \/ /\ est /\ ~Listeners(x1)              \* not in service
            /\ Release(i) /\ UNCHANGED conn
         \/ /\ over                               \* NIDS_CLOSE
            /\ Release(i) /\ Hangup(x2)
         \/ /\ ~over /\ Listeners(x1)
            /\ Set(i, tcp_queue(x2, from, place, fin))
            /\ conn' = IF est THEN conn + 1 ELSE conn
         \/ /\ ~over /\ ~Listeners(x1) /\ ~est    \* nobody listens
            /\ Release(i) /\ UNCHANGED conn
  /\ UNCHANGED <<dropped, crashes, up>>

\* tcp_callback finds that its worker has lost its supervisor: it exits on
\* the new connection, which is already counted.
ExitOrphaned(c) ==
  /\ up /\ Known(c) /\ c \in Service
  /\ Handshake(tab.slot[Find(c)], "client", "right")
  /\ up' = FALSE /\ conn' = conn + 1
  /\ dropped' = dropped + Cardinality(OpenSessions) + 1
  /\ tab' = tcp_init /\ order' = <<>>
  /\ UNCHANGED crashes

\* process_icmp, destination unreachable for a connection being opened.
Unreachable(c) ==
  /\ up /\ Known(c)
  /\ tab.slot[Find(c)].client = "SYN_SENT"
  /\ Release(Find(c)) /\ Hangup(tab.slot[Find(c)])
  /\ UNCHANGED <<dropped, crashes, up>>

-----------------------------------------------------------------------------
(* The end of the worker.                                                  *)

Forget == dropped' = dropped + Cardinality(OpenSessions)

\* A signal kills the worker; the supervisor starts another one, which maps
\* the same segment and runs nids_init.
Restart ==
  /\ up /\ crashes < MaxCrashes /\ crashes' = crashes + 1
  /\ Forget /\ tab' = tcp_init /\ order' = <<>>
  /\ UNCHANGED <<conn, up>>

\* tcp_exit: tcp_callback ignores NIDS_EXITING.
tcp_exit ==
  /\ up /\ up' = FALSE
  /\ Forget /\ tab' = tcp_init /\ order' = <<>>
  /\ UNCHANGED <<conn, crashes>>

Init ==
  /\ tab = tcp_init /\ order = <<>>
  /\ conn = 0 /\ dropped = 0 /\ crashes = 0 /\ up = TRUE

Next ==
  \/ \E c \in Conns :
       \/ Syn(c) \/ SynAck(c) \/ Rst(c) \/ Unreachable(c) \/ ExitOrphaned(c)
       \/ \E from \in {"client", "server"}, ack \in {"none", "right", "other"},
             place \in Traffic, fin \in BOOLEAN :
            Segment(c, from, ack, place, fin)
  \/ Restart
  \/ tcp_exit

Spec == Init /\ [][Next]_vars

-----------------------------------------------------------------------------
(* Properties.                                                             *)

States == {"CLOSE", "SYN_SENT", "SYN_RECV", "ESTABLISHED", "CLOSING",
           "FIN_SENT", "FIN_CONFIRMED"}

\* Type invariant.
TypeOK ==
  /\ tab.slot \in [Slots -> [addr : Conns \cup {NoAddr}, client : States, server : States,
                             cfin : BOOLEAN, sfin : BOOLEAN, nids_state : {"none", "DATA"},
                             user : BOOLEAN,
                             next_time : Slots \cup {0}, prev_time : Slots \cup {0}]]
  /\ tab.tcp_num \in Nat /\ tab.latest \in Slots \cup {0} /\ tab.oldest \in Slots \cup {0}
  /\ conn \in Nat /\ dropped \in Nat /\ up \in BOOLEAN

\* The streams in use are linked by age in both directions.
AgeListSound ==
  LET n == Len(order)
      At(k) == IF k \in 1..n THEN order[k] ELSE 0
  IN  /\ Used(tab) = Range(order) /\ Cardinality(Used(tab)) = n
      /\ tab.oldest = At(1) /\ tab.latest = At(n)
      /\ \A k \in 1..n : /\ tab.slot[order[k]].prev_time = At(k + 1)
                         /\ tab.slot[order[k]].next_time = At(k - 1)

\* Every stream is either in the table, each under an address tuple of its
\* own, or on the free list.
PoolAccounted ==
  /\ tab.tcp_num = Cardinality(Used(tab))
  /\ \A i, j \in Used(tab) : tab.slot[i].addr = tab.slot[j].addr => i = j
  /\ Range(tab.free) = Slots \ Used(tab)
  /\ Len(tab.free) + tab.tcp_num = max_stream + 1
  /\ ~Crowded => tab.free # <<>>

\* Whichever stream was freed and by which path, the table is sound: making
\* room leaves a stream to take (the pool never runs dry, "gdb me ..."), and
\* tcp_oldest, which is evicted, is the one longest in the table.
TableSound == TypeOK /\ AgeListSound /\ PoolAccounted

\* A connection both of whose FINs were confirmed is not left in the table,
\* where it would swallow the next connection on the same address tuple.
ClosedIsFreed == \A i \in Used(tab) : ~(/\ tab.slot[i].client = "FIN_CONFIRMED"
                                        /\ tab.slot[i].server = "FIN_CONFIRMED")

\* stat->conn is exactly the number of sessions: one session_start is matched
\* by one session_close whether a stream ends by FIN, reset, eviction or not
\* at all.  Sessions that went with their worker stay counted for ever.
ConnCounts == conn = Cardinality(OpenSessions) + dropped
=============================================================================
