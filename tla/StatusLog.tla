------------------------------ MODULE StatusLog ------------------------------
(***************************************************************************)
(* The log ring in the shared memory segment (status.c): the worker        *)
(* process appends with status_logpush, a separate "bscope -l" process     *)
(* follows with show_log.  There is no lock and no barrier: each plain     *)
(* load and store of the shared words is a step of its own, in program     *)
(* order (what the compiled code does on x86).                             *)
(*                                                                         *)
(* A byte of the ring is <<r, j>>: byte j of record r.  Bytes 0 and 1 are  *)
(* the unsigned short length, the rest the text with its NUL.  Record 0 is *)
(* the 65535 that marks the end of a lap; Blank is untouched memory.       *)
(***************************************************************************)
EXTENDS Integers, Sequences

CONSTANTS
  Cap,        \* SHMEM_SIZE - offset
  Sizes,      \* lengths of the messages session_log pushes
  LogBuf,     \* LOG_BUF_SIZE: no record is longer
  Lives,      \* number of values of stat->life (256: the char is signed)
  MaxRecs,    \* bound: records pushed
  MaxLag      \* bytes a follower that keeps up may be behind

ASSUME StatusLogAssumption ==
  /\ Cap \in Nat /\ LogBuf \in Nat
  /\ Lives \in Nat \ {0} /\ MaxRecs \in Nat /\ MaxLag \in Nat
  /\ Sizes \subseteq 1..(LogBuf - 1)
  /\ LogBuf + 4 < Cap

\* A follower keeps up if what it has yet to read and two of the longest
\* records, the one that ends a lap and the one that starts the next, fit into
\* the ring (8 MB with records of at most 8 KB).
ASSUME KeepsUpAssumption == Lives > 1 /\ MaxLag + 2 * LogBuf + 5 <= Cap

VARIABLES
  mem,        \* the bytes of the ring
  p, life,    \* stat->p, stat->life
  wpc, size,  \* the writer: next store, and the message being pushed
  recs,       \* sizes of the records pushed so far
  rd,         \* the reader: next load, show_log's i, p and l, and slip
  last        \* history: records 1..last were printed whole, in this order

vars == <<mem, p, life, wpc, size, recs, rd, last>>

Blank == <<-1, 0>>
Mark == 0                            \* the record number of a 65535

\* The ring after bytes lo..hi of record r were stored from offset o on.
Store(o, r, lo, hi) ==
  [a \in DOMAIN mem |-> IF a \in (o + lo)..(o + hi) THEN <<r, a - o>> ELSE mem[a]]

-----------------------------------------------------------------------------
(* The writer.                                                             *)

\* Mutant: the wrap test leaves no room for the end-of-lap mark.
Wraps_tight(n) == n + p + 3 > Cap

Wraps(n) == n + p + 4 >= Cap

\* How far the follower is behind.  One that holds an old lap number is in
\* that lap; but one that has slipped (see Restart) has only the current lap
\* to read, once it starts over.
Lag == IF rd.i = life THEN p - rd.p ELSE IF rd.slip THEN p ELSE p + Cap - rd.p

\* status_logpush, first decision.  The follower is assumed to keep up: it
\* polls once a second and a lap is 8 MB.
Push(n) ==
  /\ wpc = "idle" /\ Len(recs) < MaxRecs /\ Lag <= MaxLag
  /\ size' = n
  /\ wpc' = IF Wraps(n) THEN "mark" ELSE "size"
  /\ UNCHANGED <<mem, p, life, recs, rd, last>>

StoreMark ==
  /\ wpc = "mark" /\ wpc' = "rewind"
  /\ mem' = Store(p, Mark, 0, 1)
  /\ UNCHANGED <<p, life, size, recs, rd, last>>

Rewind ==
  /\ wpc = "rewind" /\ wpc' = "life"
  /\ p' = 0
  /\ UNCHANGED <<mem, life, size, recs, rd, last>>

NextLife ==
  /\ wpc = "life" /\ wpc' = "size"
  /\ life' = (life + 1) % Lives
  /\ UNCHANGED <<mem, p, size, recs, rd, last>>

\* push_data stores the length, copies the text, then publishes.
StoreSize ==
  /\ wpc = "size" /\ wpc' = "text"
  /\ recs' = Append(recs, size)
  /\ mem' = Store(p, Len(recs'), 0, 1)
  /\ UNCHANGED <<p, life, size, rd, last>>

StoreText ==
  /\ wpc = "text" /\ wpc' = "publish"
  /\ mem' = Store(p, Len(recs), 2, size + 2)
  /\ UNCHANGED <<p, life, size, recs, rd, last>>

Publish ==
  /\ wpc = "publish" /\ wpc' = "idle"
  /\ p' = p + (size + 1) + 2
  /\ UNCHANGED <<mem, life, size, recs, rd, last>>

Writer ==
  \/ \E n \in Sizes : Push(n)
  \/ StoreMark \/ Rewind \/ NextLife
  \/ StoreSize \/ StoreText \/ Publish

-----------------------------------------------------------------------------
(* The reader, show_log(i, p): one load per step.                          *)

Goto(pc) == rd' = [rd EXCEPT !.pc = pc]

\* i == stat->life, then p == stat->p: nothing new, sleep and look again.
CmpLife ==
  /\ rd.pc = "life"
  /\ Goto(IF rd.i = life THEN "pos" ELSE "len")
  /\ UNCHANGED <<mem, p, life, wpc, size, recs, last>>

CmpPos ==
  /\ rd.pc = "pos"
  /\ Goto(IF rd.p = p THEN "life" ELSE "len")
  /\ UNCHANGED <<mem, p, life, wpc, size, recs, last>>

\* The record that starts at offset o: -1 untouched memory, -2 none.
RecordAt(o) ==
  IF mem[o] \in {Blank, <<mem[o][1], 0>>} /\ mem[o + 1] \in {Blank, <<mem[o][1], 1>>}
    THEN mem[o][1] ELSE -2

\* l = *size.  Between two records it can be any number; past the end of the
\* segment the load faults.
Lengths(o) ==
  LET r == RecordAt(o)
  IN  CASE r = Mark -> {LogBuf + 1}
        [] r > 0    -> {recs[r] + 1}
        [] r = -1   -> {0}
        [] OTHER    -> 0..(LogBuf + 1)

LoadLen ==
  /\ rd.pc = "len"
  /\ IF rd.p + 2 > Cap
       THEN Goto("fault")
       ELSE \E l \in Lengths(rd.p) :
              rd' = [rd EXCEPT !.l = l, !.pc = IF l > LogBuf THEN "restart" ELSE "lap"]
  /\ UNCHANGED <<mem, p, life, wpc, size, recs, last>>

\* i != stat->life && stat->p > p: the writer has overtaken the reader.
CmpLap ==
  /\ rd.pc = "lap"
  /\ Goto(IF rd.i # life THEN "overtaken" ELSE "print")
  /\ UNCHANGED <<mem, p, life, wpc, size, recs, last>>

CmpOvertaken ==
  /\ rd.pc = "overtaken"
  /\ Goto(IF p > rd.p THEN "restart" ELSE "print")
  /\ UNCHANGED <<mem, p, life, wpc, size, recs, last>>

\* Mutant: the reader starts over at the position the writer is at.
Restart_atp ==
  /\ rd.pc = "restart"
  /\ rd' = [pc |-> "life", i |-> life, p |-> p, l |-> 0, slip |-> wpc = "life"]
  /\ UNCHANGED <<mem, p, life, wpc, size, recs, last>>

\* show_log(stat->life, 0, 0), also what status_logcat starts with.  slip:
\* this happened between the two stores of a rewind; until it starts over
\* again the reader holds the number of the lap before at offset 0.
Restart ==
  /\ rd.pc = "restart"
  /\ rd' = [pc |-> "life", i |-> life, p |-> 0, l |-> 0, slip |-> wpc = "life"]
  /\ UNCHANGED <<mem, p, life, wpc, size, recs, last>>

\* The reader stands on one record, length and text belong together.
Whole(r) ==
  /\ r \in 1..Len(recs) /\ rd.l = recs[r] + 1
  /\ \A j \in 2..(rd.l + 1) : mem[rd.p + j] = <<r, j>>

\* printf of the text at p + 2, then on to p + 2 + l.  A record that is
\* printed out of turn does not count in last.
Show ==
  /\ rd.pc = "print"
  /\ LET r == RecordAt(rd.p) IN last' = IF Whole(r) /\ r = last + 1 THEN r ELSE last
  /\ rd' = [rd EXCEPT !.pc = "life", !.p = @ + 2 + rd.l]
  /\ UNCHANGED <<mem, p, life, wpc, size, recs>>

Reader == CmpLife \/ CmpPos \/ LoadLen \/ CmpLap \/ CmpOvertaken \/ Restart \/ Show

Init ==
  /\ mem = [a \in 0..(Cap - 1) |-> Blank]
  /\ p = 0 /\ life = 0
  /\ wpc = "idle" /\ size = 0 /\ recs = <<>>
  /\ rd = [pc |-> "restart", i |-> 0, p |-> 0, l |-> 0, slip |-> FALSE]
  /\ last = 0

Next == Writer \/ Reader

Spec == Init /\ [][Next]_vars

-----------------------------------------------------------------------------
(* Properties.                                                             *)

\* Type invariant.
TypeOK ==
  /\ p \in Nat /\ life \in 0..(Lives - 1)
  /\ wpc \in {"idle", "mark", "rewind", "life", "size", "text", "publish"}
  /\ size \in Sizes \cup {0} /\ last \in Nat /\ recs \in Seq(Sizes)

\* No store of the writer leaves the segment: there is always room at
\* stat->p for the two bytes of the end-of-lap mark, and once a message is
\* being pushed there is room for all of it.
WriterInBounds ==
  /\ p + 2 <= Cap
  /\ wpc \in {"size", "text", "publish"} => p + 2 + (size + 1) <= Cap

\* A follower that keeps up prints whole records and skips none (when it
\* prints record r, those before r have been printed whole), although the
\* writer may rewind and overwrite between any two of its loads; after a
\* rewind it may print records of the finished lap again.  The one exception
\* is a follower that started over between stat->p = 0 and the store to
\* stat->life, until it starts over once more: it holds the old lap number at
\* offset 0, and only then can it run off the end of the segment.
FollowsTheLog ==
  /\ TypeOK
  /\ ~rd.slip => rd.pc # "fault"
  /\ rd.pc = "print" /\ ~rd.slip => Whole(RecordAt(rd.p)) /\ RecordAt(rd.p) <= last + 1

\* Every record is eventually printed whole, and all records before it in
\* their order, by a follower that keeps up; one that slipped loses none of
\* them, unless it runs off the segment (show_log, status.c).
EverythingPrinted ==
  \A n \in 1..MaxRecs : Len(recs) = n ~> last >= n \/ rd.pc = "fault"
=============================================================================
