# bscope: a TLA+ verification project

bscope watches HTTP traffic. A capturing process sniffs packets with libpcap,
a bundled libnids 1.24 defragments them and reassembles TCP streams, two
`http_parser` instances per connection parse both directions, and callbacks
collect one record per exchange. The record becomes a line in a log ring that
lives in a shared memory segment; `bscope -l` follows that ring and `bscope -s`
prints counters from the same segment.

Paths below are relative to the repository (`src/...` is its source directory).

## 1. The system

| component | state | operations | who calls it, on which thread |
|---|---|---|---|
| processes (`main.c`, `functions.c`) | pid file and its lock, `child_pid`, `stat->alive` | `main`, `createPidFile`, `supervisor_loop`, `handler_exit`, `status_shutdown` | shell, init, SIGTERM/SIGINT at any instruction |
| capture threads (`libnids.c`) | `cap_queue`, `EOF_item` | `nids_pcap_handler`, `cap_queue_process_thread`, `nids_run`, `nids_exit` | pcap thread and processing thread of the worker |
| IP input (`libnids.c`, `checksum.c`, `ip_options.c`) | the packet at hand, rewritten in place | `gen_ip_frag_proc`, `ip_fast_csum`, `ip_options_compile` | processing thread |
| IP defragmentation (`ip_fragment.c`) | fragment queues per host, timers | `ip_defrag_stub`, `ip_evictor`, `ip_expire` | processing thread |
| TCP streams (`tcp.c`) | `streams_pool`, hash chains, free list, age list, `tcp_num` | `process_tcp`, `add_new_tcp`, `nids_free_tcp_stream`, `process_icmp`, `tcp_exit` | processing thread |
| `tcp_callback` (`main.c`) | `tcp->user`, `stat->conn` | just established, data, close/reset/timeout | called back from `tcp.c` |
| HTTP session (`session.c`, `callback.c`) | `struct session`, two parsers | the fifteen callbacks, `session_report`, `session_close` | called back from `http_parser_execute` |
| `http_parser` | `state`, `content_length`, flags, error | `http_parser_execute`, `http_parser_init` | `session_handle_data` |
| status segment (`status.c`) | `p`, `life`, `data`, `conn`, `rps`, `alive` | `status_logpush`, `show_log`, `status_mon` | worker writes, other processes read, no lock |
| configuration (`ini.c`, `main.c`) | `config` | `loadconfig` | once, at start |
| reporting (`report.c`) | none | `send_report` does nothing | `session_report` |

What is hard here: two directions of a connection that share one session; the
lock-free ring between two processes; a supervisor, a worker, a follower and
signals that interleave at every system call; a two-thread queue with a
teardown; and a stream table fed by packets that are lost, repeated and
reordered. `PROJECT.json` lists these hazards line by line with the properties
that would catch them.

## 2. Modules

| module | models | checked by |
|---|---|---|
| `Session` | one connection: both parsers, all callbacks, `session_report`, `session_close` | `session_any`, `session_polite`, `session_split`, `session_head` |
| `ExchangeLog` | abstract: what the log of a connection promises | refinement in `session_polite` |
| `Traffic` | the hypothesis of the theorems about half-duplex traffic: what a polite message is | evaluated on the messages of `session_polite` |
| `MCSession` | concrete message sets | |
| `SessionProofs` | theorems on `Session` | tlapm |
| `Fields`, `MCFields` | `parse_string`, `request_body`, `buf_push`: fields of queries, Cookies, POST bodies | `fields` |
| `StatusLog` | the log ring, one shared load or store per step | `segment` |
| `Rps` | the requests-per-second table and `status_mon`, likewise | `segment` |
| `Segment` | the two under one mode switch, as `main` has it | `segment` |
| `SegmentProofs` | theorems on `StatusLog` and `Rps`, and on `Segment` | tlapm |
| `Lifecycle`, `MCLifecycle` | start, daemon, supervisor, worker, shutdown, follower | `lifecycle`, `lifecycle_daemon` |
| `LifecycleProofs` | theorems on `Lifecycle` | tlapm |
| `CaptureQueue` | the capturing and the processing thread | `capture_queue` |
| `CaptureQueueProofs` | theorems on `CaptureQueue` | tlapm |
| `TcpStreams`, `MCTcpStreams` | stream table, TCP states, `tcp_callback` | `tcp_streams` |
| `TcpStreamsProofs` | theorems on `TcpStreams` | tlapm |
| `TcpQueue` | byte-level reassembly of one direction | `tcp_queue` |
| `ByteStream` | abstract: what one direction promises to `tcp_callback` | refinement in `tcp_queue` |
| `TcpQueueProofs` | theorems on `TcpQueue`, the refinement included | tlapm |
| `IpInput` | header tests, checksum, IP options | `ip_frag` |
| `IpFrag` | IP defragmentation | `ip_frag` |
| `IpLayer`, `MCIpFrag` | the two in sequence, as `gen_ip_frag_proc` has them | `ip_frag` |
| `IpLayerProofs` | theorems on `IpLayer`: headers and options, defragmentation | tlapm |
| `Sums`, `SumsProofs` | sums of sequences, for the properties; induction over the natural numbers and lemmas on sums | tlapm |

### Session

Variables `cp` and `sp` are the two parsers reduced to the states callbacks can
tell apart; `s` is the part of `struct session` that `session_init` zeroes;
`heap` counts the heap objects the callbacks took (a `kv` with its key and
value, a `body_buf` with its data count as one). Bytes are tokens (start line,
URL, header name, header value, end of headers, data). A token is delivered and
parsed in one step. A string cut by a segment boundary is two tokens, because
`http_parser` then runs the data callback twice.

`session_report` is an operator of the action that ends the message, not an
action: the code runs it inside `http_parser_execute`, and the parser it
re-initialises is the one that is running. `http_parser` sets its state before
it notifies `message_complete`, so the re-initialisation is what stays.

Times are a small clock. Of the five stored strings `path` and `host` stand for
all: `referer` and `ua` are stored and freed in the same way as `host`. The
first byte of a broken request may still run `request_begin` (a letter that
opens a method name); both outcomes are explored.

`Traffic` says what the clean promises of a log need of the two endpoints: they
take turns, every message is read by `http_parser` from its first byte to its
last (`Course` is the parser between its tokens), no string straddles two
segments, no request names its Host twice, and a response without a length is
the last of its connection. The messages themselves, their number, headers,
bodies and framings are free, and the connection may end at any byte.
`PoliteTraffic` in `MCSession` lets TLC evaluate that the messages of
`session_polite` are such. The methods and codes that `ExchangeLog` speaks of are
those of the messages (its constants).

### Fields

The one module that works on characters, because its properties are about where
a string is cut. `parse_string` is a fold of its loop body over the text; a
character is a letter a name may begin with (above `'A'` in the code's
comparison), another one (`'A'`, digits, blanks), a separator or `=`. A string
reaches the callbacks in any pieces; `request_body` puts a body together over
`post_buf`, `request_url` and the Cookie branch of `request_header_value` do not.
`Wanted` is the reference: the text split at separators, each part a name up to
its first `=` and a value. `notes` is history: a piece ended between two fields, a
field did not fit, a query or Cookie was cut. `left` is what a pipelined request
found in `post_buf`. That names are compared without case is left out.

### Rps and Segment

`Rps` has a step per load or store of a slot; the stores of `time` and `value`
are independent, so either may come first. A worker can die between any two and
the next one maps the segment as it is. `cnt` (requests per second), `torn`
(seconds whose slot was left half written) and `mon.raced` are history. `Segment`
joins ring and table: a reader process is started as a follower (`-l`) or as a
monitor (`-s`), and the two parts of the segment share no word, so that only the
worker's steps on the part that is read are explored.

### StatusLog

Every plain load and store of shared memory is a step, in program order: that is
what compiled code does on x86. A ring byte is `<<r, j>>`, byte `j` of record
`r`, so that "the text belongs to the length" can be stated. `last` and `slip`
are history: records `1..last` were printed whole and in this order (one that is
printed out of turn does not count), and the follower restarted between
`stat->p = 0` and the store to `stat->life` and has not started over since. The
follower is assumed to be at most `MaxLag` bytes behind when a push begins,
because it polls every second and a lap is 8 MB; what a slipped follower has to
read is the current lap. `KeepsUpAssumption` says how far that may be: what
is yet to be read and two of the longest records, the one that ends a lap and the
one that starts the next, fit into the ring. The bound is tight: the instance of
`segment` meets it exactly, and with one byte less TLC finds torn text.

### Lifecycle

Each system call another process can see is a step, and `handler_exit` may run
between any two steps of a process. A record lock belongs to a process and an
inode; `fork` does not pass it on. `shm_open`, `ftruncate` and `mmap` of the
creator are one step (`CreateSegment`), and `nids_init` succeeds. Inodes and segments are named by the process
that created them. The follower is the loop of `status_logcat`. `env` is the
scenario (daemon or not, supervised or not) with what is left of its bounds.
`stray` and `lost` are history: the segments in use whose name another process
removed, and the processes whose SIGTERM reached nobody. A new process takes the
least unborn pid; the pids suffice for every start and fault of a scenario (an
assumption on the constants that every run evaluates), so that `fork` never
fails for want of one.

### CaptureQueue

`g_async_queue_length` subtracts the threads blocked in `pop`; the model keeps
that, since both the limit test and `nids_exit` use it. The length test and the
push are one step because the handler holds the queue's lock around both.

### TcpStreams

Slots of the pool are numbers; `next_time`/`prev_time`, the free list and
`tcp_num` are as in the code, the hash chains are abstracted to the set of used
slots. `order` is a history variable: the streams by age. A segment is described
by its sender, its acknowledgement and where it falls: old, next in order, in
order and filling the gap in front of a queued FIN, ahead of a gap, or ahead and
making the queue exceed 65535 bytes, which purges it. Segments outside the
window, with a bad checksum or refused by PAWS change nothing and are stutters.
`nids_params.tcp_workarounds` is 0, so closing timeouts do not exist.

### TcpQueue

One direction of an established connection. The sender's bytes are numbered and
a byte is its number, so `out`, the data `tcp_callback` was given, shows what was
repeated, skipped or misplaced. The code sees numbers modulo `Mod` only:
`before`, `after` and `EXP_SEQ` are computed on those. `Segment` is the path of
`process_tcp` from the window test to `prune_queue`; the loop that drains the
list is a recursive function (`Turns`) with a turn for each member: the turn that
finds a segment still ahead changes nothing, and neither does any behind it. `got` is history: the bytes that were let through and not purged. No segment reaches
more than a byte past the right edge of the window, which is constant (`OnWire`);
the code admits longer ones that begin inside it.
`collect` is 1 and `collect_urg` 0, as `tcp_callback` sets them, and it reads all
it is given, so `notify` delivers each piece whole and drops the urgent byte. A
segment refused by PAWS or a checksum is a lost one. At most one byte is urgent:
of two that are outstanding TCP itself keeps only the later.

`ByteStream` is what HTTP parsing relies on: the bytes in order, each once, the
urgent one left out, and an end only behind the last byte. The mapping takes
`half.out` for the stream and the states `FIN_SENT` and `FIN_CONFIRMED` for its end.

### IpInput and IpLayer

`IpInput` follows one packet through `gen_ip_frag_proc`: the tests on its header,
the checksum, one step per option in `ip_options_compile`. The words of the header
are reduced to their sum, folded on a small radix. Length, pointer, flags and
overflow counter of an option are chosen when it is read; that is sound because
an earlier option writes only to its own bytes, which `InputSound` states. `own`,
`read` and `wrote` are history: the bytes of the last option and those looked at
and stored to because of it, also of an option that is refused. What is tracked is
`ip_options_compile`; the checksum before it reads `ip_hl` words. The
i386 assembly of the checksum is an alternative that a 64-bit build leaves out;
the checksums of TCP and UDP are the same folding over other words. In `IpLayer`
options are scanned only while no fragment is queued (`Quiet`): the two parts
share no state.

### IpFrag

A datagram is its key; its payload is `Size` units (of eight bytes) that are
their own numbers. A fragment keeps `offset`, `end`, `len` and `ptr` (the unit
its data begins with) apart, as the code moves them apart. The loop over the
successors (`Cuts`, a turn is `Cut`) measures the overlap from the pointer `next`,
as the code does. The loops of expiry (`Expire`) and eviction (`ip_evictor`) run a turn for
each timer or queue there is; that this is enough for them to end where the code's
loops do is proved. A host entry exists while it has a queue. Sizes of structures are small
numbers; the clock is an int of `2 * Half` values. `seen` and `have` are history:
the time of the last fragment of a queue, and the units it has been sent.

## 3. Runs

| run | what it shows | bounds |
|---|---|---|
| `session_any` | any interleaving of good, pipelined, split and broken messages leaves the session, its heap objects and the request count consistent; a parser that failed between exchanges stays blind | 2 messages a side, 5 kinds each |
| `session_polite` | half-duplex traffic: the log refines `ExchangeLog`; no leak; phase times add up; every request is eventually logged | 2 exchanges, clock to 3 |
| `session_split` (violated) | strings cut by a segment boundary are logged in part | 2 exchanges |
| `session_head` (violated) | the answer to HEAD is not logged when it is complete | 2 exchanges |
| `segment` | ring: writer in bounds; a follower that keeps up prints every record whole, none before the one in front of it; the only exception is the restart between the two stores of a rewind, after which, until it starts over once more, it may print torn text and even leave the segment; if it does not leave it, it still prints every record in the end. Table: each slot holds the count of the newest second in it; both averages are exact; the first number is not always of the last second | ring of 16 bytes, records of 4 or 5, 7 records, 3 lap numbers; 3 slots, 5 seconds, 3 requests, 1 death |
| `fields` | which fields of a query, Cookie or body are captured exactly, and what may happen to the others | every string of up to 7 characters in every cut, names of one letter, `post_buf` of 7 |
| `lifecycle` | no second capturing instance under the pid file in place, its segment can be found by name, SIGTERM ends the instance unless it is lost to a dead worker, a killed worker is replaced, an orphan ends, with the exceptions the properties name | foreground, with and without supervisor: 2 starts, 1 SIGTERM, 1 fault; daemon: 1 start, 2 SIGTERMs, 2 faults; 1 follower |
| `lifecycle_daemon` (violated) | the lock does not survive daemonisation | 2 starts |
| `capture_queue` | order, bound, safe teardown, every queued packet handed on | limit 2, 6 packets |
| `tcp_streams` | pool, free list, age list, addresses, `stat->conn`, closing | 3 streams, 4 tuples, 1 crash; one tuple sees every kind of segment, the others open, are reset and evicted |
| `tcp_queue` | reassembly implements `ByteStream`; the callback is given exactly the bytes up to the first one missing; list sorted and accounted; FIN in its place; an acknowledged gap is final | 8 bytes, numbers modulo 32 that wrap after 4, segments of 0 to 3 bytes, window 4, list of 6 bytes |
| `ip_frag` | options are written inside themselves, and read inside the header but for one length byte behind it; only a header that is intact, or not to be checked, and without source route goes on; queues, host, timers and memory agree; expiry exact until the clock wraps; what is glued is the datagram | 2 datagrams of 4 units, 6 and 2 fragments, 3 ticks, a clock that wraps after the third; headers of 20 to 32 bytes, radix 8 |

The type invariant of a module is the first conjunct of one of its invariants
(`BodyAccounted`, `FollowsTheLog`, `Exclusive`, `Bounded`, `TableSound`, `ListSound`,
`QueuesSound`, `NothingInvented`); it is also proved for all of them but `Fields`.

Why the bounds suffice. Two exchanges are what a session needs to mix two of
them. Seven records make the ring lap more than twice, so that the mark, the
rewind and a lap number that wraps all happen in front of a lagging follower.
Two instances are what the lock must separate, and the limit plus two packets
plus `EOF_item` is the longest queue. With four address tuples and three
streams eviction, re-use of a slot and re-use of a tuple all occur. The two
tuples that are not in service are symmetric. In `TcpQueue` the list holds several
segments before it is purged, and a segment can overlap two others. In `IpFrag`
four units are the least for a fragment strictly inside another with data on both
sides, and two queues of one host are what the evictor has to choose from. In
`Rps` five seconds over three slots reuse a slot twice, once after an idle second.
In `Fields` seven characters are two fields and the separators around them, and
make a field as long as the buffer. In `IpInput` twelve bytes of options hold two
that matter, and pointers run past the longest option. The safety part of
`lifecycle` was also explored once with 2 SIGTERMs and 2 faults in the foreground
and 3 SIGTERMs for the daemon (496,000 states), without a difference.

Fairness. `Session`: a message that was begun keeps arriving, and a silent
connection is ended by its endpoints; the code itself waits for ever.
`Segment`: worker and follower keep running (nothing is assumed of the monitor). `Lifecycle`: every process is
scheduled, and connections keep being made (the orphan test sits in
`tcp_callback`). `CaptureQueue`: both threads run; that `pcap_loop` ends is not
assumed. Deadlock checking is off for `Segment`, `Fields`, `Lifecycle` and `TcpStreams`,
which stop when the bounds are used up or when the worker has ended.

### What the violated runs say

* `session_split`: `http-parser/README.md:135-161` says that data callbacks may
  be called more than once and that the client must append; `callback.c:82` and
  `callback.c:160` do not. Of a URL the last piece is logged, of a Host the first.
* `session_head`: `http_parser.h:73-77` says how a response to HEAD is announced
  to the parser; `response_headers_complete` always returns 0.
* `lifecycle_daemon`: the lock that `functions.c:53` relies on is taken before
  the fork of `main.c:376` and released by the exit of the parent.

Observations kept as exceptions inside the properties, or beside them: the slip of
the log follower; a SIGTERM lost while `child_pid` is that of a dead worker; a
supervisor that gets SIGTERM before it has noted its first worker and leaves it
orphaned; a follower or a dying worker that unlinks the name of a new instance's
segment; `stat->conn` counting the sessions of a killed worker for ever; up to
`queue_limit + 2` packets in `cap_queue` (`libnids.c:346` tests `>` before the
push and GLib's length leaves out an item per blocked reader); `CLOSING` left
behind when a queued FIN is purged; a stream behind an acknowledged gap that
delivers nothing more until the sequence numbers come round; a fragment nested
in an earlier one, which is queued with `end < offset` and makes `ip_done` wait
for nothing (`ip_fragment.c:632`); the millisecond clock of `ip_fragment.c:117`,
which wraps after 24.8 days and takes the expiry of queues with it
(`ExpiresInTime` ends there: nothing is claimed of the time after); `ip_evictor`,
which takes the head of `ipqueue`, the newest queue, while the comment above it
says the oldest; the parent of a daemon, which until its exit still has the
handlers and, on SIGTERM, shuts the segment of the running daemon down.

Of the fields (`callback.c`):

* A field is captured twice when a piece ends between it and the next one: the
  rest that is kept begins with the last name seen, complete or not.
* The last value of a Cookie or body keeps a separator that ends the string, and
  is lost when it is empty. A field longer than `post_buf` is cut or lost. The
  second piece of a query or Cookie is not looked at.
* A name begins with a character above `'A'`: `ASPSESSID`, which the sample
  configuration of the repository's `README.md:44` lists, is read as `SPSESSID`
  and never matches.
* `is_in_list` compares as many characters as the name at hand has, so any name
  that a configured one begins with is caught.
* A content type that sorts after `multipart`, `text/plain` say, is taken for a
  multipart one and its body is not looked at.
* A pipelined POST continues the `post_buf` of the request before it.

Of the counters: the first number of `bscope -s` is that of an older second when
the last one was idle (`status.c:95`); a slot torn by a dying worker stays wrong
until its second is over. Of the options: after `IPOPT_END` only one byte is
cleared, whatever the loop's length (`ip_options.c:116`, the pointer stands still);
of an option whose first byte is the last one of the header the length is read one
byte behind the header (`ip_options.c:128`), which may be one byte behind what was
captured; the packet is then refused whatever that byte is. The checksum is taken
over `ip_hl` words before `ip_hl` is compared with a length (`libnids.c:377`).

## 4. Theorems

All hold for every value of the constants that satisfies the module's ASSUME, and
all but `TypeCorrect`, `RingTypes`, `RingInSegment` and `AlwaysIInv` state a
property that a run checks on a small instance. Each inductive invariant (`IInv`
in its module, or named below) was checked by TLC on the instance of the run
before it was proved.

**`SessionProofs`**: `TypeCorrect`, `NothingUnreportedAlways`,
`HitsCoverLogAlways`, `NoDoubleFree`, `BlindForeverAlways`, `BodyAlwaysAccounted`.
The invariant joins the types of the endpoints with a core over parsers, session,
heap, log and counters: `NothingUnreported`, `HitsCoverLog`, `Owned(s) <= heap`, the
order of the clock marks (no mark is later than now, so no elapsed time is
negative) and the bounds on body lengths. `NothingUnreported` is needed for
`HitsCoverLog` (only a begun request may be reported), the mark order for the
types, and the ownership bound for the type of `heap` after `session_clean`. There
is one lemma per callback and one step per action.

Under the hypothesis `Polite` of `Traffic` it also proves `NothingLeaks` (`NoLeak`),
`TimesAlwaysAddUp`, `AnsweredAlwaysLogged` and the refinement
`AlwaysLogsEveryExchange`; without it these fail, as a split string, an answer to
HEAD or two requests in a row show. The log is right because of what is still to
come, so the invariant (`PInv`) speaks of the tokens that have not arrived:
they are the rest of a message that the parser reads to its end from the state
it is in. `Resting` is a session between two exchanges: nothing is stored, both
parsers are new, and at most an unread request is under way. `Asking` says which
of method, path and Host the request has stored and which are still in `req.todo`
(`HostKnown`: one of the two, never both), `Answering` what the response has
stored and that the final one is never complete while its exchange is open,
unless it has no length, and `Timed` that the marks follow each other without a
gap. Every step but a begun message, its answer and the logging is a stutter of
`ExchangeLog`. The lemmas on `Course` (a message less its first token is well formed
from the next parser state) carry each token from `todo` into the parser.

**`SegmentProofs`**, the ring: `RingTypes` and `WriterStaysInside` with
`TypeOK /\ Room`: at every program point of the writer there is room for what is
still to be stored, and after a push for the two bytes of the next mark. This
needs `LogBuf + 4 < Cap`, which the constants of `status.c` satisfy by far.
`FollowerKeepsUp` is `FollowsTheLog`, the reader side. Its invariant (`FollowInv`)
knows which record the current lap began with and at which offset each of its
records lies (`Lap`); the follower is in that lap (`OnLap`), or in the one before
(`Behind`) and then past every byte the writer is about to overwrite, its own
records still whole and the mark at their end; before a rewind it is past what
the next lap starts with. Of a follower that has slipped it knows only that all
records before the current lap are printed and that the writer does not end this
lap (`Slipped`); that is enough for the place where it starts over. After each of its loads the invariant says what the
value it holds can still mean. That two laps are never both partly overwritten is
what `KeepsUpAssumption` pays for. `RingInSegment` carries the theorems on the ring
over to `Segment`: its behaviours are behaviours of `StatusLog`.
The table: `SlotsAreExact`, `LastSecondIsNewest`, `AveragesAreExact`. The invariant
says what each program point of `request_begin` knows of its slot, that a slot
which is not being taken over holds the count of its second, that the worker
counts nothing older than the monitor's clock while the monitor is not raced, and
what the loop of `status_mon` has added up so far. The clock is assumed to start
at `RPS_N` or later (it is the time of day).

**`LifecycleProofs`**: `OneInstance` (`Exclusive`) and `NameAlwaysReaches`
(`StatusReachable`), for any number of processes, starts, SIGTERMs, crashes and
failed forks. The hypothesis is that a daemon is started at most once: with two
starts the properties fail, which is what `lifecycle_daemon` shows. `IInv` says that
pids and inodes are younger than what refers to them (`Births`, `Inodes`), that an
inode has one lock holder, that a supervisor has one live child, the one it waits
for (`Families`), that a worker on the pid file in place has a supervisor that
holds the lock (`Guarded`), and that the name leads to its segment (`Named`).

**`CaptureQueueProofs`**: `InOrderAlways`, `TeardownIsSafe`, `QueueBounded`. The
invariant adds that packets are numbered up to `captured`, that `EOF_item` comes
last and only once, and how long the queue is at each point of the two threads.

**`TcpStreamsProofs`**: `ConnAlwaysCounts`, `ClosedAlwaysFreed`,
`TableAlwaysSound`. The invariant is over the table and the history variable
`order`: the age list is `order` in both directions, age list and free list are a
partition of the pool without repetitions, `tcp_num` is the length of one, a tuple
has one stream, and a session exists only past the handshake. There is a lemma
for each way a stream enters or leaves the table. `NoAddr` is assumed to be no tuple.

**`IpLayerProofs`**: of the composed `LayerSpec`, `OptionsStayInHeader`
(`InputSound`: what is written and what is read, of refused options too, with the
one byte behind the header as its exception), with the arithmetic of the checksum: two foldings are enough for
every sum the header can have, on every radix; and the four properties of the
defragmentation, `QueuesAlwaysSound`, `QueuesExpireInTime`, `GluedAlwaysWhole` and
`OnlyMissingWaits`, for every set of hosts and datagrams, size, way of cutting them, memory
mark, lifetime and width of the clock. The invariant is `FragInv`, in three parts.
`Linked`: each datagram queued is once in the list of timers and once in that of its
host, and the account of a host is the sum over its list. `Timely`: timers are in the
order of the last fragments, so the head decides for all. `Filed`, for each queue:
its fragments form a chain (`Chain`: each begins no earlier than those before it
begin and end), hold every unit that was sent, and hold the end if and only if `len`
is set. The chain is what makes it inductive: a fragment of negative length may be in
it, and only it explains why `ip_done`, which looks at neighbours alone, is never
wrong when it says yes (`InARow`, `Glued`) and why it says no only with such a
fragment (`NothingMissing`). A lemma for each operation on a queue or a table:
`Inserted` with `CutAll` for the two trimmings, `Freed`, `Expired`, `Evicted`
(`OverLow`: `ip_evictor` never panics), `Renewed`, `Created`, `Entered`. Eviction and
expiry only take queues away (`Less`), which keeps everything.

**`TcpQueueProofs`**: `ListAlwaysSound`, `AlwaysReassembled`, `GapAlwaysFinal` and the
refinement `AlwaysDeliversStream`, for every width of the sequence numbers, window,
segment size, memory limit and every loss, repetition, overlap and order. The
hypothesis is `N < Mod`, a stream shorter than the number space: beyond it the
numbers come round and a stream behind an acknowledged gap goes on with the
wrong lap. The module's assumption on the window (`2 * Window + MaxLen + 1` below
half the number space) holds for every window of TCP, which is at most 2^30.
The argument: a number on the wire stands for a byte up to whole turns, so
`before` and `after` compare bytes that are less than half a turn apart (`Before`);
`add_from_skb` takes the stream to the end of its segment and skips the urgent
byte (`Added`); every turn of the draining loop keeps the rest of the list in order
(`Dequeued`, `DrainedLoop`, by induction on the turns); `Enqueue` keeps it sorted
(`Enqueued`). `IInv` (`Keeps`) says that the stream has the bytes let through up to
the first missing one, that the list is ahead of it, sorted and paid for, and that
every byte let through is in one or the other, unless the receiver has
acknowledged what is missing. That last exception is what makes it inductive: in
a gap of more than half a turn a segment looks old and is dropped.

**`SumsProofs`** has the induction all this rests on where sequences are added up or
lists drained: every nonempty set of numbers has a least member, so a set with 0
and all successors is `Nat`; with it a recursive function is shown to be what its
recursion says, and sums are shown to follow `Append` and `\o`.

Only model-checked: liveness and everything that needs fairness (tlapm has no
rules for it here); `Fields`, whose
properties compare a fold of a parser over a text with a definition that splits
the text: that is an induction over data.

## 5. Not modelled

* Scan detection (`scan.c`): it runs on every SYN, but all it does outside its own
  table is to call `nids_params.syslog`, which `main.c:276` sets to an empty
  function. (Read, not checked: `modtime - gettime() > scan_delay` is a difference
  that is never positive, so the pause that `API.txt:378` describes never resets
  the count.)
* The byte grammar of `http_parser` below what callbacks can tell apart.
* Link-layer decoding in `nids_pcap_handler`: it decides which packets are queued.
* `urldecode`, `memstr` and printing (`utils.c`): no state.
* Configuration parsing (`ini.c`), run once before everything else.
* `report.c` and AMQP: `send_report` is a no-op and `report.o` is not linked.
* `http_parser_parse_url`, `killtcp.c`: not called.
