--------------------------- MODULE LifecycleProofs ---------------------------
(***************************************************************************)
(* One instance captures under the pid file in place and its segment is    *)
(* found by name, for every number of processes, starts, signals, crashes  *)
(* and failed forks, in the foreground; a daemon is started once.          *)
(***************************************************************************)
EXTENDS Lifecycle, SumsProofs, FiniteSetTheorems

\* Where a process may be, what it holds, and what the environment may do.
PCs == Over \cup {"main", "lock", "rmname", "create", "init", "daemonize", "bye", "fork", "forked",
                  "wait", "born", "run", "dead", "unlink", "close", "rm"}
Process ==
  [pc : PCs, parent : Pids \cup {0}, child_pid : Pids \cup {0}, fd : Pids \cup {0},
   locked : BOOLEAN, seg : Pids \cup {0}, master : BOOLEAN, term : BOOLEAN]
Scenario ==
  [daemon : BOOLEAN, supervised : BOOLEAN, starts : Nat, terms : Nat, faults : Nat]

\* The reader of the segment (bs-status).
Reader == [pc : {"attach", "follow", "rm"}, seg : Pids \cup {0}]

\* The types of the variables.
Types ==
  /\ procs \in [Pids -> Process] /\ env \in Scenario
  /\ file \in Pids \cup {0} /\ name \in Pids \cup {0} /\ alive \subseteq Pids
  /\ rd \in Reader /\ stray \subseteq Pids /\ lost \subseteq Pids

\* Before the lock, before the segment is mapped, before the last fork.
Opening   == {"main", "lock"}
Mapping   == {"main", "lock", "rmname", "create"}
Starting  == {"main", "lock", "rmname", "create", "init", "daemonize"}
\* The pcs of a process that no live process descends from.
Leaves    == Starting \cup {"none", "fork", "born", "run"}

\* What each point of main knows of the process itself: which of the pid
\* file, the lock, the segment and the parent it has there.
Local(p) ==
  LET x == procs[p]
  IN  /\ x.pc = "none" => x = Unborn
      /\ x.pc = "main" => x.fd = 0 /\ ~x.master
      /\ x.pc \in Starting \cup {"bye"} => x.parent = 0
      /\ x.pc = "born" => x.parent # 0
      /\ x.pc \in Mapping \ {"main"} => x.fd # 0 /\ x.master
      /\ x.pc \in Mapping => x.seg = 0 /\ x.child_pid = 0
      /\ x.pc \in PCs \ (Over \cup Mapping \cup {"close", "rm"}) => x.seg # 0 /\ x.fd # 0 /\ x.master
      /\ x.parent = 0 /\ x.pc \in PCs \ (Over \cup Opening \cup {"close", "rm"}) => x.locked
      /\ x.parent # 0 => ~x.locked
      /\ x.locked => x.fd # 0 
      /\ env.daemon => ~(x.parent = 0 /\ x.pc \in {"fork", "forked", "wait", "run"})
      /\ ~env.daemon => x.pc \notin {"daemonize", "bye"}
      /\ ~env.daemon /\ x.parent # 0 => x.pc \notin {"fork", "forked", "wait"}
Locals == \A p \in Pids : Local(p)

\* Pids are given in order, and a parent is older than its child.
Births ==
  /\ \A p, q \in Pids : At(p, "none") /\ p < q => At(q, "none")
  /\ \A p \in Pids : procs[p].parent # 0 => procs[p].parent < p

\* An inode is that of a process that has opened the file.
Inodes ==
  /\ file # 0 => procs[file].pc \notin {"none", "main"}
  /\ \A p \in Pids : procs[p].fd # 0 => procs[procs[p].fd].pc \notin {"none", "main"}

\* flock: an inode has one holder.
OneLock == \A p, q \in Pids : Holds(p, procs[p].fd) /\ Holds(q, procs[p].fd) => p = q

\* A supervisor has one live child at most, the youngest, and it is the one
\* it waits for; a live child has a parent that has forked.
Families ==
  /\ \A c, d \in Pids : procs[c].parent # 0 /\ procs[d].parent = procs[c].parent /\ c < d => ~Live(c)
  /\ \A c \in Pids : procs[c].parent # 0 /\ Live(c) => procs[procs[c].parent].pc \notin Leaves
  /\ \A s \in Pids : At(s, "forked") => \E c \in Pids : /\ procs[c].parent = s
                        /\ \A d \in Pids : procs[d].parent = s => d <= c
  /\ \A s \in Pids : At(s, "wait") => 
       /\ procs[s].child_pid # 0
       /\ \A c \in Pids : procs[c].parent = s /\ c # procs[s].child_pid => ~Live(c)

\* A process that has not begun to shut down.
Working(p) == Live(p) /\ ~ShuttingDown(p)

\* In the foreground a worker on the pid file in place has a supervisor that
\* holds the lock on it.
Guarded ==
  ~env.daemon =>
    \A w \in Pids : Working(w) /\ procs[w].parent # 0 /\ procs[w].fd = file =>
       LET s == procs[w].parent
       IN  procs[s].pc \in {"forked", "wait", "dead", "unlink"} /\ procs[s].fd = file /\ procs[s].locked

\* A daemon is started once, and of its processes only the youngest is not
\* done with starting.
Behind == {"bye", "forked", "wait", "dead", "unlink", "close", "rm"}
Daemon ==
  env.daemon =>
    /\ env.starts <= 1 
    /\ env.starts = 1 => \A p \in Pids : At(p, "none")
    /\ \A p, q \in Pids : procs[p].pc \in Starting /\ p # q => At(q, "none")
    /\ \A p, q \in Pids : procs[p].pc \in {"fork", "forked", "wait"} /\ p < q /\ ~At(q, "none") => procs[q].parent = p
    /\ \A p, q \in Pids : procs[p].pc \in {"fork", "forked", "wait"} /\ procs[q].pc \in {"fork", "forked", "wait"} => p = q
    /\ \A p, q \in Pids : p < q /\ Live(p) /\ Live(q) => procs[p].pc \in Behind

\* Who works on the pid file in place has its segment under the name, unless
\* a reader has taken the name away.
Named ==
  \A p \in Pids : Working(p) /\ procs[p].seg # 0 /\ procs[p].fd = file /\ procs[p].seg \notin stray
                    => name = procs[p].seg

\* The inductive invariant.
Sound == Types /\ Locals /\ Births /\ Inodes /\ OneLock /\ Families /\ Guarded /\ Daemon
IInv == Sound /\ Named

-----------------------------------------------------------------------------
\* Which bounds are left is all that Spend changes.
LEMMA Spent ==
  ASSUME env \in Scenario,
         Spend("starts") \/ Spend("terms") \/ Spend("faults") \/ env' = env
  PROVE  /\ env' \in Scenario /\ env'.daemon = env.daemon /\ env'.supervised = env.supervised
         /\ env'.starts = IF Spend("starts") THEN env.starts - 1 ELSE env.starts
BY DEF Spend, Scenario

\* Pids are given out in order.
LEMMA FreshIsNext ==
  ASSUME Types, Births, Room
  PROVE  /\ Fresh \in Pids /\ At(Fresh, "none")
         /\ \A q \in Pids : At(q, "none") => Fresh <= q
         /\ \A q \in Pids : ~At(q, "none") => q < Fresh
<1> DEFINE S == {p \in Pids : At(p, "none")}
<1>1. S \in SUBSET Nat /\ S # {}
  BY DEF Pids, Room, At
<1>2. PICK f \in S : \A q \in S : f <= q
  BY <1>1, LeastNumber
<1>3. /\ Fresh \in Pids /\ At(Fresh, "none")
      /\ \A q \in Pids : At(q, "none") => Fresh <= q
  BY <1>2 DEF Fresh, At
<1>4. ASSUME NEW q \in Pids, ~At(q, "none") PROVE q < Fresh
  <2>1. q # Fresh /\ ~(Fresh < q)
    BY <1>3, <1>4 DEF Births
  <2> QED BY <1>3, <2>1 DEF Pids
<1> QED BY <1>3, <1>4

\* The records that processes become are processes.
LEMMA Records ==
  ASSUME NEW x \in Process, NEW here \in PCs, NEW q \in Pids \cup {0}
  PROVE  /\ Unborn \in Process
         /\ [x EXCEPT !.pc = here] \in Process
         /\ [Unborn EXCEPT !.pc = here, !.parent = x.parent] \in Process
         /\ [x EXCEPT !.term = TRUE] \in Process /\ [x EXCEPT !.term = FALSE] \in Process
         /\ [x EXCEPT !.pc = here, !.parent = q, !.locked = FALSE, !.term = FALSE] \in Process
         /\ [x EXCEPT !.pc = here, !.fd = q, !.master = TRUE] \in Process
         /\ [x EXCEPT !.pc = here, !.locked = TRUE] \in Process
         /\ [x EXCEPT !.pc = here, !.locked = FALSE] \in Process
         /\ [x EXCEPT !.pc = here, !.seg = q] \in Process
         /\ [x EXCEPT !.pc = here, !.child_pid = q] \in Process
<1> DEFINE Numbers == Pids \cup {0}
           Fields == [pc : PCs, parent : Numbers, child_pid : Numbers, fd : Numbers,
                      locked : BOOLEAN, seg : Numbers, master : BOOLEAN, term : BOOLEAN]
<1>1. x \in Fields /\ q \in Numbers /\ 0 \in Numbers /\ "none" \in PCs
  BY DEF Process, PCs, Over
<1> HIDE DEF Numbers
<1>2. Unborn \in Fields
  BY <1>1 DEF Unborn
<1>3. [x EXCEPT !.pc = here] \in Fields
  BY <1>1
<1>4. [Unborn EXCEPT !.pc = here, !.parent = x.parent] \in Fields
  BY <1>1, <1>2
<1>5. [x EXCEPT !.term = TRUE] \in Fields /\ [x EXCEPT !.term = FALSE] \in Fields
  BY <1>1
<1>6. [x EXCEPT !.pc = here, !.parent = q, !.locked = FALSE, !.term = FALSE] \in Fields
  BY <1>1
<1>7. [x EXCEPT !.pc = here, !.fd = q, !.master = TRUE] \in Fields
  BY <1>1
<1>8. [x EXCEPT !.pc = here, !.locked = TRUE] \in Fields
  BY <1>1
<1>9. [x EXCEPT !.pc = here, !.locked = FALSE] \in Fields
  BY <1>1
<1>10. [x EXCEPT !.pc = here, !.seg = q] \in Fields
  BY <1>1
<1>11. [x EXCEPT !.pc = here, !.child_pid = q] \in Fields
  BY <1>1
<1> QED BY <1>2, <1>3, <1>4, <1>5, <1>6, <1>7, <1>8, <1>9, <1>10, <1>11 DEF Process, Numbers

-----------------------------------------------------------------------------
(* Steps that leave every process where it is.                             *)

\* What the invariant speaks of: all but a pending signal.
Alike(x, y) ==
  /\ x.pc = y.pc /\ x.parent = y.parent /\ x.child_pid = y.child_pid /\ x.fd = y.fd
  /\ x.locked = y.locked /\ x.seg = y.seg /\ x.master = y.master

\* A signal sent, passed on or lost, and the follower's steps, disturb nothing.
LEMMA AlikeStep ==
  ASSUME Sound, Types', \A q \in Pids : Alike(procs'[q], procs[q]),
         \A q \in Pids : At(q, "none") => procs'[q] = procs[q],
         file' = file, env'.daemon = env.daemon, env'.starts = env.starts
  PROVE  Sound'
<1> USE DEF Alike
<1>0. \A q \in Pids : /\ procs[q].parent \in Pids \cup {0} /\ procs[q].fd \in Pids \cup {0}
                      /\ procs[q].child_pid \in Pids \cup {0} /\ Live(q)' = Live(q)
                      /\ \A at : At(q, at)' = At(q, at)
  BY DEF Sound, Types, Process, Live, At
<1>9. file \in Pids \cup {0}
  BY DEF Sound, Types
<1>1. Locals'
  BY DEF Sound, Locals, Local, At
<1>2. Births'
  BY DEF Sound, Births, At
<1>3. Inodes'
  BY <1>0, <1>9 DEF Sound, Inodes
<1>4. OneLock'
  BY <1>0 DEF Sound, OneLock, Holds
<1>5. Families'
  BY <1>0 DEF Sound, Families
<1>6. Guarded'
  BY <1>0 DEF Sound, Guarded, Working, ShuttingDown
<1>7. Daemon'
  BY <1>0 DEF Sound, Daemon
<1> QED BY <1>1, <1>2, <1>3, <1>4, <1>5, <1>6, <1>7 DEF Sound

-----------------------------------------------------------------------------
(* Steps of one process.                                                   *)

\* No live process is a child of p.
Childless(p) == \A c \in Pids : procs[c].parent = p => ~Live(c)

\* Process p becomes x, and does not fork.
Becomes(p, x) ==
  /\ procs' = [procs EXCEPT ![p] = x] /\ x \in Process /\ Live(p)
  /\ x.parent = procs[p].parent
  /\ x.fd \in {procs[p].fd, 0} \/ (At(p, "main") /\ x.fd = file')
  /\ x.locked => x.fd = procs[p].fd /\ (procs[p].locked \/ \A q \in Pids \ {p} : ~Holds(q, x.fd))
  /\ x.pc \notin {"none", "main", "forked"}
  /\ x.pc = "wait" => /\ At(p, "forked") /\ x.child_pid # 0
                      /\ \A c \in Pids : procs[c].parent = p /\ c # x.child_pid => ~Live(c)
  /\ x.pc \in Leaves => Childless(p)
  /\ x.pc \in Starting => procs[p].pc \in Starting
  /\ x.pc = "fork" /\ env.daemon => At(p, "wait")
  /\ x.pc \in Over \/ (ShuttingDown(p) => ShuttingDown(p)')
  /\ procs[p].pc \in Behind => x.pc \in Behind \cup Over \cup {"fork"}
  /\ procs[p].pc \in {"forked", "wait", "dead", "unlink"} =>
       \/ Childless(p)
       \/ x.pc \in {"wait", "dead", "unlink"} /\ x.fd = procs[p].fd /\ x.locked = procs[p].locked
       \/ file' = 0

\* Such a step leaves the other processes as they were placed.
LEMMA BecomesStep ==
  ASSUME Sound, Types', NEW p \in Pids, NEW x, Becomes(p, x), Local(p)',
         file' \in {file, 0} \/ (At(p, "main") /\ file' = p),
         env'.daemon = env.daemon, env'.starts = env.starts
  PROVE  Sound'
<1>0. /\ \A q \in Pids : /\ procs[q].parent \in Pids \cup {0} /\ procs[q].fd \in Pids \cup {0}
                         /\ procs[q].child_pid \in Pids \cup {0}
      /\ file \in Pids \cup {0} /\ 0 \notin Pids
  BY DEF Sound, Types, Process, Pids
<1>1. /\ procs'[p] = x /\ \A q \in Pids : q # p => procs'[q] = procs[q]
      /\ \A q \in Pids : procs'[q].parent = procs[q].parent
  BY DEF Becomes, Sound, Types
<1>2. /\ Live(p) /\ (Live(p)' <=> x.pc \notin Over) /\ \A q \in Pids : q # p => Live(q)' = Live(q)
      /\ \A q \in Pids : Live(q)' => Live(q)
      /\ \A q \in Pids : At(q, "none")' <=> At(q, "none")
      /\ \A q \in Pids : At(q, "main")' => At(q, "main")
  BY <1>1 DEF Becomes, Live, At, Over
<1>3. Locals'
  BY <1>1 DEF Sound, Locals, Local, Becomes
<1>4. Births'
  BY <1>1, <1>2 DEF Sound, Births
<1>5. Inodes'
  BY <1>0, <1>1, <1>2 DEF Sound, Inodes, Becomes, At
<1>6. OneLock'
  BY <1>1, <1>2 DEF Sound, OneLock, Holds, Becomes
<1>7. Families'
  <2>1. \A c, d \in Pids : procs'[c].parent # 0 /\ procs'[d].parent = procs'[c].parent /\ c < d => ~Live(c)'
    BY <1>1, <1>2 DEF Sound, Families
  <2>2. \A c \in Pids : procs'[c].parent # 0 /\ Live(c)' => procs'[procs'[c].parent].pc \notin Leaves
    BY <1>0, <1>1, <1>2 DEF Sound, Families, Becomes, Childless
  <2>3. \A q \in Pids : At(q, "forked")' => At(q, "forked")
    BY <1>1 DEF Becomes, At
  <2>4. ASSUME NEW s \in Pids, At(s, "forked")'
        PROVE  \E c \in Pids : /\ procs'[c].parent = s
                               /\ \A d \in Pids : procs'[d].parent = s => d <= c
    BY <1>1, <2>3, <2>4 DEF Sound, Families
  <2>5. ASSUME NEW s \in Pids, At(s, "wait")'
        PROVE  /\ procs'[s].child_pid # 0
               /\ \A c \in Pids : procs'[c].parent = s /\ c # procs'[s].child_pid => ~Live(c)'
    <3>1. CASE s = p
      BY <1>1, <1>2, <2>5, <3>1 DEF Becomes, At
    <3>2. CASE s # p
      BY <1>1, <1>2, <2>5, <3>2 DEF Sound, Families, At
    <3> QED BY <3>1, <3>2
  <2> QED BY <2>1, <2>2, <2>4, <2>5 DEF Families
<1>8. Guarded'
  <2> SUFFICES ASSUME ~env.daemon, NEW w \in Pids, Working(w)', procs'[w].parent # 0, procs'[w].fd = file'
               PROVE  LET s == procs'[w].parent
                      IN  /\ procs'[s].pc \in {"forked", "wait", "dead", "unlink"}
                          /\ procs'[s].fd = file' /\ procs'[s].locked
    BY DEF Guarded
  <2> DEFINE s == procs[w].parent
  <2>1. s \in Pids /\ procs'[w].parent = s
    BY <1>0, <1>1
  <2>2. Working(w) /\ Live(w) /\ procs'[w].fd \in {procs[w].fd, 0}
    <3>1. w = p => ~At(p, "main")
      BY <1>1 DEF Sound, Locals, Local, At, Starting
    <3> QED BY <1>1, <1>2, <3>1 DEF Working, Becomes, ShuttingDown
  <2>3. procs'[w].fd # 0
    BY <1>3 DEF Locals, Local, Working, ShuttingDown, Live, Over, Starting, Mapping, Opening, Types, Process, PCs
  <2>4. file' = file /\ procs[w].fd = file /\ file' # 0
    <3>1. ~(At(p, "main") /\ procs[w].fd = p)
      BY <1>0 DEF Sound, Inodes, At
    <3> QED BY <1>0, <2>2, <2>3, <3>1
  <2>5. procs[s].pc \in {"forked", "wait", "dead", "unlink"} /\ procs[s].fd = file /\ procs[s].locked
    BY <2>1, <2>2, <2>4 DEF Sound, Guarded
  <2>6. s = p => x.pc \in {"wait", "dead", "unlink"} /\ x.fd = procs[p].fd /\ x.locked = procs[p].locked
    BY <2>2, <2>4, <2>5 DEF Becomes, Childless
  <2> QED BY <1>1, <2>1, <2>4, <2>5, <2>6
<1>9. Daemon'
  <2> SUFFICES ASSUME env.daemon PROVE Daemon'
    BY DEF Daemon
  <2>1. \A a, b \in Pids : procs'[a].pc \in Starting /\ a # b => At(b, "none")'
    BY <1>1, <1>2 DEF Sound, Daemon, Becomes
  <2>2. \A q \in Pids : procs'[q].pc \in {"fork", "forked", "wait"} => procs[q].pc \in {"fork", "forked", "wait"}
    BY <1>1 DEF Becomes, At
  <2>3. \A a, b \in Pids : procs'[a].pc \in {"fork", "forked", "wait"} /\ a < b /\ ~At(b, "none")' => procs'[b].parent = a
    BY <1>1, <1>2, <2>2 DEF Sound, Daemon
  <2>4. \A a, b \in Pids : procs'[a].pc \in {"fork", "forked", "wait"} /\ procs'[b].pc \in {"fork", "forked", "wait"} => a = b
    BY <2>2 DEF Sound, Daemon
  <2>5. ASSUME NEW a \in Pids, NEW b \in Pids, a < b, Live(a)', Live(b)' PROVE procs'[a].pc \in Behind
    <3>1. procs[a].pc \in Behind /\ Live(b) /\ ~At(b, "none")
      BY <1>2, <2>5 DEF Sound, Daemon, Live, At, Over
    <3>2. CASE a = p /\ x.pc = "fork"
      <4>1. At(a, "wait") /\ procs[b].parent = a /\ Childless(a)
        BY <2>5, <3>1, <3>2 DEF Becomes, Leaves, Sound, Daemon, At
      <4> QED BY <3>1, <4>1 DEF Childless
    <3>3. CASE ~(a = p /\ x.pc = "fork")
      BY <1>1, <1>2, <2>5, <3>1, <3>3 DEF Becomes
    <3> QED BY <3>2, <3>3
  <2>6. env'.starts <= 1 /\ (env'.starts = 1 => \A q \in Pids : At(q, "none")')
    BY <1>2 DEF Sound, Daemon
  <2> QED BY <2>1, <2>3, <2>4, <2>5, <2>6 DEF Daemon
<1> QED BY <1>3, <1>4, <1>5, <1>6, <1>7, <1>8, <1>9 DEF Sound

\* What is kept by a step that leaves the name, and lets no process start
\* to work with a segment.
LEMMA NamedStep ==
  ASSUME Sound, Sound', Named, name' = name, stray \subseteq stray', file' \in {file, 0},
         \A q \in Pids : Working(q)' => /\ Working(q) /\ procs'[q].seg = procs[q].seg
                                        /\ procs'[q].fd = procs[q].fd
  PROVE  Named'
<1> SUFFICES ASSUME NEW q \in Pids, Working(q)', procs'[q].seg # 0, procs'[q].fd = file',
                    procs'[q].seg \notin stray'
             PROVE  name' = procs'[q].seg
  BY DEF Named
<1>1. procs'[q].fd # 0
  BY DEF Sound, Locals, Local, Working, ShuttingDown, Live, Over, Starting, Mapping, Opening, Types, Process, PCs
<1> QED BY <1>1 DEF Named

\* A name taken away from a segment in use leaves it in stray.
LEMMA NameGone ==
  ASSUME Sound, Sound', Named, name' = 0, stray' = Strays, file' \in {file, 0},
         \A q \in Pids : Working(q)' => /\ Working(q) /\ procs'[q].seg = procs[q].seg
                                        /\ procs'[q].fd = procs[q].fd
  PROVE  Named'
<1> SUFFICES ASSUME NEW q \in Pids, Working(q)', procs'[q].seg # 0, procs'[q].fd = file',
                    procs'[q].seg \notin stray'
             PROVE  FALSE
  BY DEF Named
<1>1. procs'[q].fd # 0
  BY DEF Sound, Locals, Local, Working, ShuttingDown, Live, Over, Starting, Mapping, Opening, Types, Process, PCs
<1>2. procs[q].seg \notin stray
  BY DEF Strays
<1>3. name = procs[q].seg
  BY <1>1, <1>2 DEF Named
<1>4. InUse(name)
  BY <1>3 DEF InUse, Working
<1> QED BY <1>3, <1>4 DEF Strays

\* A process that ends.
LEMMA GoneStep ==
  ASSUME IInv, NEW p \in Pids, NEW how \in {"exited", "signalled"}, Gone(p, how), Live(p),
         procs[p].pc \in {"forked", "wait", "dead", "unlink"} => Childless(p),
         (name' = name /\ stray' = stray) \/ (name' = 0 /\ stray' = Strays),
         file' = file, alive' \subseteq Pids, rd' = rd, lost' \subseteq Pids,
         env' \in Scenario, env'.daemon = env.daemon, env'.starts = env.starts
  PROVE  IInv'
<1> DEFINE x == [Unborn EXCEPT !.pc = how, !.parent = procs[p].parent]
<1>1. procs \in [Pids -> Process] /\ procs[p] \in Process /\ how \in PCs /\ Sound /\ Named
  BY DEF IInv, Sound, Types, PCs, Over
<1>2. /\ x \in Process /\ x.pc = how /\ x.parent = procs[p].parent /\ x.fd = 0 /\ ~x.locked
      /\ x.seg = 0 /\ x.child_pid = 0
  <2>1. 0 \in Pids \cup {0}
    OBVIOUS
  <2>2. x \in Process
    BY <1>1, <2>1, Records
  <2> QED BY <2>2 DEF Unborn
<1>3. procs' = [procs EXCEPT ![p] = x]
  BY DEF Gone, Update
<1> HIDE DEF x
<1>4. procs'[p] = x /\ procs' \in [Pids -> Process] /\ \A q \in Pids : q # p => procs'[q] = procs[q]
  BY <1>1, <1>2, <1>3
<1>5. Types'
  BY <1>1, <1>4 DEF Sound, Types, Strays, InUse
<1>6. Becomes(p, x)
  BY <1>2, <1>3, <1>4 DEF Becomes, Leaves, Starting, Over, Behind
<1>7. Local(p)'
  BY <1>2, <1>4 DEF Local, Over, Starting, Mapping, Opening
<1>8. Sound'
  BY <1>1, <1>5, <1>6, <1>7, BecomesStep
<1>9. Named'
  <2>1. \A q \in Pids : Working(q)' => /\ Working(q) /\ procs'[q].seg = procs[q].seg
                                        /\ procs'[q].fd = procs[q].fd
    BY <1>2, <1>4 DEF Working, Live, ShuttingDown, Over
  <2> QED BY <1>1, <1>8, <2>1, NamedStep, NameGone
<1> QED BY <1>8, <1>9 DEF IInv

\* A process that goes on, and keeps its segment and its descriptor.
LEMMA MoveStep ==
  ASSUME IInv, NEW p \in Pids, NEW x, Becomes(p, x), Local(p)',
         x.seg = procs[p].seg, x.fd = procs[p].fd, name' = name, stray' = stray,
         file' \in {file, 0}, alive' \subseteq Pids, rd' = rd, lost' = lost, env' = env
  PROVE  IInv'
<1>1. procs \in [Pids -> Process] /\ Sound /\ Named
  BY DEF IInv, Sound, Types
<1>2. procs'[p] = x /\ procs' \in [Pids -> Process] /\ \A q \in Pids : q # p => procs'[q] = procs[q]
  BY <1>1 DEF Becomes
<1>3. Types'
  BY <1>1, <1>2 DEF Sound, Types
<1>4. Sound'
  BY <1>1, <1>3, BecomesStep
<1>5. \A q \in Pids : Working(q)' => /\ Working(q) /\ procs'[q].seg = procs[q].seg
                                      /\ procs'[q].fd = procs[q].fd
  BY <1>2 DEF Working, Live, ShuttingDown, Becomes
<1>6. Named'
  BY <1>1, <1>4, <1>5, NamedStep
<1> QED BY <1>4, <1>6 DEF IInv

\* The children of a process at one of these pcs have ended.
LEMMA NoChild ==
  ASSUME Sound, NEW p \in Pids, procs[p].pc \in Leaves
  PROVE  Childless(p)
BY DEF Sound, Families, Childless, Pids

\* A supervisor whose child is over has no live child.
LEMMA ReapedChild ==
  ASSUME Sound, NEW p \in Pids, At(p, "wait"), ~Live(procs[p].child_pid)
  PROVE  Childless(p)
BY DEF Sound, Families, Childless

\* What Goto changes.
LEMMA Moved ==
  ASSUME NEW y \in Process, NEW here \in PCs
  PROVE  LET x == [y EXCEPT !.pc = here]
         IN  /\ x \in Process /\ x.pc = here /\ x.parent = y.parent /\ x.child_pid = y.child_pid
             /\ x.fd = y.fd /\ x.locked = y.locked /\ x.seg = y.seg /\ x.master = y.master
<1>1. [y EXCEPT !.pc = here] \in Process
  BY Records
<1> QED BY <1>1 DEF Process

\* status_init, supervisor_loop and status_shutdown, step by step.
LEMMA InitSegmentStep ==
  ASSUME IInv, NEW p \in Pids, InitSegment(p)
  PROVE  IInv'
<1> DEFINE here == IF env.daemon THEN "daemonize" ELSE IF env.supervised THEN "fork" ELSE "run"
           x == [procs[p] EXCEPT !.pc = here]
<1>1. /\ procs \in [Pids -> Process] /\ procs[p] \in Process /\ here \in PCs /\ Sound
      /\ Local(p) /\ At(p, "init")
  BY DEF IInv, Sound, Types, PCs, InitSegment, Locals
<1>2. procs' = [procs EXCEPT ![p] = x] /\ here \in {"daemonize", "fork", "run"}
      /\ (env.daemon <=> here = "daemonize") /\ UNCHANGED <<file, name, rd, stray, lost, env>>
      /\ alive' = alive \cup {procs[p].seg}
  BY DEF InitSegment, Goto, Update
<1> HIDE DEF here
<1>3. /\ x \in Process /\ x.pc = here /\ x.parent = procs[p].parent /\ x.fd = procs[p].fd
      /\ x.locked = procs[p].locked /\ x.seg = procs[p].seg /\ x.child_pid = procs[p].child_pid
      /\ x.master = procs[p].master
  BY <1>1, Moved
<1> HIDE DEF x
<1>4. procs'[p] = x
  BY <1>1, <1>2
<1>5. Childless(p) /\ Live(p)
  BY <1>1, NoChild DEF Leaves, Starting, At, Live, Over
<1>6. Becomes(p, x)
  BY <1>1, <1>2, <1>3, <1>4, <1>5 DEF Becomes, Leaves, Starting, Over, Behind, At, ShuttingDown
<1>7. Local(p)'
  BY <1>1, <1>2, <1>3, <1>4 DEF Local, At, Over, Starting, Mapping, Opening, PCs
<1>8. alive' \subseteq Pids
  BY <1>1, <1>2 DEF Sound, Types, Local, At, PCs, Over, Mapping, Opening, Process
<1> QED BY <1>2, <1>3, <1>6, <1>7, <1>8, MoveStep

\* The worker was killed: the supervisor forks again.
LEMMA AgainStep ==
  ASSUME IInv, NEW p \in Pids, WaitChild(p), At(procs[p].child_pid, "signalled")
  PROVE  IInv'
<1> DEFINE x == [procs[p] EXCEPT !.pc = "fork"]
<1>1. /\ procs \in [Pids -> Process] /\ procs[p] \in Process /\ "fork" \in PCs /\ Sound
      /\ Local(p) /\ At(p, "wait") /\ Types
  BY DEF IInv, Sound, Types, PCs, WaitChild, Locals
<1>2. procs' = [procs EXCEPT ![p] = x] /\ UNCHANGED <<file, name, alive, rd, stray, lost, env>>
  BY DEF WaitChild, Goto, Update
<1>3. /\ x \in Process /\ x.pc = "fork" /\ x.parent = procs[p].parent /\ x.fd = procs[p].fd
      /\ x.locked = procs[p].locked /\ x.seg = procs[p].seg /\ x.child_pid = procs[p].child_pid
      /\ x.master = procs[p].master
  BY <1>1, Moved
<1> HIDE DEF x
<1>4. procs'[p] = x
  BY <1>1, <1>2
<1>5. Childless(p)
  BY <1>1, ReapedChild DEF WaitChild
<1>6. Becomes(p, x)
  BY <1>1, <1>2, <1>3, <1>4, <1>5 DEF Becomes, Leaves, Starting, Over, Behind, At, Live, ShuttingDown
<1>7. Local(p)'
  BY <1>1, <1>2, <1>3, <1>4 DEF Local, At, Over, Starting, Mapping, Opening, PCs
<1>8. alive' \subseteq Pids /\ file' \in {file, 0}
  BY <1>1, <1>2 DEF Types
<1> QED BY <1>2, <1>3, <1>6, <1>7, <1>8, MoveStep

\* is_alive is cleared.
LEMMA ClearAliveStep ==
  ASSUME IInv, NEW p \in Pids, ClearAlive(p)
  PROVE  IInv'
<1> DEFINE x == [procs[p] EXCEPT !.pc = "unlink"]
<1>1. /\ procs \in [Pids -> Process] /\ procs[p] \in Process /\ "unlink" \in PCs /\ Sound
      /\ Local(p) /\ At(p, "dead") /\ Types
  BY DEF IInv, Sound, Types, PCs, ClearAlive, Locals
<1>2. procs' = [procs EXCEPT ![p] = x] /\ UNCHANGED <<file, name, rd, stray, lost, env>>
  BY DEF ClearAlive, Goto, Update
<1>3. /\ x \in Process /\ x.pc = "unlink" /\ x.parent = procs[p].parent /\ x.fd = procs[p].fd
      /\ x.locked = procs[p].locked /\ x.seg = procs[p].seg /\ x.child_pid = procs[p].child_pid
      /\ x.master = procs[p].master
  BY <1>1, Moved
<1> HIDE DEF x
<1>4. procs'[p] = x
  BY <1>1, <1>2
<1>5. alive' = alive \ {procs[p].seg}
  BY DEF ClearAlive
<1>6. Becomes(p, x)
  BY <1>1, <1>2, <1>3, <1>4, <1>5 DEF Becomes, Leaves, Starting, Over, Behind, At, Live, ShuttingDown
<1>7. Local(p)'
  BY <1>1, <1>2, <1>3, <1>4 DEF Local, At, Over, Starting, Mapping, Opening, PCs
<1>8. alive' \subseteq Pids /\ file' \in {file, 0}
  BY <1>1, <1>2, <1>5 DEF Types
<1> QED BY <1>2, <1>3, <1>6, <1>7, <1>8, MoveStep

\* The pid file is unlinked: from here on another start makes a new one.
LEMMA UnlinkPidFileStep ==
  ASSUME IInv, NEW p \in Pids, UnlinkPidFile(p)
  PROVE  IInv'
<1> DEFINE x == [procs[p] EXCEPT !.pc = "close"]
<1>1. /\ procs \in [Pids -> Process] /\ procs[p] \in Process /\ "close" \in PCs /\ Sound
      /\ Local(p) /\ At(p, "unlink") /\ Types
  BY DEF IInv, Sound, Types, PCs, UnlinkPidFile, Locals
<1>2. procs' = [procs EXCEPT ![p] = x] /\ UNCHANGED <<name, alive, rd, stray, lost, env>>
  BY DEF UnlinkPidFile, Goto, Update
<1>3. /\ x \in Process /\ x.pc = "close" /\ x.parent = procs[p].parent /\ x.fd = procs[p].fd
      /\ x.locked = procs[p].locked /\ x.seg = procs[p].seg /\ x.child_pid = procs[p].child_pid
      /\ x.master = procs[p].master
  BY <1>1, Moved
<1> HIDE DEF x
<1>4. procs'[p] = x
  BY <1>1, <1>2
<1>5. file' = 0
  BY DEF UnlinkPidFile
<1>6. Becomes(p, x)
  BY <1>1, <1>2, <1>3, <1>4, <1>5 DEF Becomes, Leaves, Starting, Over, Behind, At, Live, ShuttingDown
<1>7. Local(p)'
  BY <1>1, <1>2, <1>3, <1>4 DEF Local, At, Over, Starting, Mapping, Opening, PCs
<1>8. alive' \subseteq Pids /\ file' \in {file, 0}
  BY <1>1, <1>2, <1>5 DEF Types
<1> QED BY <1>2, <1>3, <1>6, <1>7, <1>8, MoveStep

\* The child leaves fork.
LEMMA BecomeWorkerStep ==
  ASSUME IInv, NEW p \in Pids, BecomeWorker(p)
  PROVE  IInv'
<1> DEFINE x == [procs[p] EXCEPT !.pc = "run", !.child_pid = 0]
<1>1. /\ procs \in [Pids -> Process] /\ procs[p] \in Process /\ "run" \in PCs /\ Sound
      /\ Local(p) /\ At(p, "born") /\ Types /\ 0 \in Pids \cup {0}
  BY DEF IInv, Sound, Types, PCs, BecomeWorker, Locals
<1>2. procs' = [procs EXCEPT ![p] = x] /\ UNCHANGED <<file, name, alive, rd, stray, lost, env>>
  BY DEF BecomeWorker, Update
<1>3. /\ x \in Process /\ x.pc = "run" /\ x.parent = procs[p].parent /\ x.fd = procs[p].fd
      /\ x.locked = procs[p].locked /\ x.seg = procs[p].seg /\ x.master = procs[p].master
  <2>1. x \in Process
    BY <1>1, Records
  <2> QED BY <1>1, <2>1 DEF Process
<1> HIDE DEF x
<1>4. procs'[p] = x
  BY <1>1, <1>2
<1>5. Childless(p)
  BY <1>1, NoChild DEF Leaves, Starting, At
<1>6. Becomes(p, x)
  BY <1>1, <1>2, <1>3, <1>4, <1>5 DEF Becomes, Leaves, Starting, Over, Behind, At, Live, ShuttingDown
<1>7. Local(p)'
  BY <1>1, <1>2, <1>3, <1>4 DEF Local, At, Over, Starting, Mapping, Opening, PCs
<1>8. alive' \subseteq Pids /\ file' \in {file, 0}
  BY <1>1, <1>2 DEF Types
<1> QED BY <1>2, <1>3, <1>6, <1>7, <1>8, MoveStep

\* The pid file is closed, and the lock with it.
LEMMA ClosePidFileStep ==
  ASSUME IInv, NEW p \in Pids, ClosePidFile(p)
  PROVE  IInv'
<1> DEFINE x == [procs[p] EXCEPT !.pc = "rm", !.locked = FALSE]
<1>1. /\ procs \in [Pids -> Process] /\ procs[p] \in Process /\ "rm" \in PCs /\ Sound
      /\ Local(p) /\ At(p, "close") /\ Types /\ 0 \in Pids \cup {0}
  BY DEF IInv, Sound, Types, PCs, ClosePidFile, Locals
<1>2. procs' = [procs EXCEPT ![p] = x] /\ UNCHANGED <<file, name, alive, rd, stray, lost, env>>
  BY DEF ClosePidFile, Update
<1>3. /\ x \in Process /\ x.pc = "rm" /\ x.parent = procs[p].parent /\ x.fd = procs[p].fd
      /\ ~x.locked /\ x.seg = procs[p].seg /\ x.master = procs[p].master
  <2>1. x \in Process
    BY <1>1, Records
  <2> QED BY <1>1, <2>1 DEF Process
<1> HIDE DEF x
<1>4. procs'[p] = x
  BY <1>1, <1>2
<1>6. Becomes(p, x)
  BY <1>1, <1>2, <1>3, <1>4 DEF Becomes, Leaves, Starting, Over, Behind, At, Live, ShuttingDown
<1>7. Local(p)'
  BY <1>1, <1>2, <1>3, <1>4 DEF Local, At, Over, Starting, Mapping, Opening, PCs
<1>8. alive' \subseteq Pids /\ file' \in {file, 0}
  BY <1>1, <1>2 DEF Types
<1> QED BY <1>2, <1>3, <1>6, <1>7, <1>8, MoveStep

\* The ends of a process: refused, fork failed, parent of a daemon, supervisor
\* whose child exited, orphan, killed, last step of status_shutdown.
LEMMA EndSteps ==
  ASSUME IInv, NEW p \in Pids,
         \/ LockPidFile(p) /\ \E q \in Pids \ {p} : Holds(q, procs[p].fd)
         \/ ForkFails(p) \/ Bye(p) \/ NewConnection(p) \/ Crash(p) \/ UnlinkName(p)
         \/ WaitChild(p) /\ ~At(procs[p].child_pid, "signalled")
  PROVE  IInv'
<1>0. Sound /\ Types /\ env \in Scenario /\ alive \subseteq Pids /\ lost \subseteq Pids
  BY DEF IInv, Sound, Types
<1>1. CASE LockPidFile(p) /\ \E q \in Pids \ {p} : Holds(q, procs[p].fd)
  <2>1. At(p, "lock") /\ Gone(p, "exited") /\ UNCHANGED <<file, name, alive, rd, stray, lost, env>>
    BY <1>1 DEF LockPidFile
  <2>2. /\ Live(p)
        /\ procs[p].pc \in {"forked", "wait", "dead", "unlink"} => Childless(p)
        /\ (name' = name /\ stray' = stray) \/ (name' = 0 /\ stray' = Strays)
        /\ file' = file /\ alive' \subseteq Pids /\ rd' = rd /\ lost' \subseteq Pids
        /\ env' \in Scenario /\ env'.daemon = env.daemon /\ env'.starts = env.starts
    BY <1>0, <2>1 DEF At, Live, Over
  <2> QED BY <2>1, <2>2, GoneStep
<1>2. CASE ForkFails(p)
  <2>1. env' \in Scenario /\ env'.daemon = env.daemon /\ env'.starts = env.starts
    <3>1. Spend("faults")
      BY <1>2 DEF ForkFails
    <3>2. ~Spend("starts")
      BY <1>0, <3>1 DEF Spend, Scenario
    <3> QED BY <1>0, <3>1, <3>2, Spent
  <2>2. /\ procs[p].pc \in {"daemonize", "fork"} /\ Gone(p, "exited")
        /\ UNCHANGED <<file, name, alive, rd, stray, lost>>
    BY <1>2 DEF ForkFails
  <2>3. /\ Live(p)
        /\ procs[p].pc \in {"forked", "wait", "dead", "unlink"} => Childless(p)
        /\ (name' = name /\ stray' = stray) \/ (name' = 0 /\ stray' = Strays)
        /\ file' = file /\ alive' \subseteq Pids /\ rd' = rd /\ lost' \subseteq Pids
        /\ env' \in Scenario /\ env'.daemon = env.daemon /\ env'.starts = env.starts
    BY <1>0, <2>1, <2>2 DEF At, Live, Over
  <2> QED BY <2>1, <2>2, <2>3, GoneStep
<1>3. CASE Bye(p)
  <2>1. At(p, "bye") /\ Gone(p, "exited") /\ UNCHANGED <<file, name, alive, rd, stray, lost, env>>
    BY <1>3 DEF Bye
  <2>2. /\ Live(p)
        /\ procs[p].pc \in {"forked", "wait", "dead", "unlink"} => Childless(p)
        /\ (name' = name /\ stray' = stray) \/ (name' = 0 /\ stray' = Strays)
        /\ file' = file /\ alive' \subseteq Pids /\ rd' = rd /\ lost' \subseteq Pids
        /\ env' \in Scenario /\ env'.daemon = env.daemon /\ env'.starts = env.starts
    BY <1>0, <2>1 DEF At, Live, Over
  <2> QED BY <2>1, <2>2, GoneStep
<1>4. CASE NewConnection(p)
  <2>1. At(p, "run") /\ Gone(p, "exited") /\ UNCHANGED <<file, name, alive, rd, stray, lost, env>>
    BY <1>4 DEF NewConnection
  <2>2. /\ Live(p)
        /\ procs[p].pc \in {"forked", "wait", "dead", "unlink"} => Childless(p)
        /\ (name' = name /\ stray' = stray) \/ (name' = 0 /\ stray' = Strays)
        /\ file' = file /\ alive' \subseteq Pids /\ rd' = rd /\ lost' \subseteq Pids
        /\ env' \in Scenario /\ env'.daemon = env.daemon /\ env'.starts = env.starts
    BY <1>0, <2>1 DEF At, Live, Over
  <2> QED BY <2>1, <2>2, GoneStep
<1>5. CASE Crash(p)
  <2>1. env' \in Scenario /\ env'.daemon = env.daemon /\ env'.starts = env.starts
    <3>1. Spend("faults")
      BY <1>5 DEF Crash
    <3>2. ~Spend("starts")
      BY <1>0, <3>1 DEF Spend, Scenario
    <3> QED BY <1>0, <3>1, <3>2, Spent
  <2>2. /\ At(p, "run") /\ Gone(p, "signalled") /\ UNCHANGED <<file, name, alive, rd, stray>>
        /\ lost' \subseteq Pids
    BY <1>0, <1>5 DEF Crash
  <2>3. /\ Live(p)
        /\ procs[p].pc \in {"forked", "wait", "dead", "unlink"} => Childless(p)
        /\ (name' = name /\ stray' = stray) \/ (name' = 0 /\ stray' = Strays)
        /\ file' = file /\ alive' \subseteq Pids /\ rd' = rd /\ lost' \subseteq Pids
        /\ env' \in Scenario /\ env'.daemon = env.daemon /\ env'.starts = env.starts
    BY <1>0, <2>1, <2>2 DEF At, Live, Over
  <2> QED BY <2>1, <2>2, <2>3, GoneStep
<1>6. CASE UnlinkName(p)
  <2>1. /\ At(p, "rm") /\ Gone(p, "exited") /\ name' = 0 /\ stray' = Strays
        /\ UNCHANGED <<file, alive, rd, lost, env>>
    BY <1>6 DEF UnlinkName
  <2>2. /\ Live(p)
        /\ procs[p].pc \in {"forked", "wait", "dead", "unlink"} => Childless(p)
        /\ (name' = name /\ stray' = stray) \/ (name' = 0 /\ stray' = Strays)
        /\ file' = file /\ alive' \subseteq Pids /\ rd' = rd /\ lost' \subseteq Pids
        /\ env' \in Scenario /\ env'.daemon = env.daemon /\ env'.starts = env.starts
    BY <1>0, <2>1 DEF At, Live, Over
  <2> QED BY <2>1, <2>2, GoneStep
<1>7. CASE WaitChild(p) /\ ~At(procs[p].child_pid, "signalled")
  <2>1. /\ At(p, "wait") /\ Gone(p, "exited") /\ ~Live(procs[p].child_pid)
        /\ UNCHANGED <<file, name, alive, rd, stray, lost, env>>
    BY <1>7 DEF WaitChild
  <2>2. Childless(p)
    BY <1>0, <2>1, ReapedChild
  <2>3. /\ Live(p)
        /\ procs[p].pc \in {"forked", "wait", "dead", "unlink"} => Childless(p)
        /\ (name' = name /\ stray' = stray) \/ (name' = 0 /\ stray' = Strays)
        /\ file' = file /\ alive' \subseteq Pids /\ rd' = rd /\ lost' \subseteq Pids
        /\ env' \in Scenario /\ env'.daemon = env.daemon /\ env'.starts = env.starts
    BY <1>0, <2>1, <2>2 DEF At, Live, Over
  <2> QED BY <2>1, <2>2, <2>3, GoneStep
<1> QED BY <1>1, <1>2, <1>3, <1>4, <1>5, <1>6, <1>7

-----------------------------------------------------------------------------
(* SIGTERM and the follower.                                               *)

\* A step after which only pending signals differ.
LEMMA SignalStep ==
  ASSUME IInv, procs' \in [Pids -> Process], \A q \in Pids : Alike(procs'[q], procs[q]),
         \A q \in Pids : At(q, "none") => procs'[q] = procs[q],
         UNCHANGED <<file, name, alive, rd, stray>>, lost' \subseteq Pids,
         env' \in Scenario, env'.daemon = env.daemon, env'.starts = env.starts
  PROVE  IInv'
<1>1. Sound /\ Named
  BY DEF IInv
<1>2. Types'
  BY <1>1 DEF Sound, Types
<1>3. Sound'
  BY <1>1, <1>2, AlikeStep
<1>4. \A q \in Pids : Working(q)' => /\ Working(q) /\ procs'[q].seg = procs[q].seg
                                      /\ procs'[q].fd = procs[q].fd
  BY DEF Alike, Working, Live, ShuttingDown
<1>5. Named'
  BY <1>1, <1>3, <1>4, NamedStep
<1> QED BY <1>3, <1>5 DEF IInv

\* SIGTERM from outside.
LEMMA TermStep ==
  ASSUME IInv, NEW p \in Pids, Term(p)
  PROVE  IInv'
<1> DEFINE x == [procs[p] EXCEPT !.term = TRUE]
<1>1. /\ procs \in [Pids -> Process] /\ procs[p] \in Process /\ lost \subseteq Pids
      /\ env \in Scenario /\ Live(p)
  BY DEF IInv, Sound, Types, Term
<1>2. procs' = [procs EXCEPT ![p] = x] /\ Spend("terms") /\ UNCHANGED <<file, name, alive, rd, stray, lost>>
  BY DEF Term, Update
<1>3. x \in Process /\ Alike(x, procs[p])
  BY <1>1 DEF Alike, Process
<1> HIDE DEF x
<1>4. /\ procs' \in [Pids -> Process] /\ \A q \in Pids : Alike(procs'[q], procs[q])
      /\ \A q \in Pids : At(q, "none") => procs'[q] = procs[q]
  BY <1>1, <1>2, <1>3 DEF Alike, At, Live, Over
<1>5. env' \in Scenario /\ env'.daemon = env.daemon /\ env'.starts = env.starts
  <2>1. ~Spend("starts")
    BY <1>1, <1>2 DEF Spend, Scenario
  <2> QED BY <1>1, <1>2, <2>1, Spent
<1> QED BY <1>1, <1>2, <1>4, <1>5, SignalStep

\* handler_exit of a process that is no supervisor, or has not noted a child.
LEMMA ShutdownStep ==
  ASSUME IInv, NEW p \in Pids, Live(p), ~ShuttingDown(p), procs[p].child_pid = 0,
         ~(procs[p].master /\ procs[p].seg = 0),
         Update(p, [procs[p] EXCEPT !.term = FALSE,
                                    !.pc = IF procs[p].master THEN "dead" ELSE "close"]),
         UNCHANGED <<file, name, alive, rd, stray, lost, env>>
  PROVE  IInv'
<1> DEFINE here == IF procs[p].master THEN "dead" ELSE "close"
           y == [procs[p] EXCEPT !.term = FALSE]
           x == [y EXCEPT !.pc = here]
<1>1. /\ procs \in [Pids -> Process] /\ procs[p] \in Process /\ here \in PCs /\ Sound /\ Local(p)
      /\ here \in {"dead", "close"} /\ (here = "dead" <=> procs[p].master)
      /\ alive \subseteq Pids
  BY DEF IInv, Sound, Types, PCs, Locals, Process
<1>2. procs' = [procs EXCEPT ![p] = x]
  BY <1>1 DEF Update, Process
<1> HIDE DEF here
<1>3. y \in Process /\ Alike(y, procs[p])
  BY <1>1 DEF Alike, Process
<1> HIDE DEF y
<1>4. /\ x \in Process /\ x.pc = here /\ x.parent = procs[p].parent /\ x.fd = procs[p].fd
      /\ x.locked = procs[p].locked /\ x.seg = procs[p].seg /\ x.child_pid = procs[p].child_pid
      /\ x.master = procs[p].master
  BY <1>1, <1>3, Moved DEF Alike
<1> HIDE DEF x
<1>5. procs'[p] = x
  BY <1>1, <1>2
<1>6. ~At(p, "wait") /\ (At(p, "forked") => here = "dead")
  BY <1>1 DEF Sound, Families, At, Local, PCs, Over, Mapping, Opening
<1>7. Becomes(p, x)
  BY <1>1, <1>2, <1>4, <1>5, <1>6 DEF Becomes, Leaves, Starting, Over, Behind, At, ShuttingDown
<1>8. Local(p)'
  BY <1>1, <1>4, <1>5 DEF Local, At, Over, Starting, Mapping, Opening, PCs, Live, ShuttingDown, Process
<1> QED BY <1>1, <1>4, <1>7, <1>8, MoveStep

\* The handler of the supervisor, which passes the signal on.
LEMMA HandlerStep ==
  ASSUME IInv, NEW p \in Pids, handler_exit(p)
  PROVE  IInv'
<1> DEFINE me == [procs[p] EXCEPT !.term = FALSE]
           c == procs[p].child_pid
<1>1. /\ procs \in [Pids -> Process] /\ procs[p] \in Process /\ lost \subseteq Pids
      /\ env \in Scenario /\ Live(p) /\ ~ShuttingDown(p) /\ c \in Pids \cup {0}
      /\ UNCHANGED <<file, name, alive, rd, stray, env>> /\ Sound /\ Local(p)
      /\ alive \subseteq Pids
  BY DEF IInv, Sound, Types, handler_exit, Process, Locals
<1>2. me \in Process /\ Alike(me, procs[p])
  BY <1>1 DEF Alike, Process
<1>3. CASE c # 0 /\ Live(c)
  <2>1. procs' = [procs EXCEPT ![p] = me, ![c].term = TRUE] /\ lost' = lost
    BY <1>3 DEF handler_exit
  <2>2. \A q \in Pids : procs'[q] = IF q = c THEN [(IF c = p THEN me ELSE procs[c]) EXCEPT !.term = TRUE]
                                    ELSE IF q = p THEN me ELSE procs[q]
    BY <1>1, <1>3, <2>1
  <2> HIDE DEF me
  <2>3. \A q \in Pids : procs'[q] \in Process /\ Alike(procs'[q], procs[q])
    <3> TAKE q \in Pids
    <3>1. procs[q] \in Process
      BY <1>1
    <3>2. CASE q # c
      BY <1>2, <2>2, <3>1, <3>2 DEF Alike
    <3>3. CASE q = c
      <4> DEFINE z == IF c = p THEN me ELSE procs[c]
      <4>1. z \in Process /\ Alike(z, procs[q])
        BY <1>2, <3>1, <3>3 DEF Alike
      <4> HIDE DEF z
      <4>2. [z EXCEPT !.term = TRUE] \in Process /\ Alike([z EXCEPT !.term = TRUE], z)
        BY <4>1 DEF Process, Alike
      <4>3. procs'[q] = [z EXCEPT !.term = TRUE]
        BY <2>2, <3>3 DEF z
      <4> QED BY <4>1, <4>2, <4>3 DEF Alike
    <3> QED BY <3>2, <3>3
  <2>4. procs' \in [Pids -> Process]
    BY <1>1, <2>1, <2>3
  <2>5. \A q \in Pids : At(q, "none") => procs'[q] = procs[q]
    BY <1>1, <1>3, <2>2 DEF At, Live, Over
  <2> QED BY <1>1, <2>1, <2>3, <2>4, <2>5, SignalStep
<1>4. CASE c # 0 /\ ~Live(c)
  <2>1. procs' = [procs EXCEPT ![p] = me] /\ lost' = lost \cup {p}
    BY <1>4 DEF handler_exit, Update
  <2> HIDE DEF me
  <2>2. /\ procs' \in [Pids -> Process] /\ \A q \in Pids : Alike(procs'[q], procs[q])
        /\ \A q \in Pids : At(q, "none") => procs'[q] = procs[q]
    BY <1>1, <1>2, <2>1 DEF Alike, At, Live, Over
  <2> QED BY <1>1, <2>1, <2>2, SignalStep
<1>5. CASE c = 0 /\ me.master /\ me.seg = 0
  <2>1. Gone(p, "signalled") /\ lost' = lost
    BY <1>5 DEF handler_exit
  <2>2. procs[p].seg = 0
    BY <1>2, <1>5 DEF Alike
  <2>3. /\ procs[p].pc \in {"forked", "wait", "dead", "unlink"} => Childless(p)
        /\ (name' = name /\ stray' = stray) \/ (name' = 0 /\ stray' = Strays)
        /\ file' = file /\ alive' \subseteq Pids /\ rd' = rd /\ lost' \subseteq Pids
        /\ env' \in Scenario /\ env'.daemon = env.daemon /\ env'.starts = env.starts
    BY <1>1, <2>1, <2>2 DEF Local, PCs, Over, Mapping, Opening
  <2> QED BY <1>1, <2>1, <2>3, GoneStep
<1>6. CASE c = 0 /\ ~(me.master /\ me.seg = 0)
  <2>1. Update(p, [me EXCEPT !.pc = IF me.master THEN "dead" ELSE "close"]) /\ lost' = lost
    BY <1>6 DEF handler_exit
  <2>2. me.master = procs[p].master /\ me.seg = procs[p].seg
    BY <1>2 DEF Alike
  <2>3. [me EXCEPT !.pc = IF me.master THEN "dead" ELSE "close"]
          = [procs[p] EXCEPT !.term = FALSE, !.pc = IF procs[p].master THEN "dead" ELSE "close"]
    BY <1>1, <2>2 DEF Process
  <2> QED BY <1>1, <1>6, <2>1, <2>2, <2>3, ShutdownStep
<1> QED BY <1>3, <1>4, <1>5, <1>6

\* status_logcat comes and goes; what it takes away is in stray.
LEMMA FollowerSteps ==
  ASSUME IInv, Attach \/ SeesDead \/ Detach
  PROVE  IInv'
<1>1. Sound /\ Named /\ Types
  BY DEF IInv, Sound
<1>2. procs' = procs /\ file' = file /\ env' = env /\ lost' = lost /\ alive' = alive
      /\ ((name' = name /\ stray' = stray) \/ (name' = 0 /\ stray' = Strays))
  BY DEF Attach, SeesDead, Detach
<1>3. rd' \in Reader
  BY <1>1 DEF Types, Reader, Attach, SeesDead, Detach
<1>4. Types'
  BY <1>1, <1>2, <1>3 DEF Types, Strays, InUse, Process
<1>5. Sound'
  BY <1>1, <1>2, <1>4, AlikeStep DEF Alike
<1>6. \A q \in Pids : Working(q)' => /\ Working(q) /\ procs'[q].seg = procs[q].seg
                                      /\ procs'[q].fd = procs[q].fd
  BY <1>2 DEF Working, Live, ShuttingDown
<1>7. Named'
  BY <1>1, <1>2, <1>5, <1>6, NamedStep, NameGone
<1> QED BY <1>5, <1>7 DEF IInv

-----------------------------------------------------------------------------
(* createPidFile and status_init.                                          *)

\* Whoever works with a segment under the pid file in place is there to
\* refuse p: nobody holds the lock, and a daemon has not been started yet.
LEMMA NobodyWorks ==
  ASSUME Sound, NEW p \in Pids, At(p, "rmname"), procs[p].fd = file, NEW q \in Pids, Working(q),
         procs[q].seg # 0, procs[q].fd = file
  PROVE  FALSE
<1>1. Local(p) /\ Local(q) /\ procs[p] \in Process /\ procs[q] \in Process /\ q # p
  BY DEF Sound, Types, Locals, Local, At, Mapping, Opening
<1>2. CASE env.daemon
  <2>1. At(q, "none")
    BY <1>1, <1>2 DEF Sound, Daemon, At, Starting
  <2> QED BY <2>1 DEF Working, Live, At, Over
<1>3. CASE ~env.daemon
  <2>1. procs[p].locked /\ Live(p)
    BY <1>1 DEF Local, At, Live, Starting, PCs, Over, Opening
  <2>2. CASE procs[q].parent = 0
    <3>1. procs[q].locked /\ Live(q)
      BY <1>1, <2>2 DEF Local, Working, Live, ShuttingDown, PCs, Over, Opening, Mapping, Process
    <3> QED BY <1>1, <2>1, <3>1 DEF Sound, OneLock, Holds
  <2>3. CASE procs[q].parent # 0
    <3> DEFINE s == procs[q].parent
    <3>1. /\ procs[s].pc \in {"forked", "wait", "dead", "unlink"}
          /\ procs[s].fd = file /\ procs[s].locked /\ s \in Pids
      BY <1>1, <1>3, <2>3 DEF Sound, Guarded, Process
    <3>2. Live(s) /\ s # p
      BY <3>1 DEF Live, Over, At
    <3> QED BY <2>1, <3>1, <3>2 DEF Sound, OneLock, Holds
  <2> QED BY <2>2, <2>3
<1> QED BY <1>2, <1>3

\* The name of an earlier segment is removed.
LEMMA RemoveNameStep ==
  ASSUME IInv, NEW p \in Pids, RemoveName(p)
  PROVE  IInv'
<1> DEFINE x == [procs[p] EXCEPT !.pc = "create"]
<1>1. /\ procs \in [Pids -> Process] /\ procs[p] \in Process /\ "create" \in PCs /\ Sound
      /\ Local(p) /\ At(p, "rmname") /\ Types /\ Named
  BY DEF IInv, Sound, Types, PCs, RemoveName, Locals
<1>2. /\ procs' = [procs EXCEPT ![p] = x] /\ UNCHANGED <<file, alive, rd, lost, env>> /\ name' = 0
      /\ stray' = IF procs[p].fd # file THEN Strays ELSE stray
  BY DEF RemoveName, Goto, Update
<1>3. /\ x \in Process /\ x.pc = "create" /\ x.parent = procs[p].parent /\ x.fd = procs[p].fd
      /\ x.locked = procs[p].locked /\ x.seg = procs[p].seg /\ x.child_pid = procs[p].child_pid
      /\ x.master = procs[p].master
  BY <1>1, Moved
<1> HIDE DEF x
<1>4. procs'[p] = x /\ procs' \in [Pids -> Process] /\ \A q \in Pids : q # p => procs'[q] = procs[q]
  BY <1>1, <1>2, <1>3
<1>5. Childless(p)
  BY <1>1, NoChild DEF Leaves, Starting, At
<1>6. Becomes(p, x)
  BY <1>1, <1>2, <1>3, <1>4, <1>5 DEF Becomes, Leaves, Starting, Over, Behind, At, Live, ShuttingDown
<1>7. Local(p)'
  BY <1>1, <1>2, <1>3, <1>4 DEF Local, At, Over, Starting, Mapping, Opening, PCs
<1>8. Types'
  BY <1>1, <1>2, <1>4 DEF Types, Strays, InUse, Process
<1>9. Sound'
  BY <1>1, <1>2, <1>6, <1>7, <1>8, BecomesStep
<1>10. \A q \in Pids : Working(q)' => /\ Working(q) /\ procs'[q].seg = procs[q].seg
                                       /\ procs'[q].fd = procs[q].fd
  BY <1>3, <1>4, <1>6 DEF Working, Live, ShuttingDown, Becomes
<1>11. CASE procs[p].fd # file
  <2>1. Named'
    BY <1>1, <1>2, <1>9, <1>10, <1>11, NameGone
  <2> QED BY <1>9, <2>1 DEF IInv
<1>12. CASE procs[p].fd = file
  <2>1. Named'
    <3> SUFFICES ASSUME NEW q \in Pids, Working(q)', procs'[q].seg # 0, procs'[q].fd = file'
                 PROVE  FALSE
      BY DEF Named
    <3>1. Working(q) /\ procs[q].seg # 0 /\ procs[q].fd = file
      BY <1>2, <1>10
    <3> QED BY <1>1, <1>12, <3>1, NobodyWorks
  <2> QED BY <1>9, <2>1 DEF IInv
<1> QED BY <1>11, <1>12

\* The segment is created under the name.
LEMMA CreateSegmentStep ==
  ASSUME IInv, NEW p \in Pids, CreateSegment(p)
  PROVE  IInv'
<1> DEFINE x == [procs[p] EXCEPT !.pc = "init", !.seg = name']
<1>1. /\ procs \in [Pids -> Process] /\ procs[p] \in Process /\ "init" \in PCs /\ Sound
      /\ Local(p) /\ At(p, "create") /\ Types /\ Named
  BY DEF IInv, Sound, Types, PCs, CreateSegment, Locals
<1>2. /\ procs' = [procs EXCEPT ![p] = x] /\ UNCHANGED <<file, alive, rd, stray, lost, env>>
      /\ name' = (IF name = 0 THEN p ELSE name) /\ name' \in Pids \cup {0} /\ name' # 0
  BY <1>1 DEF CreateSegment, Update, Types, Pids
<1>3. /\ x \in Process /\ x.pc = "init" /\ x.parent = procs[p].parent /\ x.fd = procs[p].fd
      /\ x.locked = procs[p].locked /\ x.seg = name' /\ x.child_pid = procs[p].child_pid
      /\ x.master = procs[p].master
  <2>1. x \in Process
    BY <1>1, <1>2, Records
  <2> QED BY <1>1, <2>1 DEF Process
<1> HIDE DEF x
<1>4. procs'[p] = x /\ procs' \in [Pids -> Process] /\ \A q \in Pids : q # p => procs'[q] = procs[q]
  BY <1>1, <1>2, <1>3
<1>5. Childless(p)
  BY <1>1, NoChild DEF Leaves, Starting, At
<1>6. Becomes(p, x)
  BY <1>1, <1>2, <1>3, <1>4, <1>5 DEF Becomes, Leaves, Starting, Over, Behind, At, Live, ShuttingDown
<1>7. Local(p)'
  BY <1>1, <1>2, <1>3, <1>4 DEF Local, At, Over, Starting, Mapping, Opening, PCs
<1>8. Types'
  BY <1>1, <1>2, <1>4 DEF Types
<1>9. Sound'
  BY <1>1, <1>2, <1>6, <1>7, <1>8, BecomesStep
<1>10. Named'
  <2> SUFFICES ASSUME NEW q \in Pids, q # p, Working(q)', procs'[q].seg # 0, procs'[q].fd = file',
                      procs'[q].seg \notin stray'
               PROVE  name' = procs'[q].seg
    BY <1>3, <1>4 DEF Named
  <2>1. name = procs[q].seg /\ name # 0
    BY <1>2, <1>4 DEF Named, Working, Live, ShuttingDown, IInv
  <2> QED BY <1>2, <1>4, <2>1
<1> QED BY <1>9, <1>10 DEF IInv

\* The pid file is opened, and made if there is none.
LEMMA OpenPidFileStep ==
  ASSUME IInv, NEW p \in Pids, OpenPidFile(p)
  PROVE  IInv'
<1> DEFINE x == [procs[p] EXCEPT !.pc = "lock", !.fd = file', !.master = TRUE]
<1>1. /\ procs \in [Pids -> Process] /\ procs[p] \in Process /\ "lock" \in PCs /\ Sound
      /\ Local(p) /\ At(p, "main") /\ Types /\ Named
  BY DEF IInv, Sound, Types, PCs, OpenPidFile, Locals
<1>2. /\ procs' = [procs EXCEPT ![p] = x] /\ UNCHANGED <<name, alive, rd, stray, lost, env>>
      /\ file' = (IF file = 0 THEN p ELSE file) /\ file' \in Pids \cup {0} /\ file' # 0
  BY <1>1 DEF OpenPidFile, Update, Types, Pids
<1>3. /\ x \in Process /\ x.pc = "lock" /\ x.parent = procs[p].parent /\ x.fd = file'
      /\ x.locked = procs[p].locked /\ x.seg = procs[p].seg /\ x.child_pid = procs[p].child_pid
      /\ x.master
  <2>1. x \in Process
    BY <1>1, <1>2, Records
  <2> QED BY <1>1, <2>1 DEF Process
<1> HIDE DEF x
<1>4. procs'[p] = x /\ procs' \in [Pids -> Process] /\ \A q \in Pids : q # p => procs'[q] = procs[q]
  BY <1>1, <1>2, <1>3
<1>5. Childless(p) /\ ~procs[p].locked
  BY <1>1, NoChild DEF Leaves, Starting, At, Local
<1>6. Becomes(p, x)
  BY <1>1, <1>2, <1>3, <1>4, <1>5 DEF Becomes, Leaves, Starting, Over, Behind, At, Live, ShuttingDown
<1>7. Local(p)'
  BY <1>1, <1>2, <1>3, <1>4, <1>5 DEF Local, At, Over, Starting, Mapping, Opening, PCs
<1>8. Types'
  BY <1>1, <1>2, <1>4 DEF Types
<1>9. Sound'
  BY <1>1, <1>2, <1>6, <1>7, <1>8, BecomesStep
<1>10. Named'
  <2> SUFFICES ASSUME NEW q \in Pids, Working(q)', procs'[q].seg # 0, procs'[q].fd = file',
                      procs'[q].seg \notin stray'
               PROVE  name' = procs'[q].seg
    BY DEF Named
  <2>1. q # p
    BY <1>1, <1>3, <1>4 DEF Local, At, Mapping, Opening
  <2>2. procs[q].fd # p
    BY <1>1 DEF Sound, Inodes, At, Pids
  <2> QED BY <1>1, <1>2, <1>4, <2>1, <2>2 DEF Named, Working, Live, ShuttingDown
<1> QED BY <1>9, <1>10 DEF IInv

\* The lock is taken where nobody holds it.
LEMMA LockPidFileStep ==
  ASSUME IInv, NEW p \in Pids, LockPidFile(p), \A q \in Pids \ {p} : ~Holds(q, procs[p].fd)
  PROVE  IInv'
<1> DEFINE x == [procs[p] EXCEPT !.pc = "rmname", !.locked = TRUE]
<1>1. /\ procs \in [Pids -> Process] /\ procs[p] \in Process /\ "rmname" \in PCs /\ Sound
      /\ Local(p) /\ At(p, "lock") /\ Types /\ 0 \in Pids \cup {0}
  BY DEF IInv, Sound, Types, PCs, LockPidFile, Locals
<1>2. procs' = [procs EXCEPT ![p] = x] /\ UNCHANGED <<file, name, alive, rd, stray, lost, env>>
  BY DEF LockPidFile, Update
<1>3. /\ x \in Process /\ x.pc = "rmname" /\ x.parent = procs[p].parent /\ x.fd = procs[p].fd
      /\ x.locked /\ x.seg = procs[p].seg /\ x.child_pid = procs[p].child_pid
      /\ x.master = procs[p].master
  <2>1. x \in Process
    BY <1>1, Records
  <2> QED BY <1>1, <2>1 DEF Process
<1> HIDE DEF x
<1>4. procs'[p] = x
  BY <1>1, <1>2
<1>5. Childless(p)
  BY <1>1, NoChild DEF Leaves, Starting, At
<1>6. Becomes(p, x)
  BY <1>1, <1>2, <1>3, <1>4, <1>5 DEF Becomes, Leaves, Starting, Over, Behind, At, Live, ShuttingDown
<1>7. Local(p)'
  BY <1>1, <1>2, <1>3, <1>4 DEF Local, At, Over, Starting, Mapping, Opening, PCs
<1>8. alive' \subseteq Pids /\ file' \in {file, 0}
  BY <1>1, <1>2 DEF Types
<1> QED BY <1>2, <1>3, <1>6, <1>7, <1>8, MoveStep

-----------------------------------------------------------------------------
(* Starts and forks.                                                       *)

\* The child the supervisor notes is its youngest; the others have ended.
LEMMA NoteChildStep ==
  ASSUME IInv, NEW p \in Pids, NoteChild(p)
  PROVE  IInv'
<1> DEFINE Youngest(c) == procs[c].parent = p /\ \A d \in Pids : procs[d].parent = p => d <= c
           k == CHOOSE c \in Pids : Youngest(c)
           x == [procs[p] EXCEPT !.pc = "wait", !.child_pid = k]
<1>1. /\ procs \in [Pids -> Process] /\ procs[p] \in Process /\ "wait" \in PCs /\ Sound
      /\ Local(p) /\ At(p, "forked") /\ Types
  BY DEF IInv, Sound, Types, PCs, NoteChild, Locals
<1>2. k \in Pids /\ Youngest(k)
  BY <1>1 DEF Sound, Families
<1>3. \A c \in Pids : procs[c].parent = p /\ c # k => ~Live(c)
  <2> TAKE c \in Pids
  <2>1. procs[c].parent = p /\ c # k => c < k
    BY <1>2 DEF Pids
  <2>2. p # 0
    BY DEF Pids
  <2> QED BY <1>1, <1>2, <2>1, <2>2 DEF Sound, Families
<1>4. procs' = [procs EXCEPT ![p] = x] /\ UNCHANGED <<file, name, alive, rd, stray, lost, env>>
  BY DEF NoteChild, Update
<1> HIDE DEF k
<1>5. /\ x \in Process /\ x.pc = "wait" /\ x.parent = procs[p].parent /\ x.fd = procs[p].fd
      /\ x.locked = procs[p].locked /\ x.seg = procs[p].seg /\ x.child_pid = k
      /\ x.master = procs[p].master
  <2>1. x \in Process
    BY <1>1, <1>2, Records
  <2> QED BY <1>1, <2>1 DEF Process
<1> HIDE DEF x
<1>6. procs'[p] = x
  BY <1>1, <1>4
<1>7. Becomes(p, x)
  BY <1>1, <1>2, <1>3, <1>4, <1>5, <1>6 DEF Becomes, Leaves, Starting, Over, Behind, At, Live, ShuttingDown, Pids
<1>8. Local(p)'
  BY <1>1, <1>4, <1>5, <1>6 DEF Local, At, Over, Starting, Mapping, Opening, PCs
<1>9. alive' \subseteq Pids /\ file' \in {file, 0}
  BY <1>1, <1>4 DEF Types
<1> QED BY <1>4, <1>5, <1>7, <1>8, <1>9, MoveStep

\* The child of a fork is behind its parent: it inherits the descriptor and
\* the segment, but not the lock.
LEMMA ForkStep ==
  ASSUME IInv, NEW p \in Pids, NEW here, NEW there, Fork(p, here, there),
         \/ At(p, "daemonize") /\ here = "bye" /\ there \in {"fork", "run"}
         \/ At(p, "fork") /\ here = "forked" /\ there = "born",
         UNCHANGED <<file, name, alive, rd, stray, lost, env>>
  PROVE  IInv'
<1> DEFINE x == [procs[p] EXCEPT !.pc = here]
           y == [procs[p] EXCEPT !.pc = there, !.parent = p, !.locked = FALSE, !.term = FALSE]
<1>1. /\ procs \in [Pids -> Process] /\ procs[p] \in Process /\ Sound /\ Local(p) /\ Types /\ Named
      /\ here \in PCs /\ there \in PCs /\ Live(p) /\ ~At(p, "none") /\ ~ShuttingDown(p)
  BY DEF IInv, Sound, Types, PCs, Locals, At, Live, Over, ShuttingDown
<1>2. PICK f \in Pids : /\ f = Fresh /\ At(f, "none") /\ f # p
                        /\ \A q \in Pids : At(q, "none") => f <= q
                        /\ \A q \in Pids : ~At(q, "none") => q < f
  BY <1>1, FreshIsNext DEF Fork, Sound
<1>3. procs' = [procs EXCEPT ![p].pc = here, ![f] = y]
  BY <1>2 DEF Fork
<1>4. /\ y \in Process /\ y.pc = there /\ y.parent = p /\ y.fd = procs[p].fd /\ ~y.locked
      /\ y.seg = procs[p].seg /\ y.child_pid = procs[p].child_pid /\ y.master = procs[p].master
  <2>1. y \in Process
    BY <1>1, Records
  <2> QED BY <1>1, <2>1 DEF Process
<1>5. /\ x \in Process /\ x.pc = here /\ x.parent = procs[p].parent /\ x.fd = procs[p].fd
      /\ x.locked = procs[p].locked /\ x.seg = procs[p].seg /\ x.child_pid = procs[p].child_pid
      /\ x.master = procs[p].master
  BY <1>1, Moved
<1> HIDE DEF y
<1>6. /\ procs'[p] = x /\ procs'[f] = y /\ procs' \in [Pids -> Process]
      /\ \A q \in Pids \ {p, f} : procs'[q] = procs[q]
  BY <1>1, <1>2, <1>3, <1>4, <1>5
<1> HIDE DEF x
<1>7. Childless(p)
  BY <1>1, NoChild DEF Leaves, Starting, At
<1>8. /\ here \in {"bye", "forked"} /\ there \in {"fork", "run", "born"} /\ 0 \notin Pids
      /\ procs[p].pc \in {"daemonize", "fork"} /\ procs[f].pc = "none"
      /\ (~env.daemon => here = "forked" /\ there = "born" /\ procs[p].parent = 0)
      /\ (procs[p].parent = 0 => procs[p].locked) /\ procs[p].fd # 0 /\ procs[p].seg # 0
      /\ procs[p].master
  BY <1>1, <1>2 DEF At, Pids, Local, PCs, Over, Opening, Mapping
<1>9. /\ Live(p) /\ Live(p)' /\ Live(f)' /\ ~Live(f)
      /\ \A q \in Pids \ {p, f} : Live(q)' = Live(q) /\ \A at : At(q, at)' = At(q, at)
      /\ \A q \in Pids : At(q, "none")' => At(q, "none") /\ q # f
      /\ \A q \in Pids : ~At(q, "none")' => q <= f
  <2>1. Live(p) /\ Live(p)' /\ ~At(p, "none")'
    BY <1>1, <1>5, <1>6, <1>8 DEF Live, At, Over
  <2>2. Live(f)' /\ ~Live(f) /\ ~At(f, "none")'
    BY <1>2, <1>4, <1>6, <1>8 DEF Live, At, Over
  <2>3. \A q \in Pids \ {p, f} : Live(q)' = Live(q) /\ \A at : At(q, at)' = At(q, at)
    BY <1>6 DEF Live, At
  <2>4. \A q \in Pids : At(q, "none")' => At(q, "none") /\ q # f
    BY <2>1, <2>2, <2>3
  <2>5. ASSUME NEW q \in Pids, ~At(q, "none")' PROVE q <= f
    <3>1. q = f \/ q = p \/ ~At(q, "none")
      BY <2>3, <2>5
    <3> QED BY <1>1, <1>2, <3>1 DEF Pids
  <2> QED BY <2>1, <2>2, <2>3, <2>4, <2>5
<1>10. /\ \A q \in Pids : procs[q].parent # f /\ procs[q].parent \in Pids \cup {0}
       /\ procs[f].parent = 0
       /\ \A q \in Pids \ {f} : procs'[q].parent = procs[q].parent /\ procs'[q].fd = procs[q].fd
                               /\ procs'[q].locked = procs[q].locked
  <2>1. \A q \in Pids : procs[q].parent \in Pids \cup {0}
    BY <1>1 DEF Process
  <2>2. procs[f].parent = 0
    BY <1>1, <1>2 DEF Sound, Locals, Local, At, Unborn
  <2>3. ASSUME NEW q \in Pids, procs[q].parent = f PROVE FALSE
    <3>1. f < q
      BY <1>1, <1>2, <1>8, <2>3 DEF Sound, Births
    <3>2. At(q, "none")
      BY <1>1, <1>2, <3>1 DEF Sound, Births
    <3> QED BY <1>1, <1>2, <1>8, <2>3, <3>2 DEF Sound, Locals, Local, At, Unborn
  <2> QED BY <1>5, <1>6, <2>1, <2>2, <2>3
<1>11. Types'
  BY <1>1, <1>6 DEF Types
<1>12. Locals'
  <2>1. Local(p)'
    BY <1>1, <1>5, <1>6, <1>8 DEF Local, At, Over, Starting, Mapping, Opening, PCs
  <2>2. Local(f)'
    BY <1>4, <1>6, <1>8 DEF Local, At, Over, Starting, Mapping, Opening, PCs
  <2>3. ASSUME NEW q \in Pids \ {p, f} PROVE Local(q)'
    <3>1. procs'[q] = procs[q] /\ Local(q)
      BY <1>1, <1>6 DEF Sound, Locals
    <3> QED BY <3>1 DEF Local
  <2> QED BY <2>1, <2>2, <2>3 DEF Locals
<1>13. Births'
  <2>1. \A q, r \in Pids : At(q, "none")' /\ q < r => At(r, "none")'
    <3> SUFFICES ASSUME NEW q \in Pids, NEW r \in Pids, At(q, "none")', q < r, ~At(r, "none")'
                 PROVE  FALSE
      OBVIOUS
    <3>1. q # f /\ f <= q /\ r <= f
      BY <1>2, <1>9
    <3> QED BY <1>2, <3>1 DEF Pids
  <2>2. \A q \in Pids : procs'[q].parent # 0 => procs'[q].parent < q
    BY <1>1, <1>2, <1>4, <1>6, <1>10 DEF Sound, Births
  <2> QED BY <2>1, <2>2 DEF Births
<1>14. Inodes'
  <2>1. \A q \in Pids : procs[q].pc \notin {"none", "main"} => procs'[q].pc \notin {"none", "main"}
    BY <1>4, <1>5, <1>6, <1>8
  <2>2. \A q \in Pids : procs[q].fd \in Pids \cup {0}
    BY <1>1 DEF Process
  <2> QED BY <1>1, <1>4, <1>6, <1>8, <1>10, <2>1, <2>2 DEF Sound, Inodes, Types
<1>15. OneLock'
  BY <1>1, <1>4, <1>6, <1>9, <1>10 DEF Sound, OneLock, Holds
<1>16. Families'
  <2>1. ASSUME NEW c \in Pids, NEW d \in Pids, procs'[c].parent # 0,
               procs'[d].parent = procs'[c].parent, c < d
        PROVE  ~Live(c)'
    <3>1. CASE c = f
      <4>1. At(d, "none") /\ d # f
        BY <1>2, <2>1, <3>1 DEF Pids
      <4>2. procs[d].parent = 0
        BY <1>1, <4>1 DEF Sound, Locals, Local, At, Unborn
      <4> QED BY <1>10, <2>1, <4>1, <4>2
    <3>2. CASE c # f /\ d = f
      <4>1. procs[c].parent = p
        BY <1>4, <1>6, <1>10, <2>1, <3>2
      <4>2. ~Live(c) /\ c # p
        BY <1>1, <1>7, <4>1 DEF Childless
      <4> QED BY <1>9, <3>2, <4>2
    <3>3. CASE c # f /\ d # f
      <4>1. ~Live(c)
        BY <1>1, <1>10, <2>1, <3>3 DEF Sound, Families
      <4> QED BY <1>1, <1>9, <3>3, <4>1
    <3> QED BY <3>1, <3>2, <3>3
  <2>2. ASSUME NEW c \in Pids, procs'[c].parent # 0, Live(c)'
        PROVE  procs'[procs'[c].parent].pc \notin Leaves
    <3>1. CASE c = f
      BY <1>4, <1>5, <1>6, <1>8, <3>1 DEF Leaves, Starting
    <3>2. CASE c # f
      <4>1. Live(c) /\ procs'[c].parent = procs[c].parent
        BY <1>1, <1>9, <1>10, <2>2, <3>2
      <4>2. procs[c].parent \in Pids \ {p, f} /\ procs[procs[c].parent].pc \notin Leaves
        BY <1>1, <1>7, <1>10, <2>2, <4>1 DEF Sound, Families, Childless
      <4> QED BY <1>6, <4>1, <4>2
    <3> QED BY <3>1, <3>2
  <2>3. ASSUME NEW s \in Pids, At(s, "forked")'
        PROVE  \E c \in Pids : /\ procs'[c].parent = s
                               /\ \A d \in Pids : procs'[d].parent = s => d <= c
    <3>1. CASE s = p
      <4>1. \A d \in Pids : procs'[d].parent = p => d <= f
        <5> SUFFICES ASSUME NEW d \in Pids, procs[d].parent = p, d # f PROVE d <= f
          BY <1>10 DEF Pids
        <5>1. ~At(d, "none")
          BY <1>1, <1>8 DEF Sound, Locals, Local, At, Unborn
        <5> QED BY <1>2, <5>1 DEF Pids
      <4> QED BY <1>2, <1>4, <1>6, <3>1, <4>1
    <3>2. CASE s # p
      <4>1. s # f /\ At(s, "forked")
        BY <1>4, <1>6, <1>8, <1>9, <2>3, <3>2 DEF At
      <4>2. PICK c \in Pids : procs[c].parent = s /\ \A d \in Pids : procs[d].parent = s => d <= c
        BY <1>1, <4>1 DEF Sound, Families
      <4>3. c # f
        BY <1>8, <1>10, <4>2
      <4>4. \A d \in Pids : procs'[d].parent = s => procs[d].parent = s
        BY <1>4, <1>6, <1>10, <3>2
      <4> QED BY <1>10, <4>2, <4>3, <4>4
    <3> QED BY <3>1, <3>2
  <2>4. ASSUME NEW s \in Pids, At(s, "wait")'
        PROVE  /\ procs'[s].child_pid # 0
               /\ \A c \in Pids : procs'[c].parent = s /\ c # procs'[s].child_pid => ~Live(c)'
    <3>1. s # f /\ s # p /\ At(s, "wait") /\ procs'[s] = procs[s]
      BY <1>4, <1>5, <1>6, <1>8, <1>9, <2>4 DEF At
    <3>2. ASSUME NEW c \in Pids, procs'[c].parent = s, c # procs'[s].child_pid PROVE ~Live(c)'
      <4>1. c # f /\ procs[c].parent = s
        BY <1>4, <1>6, <1>10, <3>1, <3>2
      <4>2. ~Live(c)
        BY <1>1, <3>1, <3>2, <4>1 DEF Sound, Families
      <4> QED BY <1>1, <1>9, <4>1, <4>2
    <3> QED BY <1>1, <3>1, <3>2 DEF Sound, Families
  <2> QED BY <2>1, <2>2, <2>3, <2>4 DEF Families
<1>17. Guarded'
  <2> SUFFICES ASSUME ~env.daemon, NEW w \in Pids, Working(w)', procs'[w].parent # 0, procs'[w].fd = file'
               PROVE  LET s == procs'[w].parent
                      IN  /\ procs'[s].pc \in {"forked", "wait", "dead", "unlink"}
                          /\ procs'[s].fd = file' /\ procs'[s].locked
    BY DEF Guarded
  <2>1. CASE w = f
    BY <1>4, <1>5, <1>6, <1>8, <2>1
  <2>2. CASE w # f
    <3>1. w # p /\ Working(w) /\ procs[w].fd = file /\ procs[w].parent \in Pids /\ procs[w].parent # 0
      BY <1>8, <1>6, <1>9, <1>10, <2>2 DEF Working, ShuttingDown
    <3>2. procs[w].parent # p
      BY <1>7, <3>1 DEF Childless, Working
    <3>3. procs'[procs[w].parent] = procs[procs[w].parent]
      BY <1>6, <1>10, <3>1, <3>2
    <3> DEFINE s == procs[w].parent
    <3>4. procs[s].pc \in {"forked", "wait", "dead", "unlink"} /\ procs[s].fd = file /\ procs[s].locked
      BY <1>1, <3>1 DEF Sound, Guarded
    <3>5. procs'[w].parent = s
      BY <1>10, <2>2
    <3> HIDE DEF s
    <3> QED BY <3>3, <3>4, <3>5 DEF s
  <2> QED BY <2>1, <2>2
<1>18. Daemon'
  <2> SUFFICES ASSUME env.daemon PROVE Daemon'
    BY DEF Daemon
  <2>0. /\ procs[p].pc = "daemonize" => \A q \in Pids : q # p => At(q, "none")
        /\ \A q \in Pids : q # p => procs[q].pc \notin Starting
        /\ env.starts <= 1 /\ env.starts # 1
    BY <1>1 DEF Sound, Daemon, At, Starting
  <2>1. \A a, b \in Pids : procs'[a].pc \in Starting /\ a # b => At(b, "none")'
    BY <1>4, <1>5, <1>6, <1>8, <2>0 DEF Starting
  <2>2. \A a \in Pids : procs'[a].pc \in {"fork", "forked", "wait"} =>
          \/ a = f /\ procs[p].pc = "daemonize"
          \/ a = p /\ procs[p].pc = "fork"
    <3> SUFFICES ASSUME NEW a \in Pids, procs'[a].pc \in {"fork", "forked", "wait"}
                 PROVE  \/ a = f /\ procs[p].pc = "daemonize"
                        \/ a = p /\ procs[p].pc = "fork"
      OBVIOUS
    <3>1. a # p /\ a # f => FALSE
      BY <1>1, <1>6, <1>8, <2>0 DEF Sound, Daemon, At
    <3>2. a = f => procs[p].pc = "daemonize"
      BY <1>4, <1>6 DEF At
    <3>3. a = p => procs[p].pc = "fork"
      BY <1>5, <1>6 DEF At
    <3> QED BY <3>1, <3>2, <3>3
  <2>3. ASSUME NEW a \in Pids, NEW b \in Pids, procs'[a].pc \in {"fork", "forked", "wait"}, a < b,
               ~At(b, "none")'
        PROVE  procs'[b].parent = a
    <3>1. a # f
      BY <1>9, <2>3 DEF Pids
    <3>2. a = p /\ procs[p].pc = "fork"
      BY <2>2, <2>3, <3>1
    <3>3. CASE b = f
      BY <1>4, <1>6, <3>2, <3>3
    <3>4. CASE b # f
      <4>1. ~At(b, "none")
        BY <1>9, <2>3, <3>2, <3>4 DEF Pids
      <4>2. procs[b].parent = a
        BY <1>1, <2>3, <3>2, <4>1 DEF Sound, Daemon
      <4> QED BY <1>10, <3>4, <4>2
    <3> QED BY <3>3, <3>4
  <2>4. ASSUME NEW a \in Pids, NEW b \in Pids, procs'[a].pc \in {"fork", "forked", "wait"},
               procs'[b].pc \in {"fork", "forked", "wait"}
        PROVE  a = b
    BY <2>2, <2>4
  <2>5. ASSUME NEW a \in Pids, NEW b \in Pids, a < b, Live(a)', Live(b)' PROVE procs'[a].pc \in Behind
    <3>1. a # f
      BY <1>9, <2>5 DEF Pids, Live, At, Over
    <3>2. CASE a = p
      BY <1>5, <1>6, <1>8, <3>2 DEF Behind
    <3>3. CASE a # p
      <4>1. Live(a) /\ procs'[a] = procs[a]
        BY <1>6, <1>9, <2>5, <3>1, <3>3
      <4>2. CASE b # f
        BY <1>1, <1>9, <2>5, <4>1, <4>2 DEF Sound, Daemon
      <4>3. CASE a < p
        BY <1>1, <1>9, <4>1, <4>3 DEF Sound, Daemon
      <4>4. CASE p < a
        BY <1>1, <1>8, <4>1, <4>4 DEF Sound, Daemon, Behind
      <4> QED BY <3>3, <4>2, <4>3, <4>4 DEF Pids
    <3> QED BY <3>2, <3>3
  <2>6. env'.daemon /\ env'.starts <= 1 /\ (env'.starts = 1 => \A q \in Pids : At(q, "none")')
    BY <2>0
  <2> QED BY <2>1, <2>3, <2>4, <2>5, <2>6 DEF Daemon
<1>19. Sound'
  BY <1>11, <1>12, <1>13, <1>14, <1>15, <1>16, <1>17, <1>18 DEF Sound
<1>20. Named'
  <2> SUFFICES ASSUME NEW q \in Pids, Working(q)', procs'[q].seg # 0, procs'[q].fd = file',
                      procs'[q].seg \notin stray'
               PROVE  name' = procs'[q].seg
    BY DEF Named
  <2>1. Working(p)
    BY <1>1 DEF Working
  <2>2. CASE q = f \/ q = p
    BY <1>1, <1>4, <1>5, <1>6, <2>1, <2>2 DEF Named
  <2>3. CASE q # f /\ q # p
    BY <1>1, <1>6, <1>9, <2>3 DEF Named, Working, ShuttingDown
  <2> QED BY <2>2, <2>3
<1> QED BY <1>19, <1>20 DEF IInv

\* bscope is started: a process that nothing is known of yet.
LEMMA StartStep ==
  ASSUME IInv, Start
  PROVE  IInv'
<1> DEFINE x == [Unborn EXCEPT !.pc = "main"]
<1>1. /\ procs \in [Pids -> Process] /\ Sound /\ Types /\ Named /\ env \in Scenario /\ 0 \notin Pids
      /\ UNCHANGED <<file, name, alive, rd, stray, lost>>
  BY DEF IInv, Sound, Types, Pids, Start
<1>2. PICK f \in Pids : /\ f = Fresh /\ At(f, "none")
                        /\ \A q \in Pids : At(q, "none") => f <= q
                        /\ \A q \in Pids : ~At(q, "none") => q < f
  BY <1>1, FreshIsNext DEF Start, Sound
<1>3. procs' = [procs EXCEPT ![f] = x]
  BY <1>2 DEF Start, Update
<1>4. /\ x \in Process /\ x.pc = "main" /\ x.parent = 0 /\ x.fd = 0 /\ ~x.locked
      /\ x.seg = 0 /\ x.child_pid = 0 /\ ~x.master
  BY DEF Process, Unborn, PCs, Over
<1> HIDE DEF x
<1>5. procs'[f] = x /\ procs' \in [Pids -> Process] /\ \A q \in Pids \ {f} : procs'[q] = procs[q]
  BY <1>1, <1>3, <1>4
<1>6. env' \in Scenario /\ env'.daemon = env.daemon /\ env'.starts = env.starts - 1 /\ env.starts > 0
  BY <1>1, Spent DEF Start, Spend, Scenario
<1>7. procs[f] = Unborn /\ procs[f].parent = 0 /\ procs[f].pc = "none"
  BY <1>1, <1>2 DEF Sound, Locals, Local, At, Unborn
<1>8. \A q \in Pids : /\ procs'[q].parent = procs[q].parent /\ procs[q].parent \in Pids \cup {0}
                      /\ procs[q].parent # f
  <2>1. \A q \in Pids : procs[q].parent \in Pids \cup {0}
    BY <1>1 DEF Process
  <2>2. ASSUME NEW q \in Pids, procs[q].parent = f PROVE FALSE
    <3>1. f < q
      BY <1>1, <2>2 DEF Sound, Births
    <3>2. At(q, "none")
      BY <1>1, <1>2, <3>1 DEF Sound, Births
    <3> QED BY <1>1, <2>2, <3>2 DEF Sound, Locals, Local, At, Unborn
  <2> QED BY <1>4, <1>5, <1>7, <2>1, <2>2
<1>9. /\ ~Live(f) /\ Live(f)' /\ ~At(f, "none")'
      /\ \A q \in Pids \ {f} : Live(q)' = Live(q) /\ \A at : At(q, at)' = At(q, at)
  BY <1>4, <1>5, <1>7 DEF Live, At, Over
<1>10. Types'
  BY <1>1, <1>5, <1>6 DEF Types
<1>11. Locals'
  <2>1. Local(f)'
    BY <1>4, <1>5 DEF Local, At, Over, Starting, Mapping, Opening, PCs
  <2>2. ASSUME NEW q \in Pids \ {f} PROVE Local(q)'
    <3>1. procs'[q] = procs[q] /\ Local(q)
      BY <1>1, <1>5 DEF Sound, Locals
    <3> QED BY <1>6, <3>1 DEF Local
  <2> QED BY <2>1, <2>2 DEF Locals
<1>12. Births'
  <2>1. ASSUME NEW q \in Pids, NEW r \in Pids, At(q, "none")', q < r PROVE At(r, "none")'
    <3>1. At(q, "none") /\ f <= q
      BY <1>2, <1>9, <2>1
    <3>2. At(r, "none") /\ r # f
      BY <1>1, <2>1, <3>1 DEF Sound, Births, Pids
    <3> QED BY <1>9, <3>2
  <2>2. \A q \in Pids : procs'[q].parent # 0 => procs'[q].parent < q
    BY <1>1, <1>8 DEF Sound, Births
  <2> QED BY <2>1, <2>2 DEF Births
<1>13. \A q \in Pids : procs[q].fd # f /\ procs[q].fd \in Pids \cup {0}
  BY <1>1, <1>7 DEF Sound, Inodes, Process
<1>14. Inodes'
  <2>1. \A q \in Pids \ {f} : procs'[q].fd = procs[q].fd /\ procs'[q].pc = procs[q].pc
    BY <1>5
  <2>2. procs'[f].fd = 0
    BY <1>4, <1>5
  <2>3. file # f /\ file' = file /\ file \in Pids \cup {0}
    BY <1>1, <1>7 DEF Sound, Inodes, Types
  <2> QED BY <1>1, <1>13, <2>1, <2>2, <2>3 DEF Sound, Inodes
<1>15. OneLock'
  BY <1>1, <1>4, <1>5, <1>9 DEF Sound, OneLock, Holds
<1>16. Families'
  <2>1. \A c, d \in Pids : procs'[c].parent # 0 /\ procs'[d].parent = procs'[c].parent /\ c < d => ~Live(c)'
    BY <1>1, <1>7, <1>8, <1>9 DEF Sound, Families
  <2>2. \A c \in Pids : procs'[c].parent # 0 /\ Live(c)' => procs'[procs'[c].parent].pc \notin Leaves
    BY <1>1, <1>5, <1>7, <1>8, <1>9 DEF Sound, Families
  <2>3. ASSUME NEW s \in Pids, At(s, "forked")'
        PROVE  \E c \in Pids : /\ procs'[c].parent = s
                               /\ \A d \in Pids : procs'[d].parent = s => d <= c
    <3>1. At(s, "forked")
      BY <1>4, <1>5, <1>9, <2>3 DEF At
    <3> QED BY <1>1, <1>8, <3>1 DEF Sound, Families
  <2>4. ASSUME NEW s \in Pids, At(s, "wait")'
        PROVE  /\ procs'[s].child_pid # 0
               /\ \A c \in Pids : procs'[c].parent = s /\ c # procs'[s].child_pid => ~Live(c)'
    <3>1. At(s, "wait") /\ s # f
      BY <1>4, <1>5, <1>9, <2>4 DEF At
    <3>2. procs'[s] = procs[s]
      BY <1>5, <3>1
    <3> QED BY <1>1, <1>7, <1>8, <1>9, <3>1, <3>2 DEF Sound, Families
  <2> QED BY <2>1, <2>2, <2>3, <2>4 DEF Families
<1>17. Guarded'
  <2> SUFFICES ASSUME ~env.daemon, NEW w \in Pids, Working(w)', procs'[w].parent # 0, procs'[w].fd = file'
               PROVE  LET s == procs'[w].parent
                      IN  /\ procs'[s].pc \in {"forked", "wait", "dead", "unlink"}
                          /\ procs'[s].fd = file' /\ procs'[s].locked
    BY <1>6 DEF Guarded
  <2> DEFINE s == procs[w].parent
  <2>1. w # f /\ s \in Pids \ {f} /\ procs'[w].parent = s
    BY <1>7, <1>8
  <2>2. Working(w) /\ procs[w].fd = file /\ s # 0
    BY <1>1, <1>5, <2>1 DEF Working, Live, ShuttingDown
  <2>3. procs[s].pc \in {"forked", "wait", "dead", "unlink"} /\ procs[s].fd = file /\ procs[s].locked
    BY <1>1, <2>2 DEF Sound, Guarded
  <2>4. procs'[s] = procs[s]
    BY <1>5, <2>1
  <2> HIDE DEF s
  <2> QED BY <1>1, <2>1, <2>3, <2>4
<1>18. Daemon'
  <2> SUFFICES ASSUME env.daemon PROVE Daemon'
    BY <1>6 DEF Daemon
  <2>1. env.starts = 1 /\ \A q \in Pids : At(q, "none")
    BY <1>1, <1>6 DEF Sound, Daemon, Scenario
  <2>2. \A q \in Pids \ {f} : At(q, "none")' /\ procs'[q].pc = "none" /\ ~Live(q)'
    BY <1>9, <1>5, <2>1 DEF At, Live, Over
  <2>3. procs'[f].pc = "main"
    BY <1>4, <1>5
  <2> QED BY <1>6, <2>1, <2>2, <2>3 DEF Daemon, Starting, Pids
<1>19. Sound'
  BY <1>10, <1>11, <1>12, <1>14, <1>15, <1>16, <1>17, <1>18 DEF Sound
<1>20. Named'
  BY <1>1, <1>4, <1>5 DEF Named, Working, Live, ShuttingDown
<1> QED BY <1>19, <1>20 DEF IInv

-----------------------------------------------------------------------------
(* The theorems.                                                           *)

\* At first nothing exists; a daemon is going to be started once.
LEMMA InitIInv ==
  ASSUME \A sc \in Scenarios : sc.daemon => sc.starts <= 1, Init
  PROVE  IInv
<1>1. env \in Scenario /\ (env.daemon => env.starts <= 1)
  BY LifecycleAssumption DEF Init, Scenario
<1>2. /\ Unborn \in Process /\ Unborn.pc = "none" /\ Unborn.parent = 0 /\ Unborn.fd = 0
      /\ ~Unborn.locked /\ 0 \notin Pids
  BY DEF Unborn, Process, PCs, Over, Pids
<1>3. /\ \A p \in Pids : procs[p] = Unborn /\ At(p, "none") /\ ~Live(p)
      /\ file = 0 /\ procs \in [Pids -> Process]
  BY <1>2 DEF Init, At, Live, Over
<1>4. Types
  BY <1>1, <1>3 DEF Init, Types, Reader
<1>5. Locals
  BY <1>2, <1>3 DEF Locals, Local, Starting, Mapping, Opening, PCs, Over, Unborn
<1>6. Births /\ Inodes /\ OneLock
  BY <1>2, <1>3 DEF Births, Inodes, OneLock, Holds
<1>7. Families /\ Guarded
  BY <1>2, <1>3 DEF Families, Guarded, Working, At
<1>8. Daemon
  BY <1>1, <1>2, <1>3 DEF Daemon, Starting
<1>9. Named
  BY <1>3 DEF Named, Working
<1> QED BY <1>4, <1>5, <1>6, <1>7, <1>8, <1>9 DEF IInv, Sound

\* Every step of every process keeps the invariant.
LEMMA NextIInv ==
  ASSUME IInv, [Next]_vars
  PROVE  IInv'
<1>1. CASE UNCHANGED vars
  <2>1. procs' = procs /\ UNCHANGED <<file, name, alive, rd, stray, lost, env>>
    BY <1>1 DEF vars
  <2> QED BY <2>1, SignalStep DEF Alike, IInv, Sound, Types
<1>2. CASE Start
  BY <1>2, StartStep
<1>3. CASE Attach \/ SeesDead \/ Detach
  BY <1>3, FollowerSteps
<1>4. ASSUME NEW p \in Pids, Step(p) \/ ForkFails(p) \/ NewConnection(p) \/ Crash(p) \/ Term(p)
      PROVE  IInv'
  <2>1. CASE OpenPidFile(p)
    BY <2>1, OpenPidFileStep
  <2>2. CASE LockPidFile(p)
    BY <2>2, LockPidFileStep, EndSteps
  <2>3. CASE RemoveName(p)
    BY <2>3, RemoveNameStep
  <2>4. CASE CreateSegment(p)
    BY <2>4, CreateSegmentStep
  <2>5. CASE InitSegment(p)
    BY <2>5, InitSegmentStep
  <2>6. CASE Daemonize(p)
    <3>1. /\ At(p, "daemonize") /\ UNCHANGED <<file, name, alive, rd, stray, lost, env>>
          /\ Fork(p, "bye", IF env.supervised THEN "fork" ELSE "run")
      BY <2>6 DEF Daemonize
    <3> QED BY <3>1, ForkStep
  <2>7. CASE SuperviseFork(p)
    <3>1. /\ At(p, "fork") /\ UNCHANGED <<file, name, alive, rd, stray, lost, env>>
          /\ Fork(p, "forked", "born")
      BY <2>7 DEF SuperviseFork
    <3> QED BY <3>1, ForkStep
  <2>8. CASE NoteChild(p)
    BY <2>8, NoteChildStep
  <2>9. CASE WaitChild(p)
    BY <2>9, AgainStep, EndSteps
  <2>10. CASE BecomeWorker(p)
    BY <2>10, BecomeWorkerStep
  <2>11. CASE handler_exit(p)
    BY <2>11, HandlerStep
  <2>12. CASE ClearAlive(p)
    BY <2>12, ClearAliveStep
  <2>13. CASE UnlinkPidFile(p)
    BY <2>13, UnlinkPidFileStep
  <2>14. CASE ClosePidFile(p)
    BY <2>14, ClosePidFileStep
  <2>15. CASE Term(p)
    BY <2>15, TermStep
  <2>16. CASE ForkFails(p) \/ Bye(p) \/ NewConnection(p) \/ Crash(p) \/ UnlinkName(p)
    BY <2>16, EndSteps
  <2> QED BY <1>4, <2>1, <2>2, <2>3, <2>4, <2>5, <2>6, <2>7, <2>8, <2>9, <2>10, <2>11, <2>12,
             <2>13, <2>14, <2>15, <2>16 DEF Step
<1> QED BY <1>1, <1>2, <1>3, <1>4 DEF Next

\* Two processes that capture under the pid file in place are one.
LEMMA NoTwo ==
  ASSUME IInv, NEW p \in Capturing, NEW q \in Capturing, procs[p].fd = file, procs[q].fd = file
  PROVE  p = q
<1>1. /\ p \in Pids /\ q \in Pids /\ At(p, "run") /\ At(q, "run") /\ Local(p) /\ Local(q) /\ Sound
      /\ Working(p) /\ Working(q) /\ procs[p].parent \in Pids \cup {0} /\ procs[q].parent \in Pids \cup {0}
  BY DEF IInv, Sound, Locals, Capturing, At, Working, Live, ShuttingDown, Over, Types, Process
<1>2. CASE env.daemon
  <2>1. ~(p < q) /\ ~(q < p)
    BY <1>1, <1>2 DEF Sound, Daemon, Behind, Working, At
  <2> QED BY <1>1, <2>1 DEF Pids
<1>3. CASE ~env.daemon
  <2> DEFINE Holder(r) == IF procs[r].parent = 0 THEN r ELSE procs[r].parent
  <2>1. ASSUME NEW r \in {p, q}
        PROVE  /\ Holder(r) \in Pids /\ Holds(Holder(r), file)
               /\ procs[r].parent # 0 => procs[Holder(r)].pc # "run"
    <3>1. CASE procs[r].parent = 0
      BY <1>1, <3>1 DEF Local, At, Working, Holds, PCs, Over, Opening
    <3>2. CASE procs[r].parent # 0
      BY <1>1, <1>3, <3>2 DEF Sound, Guarded, Holds, Live, Over
    <3> QED BY <3>1, <3>2
  <2>2. Holder(p) = Holder(q)
    BY <2>1 DEF Holds, OneLock, Sound, IInv
  <2>3. CASE procs[p].parent = 0 \/ procs[q].parent = 0
    BY <1>1, <2>1, <2>2, <2>3 DEF At
  <2>4. CASE procs[p].parent # 0 /\ procs[q].parent # 0
    <3>1. ~(p < q) /\ ~(q < p)
      BY <1>1, <2>2, <2>4 DEF Sound, Families, Working
    <3> QED BY <1>1, <3>1 DEF Pids
  <2> QED BY <2>3, <2>4
<1> QED BY <1>2, <1>3

\* The invariant holds always: in the foreground for any number of starts; a
\* daemon is started once (a second start is not refused: SingleInstance).
THEOREM AlwaysIInv ==
  ASSUME \A sc \in Scenarios : sc.daemon => sc.starts <= 1
  PROVE  Spec => []IInv
<1>1. Init => IInv
  BY InitIInv
<1>2. IInv /\ [Next]_vars => IInv'
  BY NextIInv
<1> QED BY <1>1, <1>2, PTL DEF Spec

\* At most one process captures under the pid file in place: createPidFile
\* refuses a second instance, through crashes, signals and restarts.
THEOREM OneInstance ==
  ASSUME \A sc \in Scenarios : sc.daemon => sc.starts <= 1
  PROVE  Spec => []Exclusive
<1>1. IInv => Exclusive
  <2> SUFFICES ASSUME IInv PROVE Exclusive
    OBVIOUS
  <2> DEFINE S == {p \in Capturing : procs[p].fd = file}
  <2>1. TypeOK
    BY DEF IInv, Sound, Types, Process, Reader, TypeOK
  <2>2. \A p, q \in S : p = q
    BY NoTwo
  <2>3. CASE S = {}
    BY <2>1, <2>3, FS_EmptySet DEF Exclusive
  <2>4. CASE S # {}
    <3>1. PICK p \in S : TRUE
      BY <2>4
    <3>2. S = {p}
      BY <2>2, <3>1
    <3>3. Cardinality(S) = 1
      BY <3>2, FS_Singleton
    <3> QED BY <2>1, <3>3 DEF Exclusive
  <2> QED BY <2>3, <2>4
<1> QED BY <1>1, AlwaysIInv, PTL

\* The segment of the process that captures is found by name, unless the
\* shutdown of another one, or an instance that locked an unlinked pid file,
\* took the name away.
THEOREM NameAlwaysReaches ==
  ASSUME \A sc \in Scenarios : sc.daemon => sc.starts <= 1
  PROVE  Spec => []StatusReachable
<1>1. IInv => StatusReachable
  <2> SUFFICES ASSUME IInv, NEW p \in Capturing, procs[p].fd = file, procs[p].seg \notin stray
               PROVE  name = procs[p].seg
    BY DEF StatusReachable
  <2>1. p \in Pids /\ Working(p) /\ Local(p) /\ procs[p].pc = "run"
    BY DEF Capturing, Working, Live, Over, ShuttingDown, IInv, Sound, Locals
  <2>2. procs[p].seg # 0
    BY <2>1 DEF Local, PCs, Over, Mapping, Opening
  <2> QED BY <2>1, <2>2 DEF IInv, Named
<1> QED BY <1>1, AlwaysIInv, PTL
=============================================================================
