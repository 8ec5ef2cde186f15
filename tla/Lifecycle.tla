------------------------------ MODULE Lifecycle ------------------------------
(***************************************************************************)
(* The processes of bscope (main.c, status.c, functions.c): main takes the *)
(* lock on the pid file and creates the shared segment, a daemon forks and *)
(* its parent exits, the supervisor forks the capturing worker and forks   *)
(* again when a signal killed it, SIGTERM is passed on to the worker,      *)
(* which shuts the segment down.  A "bscope -l" follower attaches to the   *)
(* segment by name.  Every system call that another process can see is a   *)
(* step.                                                                   *)
(*                                                                         *)
(* An inode of the pid file and a segment are named by the process that    *)
(* created them; 0 is "does not exist".                                    *)
(***************************************************************************)
EXTENDS Integers, FiniteSets

CONSTANTS
  Scenarios,   \* how bscope is run: a set of [daemon, supervised : BOOLEAN,
               \* starts, terms, faults : Nat]
  MaxPids      \* bound: processes ever created

\* daemon and supervised are config.daemon_mode and config.supervisor_mode;
\* the bounds are on the times bscope is started, on the SIGTERMs an operator
\* sends, and on workers killed by a signal and forks that fail.
ASSUME LifecycleAssumption ==
  /\ MaxPids \in Nat
  /\ Scenarios \subseteq [daemon : BOOLEAN, supervised : BOOLEAN,
                          starts : Nat, terms : Nat, faults : Nat]
  /\ \A sc \in Scenarios : 3 * sc.starts + sc.faults <= MaxPids

Pids == 1..MaxPids

VARIABLES
  procs,    \* the processes ever created
  file,     \* inode behind config.pid_file
  name,     \* segment behind shm_id()
  alive,    \* segments with stat->alive set
  rd,       \* the follower: next step, segment it has mapped
  stray,    \* segments in use whose name was unlinked by a status_shutdown, or
            \* by an instance whose pid file is no longer the one in place
  lost,     \* processes whose SIGTERM reached nobody
  env       \* the scenario, with what is left of its bounds

vars == <<procs, file, name, alive, rd, stray, lost, env>>

Unborn == [pc |-> "none", parent |-> 0, child_pid |-> 0, fd |-> 0, locked |-> FALSE,
           seg |-> 0, master |-> FALSE, term |-> FALSE]
Over == {"none", "exited", "signalled"}
Live(p) == procs[p].pc \notin Over

\* Pids are given out in order; by the assumption there is always one left.
Room  == \E p \in Pids : procs[p].pc = "none"
Fresh == CHOOSE p \in Pids : /\ procs[p].pc = "none"
                             /\ \A q \in Pids : procs[q].pc = "none" => p <= q

\* getppid() < 5: the parent is gone and init has adopted the process.  Pid 0
\* stands for the shell of a foreground bscope.
Orphan(p) == procs[p].parent # 0 /\ ~Live(procs[p].parent)

At(p, pc) == procs[p].pc = pc
Update(p, rec) == procs' = [procs EXCEPT ![p] = rec]
Goto(p, pc) == Update(p, [procs[p] EXCEPT !.pc = pc])

\* A process that ends drops its lock, its descriptors and its mappings.
Gone(p, how) == Update(p, [Unborn EXCEPT !.pc = how, !.parent = procs[p].parent])

Spend(what) == env[what] > 0 /\ env' = [env EXCEPT ![what] = @ - 1]

-----------------------------------------------------------------------------
(* main and status_init(1).                                                *)

Start ==
  /\ Spend("starts") /\ Room
  /\ Update(Fresh, [Unborn EXCEPT !.pc = "main"])
  /\ UNCHANGED <<file, name, alive, rd, stray, lost>>

\* createPidFile: open with O_CREAT.
OpenPidFile(p) ==
  /\ At(p, "main")
  /\ file' = IF file = 0 THEN p ELSE file
  /\ Update(p, [procs[p] EXCEPT !.pc = "lock", !.fd = file', !.master = TRUE])
  /\ UNCHANGED <<name, alive, rd, stray, lost, env>>

\* fcntl(F_SETLK): the lock belongs to the process and to the inode.
Holds(q, inode) == Live(q) /\ procs[q].locked /\ procs[q].fd = inode

\* Mutant: a lock somebody else holds does not end the process.
LockPidFile_ignored(p) ==
  /\ At(p, "lock")
  /\ Update(p, [procs[p] EXCEPT !.pc = "rmname", !.locked = TRUE])
  /\ UNCHANGED <<file, name, alive, rd, stray, lost, env>>

LockPidFile(p) ==
  /\ At(p, "lock")
  /\ IF \E q \in Pids \ {p} : Holds(q, procs[p].fd)
       THEN Gone(p, "exited")
       ELSE Update(p, [procs[p] EXCEPT !.pc = "rmname", !.locked = TRUE])
  /\ UNCHANGED <<file, name, alive, rd, stray, lost, env>>

\* In status_shutdown.
ShuttingDown(p) == procs[p].pc \in {"dead", "unlink", "close", "rm"}

\* A segment that some process still works with.
InUse(seg) ==
  seg # 0 /\ \E q \in Pids : Live(q) /\ ~ShuttingDown(q) /\ procs[q].seg = seg
Strays == IF InUse(name) THEN stray \cup {name} ELSE stray

\* Mutant: the old name is also removed by an instance that is refused.
RemoveName_unasked(p) ==
  /\ procs[p].pc \in {"lock", "rmname"}
  /\ name' = 0 /\ Goto(p, IF At(p, "lock") THEN "lock" ELSE "create")
  /\ UNCHANGED <<file, alive, rd, stray, lost, env>>

\* shm_unlink of whatever an earlier instance left behind.
RemoveName(p) ==
  /\ At(p, "rmname")
  /\ name' = 0 /\ Goto(p, "create")
  /\ stray' = IF procs[p].fd # file THEN Strays ELSE stray
  /\ UNCHANGED <<file, alive, rd, lost, env>>

\* shm_open with O_CREAT and mmap.
CreateSegment(p) ==
  /\ At(p, "create")
  /\ name' = IF name = 0 THEN p ELSE name
  /\ Update(p, [procs[p] EXCEPT !.pc = "init", !.seg = name'])
  /\ UNCHANGED <<file, alive, rd, stray, lost, env>>

InitSegment(p) ==
  /\ At(p, "init")
  /\ alive' = alive \cup {procs[p].seg}
  /\ Goto(p, IF env.daemon THEN "daemonize" ELSE IF env.supervised THEN "fork" ELSE "run")
  /\ UNCHANGED <<file, name, rd, stray, lost, env>>

\* fork: the child inherits everything but the lock and the pending signal.
Fork(p, here, there) ==
  /\ Room
  /\ procs' = [procs EXCEPT ![p].pc = here,
                 ![Fresh] = [procs[p] EXCEPT !.pc = there, !.parent = p,
                                             !.locked = FALSE, !.term = FALSE]]

ForkFails(p) ==
  /\ procs[p].pc \in {"daemonize", "fork"}
  /\ Gone(p, "exited") /\ Spend("faults")
  /\ UNCHANGED <<file, name, alive, rd, stray, lost>>

Daemonize(p) ==
  /\ At(p, "daemonize")
  /\ Fork(p, "bye", IF env.supervised THEN "fork" ELSE "run")
  /\ UNCHANGED <<file, name, alive, rd, stray, lost, env>>

Bye(p) ==
  /\ At(p, "bye") /\ Gone(p, "exited")
  /\ UNCHANGED <<file, name, alive, rd, stray, lost, env>>

-----------------------------------------------------------------------------
(* supervisor_loop and the worker.                                         *)

SuperviseFork(p) ==
  /\ At(p, "fork") /\ Fork(p, "forked", "born")
  /\ UNCHANGED <<file, name, alive, rd, stray, lost, env>>

\* child_pid = pid
NoteChild(p) ==
  /\ At(p, "forked")
  /\ Update(p, [procs[p] EXCEPT !.pc = "wait",
                  !.child_pid = CHOOSE c \in Pids : procs[c].parent = p /\
                                  \A d \in Pids : procs[d].parent = p => d <= c])
  /\ UNCHANGED <<file, name, alive, rd, stray, lost, env>>

\* Mutant: only a child that exited ends the wait.
WaitChild_exitonly(p) ==
  /\ At(p, "wait") /\ At(procs[p].child_pid, "exited") /\ Gone(p, "exited")
  /\ UNCHANGED <<file, name, alive, rd, stray, lost, env>>

\* waitpid: start over if the child was killed, otherwise return from main.
WaitChild(p) ==
  /\ At(p, "wait") /\ ~Live(procs[p].child_pid)
  /\ IF At(procs[p].child_pid, "signalled") THEN Goto(p, "fork") ELSE Gone(p, "exited")
  /\ UNCHANGED <<file, name, alive, rd, stray, lost, env>>

\* child_pid = 0
BecomeWorker(p) ==
  /\ At(p, "born")
  /\ Update(p, [procs[p] EXCEPT !.pc = "run", !.child_pid = 0])
  /\ UNCHANGED <<file, name, alive, rd, stray, lost, env>>

\* Mutant: the test on the parent is the wrong way round.
NewConnection_reversed(p) ==
  /\ At(p, "run") /\ ~Orphan(p) /\ Gone(p, "exited")
  /\ UNCHANGED <<file, name, alive, rd, stray, lost, env>>

\* tcp_callback, NIDS_JUST_EST: an orphaned worker exits.
NewConnection(p) ==
  /\ At(p, "run") /\ Orphan(p) /\ Gone(p, "exited")
  /\ UNCHANGED <<file, name, alive, rd, stray, lost, env>>

\* A signal kills the worker, and what was pending for it is lost.
Crash(p) ==
  /\ At(p, "run")
  /\ Gone(p, "signalled") /\ Spend("faults")
  /\ lost' = IF procs[p].term THEN lost \cup {p} ELSE lost
  /\ UNCHANGED <<file, name, alive, rd, stray>>

-----------------------------------------------------------------------------
(* SIGTERM and status_shutdown.                                            *)

Term(p) ==
  /\ Live(p) /\ Spend("terms")
  /\ Update(p, [procs[p] EXCEPT !.term = TRUE])
  /\ UNCHANGED <<file, name, alive, rd, stray, lost>>

\* Mutant: the supervisor keeps the signal to itself.
handler_exit_alone(p) ==
  /\ procs[p].term /\ Live(p) /\ ~ShuttingDown(p)
  /\ LET me == [procs[p] EXCEPT !.term = FALSE]
         c  == procs[p].child_pid
     IN CASE c # 0 -> Update(p, me) /\ UNCHANGED lost
          [] OTHER -> Update(p, [me EXCEPT !.pc = "dead"]) /\ UNCHANGED lost
  /\ UNCHANGED <<file, name, alive, rd, stray, env>>

\* handler_exit, between any two steps of the process.  Before stat is mapped
\* stat->alive = 0 is a null store.
handler_exit(p) ==
  /\ procs[p].term /\ Live(p) /\ ~ShuttingDown(p)
  /\ LET me == [procs[p] EXCEPT !.term = FALSE]
         c  == procs[p].child_pid
     IN CASE c # 0 /\ Live(c)  -> /\ procs' = [procs EXCEPT ![p] = me, ![c].term = TRUE]
                                  /\ UNCHANGED lost
          [] c # 0 /\ ~Live(c) -> Update(p, me) /\ lost' = lost \cup {p}
          [] c = 0 /\ me.master /\ me.seg = 0 ->
               Gone(p, "signalled") /\ UNCHANGED lost
          [] OTHER -> /\ Update(p, [me EXCEPT !.pc = IF me.master THEN "dead" ELSE "close"])
                      /\ UNCHANGED lost
  /\ UNCHANGED <<file, name, alive, rd, stray, env>>

\* stat->alive = 0
ClearAlive(p) ==
  /\ At(p, "dead") /\ Goto(p, "unlink")
  /\ alive' = alive \ {procs[p].seg}
  /\ UNCHANGED <<file, name, rd, stray, lost, env>>

UnlinkPidFile(p) ==
  /\ At(p, "unlink") /\ Goto(p, "close")
  /\ file' = 0
  /\ UNCHANGED <<name, alive, rd, stray, lost, env>>

\* close(statfd) drops the lock of this process.
ClosePidFile(p) ==
  /\ At(p, "close")
  /\ Update(p, [procs[p] EXCEPT !.pc = "rm", !.locked = FALSE])
  /\ UNCHANGED <<file, name, alive, rd, stray, lost, env>>

UnlinkName(p) ==
  /\ At(p, "rm") /\ Gone(p, "exited")
  /\ name' = 0 /\ stray' = Strays
  /\ UNCHANGED <<file, alive, rd, lost, env>>

-----------------------------------------------------------------------------
(* The follower: status_logcat and the end of show_log.                    *)

Attach ==
  /\ rd.pc = "attach" /\ name # 0
  /\ rd' = [pc |-> "follow", seg |-> name]
  /\ UNCHANGED <<procs, file, name, alive, stray, lost, env>>

\* Nothing new and stat->alive == 0.
SeesDead ==
  /\ rd.pc = "follow" /\ rd.seg \notin alive
  /\ rd' = [rd EXCEPT !.pc = "rm"]
  /\ UNCHANGED <<procs, file, name, alive, stray, lost, env>>

\* status_shutdown in a process that is no master, then status_logcat again.
Detach ==
  /\ rd.pc = "rm" /\ rd' = [pc |-> "attach", seg |-> 0]
  /\ name' = 0 /\ stray' = Strays
  /\ UNCHANGED <<procs, file, alive, lost, env>>

Step(p) ==
  \/ OpenPidFile(p) \/ LockPidFile(p) \/ RemoveName(p) \/ CreateSegment(p) \/ InitSegment(p)
  \/ Daemonize(p) \/ Bye(p)
  \/ SuperviseFork(p) \/ NoteChild(p) \/ WaitChild(p) \/ BecomeWorker(p)
  \/ handler_exit(p)
  \/ ClearAlive(p) \/ UnlinkPidFile(p) \/ ClosePidFile(p) \/ UnlinkName(p)

Init ==
  /\ procs = [p \in Pids |-> Unborn]
  /\ file = 0 /\ name = 0 /\ alive = {}
  /\ rd = [pc |-> "attach", seg |-> 0]
  /\ stray = {} /\ lost = {}
  /\ env \in Scenarios

Next ==
  \/ Start
  \/ \E p \in Pids : Step(p) \/ ForkFails(p) \/ NewConnection(p) \/ Crash(p) \/ Term(p)
  \/ Attach \/ SeesDead \/ Detach

Spec == Init /\ [][Next]_vars

\* Every process runs, and connections keep being made.
FairSpec == Spec /\ \A p \in Pids : WF_vars(Step(p)) /\ WF_vars(NewConnection(p))

-----------------------------------------------------------------------------
(* Properties.                                                             *)

\* Type invariant.
TypeOK ==
  /\ file \in Pids \cup {0} /\ name \in Pids \cup {0} /\ alive \subseteq Pids
  /\ rd.seg \in Pids \cup {0} /\ stray \subseteq Pids /\ lost \subseteq Pids
  /\ \A p \in Pids : /\ {procs[p].parent, procs[p].child_pid, procs[p].fd, procs[p].seg}
                           \subseteq Pids \cup {0}
                     /\ procs[p].locked \in BOOLEAN /\ procs[p].term \in BOOLEAN

Capturing == {p \in Pids : procs[p].pc = "run"}

\* What the message of createPidFile ("probably ... is already running")
\* takes for granted: a second start is refused while an instance captures.
SingleInstance == Cardinality(Capturing) <= 1

\* In the foreground that is so for the processes that work under the pid file
\* in place.  Others go on beside them: a worker that outlived a supervisor
\* which got SIGTERM before it had noted the worker's pid, and an instance
\* that locked a pid file which was unlinked after it had opened it.
Exclusive ==
  TypeOK /\ Cardinality({p \in Capturing : procs[p].fd = file}) <= 1

\* The status and log of such a process can be found by name: a start
\* that is refused, a crash and a restart leave the segment alone.  Only a
\* status_shutdown of another process (a follower, a worker or supervisor that
\* ends late, the parent of a daemon that gets SIGTERM before its exit), or an
\* instance that locked a pid file already unlinked, takes the name away.
StatusReachable ==
  \A p \in Capturing : procs[p].fd = file /\ procs[p].seg \notin stray => name = procs[p].seg

\* SIGTERM ends the process that gets it, a supervisor by way of its worker,
\* unless the handler ran while child_pid was that of a worker already gone,
\* or the worker was killed before its own handler ran: then the signal is
\* lost and the instance lives on.
TermStops ==
  \A p \in Pids : procs[p].term ~> ~Live(p) \/ lost # {}

\* A worker that a signal killed is replaced, unless the supervisor is gone.
Bereft(p) == At(p, "wait") /\ At(procs[p].child_pid, "signalled")
CrashRestarts ==
  \A p \in Pids : Bereft(p) ~> ~Live(p) \/ \E c \in Capturing : procs[c].parent = p

\* A worker whose supervisor is gone does not capture for ever.
OrphansEnd == \A p \in Pids : At(p, "run") /\ Orphan(p) ~> ~At(p, "run")
=============================================================================
