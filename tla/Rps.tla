-------------------------------- MODULE Rps --------------------------------
(***************************************************************************)
(* The requests-per-second table in the shared segment: request_begin      *)
(* (callback.c) counts in stat->rps, one slot per second modulo RPS_N, and *)
(* "bscope -s" (status_mon, status.c) adds the slots up in a process of    *)
(* its own, without a lock.  Each load and store of a slot is a step.  The *)
(* two stores that take a slot over are independent, so that the compiler  *)
(* may emit them in either order.                                          *)
(***************************************************************************)
EXTENDS Sums, FiniteSetsExt

CONSTANTS
  RPS_N,
  Minite,      \* 61: slots i < Minite belong to the last minute
  MaxClock,    \* bound: seconds
  MaxHits,     \* bound: requests
  MaxDeaths    \* bound: workers killed by a signal

ASSUME RpsAssumption ==
  /\ RPS_N \in Nat \ {0, 1} /\ Minite \in Nat /\ MaxClock \in Nat /\ RPS_N <= MaxClock
  /\ MaxHits \in Nat /\ MaxDeaths \in Nat

VARIABLES
  clock,    \* time(NULL)
  rps,      \* stat->rps
  wr,       \* the worker in request_begin: next store, s->start_time
  mon,      \* status_mon: next load and its locals; raced is history
  cnt,      \* history: requests counted per second
  torn,     \* history: seconds whose slot a dying worker left half written
  deaths

rpsvars == <<clock, rps, wr, mon, cnt, torn, deaths>>

Seconds == 0..MaxClock
Slot(t) == t % RPS_N
Counted(t) == cnt' = [cnt EXCEPT ![t] = @ + 1]

Second ==
  /\ clock < MaxClock /\ clock' = clock + 1
  /\ UNCHANGED <<rps, wr, mon, cnt, torn, deaths>>

-----------------------------------------------------------------------------
(* request_begin.                                                          *)

Idle == [pc |-> "idle", t |-> 0]

\* time(&s->start_time), and the test on the slot, which nobody else writes.
Hit ==
  /\ wr.pc = "idle"
  /\ MapThenSumSet(LAMBDA t : cnt[t], Seconds) < MaxHits
  /\ wr' = [pc |-> IF rps[Slot(clock)].time = clock THEN "inc" ELSE "new", t |-> clock]
  /\ UNCHANGED <<clock, rps, mon, cnt, torn, deaths>>

\* value++
Increment ==
  /\ wr.pc = "inc" /\ wr' = Idle
  /\ rps' = [rps EXCEPT ![Slot(wr.t)].value = @ + 1]
  /\ Counted(wr.t)
  /\ UNCHANGED <<clock, mon, torn, deaths>>

\* time = start_time and value = 1, whichever comes first.
TakeSlot ==
  /\ wr.pc = "new"
  /\ \/ /\ wr' = [wr EXCEPT !.pc = "value"]
        /\ rps' = [rps EXCEPT ![Slot(wr.t)].time = wr.t]
     \/ /\ wr' = [wr EXCEPT !.pc = "time"]
        /\ rps' = [rps EXCEPT ![Slot(wr.t)].value = 1]
  /\ UNCHANGED <<clock, mon, cnt, torn, deaths>>

\* Mutant: the slot goes on counting from its old value.
FillSlot_kept ==
  /\ wr.pc \in {"value", "time"} /\ wr' = Idle
  /\ rps' = [rps EXCEPT ![Slot(wr.t)] = [time |-> wr.t, value |-> @.value + 1]]
  /\ Counted(wr.t)
  /\ UNCHANGED <<clock, mon, torn, deaths>>

FillSlot ==
  /\ wr.pc \in {"value", "time"} /\ wr' = Idle
  /\ rps' = IF wr.pc = "value" THEN [rps EXCEPT ![Slot(wr.t)].value = 1]
                               ELSE [rps EXCEPT ![Slot(wr.t)].time = wr.t]
  /\ Counted(wr.t)
  /\ UNCHANGED <<clock, mon, torn, deaths>>

\* A signal kills the worker in request_begin; the next one maps the segment
\* as it is.
Die ==
  /\ deaths < MaxDeaths /\ deaths' = deaths + 1
  /\ wr.pc # "idle" /\ wr' = Idle
  /\ torn' = IF wr.pc \in {"value", "time"} THEN torn \cup {rps[Slot(wr.t)].time} ELSE torn
  /\ UNCHANGED <<clock, rps, mon, cnt>>

-----------------------------------------------------------------------------
(* status_mon.                                                             *)

\* Has a second passed since time(&ctime), or is an older request counted?
Raced(c) == clock # c \/ (wr.pc # "idle" /\ wr.t < c)

MonStart ==
  /\ mon.pc = "off"
  /\ mon' = [pc |-> "cmp", ctime |-> clock, i |-> 1, minite_v |-> 0, all_v |-> 0,
             first |-> 0, raced |-> Raced(clock)]
  /\ UNCHANGED <<clock, rps, wr, cnt, torn, deaths>>

Look(m) ==
  /\ mon' = [m EXCEPT !.raced = @ \/ Raced(mon.ctime)]
  /\ UNCHANGED <<clock, rps, wr, cnt, torn, deaths>>

\* Mutant: the loop runs once too often.
NextSlot_all(m) ==
  IF m.i < RPS_N THEN [m EXCEPT !.pc = "cmp", !.i = @ + 1] ELSE [m EXCEPT !.pc = "first"]

NextSlot(m) ==
  IF m.i + 1 < RPS_N THEN [m EXCEPT !.pc = "cmp", !.i = @ + 1] ELSE [m EXCEPT !.pc = "first"]

\* t2 and stat->rps[n]
T2 == mon.ctime - mon.i
Here == rps[Slot(T2)]

CmpTime ==
  /\ mon.pc = "cmp"
  /\ Look(IF Here.time # T2 THEN NextSlot(mon)
          ELSE [mon EXCEPT !.pc = IF mon.i < Minite THEN "minite" ELSE "all"])

AddMinite ==
  /\ mon.pc = "minite"
  /\ Look([mon EXCEPT !.pc = "all", !.minite_v = @ + Here.value])

AddAll ==
  /\ mon.pc = "all"
  /\ Look(NextSlot([mon EXCEPT !.all_v = @ + Here.value]))

\* Mutant: the slot of the current second.
ShowFirst_now ==
  /\ mon.pc = "first"
  /\ Look([mon EXCEPT !.pc = "done", !.first = rps[Slot(mon.ctime)].value])

\* The slot of the last second, whatever its time.
ShowFirst ==
  /\ mon.pc = "first"
  /\ Look([mon EXCEPT !.pc = "done", !.first = rps[Slot(mon.ctime - 1)].value])

\* Unix time is far from 0, the time of an untouched slot.
RpsInit ==
  /\ clock = RPS_N /\ deaths = 0 /\ torn = {}
  /\ rps = [n \in 0..(RPS_N - 1) |-> [time |-> 0, value |-> 0]]
  /\ wr = Idle /\ cnt = [t \in Seconds |-> 0]
  /\ mon = [pc |-> "off", ctime |-> 0, i |-> 0, minite_v |-> 0, all_v |-> 0,
            first |-> 0, raced |-> FALSE]

RpsNext ==
  \/ Second \/ Hit \/ Increment \/ TakeSlot \/ FillSlot \/ Die
  \/ MonStart \/ CmpTime \/ AddMinite \/ AddAll \/ ShowFirst

-----------------------------------------------------------------------------
(* Properties.                                                             *)

\* The seconds with requests that are counted in slot n.
In(n) == {t \in Seconds : Slot(t) = n /\ cnt[t] > 0}

\* Between two requests every slot holds the exact count of the newest second
\* that was counted in it, unless a worker died between the two stores.
SlotExact ==
  wr.pc = "idle" =>
    \A n \in DOMAIN rps :
      LET t == rps[n].time
      IN  t \notin torn => rps[n].value = cnt[t] /\ \A u \in In(n) : u <= t

\* The seconds 1..k before the monitor read the clock, and their requests.
Window(k) == {mon.ctime - i : i \in 1..k}
Requests(k) == SumOf([i \in 1..k |-> cnt[mon.ctime - i]])
Smaller(a, b) == IF a < b THEN a ELSE b

\* The two averages of status_mon are exact: each request of the last minute,
\* and of the last RPS_N - 1 seconds, is counted once, unless a second passed
\* or an older request was still being counted while it looked, or a worker
\* died between the two stores.
MonitorExact ==
  mon.pc = "done" /\ ~mon.raced /\ Window(RPS_N - 1) \cap torn = {} =>
    /\ mon.all_v = Requests(RPS_N - 1)
    /\ mon.minite_v = Requests(Smaller(Minite, RPS_N) - 1)

\* Its first number is that of the last second if there was a request in it;
\* otherwise the slot is not cleared and it is the count of the newest second
\* that used the slot, RPS_N or more seconds ago.
LastSecond ==
  mon.pc = "done" /\ ~mon.raced /\ torn = {} =>
    LET old == {t \in In(Slot(mon.ctime - 1)) : t < mon.ctime}
    IN  mon.first = IF old = {} THEN 0 ELSE cnt[Max(old)]
=============================================================================
