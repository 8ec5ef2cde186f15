------------------------------ MODULE Segment ------------------------------
(***************************************************************************)
(* The shared segment (status.c) and a second process that reads it:       *)
(* "bscope -l" follows the log ring, "bscope -s" adds up the table of      *)
(* requests per second (the mode switch of main).  Ring and table are      *)
(* different words of the segment that the worker writes with different    *)
(* functions, and neither reader looks at the words of the other: of the   *)
(* part the chosen reader cannot see the worker's steps are left out.      *)
(***************************************************************************)
EXTENDS StatusLog, Rps

VARIABLE mode

segvars == <<vars, rpsvars, mode>>

Logcat(A) == mode = "LOG_MODE" /\ A /\ UNCHANGED <<rpsvars, mode>>
Stat(A) == mode = "STAT_MODE" /\ A /\ UNCHANGED <<vars, mode>>

SegInit == Init /\ RpsInit /\ mode \in {"LOG_MODE", "STAT_MODE"}

SegNext == Logcat(Next) \/ Stat(RpsNext)

\* Worker and follower keep running.
SegSpec ==
  /\ SegInit /\ [][SegNext]_segvars
  /\ WF_segvars(Logcat(Reader))
  /\ WF_segvars(Logcat(StoreMark \/ Rewind \/ NextLife \/ StoreSize \/ StoreText \/ Publish))
=============================================================================
