------------------------------ MODULE IpLayer ------------------------------
(***************************************************************************)
(* gen_ip_frag_proc (libnids.c): header tests and options of a packet      *)
(* (IpInput), then its defragmentation (IpFrag).  The two share no state,  *)
(* so that TLC scans options only while no fragment is queued.             *)
(***************************************************************************)
EXTENDS IpFrag, IpInput

Quiet == Queued(tab) = {} /\ now = 0 /\ out = None

LayerInit == Init /\ InputInit

LayerNext ==
  \/ pkt.pc = "idle" /\ Next /\ UNCHANGED pkt
  \/ Quiet /\ InputNext /\ UNCHANGED vars

LayerSpec == LayerInit /\ [][LayerNext]_<<vars, pkt>>
=============================================================================
