------------------------------ MODULE IpInput ------------------------------
(***************************************************************************)
(* What a captured packet passes before it is defragmented                 *)
(* (gen_ip_frag_proc, libnids.c): the tests on the header, its checksum    *)
(* (checksum.c) and the options (ip_options_compile, ip_options.c), which  *)
(* are read one by one and written to as a router would.                   *)
(*                                                                         *)
(* Offsets count from the start of the header.  The bytes of an option are *)
(* chosen when it is read; that is sound because an earlier option never   *)
(* writes to a later one (part of InputSound).                             *)
(***************************************************************************)
EXTENDS Integers

CONSTANTS
  CapLens,   \* bound: captured lengths and ip_len
  MaxHl,      \* 15: the largest ip_hl
  MaxPtr,     \* 255: the largest pointer in an option
  Radix,      \* 65536: the words of the checksum
  MaxSum      \* bound: sums of the words of a header

ASSUME IpInputAssumption ==
  /\ CapLens \subseteq Nat /\ MaxHl \in Nat /\ MaxPtr \in Nat
  /\ Radix \in Nat \ {0, 1} /\ MaxSum \in Nat /\ MaxSum < Radix * Radix

sizeof_ip == 20

VARIABLE
  pkt   \* the packet at hand: len, ip_len, ip_hl; ip_options_compile's optptr,
        \* l and which of srr, rr, ts are set.  History: intact, is the header
        \* what was sent (or is it not to be checked); own, the bytes of the
        \* last option; read and wrote, those ip_options_compile looked at and
        \* stored to because of it

Idle == [pc |-> "idle", len |-> 0, ip_len |-> 0, ip_hl |-> 0, intact |-> FALSE,
         optptr |-> 0, l |-> 0, srr |-> FALSE, rr |-> FALSE, ts |-> FALSE,
         own |-> {}, read |-> {}, wrote |-> {}]

\* ip_check_ext on words that add up to sum: two foldings, complemented.
ip_check_ext(sum) ==
  LET s1 == (sum \div Radix) + (sum % Radix)
      s2 == s1 + (s1 \div Radix)
  IN  Radix - 1 - (s2 % Radix)

\* dontchksum: the option packet-checksum is the same for every packet.
ip_fast_csum(sum, skip) == IF skip THEN 0 ELSE ip_check_ext(sum)

\* The words add up to zero in ones' complement.
Intact(sum) == sum > 0 /\ sum % (Radix - 1) = 0

Receive(len, ip_len, ip_hl, ip_v, sum, skip) ==
  /\ pkt.pc = "idle"
  /\ LET bad == \/ len < sizeof_ip \/ ip_hl < 5 \/ ip_v # 4
                \/ ip_fast_csum(sum, skip) # 0
                \/ len < ip_len \/ ip_len < ip_hl * 4
     IN pkt' = [Idle EXCEPT !.pc = IF bad THEN "dropped" ELSE IF ip_hl > 5 THEN "opt" ELSE "passed",
                            !.len = len, !.ip_len = ip_len, !.ip_hl = ip_hl,
                            !.intact = skip \/ Intact(sum),
                            !.optptr = sizeof_ip, !.l = ip_hl * 4 - sizeof_ip]

-----------------------------------------------------------------------------
(* ip_options_compile: one turn of the loop per action.                    *)

InLoop == pkt.pc = "opt" /\ pkt.l > 0

\* eol: a source route is refused.
Eol(p) == [p EXCEPT !.pc = IF ~p.srr THEN "passed" ELSE "dropped"]

EndOfLoop == pkt.pc = "opt" /\ pkt.l = 0 /\ pkt' = Eol(pkt)

\* IPOPT_END: the byte behind it is cleared if it is not zero.
OptEnd(byte) ==
  /\ InLoop
  /\ pkt' = Eol([pkt EXCEPT !.own = pkt.optptr..(pkt.optptr + pkt.l - 1),
                            !.read = pkt.optptr..(pkt.optptr + IF pkt.l > 1 THEN 1 ELSE 0),
                            !.wrote = IF pkt.l > 1 /\ byte # 0 THEN {pkt.optptr + 1} ELSE {}])

OptNoop ==
  /\ InLoop
  /\ pkt' = [pkt EXCEPT !.optptr = @ + 1, !.l = @ - 1,
                        !.own = {pkt.optptr}, !.read = {pkt.optptr}, !.wrote = {}]

\* The bytes at offsets offs of the option at hand.
At(offs) == {pkt.optptr + k : k \in offs}

\* On to the next option, with what was read and written of this one.
Turn(p, optlen, reads, writes) ==
  [p EXCEPT !.optptr = @ + optlen, !.l = @ - optlen,
            !.own = p.optptr..(p.optptr + optlen - 1), !.read = At(reads), !.wrote = At(writes)]

\* Kind and length are read of every option, though one byte may be all that
\* is left; the rest only if the length fits.
Compile(bad, p, optlen, reads, writes) ==
  /\ InLoop
  /\ LET fits   == optlen >= 2 /\ optlen <= pkt.l
         looked == {0, 1} \cup IF fits THEN reads ELSE {}
     IN  pkt' = IF fits /\ ~bad
                  THEN Turn(p, optlen, looked, writes)
                  ELSE [pkt EXCEPT !.pc = "dropped", !.own = {}, !.read = At(looked), !.wrote = {}]

\* IPOPT_SSRR, IPOPT_LSRR
OptSourceRoute(optlen, ptr) ==
  Compile(optlen < 3 \/ ptr < 4 \/ pkt.srr, [pkt EXCEPT !.srr = TRUE], optlen,
          IF optlen < 3 THEN {} ELSE {2}, {})

\* Mutant: the address may end one byte behind the option.
OptRecordRoute_wide(optlen, ptr) ==
  Compile(pkt.rr \/ optlen < 3 \/ ptr < 4 \/ (ptr <= optlen /\ ptr + 2 > optlen),
          [pkt EXCEPT !.rr = TRUE], optlen,
          IF pkt.rr \/ optlen < 3 THEN {} ELSE {2},
          IF ptr <= optlen THEN {2} \cup (ptr - 1)..(ptr + 2) ELSE {})

\* IPOPT_RR: an address is recorded and the pointer moved, if there is room.
OptRecordRoute(optlen, ptr) ==
  Compile(pkt.rr \/ optlen < 3 \/ ptr < 4 \/ (ptr <= optlen /\ ptr + 3 > optlen),
          [pkt EXCEPT !.rr = TRUE], optlen,
          IF pkt.rr \/ optlen < 3 THEN {} ELSE {2},
          IF ptr <= optlen THEN {2} \cup (ptr - 1)..(ptr + 2) ELSE {})

\* IPOPT_TIMESTAMP: flags tells what is recorded; without room the overflow
\* counter goes up.
OptTimestamp(optlen, ptr, flags, overflow) ==
  LET room   == ptr <= optlen
      bad    == \/ pkt.ts \/ optlen < 4 \/ ptr < 5
                \/ room /\ (\/ ptr + 3 > optlen \/ flags \notin {0, 1, 3}
                            \/ flags # 0 /\ ptr + 7 > optlen)
                \/ ~room /\ overflow = 15
      seen   == ~(pkt.ts \/ optlen < 4)
      inside == seen /\ ptr >= 5 /\ ~(room /\ ptr + 3 > optlen)
      addr   == inside /\ room /\ flags = 3 /\ ptr + 7 <= optlen
      reads  == {k \in {2} : seen} \cup {k \in {3} : inside}
                  \cup {k \in (ptr - 1)..(ptr + 2) : addr}
      writes == IF ~room THEN {3}
                ELSE CASE flags = 0 -> {2} \cup (ptr - 1)..(ptr + 2)
                       [] flags = 1 -> {2} \cup (ptr - 1)..(ptr + 6)
                       [] OTHER     -> {}
  IN  Compile(bad, [pkt EXCEPT !.ts = TRUE], optlen, reads, writes)

\* IPOPT_SEC, IPOPT_SID and what is not known.
OptOther(optlen) == Compile(FALSE, pkt, optlen, {}, {})

\* The verdict: on to ip_defrag_stub, or return.
Done == pkt.pc \in {"passed", "dropped"} /\ pkt' = Idle

InputInit == pkt = Idle

InputNext ==
  \/ \E len, ip_len \in CapLens, ip_hl \in 4..MaxHl, ip_v \in {4, 6}, sum \in 0..MaxSum,
        skip \in BOOLEAN : Receive(len, ip_len, ip_hl, ip_v, sum, skip)
  \/ OptNoop \/ EndOfLoop \/ Done
  \/ \E byte \in {0, 1} : OptEnd(byte)
  \/ \E optlen \in 0..(MaxHl * 4 - sizeof_ip + 1) :
       \/ OptOther(optlen)
       \/ \E ptr \in 0..MaxPtr :
            \/ OptSourceRoute(optlen, ptr) \/ OptRecordRoute(optlen, ptr)
            \/ \E flags \in 0..3, overflow \in {0, 15} : OptTimestamp(optlen, ptr, flags, overflow)

-----------------------------------------------------------------------------
(* Properties.                                                             *)

\* Inside the header, and that inside the captured bytes.
InHeader(o) == o \in sizeof_ip..(pkt.ip_hl * 4 - 1) /\ o < pkt.len

\* Whatever pointers and lengths a packet carries, ip_options_compile writes
\* only to the option at hand and reads only from the header, with one
\* exception: of an option whose first byte is the last one of the header it
\* reads the length, one byte behind the header and perhaps behind the captured
\* bytes, and then refuses the packet.  What goes on to ip_defrag has no source
\* route and, unless its checksum is not to be checked, a header whose words
\* add up to zero in ones' complement.
InputSound ==
  /\ pkt.wrote \subseteq pkt.own
  /\ \A o \in pkt.own : InHeader(o)
  /\ \A o \in pkt.read :
       InHeader(o) \/ (o = pkt.ip_hl * 4 /\ pkt.l = 1 /\ pkt.pc = "dropped")
  /\ pkt.pc \in {"opt", "passed"} =>
       /\ pkt.ip_hl * 4 <= pkt.ip_len /\ pkt.ip_len <= pkt.len
       /\ pkt.optptr + pkt.l = pkt.ip_hl * 4 /\ pkt.l >= 0
       /\ pkt.intact
       /\ pkt.pc = "passed" => ~pkt.srr
=============================================================================
