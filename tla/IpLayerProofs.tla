---------------------------- MODULE IpLayerProofs ----------------------------
(***************************************************************************)
(* What a captured packet passes before process_tcp, for every value of    *)
(* the constants.                                                          *)
(*                                                                         *)
(* First the header tests, the header checksum and ip_options_compile      *)
(* (IpInput), for every length of header and packet, every option and      *)
(* every sum.  Then the defragmentation (IpFrag), for every number of      *)
(* hosts and datagrams, every size and every way to cut them: lists and    *)
(* their sums, one queue of fragments, the table of queues with its two    *)
(* loops (expiry, eviction), the way of a fragment to its queue, what is   *)
(* glued, and the steps with FragInv, the inductive invariant.             *)
(***************************************************************************)
EXTENDS IpLayer, SumsProofs, SequenceTheorems, FiniteSetTheorems

-----------------------------------------------------------------------------
(* Headers and options.                                                    *)

\* The packets of the model, with lengths of any size.
Packets ==
  [pc : {"idle", "opt", "passed", "dropped"}, len : Nat, ip_len : Nat, ip_hl : Nat,
   intact : BOOLEAN, optptr : Nat, l : Int, srr : BOOLEAN, rr : BOOLEAN, ts : BOOLEAN,
   own : SUBSET Nat, read : SUBSET Nat, wrote : SUBSET Nat]

\* The inductive invariant: the options are read from the end of the fixed
\* header on.
IInv ==
  /\ pkt \in Packets /\ InputSound
  /\ pkt.pc \in {"opt", "passed"} => pkt.optptr >= sizeof_ip

\* Quotient and remainder, both ways.
LEMMA Division ==
  ASSUME NEW N \in Int, N > 0, NEW n \in Int
  PROVE  n \div N \in Int /\ n % N \in 0..(N - 1) /\ n = N * (n \div N) + (n % N)
OBVIOUS

\* And the other way: they are known by the range of the remainder.
LEMMA Remainder ==
  ASSUME NEW N \in Int, N > 0, NEW q \in Int, NEW r \in 0..(N - 1), NEW n \in Int, n = N * q + r
  PROVE  n % N = r /\ n \div N = q
OBVIOUS

\* Two foldings are enough: if ip_check_ext gives 0 the words add up to zero
\* in ones' complement, and they are not all zero.
LEMMA ChecksumIsZero ==
  ASSUME NEW sum \in 0..MaxSum, ip_check_ext(sum) = 0
  PROVE  Intact(sum)
<1> DEFINE R  == Radix
           q  == sum \div R
           r  == sum % R
           s1 == q + r
           s2 == s1 + (s1 \div R)
<1>1. R \in Int /\ R > 1 /\ sum \in Int /\ sum >= 0 /\ sum < R * R
  BY IpInputAssumption
<1>2. R - 1 - (s2 % R) = 0
  BY DEF ip_check_ext
<1> HIDE DEF R
<1>3. q \in Int /\ r \in 0..(R - 1) /\ sum = R * q + r
  BY <1>1, Division
<1> HIDE DEF q, r
<1>4. q >= 0 /\ q < R
  <2>1. CASE q < 0
    <3>1. R * q <= R * (-1)
      BY <1>1, <1>3, <2>1
    <3> QED BY <1>1, <1>3, <3>1
  <2>2. CASE q >= R
    <3>1. R * q >= R * R
      BY <1>1, <1>3, <2>2
    <3> QED BY <1>1, <1>3, <3>1
  <2> QED BY <1>1, <1>3, <2>1, <2>2
<1>5. s1 \in Int /\ s1 >= 0 /\ s1 <= 2 * R - 2
  BY <1>1, <1>3, <1>4
<1>6. s1 = R - 1 \/ s1 = 2 * R - 2
  <2> HIDE DEF s1
  <2>1. CASE s1 < R
    <3>1. s1 \div R = 0 /\ s1 % R = s1
      <4>1. s1 = R * 0 + s1 /\ s1 \in 0..(R - 1)
        BY <1>1, <1>5, <2>1
      <4> QED BY <1>1, <1>5, <4>1, Remainder
    <3>2. s2 % R = s1
      BY <1>5, <3>1
    <3> QED BY <1>1, <1>2, <1>5, <3>2
  <2>2. CASE s1 >= R
    <3>1. s1 \div R = 1
      <4>1. s1 = R * 1 + (s1 - R) /\ s1 - R \in 0..(R - 1)
        BY <1>1, <1>5, <2>2
      <4> QED BY <1>1, <1>5, <4>1, Remainder
    <3>2. s2 = R * 1 + (s1 + 1 - R) /\ s1 + 1 - R \in 0..(R - 1) /\ s2 \in Int
      BY <1>1, <1>5, <2>2, <3>1
    <3>3. s2 % R = s1 + 1 - R
      <4> HIDE DEF s2
      <4> QED BY <1>1, <3>2, Remainder
    <3> QED BY <1>1, <1>2, <1>5, <3>3
  <2> QED BY <1>1, <1>5, <2>1, <2>2
<1>7. PICK k \in {1, 2} : s1 = k * (R - 1)
  BY <1>1, <1>6
<1>8. sum = (R - 1) * (q + k) + 0 /\ sum > 0
  <2>1. sum = (R - 1) * q + s1
    BY <1>1, <1>3, <1>4
  <2>2. sum = (R - 1) * q + (R - 1) * k
    BY <1>1, <1>3, <1>7, <2>1
  <2>3. (R - 1) * q >= 0
    BY <1>1, <1>3, <1>4
  <2> QED BY <1>1, <1>3, <1>7, <2>2, <2>3
<1>9. sum % (R - 1) = 0
  <2> DEFINE M == R - 1
             m == q + k
  <2>1. M \in Int /\ M > 0 /\ m \in Int /\ 0 \in 0..(M - 1) /\ sum \in Int /\ sum = M * m + 0
    BY <1>1, <1>3, <1>8
  <2> HIDE DEF M, m
  <2>2. sum % M = 0
    BY <2>1, Remainder
  <2> QED BY <2>2 DEF M
<1> QED BY <1>8, <1>9 DEF Intact, R

-----------------------------------------------------------------------------

\* A packet that is taken on had its header checked, or is not to be checked.
LEMMA Received ==
  ASSUME IInv, NEW len \in CapLens, NEW ip_len \in CapLens, NEW ip_hl \in 4..MaxHl,
         NEW ip_v \in {4, 6}, NEW sum \in 0..MaxSum, NEW skip \in BOOLEAN,
         Receive(len, ip_len, ip_hl, ip_v, sum, skip)
  PROVE  IInv'
<1> DEFINE bad == \/ len < sizeof_ip \/ ip_hl < 5 \/ ip_v # 4
                  \/ ip_fast_csum(sum, skip) # 0
                  \/ len < ip_len \/ ip_len < ip_hl * 4
           ok  == skip \/ Intact(sum)
           c   == IF bad THEN "dropped" ELSE IF ip_hl > 5 THEN "opt" ELSE "passed"
<1>1. len \in Nat /\ ip_len \in Nat /\ ip_hl \in Nat /\ ip_hl >= 4 /\ ip_hl * 4 \in Nat
  BY IpInputAssumption
<1>2. ~bad => ok
  <2>1. CASE skip
    BY <2>1
  <2>2. CASE ~skip
    <3>1. ~bad => ip_check_ext(sum) = 0
      BY <2>2 DEF ip_fast_csum
    <3> QED BY <3>1, ChecksumIsZero
  <2> QED BY <2>1, <2>2
<1>3. ok \in BOOLEAN /\ (c # "dropped" => ~bad) /\ c \in {"dropped", "opt", "passed"}
  <2>1. ok \in BOOLEAN
    BY Zenon DEF Intact
  <2> HIDE DEF bad, ok
  <2>2. (bad => c = "dropped") /\ (~bad => c \in {"opt", "passed"})
    OBVIOUS
  <2> QED BY <2>1, <2>2
<1>4. ~bad => ip_hl >= 5 /\ ip_hl * 4 <= ip_len /\ ip_len <= len
  BY <1>1
<1>5. pkt' = [Idle EXCEPT !.pc = c, !.len = len, !.ip_len = ip_len, !.ip_hl = ip_hl,
                          !.intact = ok, !.optptr = sizeof_ip, !.l = ip_hl * 4 - sizeof_ip]
  BY DEF Receive
<1> HIDE DEF bad, ok, c
<1>6. /\ pkt'.pc = c /\ pkt'.len = len /\ pkt'.ip_len = ip_len /\ pkt'.ip_hl = ip_hl
      /\ pkt'.intact = ok /\ pkt'.optptr = 20 /\ pkt'.l = ip_hl * 4 - 20
      /\ pkt'.own = {} /\ pkt'.read = {} /\ pkt'.wrote = {} /\ pkt'.srr = FALSE
  BY <1>5 DEF Idle, sizeof_ip
<1>7. pkt' \in Packets
  <2>1. sizeof_ip \in Nat /\ ip_hl * 4 - sizeof_ip \in Int
    BY <1>1 DEF sizeof_ip
  <2>2. Idle \in Packets
    BY DEF Idle, Packets
  <2> QED BY <1>1, <1>3, <1>5, <2>1, <2>2 DEF Packets
<1>8. InputSound'
  BY <1>1, <1>2, <1>3, <1>4, <1>6 DEF InputSound
<1> QED BY <1>6, <1>7, <1>8 DEF IInv, sizeof_ip

\* The end of the options, however it is reached.
LEMMA Ended ==
  ASSUME IInv, pkt.pc = "opt", NEW byte \in {0, 1},
         EndOfLoop \/ OptEnd(byte)
  PROVE  IInv'
<1> DEFINE c == IF ~pkt.srr THEN "passed" ELSE "dropped"
<1>1. /\ pkt \in Packets /\ InputSound /\ pkt.optptr >= 20
      /\ c \in {"passed", "dropped"} /\ (c = "passed" => ~pkt.srr)
  BY DEF IInv, sizeof_ip
<1> HIDE DEF c
<1>2. CASE EndOfLoop
  <2>1. pkt' = [pkt EXCEPT !.pc = c]
    BY <1>2 DEF EndOfLoop, Eol, c
  <2>2. pkt' \in Packets
    BY <1>1, <2>1 DEF Packets
  <2>3. /\ pkt'.pc = c /\ pkt'.len = pkt.len /\ pkt'.ip_len = pkt.ip_len /\ pkt'.ip_hl = pkt.ip_hl
        /\ pkt'.intact = pkt.intact /\ pkt'.optptr = pkt.optptr /\ pkt'.l = pkt.l
        /\ pkt'.own = pkt.own /\ pkt'.read = pkt.read /\ pkt'.wrote = pkt.wrote
        /\ pkt'.srr = pkt.srr
    BY <1>1, <2>1 DEF Packets
  <2>4. \A x \in pkt.read : InHeader(x)
    BY <1>1 DEF InputSound
  <2> QED BY <1>1, <2>2, <2>3, <2>4 DEF IInv, InputSound, InHeader, sizeof_ip
<1>3. CASE OptEnd(byte)
  <2> DEFINE o == pkt.optptr..(pkt.optptr + pkt.l - 1)
             w == IF pkt.l > 1 /\ byte # 0 THEN {pkt.optptr + 1} ELSE {}
             r == pkt.optptr..(pkt.optptr + IF pkt.l > 1 THEN 1 ELSE 0)
  <2>1. pkt' = [pkt EXCEPT !.pc = c, !.own = o, !.read = r, !.wrote = w]
    <3>1. pkt' = Eol([pkt EXCEPT !.own = o, !.read = r, !.wrote = w])
      BY <1>3 DEF OptEnd
    <3> HIDE DEF o, w, r
    <3>2. [pkt EXCEPT !.own = o, !.read = r, !.wrote = w].srr = pkt.srr
      BY <1>1 DEF Packets
    <3> QED BY <1>1, <3>1, <3>2 DEF Eol, c, Packets
  <2>2. pkt.optptr \in Nat /\ pkt.l \in Int /\ pkt.l > 0 /\ pkt.len \in Nat /\ pkt.ip_hl \in Nat
        /\ pkt.ip_len \in Nat
    BY <1>1, <1>3 DEF Packets, OptEnd, InLoop
  <2>3. o \in SUBSET Nat /\ w \subseteq o /\ r \subseteq o
    BY <2>2
  <2>4. \A x \in o : x \in 20..(pkt.ip_hl * 4 - 1) /\ x < pkt.len
    BY <1>1, <2>2 DEF InputSound
  <2> HIDE DEF o, w, r
  <2>5. pkt' \in Packets
    BY <1>1, <2>1, <2>3 DEF Packets
  <2>6. /\ pkt'.pc = c /\ pkt'.len = pkt.len /\ pkt'.ip_len = pkt.ip_len /\ pkt'.ip_hl = pkt.ip_hl
        /\ pkt'.intact = pkt.intact /\ pkt'.optptr = pkt.optptr /\ pkt'.l = pkt.l
        /\ pkt'.own = o /\ pkt'.read = r /\ pkt'.wrote = w /\ pkt'.srr = pkt.srr
    BY <1>1, <2>1 DEF Packets
  <2> QED BY <1>1, <2>3, <2>4, <2>5, <2>6 DEF IInv, InputSound, InHeader, sizeof_ip
<1> QED BY <1>2, <1>3

\* One option is passed over: n bytes, of which those in r were read and those
\* in w written.  The rest of the packet is as it was, but for what was seen of
\* options.
Passes(p, n, r, w) ==
  /\ p \in Packets /\ p.pc = "opt"
  /\ p.len = pkt.len /\ p.ip_len = pkt.ip_len /\ p.ip_hl = pkt.ip_hl /\ p.intact = pkt.intact
  /\ p.optptr = pkt.optptr + n /\ p.l = pkt.l - n
  /\ p.own = pkt.optptr..(pkt.optptr + n - 1) /\ p.read = r /\ p.wrote = w

\* An option that is not longer than what is left, and for which nothing
\* outside is read or written, keeps everything sound.
LEMMA Passed ==
  ASSUME IInv, pkt.pc = "opt", NEW n \in Nat, n > 0, n <= pkt.l,
         NEW r \in SUBSET (pkt.optptr..(pkt.optptr + n - 1)),
         NEW w \in SUBSET (pkt.optptr..(pkt.optptr + n - 1)), Passes(pkt', n, r, w)
  PROVE  IInv'
<1>1. pkt.optptr \in Nat /\ pkt.l \in Int /\ pkt.len \in Nat /\ pkt.ip_hl \in Nat
      /\ pkt.ip_len \in Nat /\ pkt.optptr >= 20
  BY DEF IInv, Packets, sizeof_ip
<1>2. /\ pkt.ip_hl * 4 <= pkt.ip_len /\ pkt.ip_len <= pkt.len
      /\ pkt.optptr + pkt.l = pkt.ip_hl * 4 /\ pkt.intact
  BY DEF IInv, InputSound
<1>3. \A x \in pkt'.own : x \in 20..(pkt'.ip_hl * 4 - 1) /\ x < pkt'.len
  <2> DEFINE o == pkt.optptr
             l == pkt.l
             e == pkt.ip_hl * 4
             m == pkt.len
  <2>1. o \in Int /\ l \in Int /\ e \in Int /\ m \in Int /\ o + l = e /\ o >= 20 /\ n <= l /\ e <= m
    BY <1>1, <1>2
  <2>2. pkt'.own = o..(o + n - 1) /\ pkt'.ip_hl * 4 = e /\ pkt'.len = m
    BY DEF Passes
  <2> HIDE DEF o, l, e, m
  <2>3. \A x \in o..(o + n - 1) : x \in 20..(e - 1) /\ x < m
    BY <2>1
  <2> QED BY <2>2, <2>3
<1>4. pkt'.optptr + pkt'.l = pkt'.ip_hl * 4 /\ pkt'.l >= 0 /\ pkt'.optptr >= 20
  <2> DEFINE o == pkt.optptr
             l == pkt.l
             e == pkt.ip_hl * 4
  <2>1. o \in Int /\ l \in Int /\ e \in Int /\ o + l = e /\ o >= 20 /\ n <= l
    BY <1>1, <1>2
  <2>2. pkt'.optptr = o + n /\ pkt'.l = l - n /\ pkt'.ip_hl * 4 = e
    BY DEF Passes
  <2> HIDE DEF o, l, e
  <2>3. (o + n) + (l - n) = e /\ l - n >= 0 /\ o + n >= 20
    BY <2>1
  <2> QED BY <2>2, <2>3
<1>5. pkt'.wrote \subseteq pkt'.own /\ pkt'.read \subseteq pkt'.own
  BY DEF Passes
<1>6. InputSound'
  BY <1>2, <1>3, <1>4, <1>5 DEF InputSound, InHeader, Passes, sizeof_ip
<1> QED BY <1>4, <1>6 DEF IInv, Passes, sizeof_ip

\* IPOPT_NOOP is one byte, and nothing is written.
LEMMA Skipped ==
  ASSUME IInv, OptNoop
  PROVE  IInv'
<1>1. /\ pkt \in Packets /\ pkt.pc = "opt" /\ pkt.l > 0
      /\ pkt' = [pkt EXCEPT !.optptr = pkt.optptr + 1, !.l = pkt.l - 1,
                            !.own = {pkt.optptr}, !.read = {pkt.optptr}, !.wrote = {}]
  BY DEF IInv, OptNoop, InLoop
<1>2. pkt.optptr \in Nat /\ pkt.l \in Int
  BY <1>1 DEF Packets
<1>3. pkt.optptr..(pkt.optptr + 1 - 1) = {pkt.optptr} /\ pkt.optptr + 1 \in Nat
      /\ pkt.l - 1 \in Int /\ {pkt.optptr} \in SUBSET Nat
  BY <1>2
<1>4. pkt' \in Packets
  BY <1>1, <1>3 DEF Packets
<1>5. Passes(pkt', 1, {pkt.optptr}, {})
  BY <1>1, <1>3, <1>4 DEF Passes, Packets
<1>6. /\ 1 > 0 /\ 1 <= pkt.l /\ 1 \in Nat
      /\ {} \in SUBSET (pkt.optptr..(pkt.optptr + 1 - 1))
      /\ {pkt.optptr} \in SUBSET (pkt.optptr..(pkt.optptr + 1 - 1))
  BY <1>1, <1>2, <1>3
<1> QED BY <1>1, <1>5, <1>6, Passed

\* The packet is refused because of an option of which the bytes at offsets r
\* were read.
Refuses(p, r) ==
  /\ p \in Packets /\ p.pc = "dropped" /\ p.own = {} /\ p.read = At(r) /\ p.wrote = {}
  /\ p.len = pkt.len /\ p.ip_hl = pkt.ip_hl /\ p.l = pkt.l

\* What is read of an option that is refused: from the header, but for a
\* length behind its last byte.
LEMMA Refused ==
  ASSUME IInv, pkt.pc = "opt", pkt.l > 0, NEW r \in SUBSET Nat,
         \A k \in r : k < pkt.l \/ k = 1, Refuses(pkt', r)
  PROVE  IInv'
<1>1. pkt \in Packets /\ pkt.optptr >= 20
  BY DEF IInv, sizeof_ip
<1>2. pkt.optptr \in Nat /\ pkt.l \in Int /\ pkt.len \in Nat /\ pkt.ip_hl \in Nat /\ pkt.ip_len \in Nat
  BY <1>1 DEF Packets
<1>3. pkt.ip_hl * 4 <= pkt.ip_len /\ pkt.ip_len <= pkt.len /\ pkt.optptr + pkt.l = pkt.ip_hl * 4
  BY DEF IInv, InputSound
<1>4. ASSUME NEW x \in At(r)
      PROVE  \/ x \in 20..(pkt.ip_hl * 4 - 1) /\ x < pkt.len
             \/ x = pkt.ip_hl * 4 /\ pkt.l = 1
  <2>1. PICK k \in r : x = pkt.optptr + k
    BY DEF At
  <2>2. k \in Nat /\ (k < pkt.l \/ (k = 1 /\ pkt.l = 1))
    BY <1>2, <2>1
  <2> DEFINE o == pkt.optptr
             l == pkt.l
             e == pkt.ip_hl * 4
             m == pkt.len
  <2>3. o \in Int /\ l \in Int /\ e \in Int /\ m \in Int /\ o + l = e /\ o >= 20 /\ e <= m /\ x = o + k
    BY <1>1, <1>2, <1>3, <2>1
  <2>4. k < l \/ (k = 1 /\ l = 1)
    BY <2>2
  <2> HIDE DEF o, l, e, m
  <2>5. (x \in 20..(e - 1) /\ x < m) \/ (x = e /\ l = 1)
    BY <2>2, <2>3, <2>4
  <2> QED BY <2>5 DEF e, l, m
<1>5. InputSound'
  BY <1>4 DEF Refuses, InputSound, InHeader, sizeof_ip
<1> QED BY <1>5 DEF Refuses, IInv

\* The packet, but for what was seen of options.
Agrees(p) ==
  /\ p \in Packets /\ p.pc = pkt.pc /\ p.optptr = pkt.optptr /\ p.l = pkt.l
  /\ p.len = pkt.len /\ p.ip_len = pkt.ip_len /\ p.ip_hl = pkt.ip_hl /\ p.intact = pkt.intact

\* An option with a length keeps everything sound when what it reads and
\* writes is within its length.
LEMMA Compiled ==
  ASSUME IInv, NEW bad, NEW p, Agrees(p), NEW optlen \in Nat, NEW reads, NEW writes,
         optlen >= 2 => reads \in SUBSET (0..(optlen - 1)),
         ~bad /\ optlen >= 2 => writes \in SUBSET (0..(optlen - 1)),
         Compile(bad, p, optlen, reads, writes)
  PROVE  IInv'
<1> DEFINE fits   == optlen >= 2 /\ optlen <= pkt.l
           looked == {0, 1} \cup IF fits THEN reads ELSE {}
<1>1. /\ pkt \in Packets /\ InputSound /\ pkt.pc = "opt" /\ pkt.l > 0
  BY DEF IInv, Compile, InLoop
<1>2. pkt.optptr \in Nat /\ pkt.l \in Int
  BY <1>1 DEF Packets
<1>3. pkt' = IF fits /\ ~bad
               THEN Turn(p, optlen, looked, writes)
               ELSE [pkt EXCEPT !.pc = "dropped", !.own = {}, !.read = At(looked), !.wrote = {}]
  BY DEF Compile
<1>4. /\ looked \in SUBSET Nat
      /\ fits => looked \in SUBSET (0..(optlen - 1))
      /\ \A k \in looked : k < pkt.l \/ k = 1
  <2>1. CASE fits
    <3>1. reads \in SUBSET (0..(optlen - 1)) /\ looked = {0, 1} \cup reads /\ optlen <= pkt.l
      BY <2>1
    <3>2. looked \in SUBSET (0..(optlen - 1))
      BY <2>1, <3>1
    <3>3. \A k \in 0..(optlen - 1) : k \in Nat /\ k < pkt.l
      BY <1>2, <3>1
    <3> QED BY <3>2, <3>3
  <2>2. CASE ~fits
    <3>1. looked = {0, 1}
      BY <2>2
    <3> QED BY <1>1, <1>2, <2>2, <3>1
  <2> QED BY <2>1, <2>2
<1> HIDE DEF looked
<1>5. CASE ~(fits /\ ~bad)
  <2>1. pkt' = [pkt EXCEPT !.pc = "dropped", !.own = {}, !.read = At(looked), !.wrote = {}]
    BY <1>3, <1>5
  <2>2. At(looked) \in SUBSET Nat
    BY <1>2, <1>4 DEF At
  <2>3. pkt' \in Packets
    BY <1>1, <2>1, <2>2 DEF Packets
  <2>4. Refuses(pkt', looked)
    BY <1>1, <2>1, <2>3 DEF Refuses, Packets
  <2> QED BY <1>1, <1>4, <2>4, Refused
<1>6. CASE fits /\ ~bad
  <2> DEFINE w == At(writes)
             q == At(looked)
             o == pkt.optptr..(pkt.optptr + optlen - 1)
             a == pkt.optptr + optlen
             d == pkt.l - optlen
  <2>1. pkt' = Turn(p, optlen, looked, writes)
    BY <1>3, <1>6
  <2>2. p.optptr = pkt.optptr /\ p.l = pkt.l /\ p \in Packets /\ p.pc = "opt" /\ p.len = pkt.len
        /\ p.ip_len = pkt.ip_len /\ p.ip_hl = pkt.ip_hl /\ p.intact = pkt.intact
    BY <1>1 DEF Agrees
  <2>3. pkt' = [p EXCEPT !.optptr = a, !.l = d, !.own = o, !.read = q, !.wrote = w]
    BY <2>1, <2>2 DEF Turn
  <2>4. a \in Nat /\ d \in Int /\ o \in SUBSET Nat
    BY <1>2, <1>6
  <2>5. \A x \in SUBSET (0..(optlen - 1)) : At(x) \in SUBSET o
    BY <1>2 DEF At
  <2>6. w \in SUBSET o /\ q \in SUBSET o
    BY <1>4, <1>6, <2>5
  <2> HIDE DEF a, d, o, w, q
  <2>7. pkt' \in Packets
    BY <2>2, <2>3, <2>4, <2>6 DEF Packets
  <2>8. Passes(pkt', optlen, q, w)
    <3>1. pkt'.optptr = a /\ pkt'.l = d /\ pkt'.own = o /\ pkt'.read = q /\ pkt'.wrote = w
      BY <2>2, <2>3 DEF Packets
    <3>2. pkt'.pc = "opt" /\ pkt'.len = pkt.len /\ pkt'.ip_len = pkt.ip_len
          /\ pkt'.ip_hl = pkt.ip_hl /\ pkt'.intact = pkt.intact
      BY <2>2, <2>3 DEF Packets
    <3> QED BY <2>7, <3>1, <3>2 DEF Passes, a, d, o
  <2>9. optlen > 0 /\ optlen <= pkt.l
    BY <1>2, <1>6
  <2> QED BY <1>1, <2>6, <2>8, <2>9, Passed DEF o
<1> QED BY <1>5, <1>6

\* What each kind of option reads and writes lies within its length: the tests
\* on the pointer are exactly as wide as the record they admit.
LEMMA OptionsCompiled ==
  ASSUME IInv, NEW optlen \in Nat, NEW ptr \in Nat, NEW flags, NEW overflow,
         \/ OptOther(optlen) \/ OptSourceRoute(optlen, ptr) \/ OptRecordRoute(optlen, ptr)
         \/ OptTimestamp(optlen, ptr, flags, overflow)
  PROVE  IInv'
<1>1. pkt \in Packets /\ pkt.srr \in BOOLEAN /\ pkt.rr \in BOOLEAN /\ pkt.ts \in BOOLEAN
  BY DEF IInv, Packets
<1>2. Agrees(pkt) /\ Agrees([pkt EXCEPT !.srr = TRUE]) /\ Agrees([pkt EXCEPT !.rr = TRUE])
      /\ Agrees([pkt EXCEPT !.ts = TRUE])
  BY <1>1 DEF Agrees, Packets
<1>3. CASE OptOther(optlen)
  <2>1. Compile(FALSE, pkt, optlen, {}, {})
    BY <1>3 DEF OptOther
  <2> QED BY <1>2, <2>1, Compiled
<1>4. CASE OptSourceRoute(optlen, ptr)
  <2> DEFINE p     == [pkt EXCEPT !.srr = TRUE]
             bad   == optlen < 3 \/ ptr < 4 \/ pkt.srr
             reads == IF optlen < 3 THEN {} ELSE {2}
  <2>1. Compile(bad, p, optlen, reads, {})
    BY <1>4 DEF OptSourceRoute
  <2>2. reads \in SUBSET (0..(optlen - 1))
    OBVIOUS
  <2>3. Agrees(p)
    BY <1>2
  <2> HIDE DEF p, bad, reads
  <2> QED BY <2>1, <2>2, <2>3, Compiled
<1>5. CASE OptRecordRoute(optlen, ptr)
  <2> DEFINE p      == [pkt EXCEPT !.rr = TRUE]
             bad    == pkt.rr \/ optlen < 3 \/ ptr < 4 \/ (ptr <= optlen /\ ptr + 3 > optlen)
             reads  == IF pkt.rr \/ optlen < 3 THEN {} ELSE {2}
             writes == IF ptr <= optlen THEN {2} \cup (ptr - 1)..(ptr + 2) ELSE {}
  <2>1. Compile(bad, p, optlen, reads, writes)
    BY <1>5 DEF OptRecordRoute
  <2>2. ~bad /\ optlen >= 2 => writes \in SUBSET (0..(optlen - 1))
    OBVIOUS
  <2>3. reads \in SUBSET (0..(optlen - 1))
    OBVIOUS
  <2>4. Agrees(p)
    BY <1>2
  <2> HIDE DEF p, bad, reads, writes
  <2> QED BY <2>1, <2>2, <2>3, <2>4, Compiled
<1>6. CASE OptTimestamp(optlen, ptr, flags, overflow)
  <2> DEFINE p    == [pkt EXCEPT !.ts = TRUE]
             room == ptr <= optlen
             bad  == \/ pkt.ts \/ optlen < 4 \/ ptr < 5
                     \/ room /\ (\/ ptr + 3 > optlen \/ flags \notin {0, 1, 3}
                                 \/ flags # 0 /\ ptr + 7 > optlen)
                     \/ ~room /\ overflow = 15
             seen   == ~(pkt.ts \/ optlen < 4)
             inside == seen /\ ptr >= 5 /\ ~(room /\ ptr + 3 > optlen)
             addr   == inside /\ room /\ flags = 3 /\ ptr + 7 <= optlen
             reads  == {k \in {2} : seen} \cup {k \in {3} : inside}
                         \cup {k \in (ptr - 1)..(ptr + 2) : addr}
             offs   == IF ~room THEN {3}
                       ELSE CASE flags = 0 -> {2} \cup (ptr - 1)..(ptr + 2)
                              [] flags = 1 -> {2} \cup (ptr - 1)..(ptr + 6)
                              [] OTHER     -> {}
  <2>1. Compile(bad, p, optlen, reads, offs)
    BY <1>6 DEF OptTimestamp
  <2>2. ~bad => offs \in SUBSET (0..(optlen - 1))
    <3> SUFFICES ASSUME ~bad PROVE offs \in SUBSET (0..(optlen - 1))
      OBVIOUS
    <3>1. optlen >= 4 /\ ptr >= 5 /\ (room => ptr + 3 <= optlen)
          /\ (room /\ flags # 0 => ptr + 7 <= optlen)
      OBVIOUS
    <3> HIDE DEF bad
    <3>2. CASE ~room
      <4>1. offs = {3}
        BY <3>2
      <4> QED BY <3>1, <4>1
    <3>3. CASE room /\ flags = 0
      <4>1. offs = {2} \cup (ptr - 1)..(ptr + 2)
        BY <3>3
      <4> QED BY <3>1, <3>3, <4>1
    <3>4. CASE room /\ flags = 1
      <4>1. offs = {2} \cup (ptr - 1)..(ptr + 6)
        BY <3>4
      <4> QED BY <3>1, <3>4, <4>1
    <3>5. CASE room /\ flags # 0 /\ flags # 1
      <4>1. offs = {}
        BY <3>5
      <4> QED BY <4>1
    <3> QED BY <3>2, <3>3, <3>4, <3>5
  <2>3. reads \in SUBSET (0..(optlen - 1))
    <3>1. {k \in {2} : seen} \subseteq 0..(optlen - 1)
      OBVIOUS
    <3>2. {k \in {3} : inside} \subseteq 0..(optlen - 1)
      OBVIOUS
    <3>3. addr => (ptr - 1)..(ptr + 2) \subseteq 0..(optlen - 1)
      OBVIOUS
    <3> HIDE DEF seen, inside, addr
    <3> QED BY <3>1, <3>2, <3>3
  <2>4. Agrees(p)
    BY <1>2
  <2> HIDE DEF p, bad, reads, offs
  <2> QED BY <2>1, <2>2, <2>3, <2>4, Compiled
<1> QED BY <1>3, <1>4, <1>5, <1>6

\* No packet is at hand, or no longer.
LEMMA IdleIsSound ==
  ASSUME pkt = Idle
  PROVE  IInv
BY DEF IInv, InputSound, Packets, Idle

\* Every step on a packet, and every step on the fragments, keeps it.
LEMMA Inductive ==
  ASSUME IInv, [LayerNext]_<<vars, pkt>>
  PROVE  IInv'
<1>1. CASE UNCHANGED pkt
  BY <1>1 DEF IInv, InputSound, InHeader
<1>2. CASE InputNext
  <2>1. ASSUME NEW len \in CapLens, NEW ip_len \in CapLens, NEW ip_hl \in 4..MaxHl,
               NEW ip_v \in {4, 6}, NEW sum \in 0..MaxSum, NEW skip \in BOOLEAN,
               Receive(len, ip_len, ip_hl, ip_v, sum, skip)
        PROVE  IInv'
    BY <2>1, Received
  <2>2. CASE OptNoop
    BY <2>2, Skipped
  <2>3. CASE EndOfLoop
    <3>1. pkt.pc = "opt"
      BY <2>3 DEF EndOfLoop
    <3> QED BY <2>3, <3>1, Ended
  <2>4. CASE Done
    <3>1. (pkt = Idle)'
      BY <2>4 DEF Done, Idle
    <3> QED BY <3>1 DEF IInv, InputSound, Packets, Idle
  <2>5. ASSUME NEW byte \in {0, 1}, OptEnd(byte)
        PROVE  IInv'
    <3>1. pkt.pc = "opt"
      BY <2>5 DEF OptEnd, InLoop
    <3> QED BY <2>5, <3>1, Ended
  <2>6. ASSUME NEW optlen \in 0..(MaxHl * 4 - sizeof_ip + 1),
               \/ OptOther(optlen)
               \/ \E ptr \in 0..MaxPtr :
                    \/ OptSourceRoute(optlen, ptr) \/ OptRecordRoute(optlen, ptr)
                    \/ \E flags \in 0..3, overflow \in {0, 15} :
                         OptTimestamp(optlen, ptr, flags, overflow)
        PROVE  IInv'
    <3>1. optlen \in Nat /\ 0..MaxPtr \subseteq Nat /\ 0 \in Nat
      BY IpInputAssumption DEF sizeof_ip
    <3>2. CASE OptOther(optlen)
      BY <3>1, <3>2, OptionsCompiled
    <3>3. ASSUME NEW ptr \in 0..MaxPtr,
                 \/ OptSourceRoute(optlen, ptr) \/ OptRecordRoute(optlen, ptr)
                 \/ \E flags \in 0..3, overflow \in {0, 15} :
                      OptTimestamp(optlen, ptr, flags, overflow)
          PROVE  IInv'
      <4>1. ptr \in Nat
        BY <3>1
      <4> QED BY <3>1, <3>3, <4>1, OptionsCompiled
    <3> QED BY <2>6, <3>2, <3>3
  <2> QED BY <1>2, <2>1, <2>2, <2>3, <2>4, <2>5, <2>6 DEF InputNext
<1> QED BY <1>1, <1>2 DEF LayerNext

\* Whatever lengths and pointers a packet carries, ip_options_compile writes
\* only to the option at hand, which lies inside the header and inside what was
\* captured, and reads only from the header, or one byte behind it: the length
\* of an option of which one byte is left, which it then refuses.  A packet
\* that goes on to ip_defrag has no source route and, unless its checksum is
\* not to be checked, a header that adds up.
THEOREM OptionsStayInHeader == LayerSpec => []InputSound
<1>1. LayerInit => IInv
  BY IdleIsSound DEF LayerInit, InputInit
<1>2. IInv /\ [LayerNext]_<<vars, pkt>> => IInv'
  BY Inductive
<1>3. IInv => InputSound
  BY DEF IInv
<1> QED BY <1>1, <1>2, <1>3, PTL DEF LayerSpec

-----------------------------------------------------------------------------
(* Lists and sums.                                                         *)

\* A list with the members of D, each once.
Lists(s, D) ==
  /\ s \in Seq(Datagrams)
  /\ \A i, j \in 1..Len(s) : s[i] = s[j] => i = j
  /\ ToSet(s) = D

\* A sequence without its i-th element.
LEMMA Removed ==
  ASSUME NEW S, NEW s \in Seq(S), NEW i \in 1..Len(s)
  PROVE  /\ RemoveAt(s, i) \in Seq(S) /\ Len(RemoveAt(s, i)) = Len(s) - 1
         /\ \A k \in 1..(Len(s) - 1) : RemoveAt(s, i)[k] = IF k < i THEN s[k] ELSE s[k + 1]
<1> DEFINE a == SubSeq(s, 1, i - 1)
           b == SubSeq(s, i + 1, Len(s))
<1>1. Len(s) \in Nat /\ \A k \in 1..Len(s) : s[k] \in S
  OBVIOUS
<1>2. a \in Seq(S) /\ Len(a) = i - 1 /\ \A k \in 1..(i - 1) : a[k] = s[k]
  <2>1. \A k \in 1..(i - 1) : s[k] \in S
    BY <1>1
  <2> QED BY <1>1, <2>1, SubSeqProperties
<1>3. b \in Seq(S) /\ Len(b) = Len(s) - i /\ \A k \in 1..(Len(s) - i) : b[k] = s[k + i]
  <2>1. \A k \in (i + 1)..Len(s) : s[k] \in S
    BY <1>1
  <2>2. b \in Seq(S) /\ Len(b) = (IF i + 1 <= Len(s) THEN Len(s) - (i + 1) + 1 ELSE 0)
    BY <1>1, <2>1, SubSeqProperties
  <2>3. \A k \in 1..(Len(s) - (i + 1) + 1) : b[k] = s[(i + 1) + k - 1]
    BY <1>1, <2>1, SubSeqProperties
  <2> QED BY <1>1, <2>2, <2>3
<1> HIDE DEF a, b
<1>4. RemoveAt(s, i) = a \o b
  BY DEF RemoveAt, a, b
<1>5. a \o b \in Seq(S) /\ Len(a \o b) = Len(s) - 1
  <2>1. a \o b \in Seq(S) /\ Len(a \o b) = Len(a) + Len(b)
    BY <1>2, <1>3, ConcatProperties
  <2> QED BY <1>1, <1>2, <1>3, <2>1
<1>6. \A k \in 1..(Len(s) - 1) : (a \o b)[k] = IF k <= i - 1 THEN a[k] ELSE b[k - (i - 1)]
  <2>1. \A k \in 1..(Len(a) + Len(b)) : (a \o b)[k] = IF k <= Len(a) THEN a[k] ELSE b[k - Len(a)]
    BY <1>2, <1>3, ConcatProperties
  <2>2. Len(a) + Len(b) = Len(s) - 1
    BY <1>1, <1>2, <1>3
  <2> QED BY <1>2, <2>1, <2>2
<1>7. \A k \in 1..(Len(s) - 1) : (a \o b)[k] = IF k < i THEN s[k] ELSE s[k + 1]
  BY <1>1, <1>2, <1>3, <1>6
<1> QED BY <1>4, <1>5, <1>7

\* RemoveFirst takes the one place of a member out.
LEMMA RemovedFirst ==
  ASSUME NEW D, NEW s, Lists(s, D), NEW d \in D
  PROVE  \E i \in 1..Len(s) : s[i] = d /\ RemoveFirst(s, d) = RemoveAt(s, i)
<1> DEFINE I == {i \in 1..Len(s) : s[i] = d}
<1>1. PICK i \in 1..Len(s) : s[i] = d
  BY DEF Lists, ToSet
<1>2. I = {i}
  BY <1>1 DEF Lists
<1>3. i \in Int /\ Min(I) = i
  BY <1>1, <1>2 DEF Min, Lists
<1>4. SelectInSeq(s, LAMBDA v : v = d) = i
  BY <1>2, <1>3 DEF SelectInSeq
<1> QED BY <1>1, <1>4 DEF RemoveFirst

\* What is left is the list of the others.
LEMMA RemovedLists ==
  ASSUME NEW D, NEW s, Lists(s, D), NEW d \in D
  PROVE  Lists(RemoveFirst(s, d), D \ {d}) /\ Len(RemoveFirst(s, d)) = Len(s) - 1
<1>1. PICK i \in 1..Len(s) : s[i] = d /\ RemoveFirst(s, d) = RemoveAt(s, i)
  BY RemovedFirst
<1> DEFINE r == RemoveFirst(s, d)
<1>2. s \in Seq(Datagrams) /\ Len(s) \in Nat
  BY DEF Lists
<1>3. /\ r \in Seq(Datagrams) /\ Len(r) = Len(s) - 1
      /\ \A k \in 1..(Len(s) - 1) : r[k] = IF k < i THEN s[k] ELSE s[k + 1]
  BY <1>1, <1>2, Removed
<1> HIDE DEF r
<1>4. \A j, k \in 1..Len(r) : r[j] = r[k] => j = k
  <2> SUFFICES ASSUME NEW j \in 1..(Len(s) - 1), NEW k \in 1..(Len(s) - 1), r[j] = r[k]
               PROVE  j = k
    BY <1>3
  <2> DEFINE a == IF j < i THEN j ELSE j + 1
             b == IF k < i THEN k ELSE k + 1
  <2>1. a \in 1..Len(s) /\ b \in 1..Len(s) /\ (a = b => j = k)
    BY <1>2
  <2>2. s[a] = s[b]
    BY <1>3
  <2> HIDE DEF a, b
  <2> QED BY <2>1, <2>2 DEF Lists
<1>5. ToSet(r) \subseteq D \ {d}
  <2> SUFFICES ASSUME NEW k \in 1..Len(r) PROVE r[k] \in D \ {d}
    BY <1>3 DEF ToSet
  <2> DEFINE m == IF k < i THEN k ELSE k + 1
  <2>1. m \in 1..Len(s) /\ r[k] = s[m] /\ m # i
    BY <1>2, <1>3
  <2> QED BY <1>1, <1>2, <2>1 DEF Lists, ToSet
<1>6. D \ {d} \subseteq ToSet(r)
  <2> SUFFICES ASSUME NEW e \in D, e # d PROVE \E k \in 1..Len(r) : r[k] = e
    BY <1>3 DEF ToSet
  <2>1. PICK m \in 1..Len(s) : s[m] = e
    BY DEF Lists, ToSet
  <2>2. m # i
    BY <1>1, <2>1
  <2>3. CASE m < i
    BY <1>2, <1>3, <2>1, <2>3
  <2>4. CASE ~(m < i)
    <3>1. m - 1 \in 1..Len(r) /\ ~(m - 1 < i) /\ (m - 1) + 1 = m
      BY <1>2, <1>3, <2>2, <2>4
    <3> QED BY <1>3, <2>1, <3>1
  <2> QED BY <2>3, <2>4
<1> QED BY <1>3, <1>4, <1>5, <1>6 DEF Lists, r

\* A sum is that of the rest and the element taken out.
LEMMA SumRemoved ==
  ASSUME NEW f \in Seq(Nat), NEW i \in 1..Len(f)
  PROVE  SumOf(RemoveAt(f, i)) \in Nat /\ SumOf(f) = SumOf(RemoveAt(f, i)) + f[i]
<1> DEFINE a == SubSeq(f, 1, i - 1)
           b == SubSeq(f, i + 1, Len(f))
<1>1. Len(f) \in Nat /\ \A k \in 1..Len(f) : f[k] \in Nat
  OBVIOUS
<1>2. a \in Seq(Nat) /\ Len(a) = i - 1 /\ \A k \in 1..(i - 1) : a[k] = f[k]
  <2>1. \A k \in 1..(i - 1) : f[k] \in Nat
    BY <1>1
  <2> QED BY <1>1, <2>1, SubSeqProperties
<1>3. b \in Seq(Nat)
  <2>1. \A k \in (i + 1)..Len(f) : f[k] \in Nat
    BY <1>1
  <2> QED BY <1>1, <2>1, SubSeqProperties
<1>4. SubSeq(f, 1, i) = Append(a, f[i])
  <2>1. SubSeq(f, 1, i) \in Seq(Nat) /\ Len(SubSeq(f, 1, i)) = i
        /\ \A k \in 1..i : SubSeq(f, 1, i)[k] = f[k]
    <3>1. \A k \in 1..i : f[k] \in Nat
      BY <1>1
    <3> QED BY <1>1, <3>1, SubSeqProperties
  <2>2. Append(a, f[i]) \in Seq(Nat) /\ Len(Append(a, f[i])) = i
        /\ \A k \in 1..i : Append(a, f[i])[k] = f[k]
    BY <1>1, <1>2, AppendProperties
  <2> QED BY <2>1, <2>2, SeqEqual
<1>5. f = Append(a, f[i]) \o b
  <2>1. SubSeq(f, 1, i) \o b = SubSeq(f, 1, Len(f))
    BY <1>1, ConcatAdjacentSubSeq
  <2> QED BY <1>4, <2>1, SubSeqFull
<1> HIDE DEF a, b
<1>6. SumOf(a) \in Nat /\ SumOf(Append(a, f[i])) = SumOf(a) + f[i] /\ Append(a, f[i]) \in Seq(Nat)
  BY <1>1, <1>2, SumAppend, AppendProperties
<1>7. SumOf(b) \in Nat /\ SumOf(Append(a, f[i]) \o b) = SumOf(a) + f[i] + SumOf(b)
  BY <1>3, <1>6, SumConcat
<1>8. SumOf(a \o b) = SumOf(a) + SumOf(b)
  BY <1>2, <1>3, SumConcat
<1>9. RemoveAt(f, i) = a \o b
  BY DEF RemoveAt, a, b
<1>10. SumOf(f) = SumOf(a) + f[i] + SumOf(b)
  BY <1>5, <1>7
<1>11. SumOf(RemoveAt(f, i)) = SumOf(a) + SumOf(b)
  BY <1>8, <1>9
<1>12. f[i] \in Nat
  BY <1>1
<1> QED BY <1>6, <1>7, <1>10, <1>11, <1>12

\* One element changed changes the sum by the difference.
LEMMA SumChanged ==
  ASSUME NEW f \in Seq(Nat), NEW e \in Seq(Nat), Len(e) = Len(f), NEW i \in 1..Len(f),
         \A j \in 1..Len(f) : j # i => e[j] = f[j]
  PROVE  SumOf(f) \in Nat /\ SumOf(e) = SumOf(f) - f[i] + e[i]
<1>1. Len(f) \in Nat /\ f[i] \in Nat /\ e[i] \in Nat
  OBVIOUS
<1>2. /\ RemoveAt(f, i) \in Seq(Nat) /\ Len(RemoveAt(f, i)) = Len(f) - 1
      /\ \A k \in 1..(Len(f) - 1) : RemoveAt(f, i)[k] = IF k < i THEN f[k] ELSE f[k + 1]
  BY Removed
<1>3. /\ RemoveAt(e, i) \in Seq(Nat) /\ Len(RemoveAt(e, i)) = Len(f) - 1
      /\ \A k \in 1..(Len(f) - 1) : RemoveAt(e, i)[k] = IF k < i THEN e[k] ELSE e[k + 1]
  BY Removed
<1>4. RemoveAt(e, i) = RemoveAt(f, i)
  <2>1. ASSUME NEW k \in 1..(Len(f) - 1) PROVE RemoveAt(e, i)[k] = RemoveAt(f, i)[k]
    <3>1. CASE k < i
      BY <1>1, <1>2, <1>3, <3>1
    <3>2. CASE ~(k < i)
      <4>1. k + 1 \in 1..Len(f) /\ k + 1 # i
        BY <1>1, <3>2
      <4> QED BY <1>2, <1>3, <3>2, <4>1
    <3> QED BY <3>1, <3>2
  <2> QED BY <1>2, <1>3, <2>1, SeqEqual
<1>5. SumOf(RemoveAt(f, i)) \in Nat /\ SumOf(f) = SumOf(RemoveAt(f, i)) + f[i]
  BY SumRemoved
<1>6. SumOf(e) = SumOf(RemoveAt(e, i)) + e[i]
  BY SumRemoved
<1> QED BY <1>1, <1>4, <1>5, <1>6

\* A list is as long as the set of its members is large.
LEMMA ListedCardinality ==
  ASSUME NEW D, NEW s, Lists(s, D)
  PROVE  Cardinality(D) = Len(s)
<1>1. s \in [1..Len(s) -> D] /\ Len(s) \in Nat
  BY DEF Lists, ToSet
<1>2. s \in Bijection(1..Len(s), D)
  BY <1>1 DEF Lists, ToSet, Bijection, Injection, Surjection, IsInjective
<1>3. ExistsBijection(1..Len(s), D)
  BY <1>2 DEF ExistsBijection
<1> QED BY <1>1, <1>3, FS_CountingElements

-----------------------------------------------------------------------------
(* A queue of fragments.                                                   *)

\* A fragment in a list: what it is short of its end it has lost in front.
Pieces ==
  {x \in [offset : 0..Size, end : 1..Size, len : Int, ptr : 0..Size, truesize : 0..Size] :
     x.len = x.end - x.offset /\ x.ptr = x.offset}

\* A list: each begins where those before it begin and end, or later.
Chain(fs) ==
  /\ fs \in Seq(Pieces)
  /\ \A i, j \in 1..Len(fs) :
       i < j => fs[i].offset <= fs[j].offset /\ fs[i].end <= fs[j].offset

\* The fields of a fragment.
LEMMA PieceFields ==
  ASSUME NEW x \in Pieces
  PROVE  /\ x.offset \in Nat /\ x.offset <= Size /\ x.end \in Nat /\ x.end <= Size /\ x.end > 0
         /\ x.truesize \in Nat /\ x.truesize <= Size /\ Charge(x) \in Nat
         /\ x.len = x.end - x.offset /\ x.ptr = x.offset
BY IpFragAssumption DEF Pieces, Charge, sizeof_ipfrag

\* A fragment trimmed in front.
LEMMA Trimmed ==
  ASSUME NEW x \in Pieces, NEW i \in Nat, x.offset + i <= Size
  PROVE  /\ Trim(x, i) \in Pieces /\ Charge(Trim(x, i)) = Charge(x)
         /\ Trim(x, i).offset = x.offset + i /\ Trim(x, i).end = x.end
         /\ Trim(x, i).len = x.len - i
<1>1. /\ x \in [offset : 0..Size, end : 1..Size, len : Int, ptr : 0..Size, truesize : 0..Size]
      /\ x.len = x.end - x.offset /\ x.ptr = x.offset /\ Size \in Nat
  BY IpFragAssumption DEF Pieces
<1> DEFINE y == [x EXCEPT !.len = @ - i, !.offset = @ + i, !.ptr = @ + i]
<1>2. /\ y.offset = x.offset + i /\ y.end = x.end /\ y.len = x.len - i /\ y.ptr = x.ptr + i
      /\ y.truesize = x.truesize
  BY <1>1
<1>3. x.offset + i \in 0..Size /\ x.ptr + i \in 0..Size /\ x.len - i \in Int
  BY <1>1
<1>4. y \in [offset : 0..Size, end : 1..Size, len : Int, ptr : 0..Size, truesize : 0..Size]
  BY <1>1, <1>3
<1> HIDE DEF y
<1>5. y.len = y.end - y.offset /\ y.ptr = y.offset
  BY <1>1, <1>2
<1>6. y \in Pieces
  BY <1>4, <1>5 DEF Pieces
<1>7. Trim(x, i) = y
  BY DEF Trim, y
<1> QED BY <1>2, <1>6, <1>7 DEF Charge

\* The account of a list.
Accounts(fs) == [k \in 1..Len(fs) |-> Charge(fs[k])]

\* The account of a list is a number, the sum of what its fragments take.
LEMMA ChargesType ==
  ASSUME NEW fs \in Seq(Pieces)
  PROVE  /\ Accounts(fs) \in Seq(Nat) /\ Len(Accounts(fs)) = Len(fs)
         /\ Charges(fs) = SumOf(Accounts(fs)) /\ Charges(fs) \in Nat
<1>1. \A k \in 1..Len(fs) : Charge(fs[k]) \in Nat
  BY PieceFields
<1>2. Accounts(fs) \in Seq(Nat) /\ Len(Accounts(fs)) = Len(fs)
  BY <1>1 DEF Accounts
<1>3. Charges(fs) = SumOf(Accounts(fs))
  BY DEF Charges, Accounts
<1>4. SumOf(Accounts(fs)) \in Nat
  BY <1>2, SumEmpty, SumConcat
<1> QED BY <1>2, <1>3, <1>4

\* No fragment takes nothing.
LEMMA ChargesNone == Charges(<<>>) = 0
<1>1. Accounts(<<>>) = <<>>
  BY DEF Accounts
<1> QED BY <1>1, SumEmpty DEF Charges, Accounts

\* One more fragment adds what it takes.
LEMMA ChargesAppend ==
  ASSUME NEW fs \in Seq(Pieces), NEW x \in Pieces
  PROVE  Charges(Append(fs, x)) = Charges(fs) + Charge(x)
<1> DEFINE e == Append(fs, x)
<1>1. e \in Seq(Pieces) /\ Len(e) = Len(fs) + 1 /\ e[Len(fs) + 1] = x /\ Len(fs) \in Nat
      /\ \A k \in 1..Len(fs) : e[k] = fs[k]
  BY AppendProperties
<1> HIDE DEF e
<1>2. Charge(x) \in Nat
  BY PieceFields
<1>3. Accounts(fs) \in Seq(Nat) /\ Len(Accounts(fs)) = Len(fs)
      /\ Accounts(e) \in Seq(Nat) /\ Len(Accounts(e)) = Len(fs) + 1
  BY <1>1, ChargesType
<1>4. Accounts(e) = Append(Accounts(fs), Charge(x))
  <2> DEFINE c == Append(Accounts(fs), Charge(x))
  <2>1. c \in Seq(Nat) /\ Len(c) = Len(fs) + 1 /\ c[Len(fs) + 1] = Charge(x)
        /\ \A k \in 1..Len(fs) : c[k] = Accounts(fs)[k]
    BY <1>2, <1>3, AppendProperties
  <2> HIDE DEF c
  <2>2. ASSUME NEW k \in 1..(Len(fs) + 1) PROVE Accounts(e)[k] = c[k]
    <3>1. CASE k = Len(fs) + 1
      BY <1>1, <2>1, <3>1 DEF Accounts
    <3>2. CASE k \in 1..Len(fs)
      BY <1>1, <2>1, <3>2 DEF Accounts
    <3> QED BY <1>1, <3>1, <3>2
  <2>3. Accounts(e) = c
    BY <1>3, <2>1, <2>2, SeqEqual
  <2> QED BY <2>3 DEF c
<1>5. SumOf(Append(Accounts(fs), Charge(x))) = SumOf(Accounts(fs)) + Charge(x)
  BY <1>2, <1>3, SumAppend
<1>6. Charges(e) = SumOf(Accounts(e)) /\ Charges(fs) = SumOf(Accounts(fs))
  BY <1>1, ChargesType
<1> QED BY <1>4, <1>5, <1>6 DEF e

\* Two lists take what each takes.
LEMMA ChargesConcat ==
  ASSUME NEW fs \in Seq(Pieces), NEW gs \in Seq(Pieces)
  PROVE  Charges(fs \o gs) = Charges(fs) + Charges(gs)
<1> DEFINE e == fs \o gs
           m == Len(fs)
           n == Len(gs)
<1>1. e \in Seq(Pieces) /\ Len(e) = m + n /\ m \in Nat /\ n \in Nat
      /\ \A k \in 1..(m + n) : e[k] = IF k <= m THEN fs[k] ELSE gs[k - m]
  BY ConcatProperties
<1> HIDE DEF e
<1>3. /\ Accounts(fs) \in Seq(Nat) /\ Len(Accounts(fs)) = m
      /\ Accounts(gs) \in Seq(Nat) /\ Len(Accounts(gs)) = n
      /\ Accounts(e) \in Seq(Nat) /\ Len(Accounts(e)) = m + n
  BY <1>1, ChargesType
<1>4. Accounts(e) = Accounts(fs) \o Accounts(gs)
  <2> DEFINE c == Accounts(fs) \o Accounts(gs)
  <2>1. c \in Seq(Nat) /\ Len(c) = m + n
        /\ \A k \in 1..(m + n) : c[k] = IF k <= m THEN Accounts(fs)[k] ELSE Accounts(gs)[k - m]
    BY <1>3, ConcatProperties
  <2> HIDE DEF c
  <2>2. ASSUME NEW k \in 1..(m + n) PROVE Accounts(e)[k] = c[k]
    <3>1. CASE k <= m
      <4>1. k \in 1..m /\ e[k] = fs[k] /\ c[k] = Accounts(fs)[k]
        BY <1>1, <2>1, <3>1
      <4> QED BY <1>1, <4>1 DEF Accounts
    <3>2. CASE ~(k <= m)
      <4>1. k - m \in 1..n
        BY <1>1, <3>2
      <4> QED BY <1>1, <2>1, <3>2, <4>1 DEF Accounts
    <3> QED BY <3>1, <3>2
  <2>3. Accounts(e) = c
    BY <1>3, <2>1, <2>2, SeqEqual
  <2> QED BY <2>3 DEF c
<1>5. SumOf(Accounts(fs) \o Accounts(gs)) = SumOf(Accounts(fs)) + SumOf(Accounts(gs))
  BY <1>3, SumConcat
<1>6. Charges(e) = SumOf(Accounts(e)) /\ Charges(fs) = SumOf(Accounts(fs))
      /\ Charges(gs) = SumOf(Accounts(gs))
  BY <1>1, ChargesType
<1> QED BY <1>4, <1>5, <1>6 DEF e

\* Where the loop over the successors stands after j turns: what is freed was
\* in front of the end of the new fragment, the rest begins there or later.
CutSoFar(fs, end, j, a) ==
  /\ a \in [over : BOOLEAN, next : Seq(Pieces), freed : Nat] /\ Chain(a.next)
  /\ a.freed + Charges(a.next) = Charges(SubSeq(fs, 1, j))
  /\ \A k \in 1..Len(a.next) :
       /\ end <= a.next[k].offset
       /\ \E i \in 1..j : fs[i].offset <= a.next[k].offset /\ fs[i].end = a.next[k].end
       /\ \A i \in (j + 1)..Len(fs) :
            a.next[k].offset <= fs[i].offset /\ a.next[k].end <= fs[i].offset
  /\ \A i \in 1..j : \/ fs[i].end <= end
                     \/ \E k \in 1..Len(a.next) :
                          /\ a.next[k].end = fs[i].end
                          /\ a.next[k].offset \in {end, fs[i].offset}
  /\ IF a.over THEN \A i \in (j + 1)..Len(fs) : end <= fs[i].offset
               ELSE a.next # <<>> => \A i \in (j + 1)..Len(fs) : end < fs[i].offset

\* Nothing is kept as long as all that was read is freed.
LEMMA NothingKept ==
  ASSUME NEW fs, NEW end, NEW j, NEW n \in Nat,
         n + 0 = Charges(SubSeq(fs, 1, j)), \A i \in 1..j : fs[i].end <= end
  PROVE  CutSoFar(fs, end, j, [over |-> FALSE, next |-> <<>>, freed |-> n])
<1> DEFINE b == [over |-> FALSE, next |-> <<>>, freed |-> n]
<1>1. b.over = FALSE /\ b.next = <<>> /\ b.freed = n
  OBVIOUS
<1>2. b \in [over : BOOLEAN, next : Seq(Pieces), freed : Nat]
  OBVIOUS
<1> HIDE DEF b
<1>3. Chain(b.next) /\ b.freed + Charges(b.next) = Charges(SubSeq(fs, 1, j))
  BY <1>1, ChargesNone DEF Chain
<1>4. 1..Len(b.next) = {}
  BY <1>1
<1>5. CutSoFar(fs, end, j, b)
  BY <1>1, <1>2, <1>3, <1>4 DEF CutSoFar
<1> QED BY <1>5 DEF b

\* One turn.
LEMMA CutStep ==
  ASSUME NEW fs, Chain(fs), NEW end \in 1..Size, NEW j \in 0..(Len(fs) - 1),
         NEW a, CutSoFar(fs, end, j, a)
  PROVE  CutSoFar(fs, end, j + 1, Cut(end, a, fs[j + 1]))
<1> DEFINE x == fs[j + 1]
           b == Cut(end, a, x)
<1>1. /\ fs \in Seq(Pieces) /\ Len(fs) \in Nat /\ j \in Nat /\ j + 1 \in 1..Len(fs)
      /\ x \in Pieces /\ end \in Nat /\ Size \in Nat
  BY IpFragAssumption DEF Chain
<1>2. x.offset \in Nat /\ x.end \in Nat /\ x.len = x.end - x.offset /\ Charge(x) \in Nat
      /\ x.end <= Size
  BY <1>1, PieceFields
<1>3. \A i \in (j + 2)..Len(fs) : x.offset <= fs[i].offset /\ x.end <= fs[i].offset
  BY <1>1 DEF Chain
<1>4. Charges(SubSeq(fs, 1, j + 1)) = Charges(SubSeq(fs, 1, j)) + Charge(x)
  <2>1. SubSeq(fs, 1, j) \in Seq(Pieces) /\ Len(SubSeq(fs, 1, j)) = j
        /\ \A k \in 1..j : SubSeq(fs, 1, j)[k] = fs[k]
    <3>1. \A k \in 1..j : fs[k] \in Pieces
      BY <1>1
    <3> QED BY <1>1, <3>1, SubSeqProperties
  <2>2. SubSeq(fs, 1, j + 1) \in Seq(Pieces) /\ Len(SubSeq(fs, 1, j + 1)) = j + 1
        /\ \A k \in 1..(j + 1) : SubSeq(fs, 1, j + 1)[k] = fs[k]
    <3>1. \A k \in 1..(j + 1) : fs[k] \in Pieces
      BY <1>1
    <3> QED BY <1>1, <3>1, SubSeqProperties
  <2>3. Append(SubSeq(fs, 1, j), x) \in Seq(Pieces) /\ Len(Append(SubSeq(fs, 1, j), x)) = j + 1
        /\ \A k \in 1..(j + 1) : Append(SubSeq(fs, 1, j), x)[k] = fs[k]
    BY <1>1, <2>1, AppendProperties
  <2>4. SubSeq(fs, 1, j + 1) = Append(SubSeq(fs, 1, j), x)
    BY <2>2, <2>3, SeqEqual
  <2> QED BY <1>1, <2>1, <2>4, ChargesAppend
<1> HIDE DEF x
<1>5. a.next \in Seq(Pieces) /\ Len(a.next) \in Nat /\ Charges(a.next) \in Nat /\ a.freed \in Nat
  BY ChargesType DEF CutSoFar, Chain
<1>10. ASSUME NEW y \in Pieces, b = [over |-> b.over, next |-> Append(a.next, y), freed |-> a.freed],
              b.over \in BOOLEAN, y.end = x.end, y.offset \in {end, x.offset},
              x.offset <= y.offset, end <= y.offset, Charge(y) = Charge(x),
              \A i \in (j + 2)..Len(fs) : y.offset <= fs[i].offset,
              IF b.over THEN \A i \in (j + 2)..Len(fs) : end <= fs[i].offset
                        ELSE \A i \in (j + 2)..Len(fs) : end < fs[i].offset
       PROVE  CutSoFar(fs, end, j + 1, b)
  <2> DEFINE n == Len(a.next)
             e == Append(a.next, y)
  <2>1. e \in Seq(Pieces) /\ Len(e) = n + 1 /\ e[n + 1] = y /\ \A k \in 1..n : e[k] = a.next[k]
    BY <1>5, AppendProperties
  <2>2. b.next = e /\ b.freed = a.freed
    BY <1>10
  <2> HIDE DEF e, b
  <2>3. \A k \in 1..n : a.next[k].offset <= x.offset /\ a.next[k].end <= x.offset
    BY <1>1, <1>5 DEF CutSoFar, x
  <2>30. y.offset \in Nat /\ \A k \in 1..n : a.next[k].offset \in Nat /\ a.next[k].end \in Nat
    BY <1>5, <1>10, PieceFields
  <2>4. Chain(e)
    <3>1. ASSUME NEW i \in 1..(n + 1), NEW k \in 1..(n + 1), i < k
          PROVE  e[i].offset <= e[k].offset /\ e[i].end <= e[k].offset
      <4>1. CASE k = n + 1
        <5>1. i \in 1..n
          BY <1>5, <3>1, <4>1
        <5>2. e[i] = a.next[i] /\ e[k] = y
          BY <2>1, <4>1, <5>1
        <5>3. e[i].offset <= x.offset /\ e[i].end <= x.offset /\ e[i].offset \in Nat /\ e[i].end \in Nat
          BY <2>3, <2>30, <5>1, <5>2
        <5>4. x.offset <= y.offset
          BY <1>10
        <5>5. e[k].offset = y.offset /\ y.offset \in Nat /\ x.offset \in Nat
          BY <1>2, <2>30, <5>2
        <5> QED BY <5>3, <5>4, <5>5
      <4>2. CASE k # n + 1
        <5>1. i \in 1..n /\ k \in 1..n
          BY <1>5, <3>1, <4>2
        <5> QED BY <2>1, <3>1, <5>1 DEF CutSoFar, Chain
      <4> QED BY <4>1, <4>2
    <3> QED BY <2>1, <3>1 DEF Chain
  <2>5. b.freed + Charges(b.next) = Charges(SubSeq(fs, 1, j + 1))
    <3>1. Charges(e) = Charges(a.next) + Charge(y)
      BY <1>5, <1>10, ChargesAppend DEF e
    <3>2. a.freed + Charges(a.next) = Charges(SubSeq(fs, 1, j))
      BY DEF CutSoFar
    <3> QED BY <1>2, <1>4, <1>5, <1>10, <2>2, <3>1, <3>2
  <2>6. ASSUME NEW k \in 1..(n + 1)
        PROVE  /\ end <= e[k].offset
               /\ \E i \in 1..(j + 1) : fs[i].offset <= e[k].offset /\ fs[i].end = e[k].end
               /\ \A i \in ((j + 1) + 1)..Len(fs) :
                    e[k].offset <= fs[i].offset /\ e[k].end <= fs[i].offset
    <3>1. CASE k = n + 1
      <4>1. e[k] = y /\ j + 1 \in 1..(j + 1) /\ fs[j + 1] = x
        BY <1>1, <2>1, <3>1 DEF x
      <4>2. fs[j + 1].offset <= e[k].offset /\ fs[j + 1].end = e[k].end
        BY <1>10, <4>1
      <4>3. \A i \in ((j + 1) + 1)..Len(fs) : i \in (j + 2)..Len(fs)
        BY <1>1
      <4> QED BY <1>3, <1>10, <4>1, <4>2, <4>3
    <3>2. CASE k # n + 1
      <4>1. k \in 1..n /\ e[k] = a.next[k]
        BY <1>5, <2>1, <3>2
      <4>2. PICK i \in 1..j : fs[i].offset <= a.next[k].offset /\ fs[i].end = a.next[k].end
        BY <4>1 DEF CutSoFar
      <4>3. i \in 1..(j + 1)
        BY <1>1
      <4>4. \A m \in ((j + 1) + 1)..Len(fs) : m \in (j + 1)..Len(fs)
        BY <1>1
      <4> QED BY <4>1, <4>2, <4>3, <4>4 DEF CutSoFar
    <3> QED BY <3>1, <3>2
  <2>7. ASSUME NEW i \in 1..(j + 1), ~(fs[i].end <= end)
        PROVE  \E k \in 1..(n + 1) : e[k].end = fs[i].end /\ e[k].offset \in {end, fs[i].offset}
    <3>1. CASE i = j + 1
      <4>1. n + 1 \in 1..(n + 1)
        BY <1>5
      <4> QED BY <1>10, <2>1, <3>1, <4>1 DEF x
    <3>2. CASE i # j + 1
      <4>1. i \in 1..j
        BY <1>1, <3>2
      <4>2. PICK k \in 1..n : a.next[k].end = fs[i].end /\ a.next[k].offset \in {end, fs[i].offset}
        BY <2>7, <4>1 DEF CutSoFar
      <4>3. k \in 1..(n + 1)
        BY <1>5
      <4> QED BY <2>1, <4>2, <4>3
    <3> QED BY <3>1, <3>2
  <2>9. b \in [over : BOOLEAN, next : Seq(Pieces), freed : Nat]
    BY <1>5, <1>10, <2>1, <2>2 DEF e
  <2>8. Len(b.next) = n + 1 /\ b.freed \in Nat /\ (j + 1) + 1 = j + 2
    BY <1>1, <1>5, <2>1, <2>2
  <2> QED BY <1>10, <2>2, <2>4, <2>5, <2>6, <2>7, <2>8, <2>9 DEF CutSoFar
<1>6. CASE a.over \/ x.offset >= end
  <2>1. b = [over |-> TRUE, next |-> Append(a.next, x), freed |-> a.freed]
    <3>1. Cut(end, a, x) = [a EXCEPT !.over = TRUE, !.next = Append(@, x)]
      BY <1>6 DEF Cut
    <3>2. a \in [over : BOOLEAN, next : Seq(Pieces), freed : Nat]
      BY DEF CutSoFar
    <3> QED BY <3>1, <3>2
  <2>2. x.offset >= end
    BY <1>1, <1>6 DEF CutSoFar, x
  <2>3. \A i \in (j + 2)..Len(fs) : fs[i].offset \in Nat
    BY <1>1, PieceFields
  <2>4. \A i \in (j + 2)..Len(fs) : end <= fs[i].offset
    BY <1>1, <1>2, <1>3, <2>2, <2>3
  <2>5. CutSoFar(fs, end, j + 1, b)
    <3> HIDE DEF b
    <3>1. b = [over |-> b.over, next |-> Append(a.next, x), freed |-> a.freed] /\ b.over = TRUE
      BY <2>1 DEF b
    <3>2. \A i \in (j + 2)..Len(fs) : x.offset <= fs[i].offset
      BY <1>3
    <3>3. x \in Pieces /\ x.offset \in {end, x.offset} /\ x.offset <= x.offset /\ end <= x.offset
      BY <1>1, <1>2, <2>2
    <3> QED BY <1>10, <2>4, <3>1, <3>2, <3>3
  <2> QED BY <2>1, <2>5 DEF x
<1>7. CASE ~a.over /\ x.offset < end
  <2>1. a.next = <<>>
    BY <1>1, <1>2, <1>7 DEF CutSoFar, x
  <2> DEFINE i == end - x.offset
             y == Trim(x, i)
  <2>2. i \in Nat /\ x.offset + i = end
    BY <1>1, <1>2, <1>7
  <2>3. y \in Pieces /\ Charge(y) = Charge(x) /\ y.offset = end /\ y.end = x.end /\ y.len = x.end - end
    <3>1. x.offset + i <= Size
      BY <1>1, <2>2
    <3>2. x.len - i = x.end - end
      BY <1>1, <1>2, <2>2
    <3> HIDE DEF i
    <3> QED BY <1>1, <2>2, <3>1, <3>2, Trimmed
  <2>4. CASE y.len <= 0
    <3>1. b = [over |-> FALSE, next |-> <<>>, freed |-> a.freed + Charge(x)]
      <4>1. Cut(end, a, x) = [a EXCEPT !.next = <<>>, !.freed = @ + Charge(x)]
        <5>1. ~(a.over \/ x.offset >= end)
          BY <1>1, <1>2, <1>7
        <5>2. end - (IF a.next = <<>> THEN x.offset ELSE a.next[1].offset) = i
          BY <2>1
        <5> QED BY <2>4, <5>1, <5>2 DEF Cut
      <4>2. a \in [over : BOOLEAN, next : Seq(Pieces), freed : Nat] /\ a.over = FALSE
        BY <1>7 DEF CutSoFar
      <4> QED BY <4>1, <4>2
    <3>2. x.end <= end
      BY <1>1, <1>2, <2>3, <2>4
    <3>4. a.freed + Charge(x) + 0 = Charges(SubSeq(fs, 1, j + 1)) /\ a.freed + Charge(x) \in Nat
      BY <1>2, <1>4, <1>5, <2>1, ChargesNone DEF CutSoFar
    <3>5. ASSUME NEW m \in 1..(j + 1) PROVE fs[m].end <= end
      <4>1. CASE m = j + 1
        BY <3>2, <4>1 DEF x
      <4>2. CASE m # j + 1
        <5>1. m \in 1..j
          BY <1>1, <4>2
        <5> QED BY <2>1, <5>1 DEF CutSoFar
      <4> QED BY <4>1, <4>2
    <3>6. CutSoFar(fs, end, j + 1, b)
      BY <3>1, <3>4, <3>5, NothingKept
    <3> QED BY <3>1, <3>6 DEF x
  <2>5. CASE ~(y.len <= 0)
    <3>1. b = [over |-> FALSE, next |-> Append(a.next, y), freed |-> a.freed]
      <4>1. Cut(end, a, x) = [a EXCEPT !.next = Append(@, y)]
        <5>1. ~(a.over \/ x.offset >= end)
          BY <1>1, <1>2, <1>7
        <5>2. end - (IF a.next = <<>> THEN x.offset ELSE a.next[1].offset) = i
          BY <2>1
        <5> QED BY <2>5, <5>1, <5>2 DEF Cut
      <4>2. a \in [over : BOOLEAN, next : Seq(Pieces), freed : Nat] /\ a.over = FALSE
        BY <1>7 DEF CutSoFar
      <4> QED BY <4>1, <4>2
    <3>2. end < x.end
      BY <1>1, <1>2, <2>3, <2>5
    <3>3. \A m \in (j + 2)..Len(fs) : fs[m].offset \in Nat
      BY <1>1, PieceFields
    <3>4. \A m \in (j + 2)..Len(fs) : end < fs[m].offset
      BY <1>1, <1>2, <1>3, <3>2, <3>3
    <3>5. \A m \in (j + 2)..Len(fs) : y.offset <= fs[m].offset
      BY <1>1, <2>3, <3>3, <3>4
    <3>6. b.over = FALSE
      BY <3>1
    <3>7. CutSoFar(fs, end, j + 1, b)
      <4>1. b = [over |-> b.over, next |-> Append(a.next, y), freed |-> a.freed]
        BY <3>1
      <4>2. end <= y.offset /\ x.offset <= y.offset
        BY <1>1, <1>2, <1>7, <2>3
      <4> HIDE DEF b, y
      <4> QED BY <1>10, <2>3, <3>4, <3>5, <3>6, <4>1, <4>2
    <3> QED BY <3>1, <3>7 DEF x
  <2> QED BY <2>4, <2>5
<1>8. a.over \in BOOLEAN
  BY DEF CutSoFar
<1> QED BY <1>1, <1>2, <1>6, <1>7, <1>8 DEF x

\* turn[k] is where the loop stands after k turns.
CutTurns(end, fs, n, turn) ==
  turn = [k \in 0..n |-> IF k = 0 THEN [over |-> FALSE, next |-> <<>>, freed |-> 0]
                                  ELSE Cut(end, turn[k - 1], fs[k])]

\* The loop can be run, so that Cuts is what its recursion says.
LEMMA CutTurnsExist ==
  ASSUME NEW fs \in Seq(Pieces), NEW end
  PROVE  \E turn : CutTurns(end, fs, Len(fs), turn) /\ Cuts(end, fs) = turn[Len(fs)]
<1> DEFINE start == [over |-> FALSE, next |-> <<>>, freed |-> 0]
           T == {n \in Nat : \E turn : CutTurns(end, fs, n, turn)}
<1>1. 0 \in T
  <2> DEFINE turn == [k \in 0..0 |-> start]
  <2>1. turn = [k \in 0..0 |-> IF k = 0 THEN start ELSE Cut(end, turn[k - 1], fs[k])]
    OBVIOUS
  <2> HIDE DEF turn
  <2>2. CutTurns(end, fs, 0, turn)
    BY <2>1 DEF CutTurns
  <2> QED BY <2>2
<1>2. ASSUME NEW n \in T PROVE n + 1 \in T
  <2>1. n \in Nat /\ n + 1 \in Nat
    OBVIOUS
  <2>2. PICK turn : CutTurns(end, fs, n, turn)
    OBVIOUS
  <2> DEFINE more == [k \in 0..(n + 1) |-> IF k = n + 1 THEN Cut(end, turn[n], fs[n + 1]) ELSE turn[k]]
  <2>3. \A k \in 0..n : turn[k] = IF k = 0 THEN start ELSE Cut(end, turn[k - 1], fs[k])
    BY <2>2 DEF CutTurns
  <2> HIDE DEF start
  <2>4. ASSUME NEW k \in 0..(n + 1)
        PROVE  more[k] = IF k = 0 THEN start ELSE Cut(end, more[k - 1], fs[k])
    <3>1. CASE k = n + 1
      <4>1. k # 0 /\ k - 1 = n /\ k - 1 \in 0..(n + 1) /\ k - 1 # n + 1
        BY <2>1, <3>1
      <4>2. more[k] = Cut(end, turn[n], fs[k])
        BY <3>1
      <4>3. more[k - 1] = turn[n]
        BY <4>1
      <4> QED BY <4>1, <4>2, <4>3
    <3>2. CASE k # n + 1
      <4>1. k \in 0..n
        BY <2>1, <3>2
      <4>2. more[k] = turn[k]
        BY <3>2
      <4>3. k # 0 => k - 1 \in 0..(n + 1) /\ k - 1 # n + 1
        BY <2>1, <4>1
      <4>4. k # 0 => more[k - 1] = turn[k - 1]
        BY <4>3
      <4> HIDE DEF more
      <4> QED BY <2>3, <4>1, <4>2, <4>4
    <3> QED BY <3>1, <3>2
  <2>5. more = [k \in 0..(n + 1) |-> more[k]]
    OBVIOUS
  <2> HIDE DEF more
  <2>6. CutTurns(end, fs, n + 1, more)
    BY <2>4, <2>5 DEF CutTurns, start
  <2> QED BY <2>1, <2>6
<1>3. T = Nat
  <2> HIDE DEF T
  <2>1. T \in SUBSET Nat
    BY DEF T
  <2> QED BY <1>1, <1>2, <2>1, SetInduction
<1>4. \E turn : CutTurns(end, fs, Len(fs), turn)
  <2>1. Len(fs) \in T
    <3>1. Len(fs) \in Nat
      OBVIOUS
    <3> HIDE DEF T
    <3> QED BY <1>3, <3>1
  <2> QED BY <2>1
<1> DEFINE run == CHOOSE turn : CutTurns(end, fs, Len(fs), turn)
<1>5. Cuts(end, fs) = run[Len(fs)]
  BY DEF Cuts, CutTurns
<1>6. CutTurns(end, fs, Len(fs), run)
  BY <1>4
<1> QED BY <1>5, <1>6

\* What the loop leaves of the successors.
LEMMA CutAll ==
  ASSUME NEW fs, Chain(fs), NEW end \in 1..Size
  PROVE  CutSoFar(fs, end, Len(fs), Cuts(end, fs))
<1>1. fs \in Seq(Pieces) /\ Len(fs) \in Nat
  BY DEF Chain
<1>2. PICK turn : CutTurns(end, fs, Len(fs), turn) /\ Cuts(end, fs) = turn[Len(fs)]
  BY <1>1, CutTurnsExist
<1>3. \A k \in 0..Len(fs) : turn[k] = IF k = 0 THEN [over |-> FALSE, next |-> <<>>, freed |-> 0]
                                               ELSE Cut(end, turn[k - 1], fs[k])
  BY <1>2 DEF CutTurns
<1> DEFINE T == {n \in Nat : n <= Len(fs) => CutSoFar(fs, end, n, turn[n])}
<1>4. 0 \in T
  <2>1. turn[0] = [over |-> FALSE, next |-> <<>>, freed |-> 0]
    BY <1>1, <1>3
  <2>2. SubSeq(fs, 1, 0) = <<>>
    BY <1>1, SubSeqEmpty
  <2>3. CutSoFar(fs, end, 0, [over |-> FALSE, next |-> <<>>, freed |-> 0])
    <3> DEFINE c == Charges(SubSeq(fs, 1, 0))
    <3>0. c = 0
      BY <2>2, ChargesNone, Zenon
    <3> HIDE DEF c
    <3>1. 0 + 0 = c /\ 0 \in Nat
      BY <3>0
    <3>2. \A i \in 1..0 : fs[i].end <= end
      OBVIOUS
    <3> QED BY <3>1, <3>2, NothingKept DEF c
  <2> QED BY <2>1, <2>3
<1>5. ASSUME NEW n \in T PROVE n + 1 \in T
  <2>1. n \in Nat /\ n + 1 \in Nat
    OBVIOUS
  <2>2. ASSUME n + 1 <= Len(fs) PROVE CutSoFar(fs, end, n + 1, turn[n + 1])
    <3>1. n \in 0..(Len(fs) - 1) /\ n + 1 \in 0..Len(fs) /\ n + 1 # 0 /\ (n + 1) - 1 = n
      BY <1>1, <2>1, <2>2
    <3>2. turn[n + 1] = Cut(end, turn[n], fs[n + 1])
      BY <1>3, <3>1
    <3>3. CutSoFar(fs, end, n, turn[n])
      BY <1>1, <3>1
    <3> QED BY <3>1, <3>2, <3>3, CutStep
  <2> QED BY <2>1, <2>2
<1>6. T = Nat
  <2> HIDE DEF T
  <2>1. T \in SUBSET Nat
    BY DEF T
  <2> QED BY <1>4, <1>5, <2>1, SetInduction
<1> QED BY <1>1, <1>2, <1>6

\* Where a fragment belongs: behind all that begin before it.
LEMMA Placed ==
  ASSUME NEW fs, Chain(fs), NEW o \in Nat
  PROVE  LET at == SelectInSeq(fs, LAMBDA x : x.offset >= o)
             k  == IF at = 0 THEN Len(fs) ELSE at - 1
         IN  /\ k \in 0..Len(fs)
             /\ \A i \in 1..k : fs[i].offset < o
             /\ \A i \in (k + 1)..Len(fs) : fs[i].offset >= o
<1> DEFINE I  == {i \in 1..Len(fs) : fs[i].offset >= o}
           at == SelectInSeq(fs, LAMBDA x : x.offset >= o)
           k  == IF at = 0 THEN Len(fs) ELSE at - 1
<1>1. fs \in Seq(Pieces) /\ Len(fs) \in Nat
  BY DEF Chain
<1>2. \A i \in 1..Len(fs) : fs[i].offset \in Nat
  BY <1>1, PieceFields
<1>3. at = IF I # {} THEN Min(I) ELSE 0
  BY DEF SelectInSeq
<1> HIDE DEF at
<1>4. CASE I = {}
  <2>1. at = 0
    BY <1>3, <1>4
  <2>2. \A i \in 1..Len(fs) : ~(fs[i].offset >= o)
    BY <1>4
  <2> QED BY <1>1, <1>2, <2>1, <2>2 DEF at
<1>5. CASE I # {}
  <2>1. \E x \in I : \A y \in I : x <= y
    <3>1. I \in SUBSET Nat
      OBVIOUS
    <3> HIDE DEF I
    <3> QED BY <1>5, <3>1, LeastNumber
  <2>2. at \in I /\ \A y \in I : at <= y
    BY <1>3, <1>5, <2>1 DEF Min
  <2>3. at \in 1..Len(fs) /\ fs[at].offset >= o
    BY <2>2
  <2>4. at # 0 /\ k = at - 1 /\ k \in 0..Len(fs) /\ k + 1 = at
    BY <1>1, <2>3
  <2>5. ASSUME NEW i \in 1..k PROVE fs[i].offset < o
    <3>1. i \in 1..Len(fs) /\ ~(at <= i)
      BY <1>1, <2>3, <2>4
    <3>2. i \notin I
      BY <2>2, <3>1
    <3> QED BY <1>2, <3>1, <3>2
  <2>6. ASSUME NEW i \in (k + 1)..Len(fs) PROVE fs[i].offset >= o
    <3>1. i \in 1..Len(fs) /\ (i = at \/ at < i)
      BY <1>1, <2>3, <2>4
    <3>2. at < i => fs[at].offset <= fs[i].offset
      BY <2>3, <3>1 DEF Chain
    <3> QED BY <1>2, <2>3, <3>1, <3>2
  <2> QED BY <2>4, <2>5, <2>6 DEF at
<1> QED BY <1>4, <1>5

\* The units a list holds, and whether it holds the end of the datagram.
Covers(fs, u) == \E i \in 1..Len(fs) : fs[i].offset <= u /\ u < fs[i].end
Ends(fs) == \E i \in 1..Len(fs) : fs[i].end = Size
Begins(fs) == \E i \in 1..Len(fs) : fs[i].offset = 0

\* A new fragment leaves a list in order, loses nothing that was there or that
\* it brings, and is charged for what it adds to the account.
LEMMA Inserted ==
  ASSUME NEW fs, Chain(fs), NEW c, c[1] \in Nat, c[2] \in 1..Size, c[1] < c[2]
  PROVE  LET r == Insert(fs, c)
             w == r.fragments
         IN  /\ Chain(w)
             /\ r.charged \in Int /\ r.charged <= sizeof_ipfrag + Size
             /\ Charges(w) = Charges(fs) + r.charged
             /\ \A u \in Nat : Covers(fs, u) \/ u \in c[1]..(c[2] - 1) => Covers(w, u)
             /\ Ends(w) <=> Ends(fs) \/ c[2] = Size
             /\ Begins(w) => Begins(fs) \/ c[1] = 0
<1> DEFINE at  == SelectInSeq(fs, LAMBDA x : x.offset >= c[1])
           k   == IF at = 0 THEN Len(fs) ELSE at - 1
           i   == IF k > 0 /\ c[1] < fs[k].end THEN fs[k].end - c[1] ELSE 0
           A   == SubSeq(fs, 1, k)
           B   == SubSeq(fs, k + 1, Len(fs))
           a   == Cuts(c[2], B)
           p   == [offset |-> c[1], end |-> c[2], len |-> c[2] - c[1], ptr |-> c[1],
                   truesize |-> truesize(c)]
           new == Trim(p, i)
           N   == a.next
           w   == A \o <<new>> \o N
<1>1. Insert(fs, c) = [fragments |-> w, charged |-> Charge(new) - a.freed]
  BY DEF Insert
<1>2. k \in 0..Len(fs) /\ (\A m \in 1..k : fs[m].offset < c[1])
      /\ \A m \in (k + 1)..Len(fs) : fs[m].offset >= c[1]
  BY Placed
<1> HIDE DEF at, k
<1>3. fs \in Seq(Pieces) /\ Len(fs) \in Nat /\ Size \in Nat /\ c[1] \in Nat /\ c[2] \in Nat
      /\ c[2] <= Size /\ c[2] > 0
  BY IpFragAssumption DEF Chain
<1>4. \A m \in 1..Len(fs) : fs[m] \in Pieces /\ fs[m].offset \in Nat /\ fs[m].end \in Nat
                            /\ fs[m].end <= Size
  BY <1>3, PieceFields
<1>5. i \in Nat /\ c[1] + i <= Size /\ (c[1] + i = c[1] \/ (k > 0 /\ c[1] + i = fs[k].end))
      /\ (k > 0 => fs[k].end <= c[1] + i)
  <2>1. CASE k > 0 /\ c[1] < fs[k].end
    <3>1. k \in 1..Len(fs)
      BY <1>2, <1>3, <2>1
    <3>2. i = fs[k].end - c[1]
      BY <2>1
    <3> QED BY <1>3, <1>4, <2>1, <3>1, <3>2
  <2>2. CASE ~(k > 0 /\ c[1] < fs[k].end)
    <3>1. i = 0
      BY <2>2
    <3>2. k > 0 => k \in 1..Len(fs)
      BY <1>2, <1>3
    <3> QED BY <1>3, <1>4, <2>2, <3>1, <3>2
  <2> QED BY <2>1, <2>2
<1> HIDE DEF i
<1>6. p \in Pieces /\ p.offset = c[1] /\ p.end = c[2]
  BY <1>3 DEF Pieces, truesize
<1> HIDE DEF p
<1>7. new \in Pieces /\ new.offset = c[1] + i /\ new.end = c[2] /\ Charge(new) = Charge(p)
  BY <1>5, <1>6, Trimmed
<1>8. Charge(p) \in Nat /\ Charge(p) <= sizeof_ipfrag + Size
  BY <1>3, <1>6, PieceFields DEF Charge, sizeof_ipfrag
<1> HIDE DEF new
<1>9. A \in Seq(Pieces) /\ Len(A) = k /\ \A m \in 1..k : A[m] = fs[m]
  <2>1. \A m \in 1..k : fs[m] \in Pieces
    BY <1>2, <1>4
  <2> QED BY <1>2, <2>1, SubSeqProperties
<1>10. B \in Seq(Pieces) /\ Len(B) = Len(fs) - k /\ \A m \in 1..(Len(fs) - k) : B[m] = fs[k + m]
  <2>1. \A m \in (k + 1)..Len(fs) : fs[m] \in Pieces
    BY <1>2, <1>4
  <2>2. B \in Seq(Pieces) /\ Len(B) = (IF k + 1 <= Len(fs) THEN Len(fs) - (k + 1) + 1 ELSE 0)
        /\ \A m \in 1..(Len(fs) - (k + 1) + 1) : B[m] = fs[(k + 1) + m - 1]
    BY <1>2, <1>3, <2>1, SubSeqProperties
  <2> QED BY <1>2, <1>3, <2>2
<1>11. fs = A \o B
  <2>1. A \o B = SubSeq(fs, 1, Len(fs))
    <3>1. 1 \in 1..(Len(fs) + 1) /\ k \in (1 - 1)..Len(fs) /\ Len(fs) \in k..Len(fs)
      BY <1>2, <1>3
    <3> QED BY <1>3, <3>1, ConcatAdjacentSubSeq
  <2> QED BY <1>3, <2>1, SubSeqFull
<1> HIDE DEF A, B
<1>12. \A m \in 1..Len(B) : k + m \in 1..Len(fs) /\ B[m] = fs[k + m]
  BY <1>2, <1>3, <1>10
<1>13. Chain(B)
  <2>1. ASSUME NEW m \in 1..Len(B), NEW n \in 1..Len(B), m < n
        PROVE  B[m].offset <= B[n].offset /\ B[m].end <= B[n].offset
    <3>1. k + m < k + n
      BY <1>2, <1>10, <2>1
    <3> QED BY <1>12, <3>1 DEF Chain
  <2> QED BY <1>10, <2>1 DEF Chain
<1>14. CutSoFar(B, c[2], Len(B), a)
  BY <1>13, CutAll
<1> HIDE DEF a
<1>15. a.freed \in Nat /\ Chain(N) /\ a.freed + Charges(N) = Charges(B)
       /\ \A m \in 1..Len(N) : /\ c[2] <= N[m].offset
                               /\ \E n \in 1..Len(B) : B[n].offset <= N[m].offset /\ B[n].end = N[m].end
  <2>1. SubSeq(B, 1, Len(B)) = B
    BY <1>10, SubSeqFull
  <2> QED BY <1>14, <2>1 DEF CutSoFar
<1>30. ASSUME NEW n \in 1..Len(B), ~(B[n].end <= c[2])
       PROVE  \E m \in 1..Len(N) : N[m].end = B[n].end /\ N[m].offset \in {c[2], B[n].offset}
  BY <1>14, <1>30 DEF CutSoFar
<1> HIDE DEF N
<1>31. ASSUME NEW m \in 1..Len(N)
       PROVE  c[2] <= N[m].offset /\ \E n \in 1..Len(B) : B[n].offset <= N[m].offset /\ B[n].end = N[m].end
  BY <1>15, <1>31
<1>16. N \in Seq(Pieces) /\ Len(N) \in Nat
       /\ \A m \in 1..Len(N) : N[m] \in Pieces /\ N[m].offset \in Nat /\ N[m].end \in Nat
  BY <1>15, PieceFields DEF Chain
<1> DEFINE l == Len(N)
<1>17. /\ w \in Seq(Pieces) /\ Len(w) = k + 1 + l /\ w[k + 1] = new
       /\ \A m \in 1..k : w[m] = fs[m]
       /\ \A m \in 1..l : w[k + 1 + m] = N[m]
       /\ A \o <<new>> \in Seq(Pieces)
  <2> DEFINE v == A \o <<new>>
  <2>1. <<new>> \in Seq(Pieces) /\ Len(<<new>>) = 1 /\ <<new>>[1] = new
    BY <1>7
  <2>2. v \in Seq(Pieces) /\ Len(v) = k + 1
        /\ \A m \in 1..(k + 1) : v[m] = IF m <= k THEN A[m] ELSE <<new>>[m - k]
    BY <1>9, <2>1, ConcatProperties
  <2> HIDE DEF v
  <2>3. v \o N \in Seq(Pieces) /\ Len(v \o N) = k + 1 + l
        /\ \A m \in 1..(k + 1 + l) : (v \o N)[m] = IF m <= k + 1 THEN v[m] ELSE N[m - (k + 1)]
    <3>1. v \o N \in Seq(Pieces) /\ Len(v \o N) = Len(v) + Len(N)
          /\ \A m \in 1..(Len(v) + Len(N)) : (v \o N)[m] = IF m <= Len(v) THEN v[m] ELSE N[m - Len(v)]
      BY <1>16, <2>2, ConcatProperties
    <3> QED BY <2>2, <3>1
  <2>4. w = v \o N
    BY DEF v
  <2> HIDE DEF w
  <2>5. w[k + 1] = new
    <3>1. k + 1 \in 1..(k + 1 + l) /\ k + 1 \in 1..(k + 1) /\ ~(k + 1 <= k) /\ (k + 1) - k = 1
      BY <1>2, <1>3, <1>16
    <3>2. v[k + 1] = <<new>>[1]
      BY <2>2, <3>1
    <3> QED BY <2>1, <2>3, <2>4, <3>1, <3>2
  <2>6. ASSUME NEW m \in 1..k PROVE w[m] = fs[m]
    <3>1. m \in 1..(k + 1 + l) /\ m \in 1..(k + 1) /\ m <= k /\ m <= k + 1
      BY <1>2, <1>3, <1>16
    <3> QED BY <1>9, <2>2, <2>3, <2>4, <3>1
  <2>7. ASSUME NEW m \in 1..l PROVE w[k + 1 + m] = N[m]
    <3>1. k + 1 + m \in 1..(k + 1 + l) /\ ~(k + 1 + m <= k + 1) /\ (k + 1 + m) - (k + 1) = m
      BY <1>2, <1>3, <1>16
    <3> QED BY <2>3, <2>4, <3>1
  <2> QED BY <2>2, <2>3, <2>4, <2>5, <2>6, <2>7 DEF v
<1>18. Charges(w) = Charges(fs) + (Charge(new) - a.freed)
  <2>1. Charges(fs) = Charges(A) + Charges(B) /\ Charges(A) \in Nat /\ Charges(B) \in Nat
    BY <1>9, <1>10, <1>11, ChargesConcat, ChargesType
  <2>2. Charges(<<new>>) = Charge(new)
    <3>1. <<>> \in Seq(Pieces) /\ Append(<<>>, new) = <<new>>
      BY <1>7
    <3>2. Charges(Append(<<>>, new)) = Charges(<<>>) + Charge(new)
      BY <1>7, <3>1, ChargesAppend
    <3> QED BY <1>7, <1>8, <3>1, <3>2, ChargesNone
  <2>3. Charges(A \o <<new>>) = Charges(A) + Charges(<<new>>)
    <3>1. <<new>> \in Seq(Pieces)
      BY <1>7
    <3> QED BY <1>9, <3>1, ChargesConcat
  <2>4. Charges(w) = Charges(A \o <<new>>) + Charges(N) /\ Charges(N) \in Nat
    BY <1>16, <1>17, ChargesConcat, ChargesType
  <2> HIDE DEF w
  <2> QED BY <1>7, <1>8, <1>15, <2>1, <2>2, <2>3, <2>4
<1> HIDE DEF w
<1>19. \A m \in 1..l : (\A b \in Nat : (\A n \in 1..Len(B) : b <= B[n].offset) => b <= N[m].offset)
  <2> SUFFICES ASSUME NEW m \in 1..l, NEW b \in Nat, \A n \in 1..Len(B) : b <= B[n].offset
               PROVE  b <= N[m].offset
    OBVIOUS
  <2>1. PICK n \in 1..Len(B) : B[n].offset <= N[m].offset
    BY <1>15
  <2>2. B[n].offset \in Nat
    BY <1>4, <1>12
  <2> QED BY <1>16, <2>1, <2>2
<1>20. ASSUME NEW m \in 1..k
       PROVE  /\ fs[m].offset <= new.offset /\ fs[m].end <= new.offset
              /\ \A n \in 1..l : fs[m].offset <= N[n].offset /\ fs[m].end <= N[n].offset
  <2>1. m \in 1..Len(fs) /\ k \in 1..Len(fs) /\ fs[m].offset < c[1]
    BY <1>2, <1>3
  <2>2. \A n \in 1..Len(B) : fs[m].offset <= B[n].offset /\ fs[m].end <= B[n].offset
    <3> SUFFICES ASSUME NEW n \in 1..Len(B)
                 PROVE  fs[m].offset <= B[n].offset /\ fs[m].end <= B[n].offset
      OBVIOUS
    <3>1. m < k + n
      BY <1>2, <1>3, <1>10
    <3> QED BY <1>12, <2>1, <3>1 DEF Chain
  <2>3. fs[m].end <= new.offset
    <3>1. CASE m = k
      <4>1. k > 0
        BY <2>1
      <4> QED BY <1>5, <1>7, <3>1, <4>1
    <3>2. CASE m # k
      <4>1. m < k
        BY <1>2, <1>3, <3>2
      <4>2. fs[m].end <= fs[k].offset /\ fs[k].offset < c[1]
        BY <1>2, <2>1, <4>1 DEF Chain
      <4> QED BY <1>3, <1>4, <1>5, <1>7, <2>1, <4>2
    <3> QED BY <3>1, <3>2
  <2>4. fs[m].offset <= new.offset
    BY <1>3, <1>4, <1>5, <1>7, <2>1
  <2>5. fs[m].offset \in Nat /\ fs[m].end \in Nat
    BY <1>4, <2>1
  <2> QED BY <1>19, <2>2, <2>3, <2>4, <2>5
<1>21. ASSUME NEW n \in 1..l PROVE new.offset <= N[n].offset /\ new.end <= N[n].offset
  <2>1. \A m \in 1..Len(B) : c[1] + i <= B[m].offset
    <3> SUFFICES ASSUME NEW m \in 1..Len(B) PROVE c[1] + i <= B[m].offset
      OBVIOUS
    <3>1. c[1] <= B[m].offset
      <4>1. k + m \in (k + 1)..Len(fs)
        BY <1>2, <1>3, <1>10
      <4> QED BY <1>2, <1>3, <1>4, <1>12, <4>1
    <3>2. k > 0 => fs[k].end <= B[m].offset
      <4>1. ASSUME k > 0 PROVE k \in 1..Len(fs) /\ k < k + m
        BY <1>2, <1>3, <1>10, <4>1
      <4> QED BY <1>12, <4>1 DEF Chain
    <3> QED BY <1>5, <3>1, <3>2
  <2>2. c[1] + i \in Nat
    BY <1>3, <1>5
  <2> QED BY <1>7, <1>15, <1>19, <2>1, <2>2
<1>22. Chain(w)
  <2>1. ASSUME NEW m \in 1..(k + 1 + l), NEW n \in 1..(k + 1 + l), m < n
        PROVE  w[m].offset <= w[n].offset /\ w[m].end <= w[n].offset
    <3>1. CASE n <= k
      <4>1. m \in 1..k /\ n \in 1..k /\ m \in 1..Len(fs) /\ n \in 1..Len(fs)
        BY <1>2, <1>3, <2>1, <3>1
      <4> QED BY <1>17, <2>1, <4>1 DEF Chain
    <3>2. CASE n = k + 1
      <4>1. m \in 1..k
        BY <1>2, <1>3, <2>1, <3>2
      <4> QED BY <1>17, <1>20, <3>2, <4>1
    <3>3. CASE n > k + 1
      <4>1. n - (k + 1) \in 1..l /\ w[n] = N[n - (k + 1)]
        <5>1. n - (k + 1) \in 1..l /\ k + 1 + (n - (k + 1)) = n
          BY <1>2, <1>3, <1>16, <3>3
        <5> QED BY <1>17, <5>1
      <4>2. CASE m <= k
        <5>1. m \in 1..k
          BY <1>2, <1>3, <4>2
        <5> QED BY <1>17, <1>20, <4>1, <5>1
      <4>3. CASE m = k + 1
        BY <1>17, <1>21, <4>1, <4>3
      <4>4. CASE m > k + 1
        <5>1. m - (k + 1) \in 1..l /\ k + 1 + (m - (k + 1)) = m /\ m - (k + 1) < n - (k + 1)
          BY <1>2, <1>3, <1>16, <2>1, <4>4
        <5>2. w[m] = N[m - (k + 1)]
          BY <1>17, <5>1
        <5> QED BY <1>15, <4>1, <5>1, <5>2 DEF Chain
      <4> QED BY <1>2, <1>3, <4>2, <4>3, <4>4
    <3> QED BY <1>2, <1>3, <3>1, <3>2, <3>3
  <2> QED BY <1>17, <2>1 DEF Chain
<1>23. /\ \A m \in 1..k : m \in 1..Len(w)
       /\ k + 1 \in 1..Len(w)
       /\ \A m \in 1..l : k + 1 + m \in 1..Len(w)
  BY <1>2, <1>3, <1>16, <1>17
<1>24. ASSUME NEW u \in Nat, u \in c[1]..(c[2] - 1) PROVE Covers(w, u)
  <2>1. CASE new.offset <= u
    <3>1. u < new.end
      BY <1>3, <1>7, <1>24
    <3> QED BY <1>17, <1>23, <2>1, <3>1 DEF Covers
  <2>2. CASE ~(new.offset <= u)
    <3>1. k > 0 /\ u < fs[k].end
      BY <1>3, <1>5, <1>7, <1>24, <2>2
    <3>2. k \in 1..k
      BY <1>2, <1>3, <3>1
    <3>3. fs[k].offset <= u
      BY <1>2, <1>3, <1>4, <1>24, <3>2
    <3> QED BY <1>17, <1>23, <3>1, <3>2, <3>3 DEF Covers
  <2> QED BY <2>1, <2>2
<1>25. ASSUME NEW u \in Nat, Covers(fs, u) PROVE Covers(w, u)
  <2>1. PICK m \in 1..Len(fs) : fs[m].offset <= u /\ u < fs[m].end
    BY <1>25 DEF Covers
  <2>2. CASE m <= k
    <3>1. m \in 1..k
      BY <2>2
    <3> QED BY <1>17, <1>23, <2>1, <3>1 DEF Covers
  <2>3. CASE ~(m <= k)
    <3>1. m - k \in 1..Len(B) /\ k + (m - k) = m /\ m \in (k + 1)..Len(fs)
      BY <1>2, <1>3, <1>10, <2>3
    <3>2. B[m - k] = fs[m] /\ fs[m].offset >= c[1]
      BY <1>2, <1>12, <3>1
    <3>3. CASE u < c[2]
      <4>1. u \in c[1]..(c[2] - 1)
        BY <1>3, <1>4, <2>1, <3>2, <3>3
      <4> QED BY <1>24, <4>1
    <3>4. CASE ~(u < c[2])
      <4>1. ~(fs[m].end <= c[2])
        BY <1>3, <1>4, <2>1, <3>4
      <4>2. PICK n \in 1..l : N[n].end = fs[m].end /\ N[n].offset \in {c[2], fs[m].offset}
        BY <1>30, <3>1, <3>2, <4>1
      <4>3. N[n].offset <= u /\ u < N[n].end
        BY <1>3, <2>1, <3>4, <4>2
      <4> QED BY <1>17, <1>23, <4>3 DEF Covers
    <3> QED BY <3>3, <3>4
  <2> QED BY <2>2, <2>3
<1>26. Ends(w) => Ends(fs) \/ c[2] = Size
  <2> SUFFICES ASSUME NEW m \in 1..Len(w), w[m].end = Size PROVE Ends(fs) \/ c[2] = Size
    BY DEF Ends
  <2>1. CASE m <= k
    <3>1. m \in 1..k /\ m \in 1..Len(fs)
      BY <1>2, <1>3, <1>17, <2>1
    <3> QED BY <1>17, <3>1 DEF Ends
  <2>2. CASE m = k + 1
    BY <1>7, <1>17, <2>2
  <2>3. CASE m > k + 1
    <3>1. m - (k + 1) \in 1..l /\ k + 1 + (m - (k + 1)) = m
      BY <1>2, <1>3, <1>16, <1>17, <2>3
    <3>2. PICK n \in 1..Len(B) : B[n].end = N[m - (k + 1)].end
      BY <1>15, <3>1
    <3>3. fs[k + n].end = Size
      BY <1>12, <1>17, <3>1, <3>2
    <3> QED BY <1>12, <3>3 DEF Ends
  <2> QED BY <1>2, <1>3, <1>16, <1>17, <2>1, <2>2, <2>3
<1>27. Ends(fs) \/ c[2] = Size => Ends(w)
  <2>1. CASE c[2] = Size
    BY <1>7, <1>17, <1>23, <2>1 DEF Ends
  <2>2. CASE Ends(fs) /\ c[2] # Size
    <3>1. PICK m \in 1..Len(fs) : fs[m].end = Size
      BY <2>2 DEF Ends
    <3>2. CASE m <= k
      <4>1. m \in 1..k
        BY <3>2
      <4> QED BY <1>17, <1>23, <3>1, <4>1 DEF Ends
    <3>3. CASE ~(m <= k)
      <4>1. m - k \in 1..Len(B) /\ k + (m - k) = m
        BY <1>2, <1>3, <1>10, <3>3
      <4>2. B[m - k].end = Size /\ ~(B[m - k].end <= c[2])
        BY <1>3, <1>12, <2>2, <3>1, <4>1
      <4>3. PICK n \in 1..l : N[n].end = Size
        BY <1>30, <4>1, <4>2
      <4> QED BY <1>17, <1>23, <4>3 DEF Ends
    <3> QED BY <3>2, <3>3
  <2> QED BY <2>1, <2>2
<1>28. Begins(w) => Begins(fs) \/ c[1] = 0
  <2> SUFFICES ASSUME NEW m \in 1..Len(w), w[m].offset = 0 PROVE Begins(fs) \/ c[1] = 0
    BY DEF Begins
  <2>1. CASE m <= k
    <3>1. m \in 1..k /\ m \in 1..Len(fs)
      BY <1>2, <1>3, <1>17, <2>1
    <3> QED BY <1>17, <3>1 DEF Begins
  <2>2. CASE m = k + 1
    <3>1. c[1] + i = 0
      BY <1>7, <1>17, <2>2
    <3> QED BY <1>3, <1>5, <3>1
  <2>3. CASE m > k + 1
    <3>1. m - (k + 1) \in 1..l /\ k + 1 + (m - (k + 1)) = m
      BY <1>2, <1>3, <1>16, <1>17, <2>3
    <3>2. c[2] <= 0
      BY <1>31, <1>17, <3>1
    <3> QED BY <1>3, <3>2
  <2> QED BY <1>2, <1>3, <1>16, <1>17, <2>1, <2>2, <2>3
<1>29. /\ Insert(fs, c).fragments = w /\ Insert(fs, c).charged = Charge(new) - a.freed
       /\ Charge(new) - a.freed \in Int /\ Charge(new) - a.freed <= sizeof_ipfrag + Size
  BY <1>1, <1>3, <1>7, <1>8, <1>15 DEF sizeof_ipfrag
<1> QED BY <1>18, <1>22, <1>24, <1>25, <1>26, <1>27, <1>28, <1>29
-----------------------------------------------------------------------------
(* The table of queues.                                                    *)

\* Queues and tables, with ints and lists of any value.
Queues ==
  [len : {0, Size}, header : Int, fragments : Seq(Pieces), expires : (-Half)..(Half - 1),
   seen : Nat, have : SUBSET Nat]

Tables ==
  [hosts : SUBSET Hosts, ip_frag_mem : [Hosts -> Nat], ipqueue : [Hosts -> Seq(Datagrams)],
   q : UNION {[D -> Queues] : D \in SUBSET Datagrams}, timers : Seq(Datagrams)]

\* What a queue takes, and the queues of a host.
Cost(qp) == sizeof_ipq + Charges(qp.fragments)
Costs(t, h) == [i \in 1..Len(t.ipqueue[h]) |-> Cost(t.q[t.ipqueue[h][i]])]

\* The queues to a host.
Local(t, h) == {d \in Queued(t) : HostOf[d] = h}

\* The lists, host entries and accounts agree with the queues.  (A host entry
\* may be new and have no queue yet.)
Linked(t) ==
  /\ t \in Tables
  /\ Lists(t.timers, Queued(t))
  /\ \A h \in Hosts : /\ Lists(t.ipqueue[h], Local(t, h))
                      /\ t.ipqueue[h] # <<>> => h \in t.hosts
                      /\ t.ip_frag_mem[h] = SumOf(Costs(t, h))

\* The list of timers is in the order of the last fragments.
Timely(t) ==
  \A i, j \in 1..Len(t.timers) : i < j => t.q[t.timers[i]].seen <= t.q[t.timers[j]].seen

\* Host entries without a queue.
Vacant(t) == {h \in t.hosts : t.ipqueue[h] = <<>>}

\* r is t less some of its queues.
Less(t, r) ==
  /\ Linked(r) /\ Queued(r) \subseteq Queued(t)
  /\ \A d \in Queued(r) : r.q[d] = t.q[d]
  /\ \A h \in Hosts : r.ip_frag_mem[h] <= t.ip_frag_mem[h]
  /\ Vacant(r) \subseteq Vacant(t)
  /\ Timely(t) => Timely(r)

\* The fields of a table.
LEMMA TableFields ==
  ASSUME NEW t \in Tables
  PROVE  /\ t.hosts \subseteq Hosts /\ t.ip_frag_mem \in [Hosts -> Nat]
         /\ t.ipqueue \in [Hosts -> Seq(Datagrams)] /\ t.timers \in Seq(Datagrams)
         /\ Queued(t) \subseteq Datagrams /\ t.q \in [Queued(t) -> Queues]
         /\ \A d \in Queued(t) : t.q[d] \in Queues /\ HostOf[d] \in Hosts
<1>1. PICK D \in SUBSET Datagrams : t.q \in [D -> Queues]
  BY DEF Tables
<1>2. Queued(t) = D
  BY <1>1 DEF Queued
<1> QED BY <1>1, <1>2, IpFragAssumption DEF Tables

\* What a queue takes is a number.
LEMMA CostType ==
  ASSUME NEW x \in Queues
  PROVE  Cost(x) \in Nat /\ Cost(x) = sizeof_ipq + Charges(x.fragments) /\ Charges(x.fragments) \in Nat
<1>1. x.fragments \in Seq(Pieces)
  BY DEF Queues
<1> QED BY <1>1, ChargesType DEF Cost, sizeof_ipq

\* The queues of a host and what they take.
LEMMA CostsType ==
  ASSUME NEW t, Linked(t), NEW h \in Hosts
  PROVE  /\ Costs(t, h) \in Seq(Nat) /\ Len(Costs(t, h)) = Len(t.ipqueue[h])
         /\ t.ipqueue[h] \in Seq(Datagrams) /\ Len(t.ipqueue[h]) \in Nat
         /\ \A i \in 1..Len(t.ipqueue[h]) :
              /\ t.ipqueue[h][i] \in Queued(t) /\ HostOf[t.ipqueue[h][i]] = h
              /\ Costs(t, h)[i] = Cost(t.q[t.ipqueue[h][i]])
<1>1. t \in Tables /\ Lists(t.ipqueue[h], Local(t, h))
  BY DEF Linked
<1>2. t.ipqueue[h] \in Seq(Datagrams) /\ Len(t.ipqueue[h]) \in Nat
  BY <1>1 DEF Lists
<1>3. ASSUME NEW i \in 1..Len(t.ipqueue[h])
      PROVE  t.ipqueue[h][i] \in Queued(t) /\ HostOf[t.ipqueue[h][i]] = h
  BY <1>1, <1>2 DEF Lists, ToSet, Local
<1>4. \A i \in 1..Len(t.ipqueue[h]) : Cost(t.q[t.ipqueue[h][i]]) \in Nat
  BY <1>1, <1>3, TableFields, CostType
<1>5. Costs(t, h) \in Seq(Nat) /\ Len(Costs(t, h)) = Len(t.ipqueue[h])
  BY <1>2, <1>4 DEF Costs
<1> QED BY <1>2, <1>3, <1>5 DEF Costs

\* A table is itself less none of its queues.
LEMMA LessSelf ==
  ASSUME NEW t, Linked(t)
  PROVE  Less(t, t)
<1>1. \A h \in Hosts : t.ip_frag_mem[h] \in Nat
  BY TableFields DEF Linked
<1> QED BY <1>1 DEF Less

\* Queues may go one after the other.
LEMMA LessTransitive ==
  ASSUME NEW t, NEW r, NEW s, Linked(t), Less(t, r), Less(r, s)
  PROVE  Less(t, s)
<1>1. \A h \in Hosts : t.ip_frag_mem[h] \in Nat /\ r.ip_frag_mem[h] \in Nat /\ s.ip_frag_mem[h] \in Nat
  BY TableFields DEF Linked, Less
<1>2. \A h \in Hosts : s.ip_frag_mem[h] <= t.ip_frag_mem[h]
  BY <1>1 DEF Less
<1> QED BY <1>2 DEF Less

\* ip_free: one queue less, its timer, its place and its account.
LEMMA Freed ==
  ASSUME NEW t, Linked(t), NEW d \in Queued(t)
  PROVE  LET r == ip_free(t, d)
             h == HostOf[d]
         IN  /\ Less(t, r)
             /\ Queued(r) = Queued(t) \ {d}
             /\ Len(r.timers) = Len(t.timers) - 1
             /\ Len(r.ipqueue[h]) = Len(t.ipqueue[h]) - 1
<1> DEFINE r    == ip_free(t, d)
           h    == HostOf[d]
           left == RemoveFirst(t.ipqueue[h], d)
           mem  == IF left = <<>> THEN 0
                   ELSE t.ip_frag_mem[h] - Charges(t.q[d].fragments) - sizeof_ipq
<1>1. t \in Tables /\ Lists(t.timers, Queued(t)) /\ h \in Hosts /\ Lists(t.ipqueue[h], Local(t, h))
      /\ d \in Local(t, h)
  BY TableFields DEF Linked, Local
<1>2. t.hosts \subseteq Hosts /\ t.ip_frag_mem \in [Hosts -> Nat]
      /\ t.ipqueue \in [Hosts -> Seq(Datagrams)] /\ t.timers \in Seq(Datagrams)
      /\ Queued(t) \subseteq Datagrams /\ t.q \in [Queued(t) -> Queues]
      /\ \A x \in Queued(t) : t.q[x] \in Queues
  BY <1>1, TableFields
<1>3. Lists(left, Local(t, h) \ {d}) /\ Len(left) = Len(t.ipqueue[h]) - 1 /\ left \in Seq(Datagrams)
  BY <1>1, RemovedLists DEF Lists
<1>4. Lists(RemoveFirst(t.timers, d), Queued(t) \ {d})
      /\ Len(RemoveFirst(t.timers, d)) = Len(t.timers) - 1
      /\ RemoveFirst(t.timers, d) \in Seq(Datagrams)
  BY <1>1, RemovedLists DEF Lists
<1>5. /\ r.timers = RemoveFirst(t.timers, d)
      /\ r.ipqueue = [t.ipqueue EXCEPT ![h] = left]
      /\ r.hosts = IF left = <<>> THEN t.hosts \ {h} ELSE t.hosts
      /\ r.ip_frag_mem = [t.ip_frag_mem EXCEPT ![h] = mem]
      /\ r.q = [x \in Queued(t) \ {d} |-> t.q[x]]
      /\ r = [hosts |-> r.hosts, ip_frag_mem |-> r.ip_frag_mem, ipqueue |-> r.ipqueue,
              q |-> r.q, timers |-> r.timers]
  <2> HIDE DEF left, mem
  <2> DEFINE ts == RemoveFirst(t.timers, d)
             hs == IF left = <<>> THEN t.hosts \ {h} ELSE t.hosts
             qs == [x \in Queued(t) \ {d} |-> t.q[x]]
  <2>1. r = [t EXCEPT !.timers = ts, !.ipqueue[h] = left, !.hosts = hs, !.ip_frag_mem[h] = mem, !.q = qs]
    BY DEF ip_free, left, mem
  <2> HIDE DEF r, ts, hs, qs
  <2>2. t = [hosts |-> t.hosts, ip_frag_mem |-> t.ip_frag_mem, ipqueue |-> t.ipqueue,
             q |-> t.q, timers |-> t.timers]
    BY <1>1 DEF Tables
  <2>3. r = [hosts |-> hs, ip_frag_mem |-> [t.ip_frag_mem EXCEPT ![h] = mem],
             ipqueue |-> [t.ipqueue EXCEPT ![h] = left], q |-> qs, timers |-> ts]
    BY <2>1, <2>2
  <2> QED BY <2>3 DEF ts, hs, qs
<1> HIDE DEF r, left
<1>6. Queued(r) = Queued(t) \ {d} /\ \A x \in Queued(r) : r.q[x] = t.q[x]
  BY <1>5 DEF Queued
<1>7. Local(r, h) = Local(t, h) \ {d} /\ \A g \in Hosts : g # h => Local(r, g) = Local(t, g)
  BY <1>6 DEF Local
<1>8. r.ipqueue[h] = left /\ \A g \in Hosts : g # h => r.ipqueue[g] = t.ipqueue[g]
  BY <1>1, <1>2, <1>5
<1>9. PICK i \in 1..Len(t.ipqueue[h]) : t.ipqueue[h][i] = d /\ left = RemoveAt(t.ipqueue[h], i)
  BY <1>1, RemovedFirst DEF left
<1>10. /\ Costs(t, h) \in Seq(Nat) /\ Len(Costs(t, h)) = Len(t.ipqueue[h])
       /\ t.ipqueue[h] \in Seq(Datagrams) /\ Len(t.ipqueue[h]) \in Nat
       /\ \A k \in 1..Len(t.ipqueue[h]) :
            /\ t.ipqueue[h][k] \in Queued(t)
            /\ Costs(t, h)[k] = Cost(t.q[t.ipqueue[h][k]])
  BY <1>1, CostsType
<1>11. Costs(r, h) = RemoveAt(Costs(t, h), i)
  <2> DEFINE n == Len(t.ipqueue[h])
             c == RemoveAt(Costs(t, h), i)
  <2>1. c \in Seq(Nat) /\ Len(c) = n - 1
        /\ \A k \in 1..(n - 1) : c[k] = IF k < i THEN Costs(t, h)[k] ELSE Costs(t, h)[k + 1]
    <3>1. i \in 1..Len(Costs(t, h))
      BY <1>10
    <3>2. c \in Seq(Nat) /\ Len(c) = Len(Costs(t, h)) - 1
          /\ \A k \in 1..(Len(Costs(t, h)) - 1) : c[k] = IF k < i THEN Costs(t, h)[k] ELSE Costs(t, h)[k + 1]
      BY <1>10, <3>1, Removed
    <3> HIDE DEF c
    <3> QED BY <1>10, <3>2
  <2>2. \A k \in 1..(n - 1) : left[k] = IF k < i THEN t.ipqueue[h][k] ELSE t.ipqueue[h][k + 1]
    BY <1>9, <1>10, Removed
  <2>3. ASSUME NEW k \in 1..(n - 1) PROVE Cost(r.q[left[k]]) = c[k]
    <3> DEFINE m == IF k < i THEN k ELSE k + 1
    <3>1. m \in 1..n /\ m # i /\ left[k] = t.ipqueue[h][m] /\ c[k] = Costs(t, h)[m]
      <4>1. m \in 1..n /\ m # i
        BY <1>10
      <4>2. CASE k < i
        BY <2>1, <2>2, <4>1, <4>2
      <4>3. CASE ~(k < i)
        BY <2>1, <2>2, <4>1, <4>3
      <4> QED BY <4>2, <4>3
    <3> HIDE DEF m
    <3>2. t.ipqueue[h][m] # d
      BY <1>1, <1>9, <3>1 DEF Lists
    <3>3. r.q[left[k]] = t.q[t.ipqueue[h][m]]
      BY <1>6, <1>10, <3>1, <3>2
    <3> QED BY <1>10, <3>1, <3>3
  <2> HIDE DEF c
  <2>4. Costs(r, h) = [k \in 1..(n - 1) |-> Cost(r.q[left[k]])]
    BY <1>3, <1>8 DEF Costs
  <2>5. c = [k \in 1..(n - 1) |-> c[k]]
    BY <2>1
  <2> QED BY <2>3, <2>4, <2>5 DEF c
<1>12. SumOf(Costs(r, h)) \in Nat /\ SumOf(Costs(t, h)) = SumOf(Costs(r, h)) + Cost(t.q[d])
  BY <1>9, <1>10, <1>11, SumRemoved
<1>13. t.ip_frag_mem[h] = SumOf(Costs(t, h)) /\ Cost(t.q[d]) \in Nat
       /\ Cost(t.q[d]) = sizeof_ipq + Charges(t.q[d].fragments) /\ Charges(t.q[d].fragments) \in Nat
  BY <1>1, <1>2, CostType DEF Linked
<1>14. mem = SumOf(Costs(r, h))
  <2>1. CASE left = <<>>
    <3>1. Costs(r, h) = <<>>
      BY <1>8, <2>1 DEF Costs
    <3> QED BY <2>1, <3>1, SumEmpty
  <2>2. CASE left # <<>>
    <3>1. mem = t.ip_frag_mem[h] - Charges(t.q[d].fragments) - sizeof_ipq
      BY <2>2
    <3> QED BY <1>12, <1>13, <3>1 DEF sizeof_ipq
  <2> QED BY <2>1, <2>2
<1> HIDE DEF mem
<1>15. r.ip_frag_mem[h] = mem /\ \A g \in Hosts : g # h => r.ip_frag_mem[g] = t.ip_frag_mem[g]
  BY <1>1, <1>2, <1>5
<1>16. ASSUME NEW g \in Hosts, g # h PROVE Costs(r, g) = Costs(t, g)
  <2>1. \A k \in 1..Len(t.ipqueue[g]) : t.ipqueue[g][k] \in Queued(t) /\ HostOf[t.ipqueue[g][k]] = g
    BY <1>16, CostsType
  <2>2. \A k \in 1..Len(t.ipqueue[g]) : r.q[t.ipqueue[g][k]] = t.q[t.ipqueue[g][k]]
    BY <1>6, <1>16, <2>1
  <2>3. r.ipqueue[g] = t.ipqueue[g]
    BY <1>8, <1>16
  <2> QED BY <2>2, <2>3 DEF Costs
<1>17. \A g \in Hosts : r.ip_frag_mem[g] <= t.ip_frag_mem[g]
  <2>1. mem <= t.ip_frag_mem[h]
    BY <1>12, <1>13, <1>14
  <2> SUFFICES ASSUME NEW g \in Hosts PROVE r.ip_frag_mem[g] <= t.ip_frag_mem[g]
    OBVIOUS
  <2>2. CASE g = h
    BY <1>15, <2>1, <2>2
  <2>3. CASE g # h
    <3>1. t.ip_frag_mem[g] \in Nat
      BY <1>2
    <3> QED BY <1>15, <2>3, <3>1
  <2> QED BY <2>2, <2>3
<1>18. r \in Tables
  <2>1. r.hosts \in SUBSET Hosts
    BY <1>2, <1>5
  <2>2. r.ip_frag_mem \in [Hosts -> Nat]
    BY <1>1, <1>2, <1>5, <1>12, <1>14
  <2>3. r.ipqueue \in [Hosts -> Seq(Datagrams)]
    BY <1>1, <1>2, <1>3, <1>5
  <2>4. r.q \in [Queued(t) \ {d} -> Queues] /\ Queued(t) \ {d} \in SUBSET Datagrams
    BY <1>2, <1>5
  <2>5. r.q \in UNION {[D -> Queues] : D \in SUBSET Datagrams}
    BY <2>4
  <2>6. r.timers \in Seq(Datagrams)
    BY <1>4, <1>5
  <2> QED BY <1>5, <2>1, <2>2, <2>3, <2>5, <2>6 DEF Tables
<1>19. Linked(r)
  <2>1. ASSUME NEW g \in Hosts
        PROVE  /\ Lists(r.ipqueue[g], Local(r, g))
               /\ r.ipqueue[g] # <<>> => g \in r.hosts
               /\ r.ip_frag_mem[g] = SumOf(Costs(r, g))
    <3>1. CASE g = h
      <4>1. Lists(r.ipqueue[g], Local(r, g))
        BY <1>3, <1>7, <1>8, <3>1
      <4>2. left # <<>> => h \in t.hosts
        <5>1. Len(left) \in Nat /\ (left # <<>> => Len(left) > 0)
          BY <1>3
        <5>2. left # <<>> => t.ipqueue[h] # <<>>
          BY <1>3, <1>10, <5>1
        <5> QED BY <1>1, <5>2 DEF Linked
      <4>3. r.ip_frag_mem[g] = SumOf(Costs(r, g))
        BY <1>14, <1>15, <3>1
      <4> QED BY <1>5, <1>8, <3>1, <4>1, <4>2, <4>3
    <3>2. CASE g # h
      BY <1>5, <1>7, <1>8, <1>15, <1>16, <3>2 DEF Linked
    <3> QED BY <3>1, <3>2
  <2> QED BY <1>4, <1>5, <1>6, <1>18, <2>1 DEF Linked
<1>20. Vacant(r) \subseteq Vacant(t)
  <2> SUFFICES ASSUME NEW g \in r.hosts, r.ipqueue[g] = <<>> PROVE g \in t.hosts /\ t.ipqueue[g] = <<>>
    BY DEF Vacant
  <2>1. g \in Hosts /\ g \in t.hosts
    BY <1>2, <1>5
  <2>2. g # h
    BY <1>5, <1>8
  <2> QED BY <1>8, <2>1, <2>2
<1>21. Timely(t) => Timely(r)
  <2>1. PICK k \in 1..Len(t.timers) : t.timers[k] = d /\ r.timers = RemoveAt(t.timers, k)
    BY <1>1, <1>5, RemovedFirst
  <2>2. /\ Len(r.timers) = Len(t.timers) - 1 /\ Len(t.timers) \in Nat
        /\ \A m \in 1..(Len(t.timers) - 1) : r.timers[m] = IF m < k THEN t.timers[m] ELSE t.timers[m + 1]
    <3>1. Len(t.timers) \in Nat
      BY <1>2
    <3>2. Len(RemoveAt(t.timers, k)) = Len(t.timers) - 1
          /\ \A m \in 1..(Len(t.timers) - 1) :
               RemoveAt(t.timers, k)[m] = IF m < k THEN t.timers[m] ELSE t.timers[m + 1]
      BY <1>2, <2>1, Removed
    <3> QED BY <2>1, <3>1, <3>2
  <2> SUFFICES ASSUME Timely(t), NEW m \in 1..Len(r.timers), NEW n \in 1..Len(r.timers), m < n
               PROVE  r.q[r.timers[m]].seen <= r.q[r.timers[n]].seen
    BY DEF Timely
  <2> DEFINE a == IF m < k THEN m ELSE m + 1
             b == IF n < k THEN n ELSE n + 1
  <2>3. a \in 1..Len(t.timers) /\ b \in 1..Len(t.timers) /\ a < b
        /\ r.timers[m] = t.timers[a] /\ r.timers[n] = t.timers[b]
    BY <2>2
  <2>4. r.timers[m] \in Queued(r) /\ r.timers[n] \in Queued(r)
    BY <1>19 DEF Linked, Lists, ToSet
  <2> QED BY <1>6, <2>3, <2>4 DEF Timely
<1>22. Less(t, r)
  BY <1>6, <1>17, <1>19, <1>20, <1>21 DEF Less
<1> QED BY <1>3, <1>4, <1>5, <1>6, <1>8, <1>22 DEF r
-----------------------------------------------------------------------------
(* Expiry and eviction.                                                    *)

\* turn[k] is the table after k turns of the loop over the timers.
ExpireTurns(t, n, turn) == turn = [k \in 0..n |-> IF k = 0 THEN t ELSE ip_expire(turn[k - 1])]

\* The loop can be run, so that Expire is what its recursion says.
LEMMA ExpireExist ==
  ASSUME NEW t, Len(t.timers) \in Nat
  PROVE  \E turn : ExpireTurns(t, Len(t.timers), turn) /\ Expire(t) = turn[Len(t.timers)]
<1> DEFINE T == {n \in Nat : \E turn : ExpireTurns(t, n, turn)}
<1>1. 0 \in T
  <2> DEFINE turn == [k \in 0..0 |-> t]
  <2>1. turn = [k \in 0..0 |-> IF k = 0 THEN t ELSE ip_expire(turn[k - 1])]
    OBVIOUS
  <2> HIDE DEF turn
  <2>2. ExpireTurns(t, 0, turn)
    BY <2>1 DEF ExpireTurns
  <2> QED BY <2>2
<1>2. ASSUME NEW n \in T PROVE n + 1 \in T
  <2>1. n \in Nat /\ n + 1 \in Nat
    OBVIOUS
  <2>2. PICK turn : ExpireTurns(t, n, turn)
    OBVIOUS
  <2> DEFINE more == [k \in 0..(n + 1) |-> IF k = n + 1 THEN ip_expire(turn[n]) ELSE turn[k]]
  <2>3. \A k \in 0..n : turn[k] = IF k = 0 THEN t ELSE ip_expire(turn[k - 1])
    BY <2>2 DEF ExpireTurns
  <2>4. ASSUME NEW k \in 0..(n + 1)
        PROVE  more[k] = IF k = 0 THEN t ELSE ip_expire(more[k - 1])
    <3>1. CASE k = n + 1
      <4>1. k # 0 /\ k - 1 = n /\ k - 1 \in 0..(n + 1) /\ k - 1 # n + 1
        BY <2>1, <3>1
      <4>2. more[k] = ip_expire(turn[n])
        BY <3>1
      <4>3. more[k - 1] = turn[n]
        BY <4>1
      <4> QED BY <4>1, <4>2, <4>3
    <3>2. CASE k # n + 1
      <4>1. k \in 0..n
        BY <2>1, <3>2
      <4>2. more[k] = turn[k]
        BY <3>2
      <4>3. k # 0 => k - 1 \in 0..(n + 1) /\ k - 1 # n + 1
        BY <2>1, <4>1
      <4>4. k # 0 => more[k - 1] = turn[k - 1]
        BY <4>3
      <4> HIDE DEF more
      <4> QED BY <2>3, <4>1, <4>2, <4>4
    <3> QED BY <3>1, <3>2
  <2>5. more = [k \in 0..(n + 1) |-> more[k]]
    OBVIOUS
  <2> HIDE DEF more
  <2>6. ExpireTurns(t, n + 1, more)
    BY <2>4, <2>5 DEF ExpireTurns
  <2> QED BY <2>1, <2>6
<1>3. T = Nat
  <2> HIDE DEF T
  <2>1. T \in SUBSET Nat
    BY DEF T
  <2> QED BY <1>1, <1>2, <2>1, SetInduction
<1>4. \E turn : ExpireTurns(t, Len(t.timers), turn)
  <2>1. Len(t.timers) \in T
    <3> HIDE DEF T
    <3> QED BY <1>3
  <2> QED BY <2>1
<1> DEFINE run == CHOOSE turn : ExpireTurns(t, Len(t.timers), turn)
<1>5. Expire(t) = run[Len(t.timers)]
  BY DEF Expire, ExpireTurns
<1>6. ExpireTurns(t, Len(t.timers), run)
  BY <1>4
<1> QED BY <1>5, <1>6

\* The loop stops at the first timer that has not expired.
Stopped(t) == t.timers # <<>> /\ ~(t.q[Head(t.timers)].expires < jiffies)

\* The first loop of ip_defrag_stub frees queues that have expired only, and
\* ends at a timer that has not.
LEMMA Expired ==
  ASSUME NEW t, Linked(t)
  PROVE  LET r == Expire(t)
         IN  /\ Less(t, r)
             /\ \A d \in Queued(t) \ Queued(r) : t.q[d].expires < jiffies
             /\ r.timers = <<>> \/ Stopped(r)
<1> DEFINE L == Len(t.timers)
<1>1. t.timers \in Seq(Datagrams) /\ L \in Nat
  BY DEF Linked, Lists
<1>2. PICK turn : ExpireTurns(t, L, turn) /\ Expire(t) = turn[L]
  BY <1>1, ExpireExist
<1>3. \A k \in 0..L : turn[k] = IF k = 0 THEN t ELSE ip_expire(turn[k - 1])
  BY <1>2 DEF ExpireTurns
<1> DEFINE Gone(s) == \A d \in Queued(t) \ Queued(s) : t.q[d].expires < jiffies
           T == {n \in Nat : n <= L =>
                   /\ Less(t, turn[n]) /\ Gone(turn[n])
                   /\ Len(turn[n].timers) = L - n \/ Stopped(turn[n])}
<1>4. 0 \in T
  <2>1. turn[0] = t
    BY <1>1, <1>3
  <2>2. Less(t, t) /\ Gone(t)
    BY LessSelf
  <2>3. Len(t.timers) = L - 0
    BY <1>1
  <2> HIDE DEF Gone
  <2> QED BY <2>1, <2>2, <2>3
<1>5. ASSUME NEW n \in T PROVE n + 1 \in T
  <2>1. n \in Nat /\ n + 1 \in Nat
    OBVIOUS
  <2>2. ASSUME n + 1 <= L
        PROVE  /\ Less(t, turn[n + 1]) /\ Gone(turn[n + 1])
               /\ Len(turn[n + 1].timers) = L - (n + 1) \/ Stopped(turn[n + 1])
    <3> DEFINE s == turn[n]
               d == Head(s.timers)
    <3>1. n <= L /\ n + 1 \in 0..L /\ n + 1 # 0 /\ (n + 1) - 1 = n
      BY <1>1, <2>1, <2>2
    <3>2. turn[n + 1] = ip_expire(s)
      BY <1>3, <3>1
    <3>3. Less(t, s) /\ Gone(s) /\ (Len(s.timers) = L - n \/ Stopped(s))
      BY <3>1
    <3> HIDE DEF s
    <3>4. CASE s.timers # <<>> /\ s.q[d].expires < jiffies
      <4>1. turn[n + 1] = ip_free(s, d)
        BY <3>2, <3>4 DEF ip_expire
      <4>2. Linked(s) /\ Lists(s.timers, Queued(s))
        BY <3>3 DEF Less, Linked
      <4>3. d \in Queued(s)
        <5>1. s.timers \in Seq(Datagrams) /\ 1 \in 1..Len(s.timers) /\ d = s.timers[1]
          BY <3>4, <4>2 DEF Lists
        <5> QED BY <4>2, <5>1 DEF Lists, ToSet
      <4>4. Less(s, turn[n + 1]) /\ Queued(turn[n + 1]) = Queued(s) \ {d}
            /\ Len(turn[n + 1].timers) = Len(s.timers) - 1
        BY <4>1, <4>2, <4>3, Freed
      <4>5. Less(t, turn[n + 1])
        BY <3>3, <4>4, LessTransitive
      <4>6. Gone(turn[n + 1])
        <5>1. s.q[d] = t.q[d]
          BY <3>3, <4>3 DEF Less
        <5> QED BY <3>3, <3>4, <4>4, <5>1
      <4>7. Len(s.timers) = L - n
        BY <3>3, <3>4 DEF Stopped
      <4> HIDE DEF Gone
      <4> QED BY <1>1, <2>1, <4>4, <4>5, <4>6, <4>7
    <3>5. CASE ~(s.timers # <<>> /\ s.q[d].expires < jiffies)
      <4>1. turn[n + 1] = s
        BY <3>2, <3>5 DEF ip_expire
      <4>2. Stopped(s)
        <5>1. Len(s.timers) = L - n => s.timers # <<>>
          BY <1>1, <2>1, <2>2
        <5> QED BY <3>3, <3>5, <5>1 DEF Stopped
      <4> HIDE DEF Gone
      <4> QED BY <3>3, <4>1, <4>2
    <3> QED BY <3>4, <3>5
  <2> HIDE DEF Gone
  <2> QED BY <2>1, <2>2
<1>6. T = Nat
  <2> HIDE DEF T
  <2>1. T \in SUBSET Nat
    BY DEF T
  <2> QED BY <1>4, <1>5, <2>1, SetInduction
<1>7. Less(t, turn[L]) /\ Gone(turn[L]) /\ (Len(turn[L].timers) = L - L \/ Stopped(turn[L]))
  <2>1. L \in T /\ L <= L
    <3> HIDE DEF T
    <3> QED BY <1>1, <1>6
  <2> HIDE DEF Gone, L
  <2> QED BY <2>1
<1>8. Len(turn[L].timers) = L - L => turn[L].timers = <<>>
  <2>1. turn[L].timers \in Seq(Datagrams)
    BY <1>7 DEF Less, Linked, Lists
  <2> QED BY <1>1, <2>1
<1> QED BY <1>2, <1>7, <1>8

\* turn[k] is the table after k turns of ip_evictor.
EvictTurns(t, h, n, turn) == turn = [k \in 0..n |-> IF k = 0 THEN t ELSE Evict(turn[k - 1], h)]

\* The loop can be run, so that ip_evictor is what its recursion says.
LEMMA EvictExist ==
  ASSUME NEW t, NEW h, Len(t.ipqueue[h]) \in Nat
  PROVE  \E turn : EvictTurns(t, h, Len(t.ipqueue[h]), turn) /\ ip_evictor(t, h) = turn[Len(t.ipqueue[h])]
<1> DEFINE T == {n \in Nat : \E turn : EvictTurns(t, h, n, turn)}
<1>1. 0 \in T
  <2> DEFINE turn == [k \in 0..0 |-> t]
  <2>1. turn = [k \in 0..0 |-> IF k = 0 THEN t ELSE Evict(turn[k - 1], h)]
    OBVIOUS
  <2> HIDE DEF turn
  <2>2. EvictTurns(t, h, 0, turn)
    BY <2>1 DEF EvictTurns
  <2> QED BY <2>2
<1>2. ASSUME NEW n \in T PROVE n + 1 \in T
  <2>1. n \in Nat /\ n + 1 \in Nat
    OBVIOUS
  <2>2. PICK turn : EvictTurns(t, h, n, turn)
    OBVIOUS
  <2> DEFINE more == [k \in 0..(n + 1) |-> IF k = n + 1 THEN Evict(turn[n], h) ELSE turn[k]]
  <2>3. \A k \in 0..n : turn[k] = IF k = 0 THEN t ELSE Evict(turn[k - 1], h)
    BY <2>2 DEF EvictTurns
  <2>4. ASSUME NEW k \in 0..(n + 1)
        PROVE  more[k] = IF k = 0 THEN t ELSE Evict(more[k - 1], h)
    <3>1. CASE k = n + 1
      <4>1. k # 0 /\ k - 1 = n /\ k - 1 \in 0..(n + 1) /\ k - 1 # n + 1
        BY <2>1, <3>1
      <4>2. more[k] = Evict(turn[n], h)
        BY <3>1
      <4>3. more[k - 1] = turn[n]
        BY <4>1
      <4> QED BY <4>1, <4>2, <4>3
    <3>2. CASE k # n + 1
      <4>1. k \in 0..n
        BY <2>1, <3>2
      <4>2. more[k] = turn[k]
        BY <3>2
      <4>3. k # 0 => k - 1 \in 0..(n + 1) /\ k - 1 # n + 1
        BY <2>1, <4>1
      <4>4. k # 0 => more[k - 1] = turn[k - 1]
        BY <4>3
      <4> HIDE DEF more
      <4> QED BY <2>3, <4>1, <4>2, <4>4
    <3> QED BY <3>1, <3>2
  <2>5. more = [k \in 0..(n + 1) |-> more[k]]
    OBVIOUS
  <2> HIDE DEF more
  <2>6. EvictTurns(t, h, n + 1, more)
    BY <2>4, <2>5 DEF EvictTurns
  <2> QED BY <2>1, <2>6
<1>3. T = Nat
  <2> HIDE DEF T
  <2>1. T \in SUBSET Nat
    BY DEF T
  <2> QED BY <1>1, <1>2, <2>1, SetInduction
<1>4. \E turn : EvictTurns(t, h, Len(t.ipqueue[h]), turn)
  <2>1. Len(t.ipqueue[h]) \in T
    <3> HIDE DEF T
    <3> QED BY <1>3
  <2> QED BY <2>1
<1> DEFINE run == CHOOSE turn : EvictTurns(t, h, Len(t.ipqueue[h]), turn)
<1>5. ip_evictor(t, h) = run[Len(t.ipqueue[h])]
  BY DEF ip_evictor, EvictTurns
<1>6. EvictTurns(t, h, Len(t.ipqueue[h]), run)
  BY <1>4
<1> QED BY <1>5, <1>6

\* A host over the low mark has a queue that can be freed: ip_evictor never
\* panics.
LEMMA OverLow ==
  ASSUME NEW t, Linked(t), NEW h \in Hosts, t.ip_frag_mem[h] > IPFRAG_LOW_THRESH
  PROVE  /\ h \in t.hosts /\ t.ipqueue[h] # <<>>
         /\ Head(t.ipqueue[h]) \in Queued(t) /\ HostOf[Head(t.ipqueue[h])] = h
<1>1. t.ipqueue[h] # <<>>
  <2> SUFFICES ASSUME t.ipqueue[h] = <<>> PROVE FALSE
    OBVIOUS
  <2>1. Costs(t, h) = <<>>
    BY DEF Costs
  <2>2. t.ip_frag_mem[h] = 0
    BY <2>1, SumEmpty DEF Linked
  <2> QED BY <2>2, IpFragAssumption
<1>2. h \in t.hosts
  BY <1>1 DEF Linked
<1>3. 1 \in 1..Len(t.ipqueue[h]) /\ Head(t.ipqueue[h]) = t.ipqueue[h][1]
  BY <1>1, CostsType
<1>4. t.ipqueue[h][1] \in Queued(t) /\ HostOf[t.ipqueue[h][1]] = h
  BY <1>3, CostsType
<1> QED BY <1>1, <1>2, <1>3, <1>4

\* ip_evictor takes the host below the low mark.
LEMMA Evicted ==
  ASSUME NEW t, Linked(t), NEW h \in Hosts
  PROVE  Less(t, ip_evictor(t, h)) /\ ip_evictor(t, h).ip_frag_mem[h] <= IPFRAG_LOW_THRESH
<1> DEFINE L == Len(t.ipqueue[h])
<1>1. L \in Nat
  BY CostsType
<1>2. PICK turn : EvictTurns(t, h, L, turn) /\ ip_evictor(t, h) = turn[L]
  BY <1>1, EvictExist
<1>3. \A k \in 0..L : turn[k] = IF k = 0 THEN t ELSE Evict(turn[k - 1], h)
  BY <1>2 DEF EvictTurns
<1> DEFINE Low(s) == s.ip_frag_mem[h] <= IPFRAG_LOW_THRESH
           T == {n \in Nat : n <= L =>
                   Less(t, turn[n]) /\ (Len(turn[n].ipqueue[h]) = L - n \/ Low(turn[n]))}
<1>4. 0 \in T
  <2>1. turn[0] = t
    BY <1>1, <1>3
  <2>2. Less(t, t)
    BY LessSelf
  <2>3. Len(t.ipqueue[h]) = L - 0
    BY <1>1
  <2> HIDE DEF Low
  <2> QED BY <2>1, <2>2, <2>3
<1>5. ASSUME NEW n \in T PROVE n + 1 \in T
  <2>1. n \in Nat /\ n + 1 \in Nat
    OBVIOUS
  <2>2. ASSUME n + 1 <= L
        PROVE  Less(t, turn[n + 1]) /\ (Len(turn[n + 1].ipqueue[h]) = L - (n + 1) \/ Low(turn[n + 1]))
    <3> DEFINE s == turn[n]
               d == Head(s.ipqueue[h])
    <3>1. n <= L /\ n + 1 \in 0..L /\ n + 1 # 0 /\ (n + 1) - 1 = n
      BY <1>1, <2>1, <2>2
    <3>2. turn[n + 1] = Evict(s, h)
      BY <1>3, <3>1
    <3>3. Less(t, s) /\ (Len(s.ipqueue[h]) = L - n \/ Low(s))
      BY <3>1
    <3> HIDE DEF s
    <3>4. Linked(s) /\ s.ip_frag_mem[h] \in Nat /\ IPFRAG_LOW_THRESH \in Nat
      BY <3>3, TableFields, IpFragAssumption DEF Less, Linked
    <3>5. CASE Low(s)
      <4>1. turn[n + 1] = s
        BY <3>2, <3>4, <3>5 DEF Evict
      <4> HIDE DEF Low
      <4> QED BY <3>3, <3>5, <4>1
    <3>6. CASE ~Low(s)
      <4>1. s.ip_frag_mem[h] > IPFRAG_LOW_THRESH
        BY <3>4, <3>6
      <4>2. h \in s.hosts /\ d \in Queued(s) /\ HostOf[d] = h
        BY <3>4, <4>1, OverLow
      <4>3. turn[n + 1] = ip_free(s, d)
        BY <3>2, <4>1, <4>2 DEF Evict
      <4>4. Less(s, turn[n + 1]) /\ Len(turn[n + 1].ipqueue[h]) = Len(s.ipqueue[h]) - 1
        BY <3>4, <4>2, <4>3, Freed
      <4>5. Less(t, turn[n + 1])
        BY <3>3, <4>4, LessTransitive
      <4>6. Len(s.ipqueue[h]) = L - n
        BY <3>3, <3>6
      <4> HIDE DEF Low
      <4> QED BY <1>1, <2>1, <4>4, <4>5, <4>6
    <3> QED BY <3>5, <3>6
  <2> HIDE DEF Low
  <2> QED BY <2>1, <2>2
<1>6. T = Nat
  <2> HIDE DEF T
  <2>1. T \in SUBSET Nat
    BY DEF T
  <2> QED BY <1>4, <1>5, <2>1, SetInduction
<1>7. Less(t, turn[L]) /\ (Len(turn[L].ipqueue[h]) = L - L \/ Low(turn[L]))
  <2>1. L \in T /\ L <= L
    <3> HIDE DEF T
    <3> QED BY <1>1, <1>6
  <2> HIDE DEF Low, L
  <2> QED BY <2>1
<1>8. Low(turn[L])
  <2> DEFINE s == turn[L]
  <2>1. Linked(s) /\ s.ip_frag_mem[h] \in Nat /\ IPFRAG_LOW_THRESH \in Nat
    BY <1>7, TableFields, IpFragAssumption DEF Less, Linked
  <2>2. CASE Len(s.ipqueue[h]) = L - L
    <3> SUFFICES ASSUME ~Low(s) PROVE FALSE
      OBVIOUS
    <3>1. s.ip_frag_mem[h] > IPFRAG_LOW_THRESH
      BY <2>1
    <3>2. s.ipqueue[h] # <<>> /\ s.ipqueue[h] \in Seq(Datagrams) /\ Len(s.ipqueue[h]) = 0
      BY <1>1, <2>1, <2>2, <3>1, OverLow, CostsType
    <3> QED BY <3>2
  <2> QED BY <1>7, <2>2
<1> QED BY <1>2, <1>7, <1>8
\* A queue at time n.
Filed(qp, n) ==
  /\ Chain(qp.fragments)
  /\ qp.len = IF Ends(qp.fragments) THEN Size ELSE 0
  /\ qp.header \in 0..(Size - 1) /\ (Begins(qp.fragments) => qp.header = 0)
  /\ qp.have \subseteq 0..(Size - 1) /\ \A u \in qp.have : Covers(qp.fragments, u)
  /\ qp.seen \in 0..n /\ qp.expires = Int32(Int32(qp.seen) + IP_FRAG_TIME)

\* Between two packets something is missing.
Sound(qp, n) == Filed(qp, n) /\ ~ip_done(qp)

\* The table between two packets at time n.
Settled(t, n) ==
  /\ Linked(t) /\ Timely(t) /\ Vacant(t) = {}
  /\ \A d \in Queued(t) : Sound(t.q[d], n)
  /\ \A h \in Hosts : t.ip_frag_mem[h] <= IPFRAG_HIGH_THRESH + sizeof_ipq + sizeof_ipfrag + Size

\* The inductive invariant: what the properties say follows from the shape
\* of each queue (Chain), the order of the timers (Timely) and the agreement of
\* lists and accounts (Linked).
FragInv == now \in 0..MaxNow /\ Settled(tab, now) /\ GluedIsWhole

\* Ints.
LEMMA Wrapped ==
  ASSUME NEW x \in Int
  PROVE  Int32(x) \in (-Half)..(Half - 1) /\ (-Half <= x /\ x < Half => Int32(x) = x)
<1>1. Half \in Nat /\ Half > 0
  BY IpFragAssumption
<1> DEFINE N == 2 * Half
           y == x + Half
<1>2. N \in Int /\ N > 0 /\ y \in Int
  BY <1>1
<1>3. Int32(x) = (y % N) - Half
  BY DEF Int32
<1>4. y % N \in 0..(N - 1)
  <2> HIDE DEF N, y
  <2> QED BY <1>2
<1>5. 0 <= y /\ y < N => y % N = y
  <2> HIDE DEF N, y
  <2> QED BY <1>2
<1>6. -Half <= x /\ x < Half => 0 <= y /\ y < N
  BY <1>1
<1>7. Int32(x) \in (-Half)..(Half - 1)
  <2> HIDE DEF y
  <2> QED BY <1>1, <1>3, <1>4
<1> QED BY <1>1, <1>3, <1>5, <1>6, <1>7

\* What is left of a sound table is sound.
LEMMA LessSettled ==
  ASSUME NEW t, NEW n, Settled(t, n), NEW r, Less(t, r)
  PROVE  Settled(r, n)
<1>1. Linked(t) /\ Linked(r) /\ Timely(t)
  BY DEF Settled, Less
<1>2. Timely(r) /\ Vacant(r) = {}
  BY DEF Settled, Less
<1>3. \A d \in Queued(r) : Sound(r.q[d], n)
  <2>1. \A d \in Queued(t) : Sound(t.q[d], n)
    BY DEF Settled
  <2>2. Queued(r) \subseteq Queued(t) /\ \A d \in Queued(r) : r.q[d] = t.q[d]
    BY DEF Less
  <2> QED BY <2>1, <2>2
<1>4. ASSUME NEW h \in Hosts
      PROVE  r.ip_frag_mem[h] <= IPFRAG_HIGH_THRESH + sizeof_ipq + sizeof_ipfrag + Size
  <2>1. t.ip_frag_mem[h] \in Nat /\ r.ip_frag_mem[h] \in Nat
    BY <1>1, TableFields DEF Linked
  <2>2. r.ip_frag_mem[h] <= t.ip_frag_mem[h]
    BY DEF Less
  <2>3. t.ip_frag_mem[h] <= IPFRAG_HIGH_THRESH + sizeof_ipq + sizeof_ipfrag + Size
    BY DEF Settled
  <2>4. IPFRAG_HIGH_THRESH + sizeof_ipq + sizeof_ipfrag + Size \in Nat
    BY IpFragAssumption DEF sizeof_ipq, sizeof_ipfrag
  <2> QED BY <2>1, <2>2, <2>3, <2>4
<1> QED BY <1>1, <1>2, <1>3, <1>4 DEF Settled

\* Cleaning up takes the host to the high mark or below.
LEMMA Cleaned ==
  ASSUME NEW t, Linked(t), NEW h \in Hosts
  PROVE  Less(t, CleanUp(t, h)) /\ CleanUp(t, h).ip_frag_mem[h] <= IPFRAG_HIGH_THRESH
<1>1. t.ip_frag_mem[h] \in Nat /\ IPFRAG_LOW_THRESH \in Nat /\ IPFRAG_HIGH_THRESH \in Nat
      /\ IPFRAG_LOW_THRESH <= IPFRAG_HIGH_THRESH
  BY TableFields, IpFragAssumption DEF Linked
<1> DEFINE r == CleanUp(t, h)
<1>2. CASE t.ip_frag_mem[h] > IPFRAG_HIGH_THRESH
  <2>1. r = ip_evictor(t, h)
    BY <1>2 DEF CleanUp
  <2>2. Less(t, r) /\ r.ip_frag_mem[h] <= IPFRAG_LOW_THRESH
    BY <2>1, Evicted
  <2>3. r.ip_frag_mem[h] \in Nat
    BY <2>2, TableFields DEF Less, Linked
  <2> QED BY <1>1, <2>2, <2>3
<1>3. CASE ~(t.ip_frag_mem[h] > IPFRAG_HIGH_THRESH)
  <2>1. r = t
    BY <1>3 DEF CleanUp
  <2> QED BY <1>1, <1>3, <2>1, LessSelf
<1> QED BY <1>2, <1>3

\* The host entry may be new.
LEMMA Hosted ==
  ASSUME NEW t, Linked(t), NEW h \in Hosts
  PROVE  LET r == hostfrag(t, h)
         IN  /\ Linked(r) /\ Vacant(r) \subseteq Vacant(t) \cup {h} /\ h \in r.hosts
             /\ r.q = t.q /\ r.ipqueue = t.ipqueue /\ r.timers = t.timers /\ r.ip_frag_mem = t.ip_frag_mem
<1> DEFINE r == hostfrag(t, h)
<1>1. t \in Tables
  BY DEF Linked
<1>2. t = [hosts |-> t.hosts, ip_frag_mem |-> t.ip_frag_mem, ipqueue |-> t.ipqueue,
           q |-> t.q, timers |-> t.timers]
  BY <1>1 DEF Tables
<1>3. r = [hosts |-> t.hosts \cup {h}, ip_frag_mem |-> t.ip_frag_mem, ipqueue |-> t.ipqueue,
           q |-> t.q, timers |-> t.timers]
  <2> HIDE DEF r
  <2>1. r = [t EXCEPT !.hosts = @ \cup {h}]
    BY DEF r, hostfrag
  <2> QED BY <1>2, <2>1
<1> HIDE DEF r
<1>4. /\ r.hosts = t.hosts \cup {h} /\ r.q = t.q /\ r.ipqueue = t.ipqueue /\ r.timers = t.timers
      /\ r.ip_frag_mem = t.ip_frag_mem
  BY <1>3
<1>5. r \in Tables
  <2>1. t.hosts \cup {h} \in SUBSET Hosts
    BY <1>1, TableFields
  <2> QED BY <1>1, <1>3, <2>1 DEF Tables
<1>6. Queued(r) = Queued(t) /\ \A g \in Hosts : Local(r, g) = Local(t, g) /\ Costs(r, g) = Costs(t, g)
  BY <1>4 DEF Queued, Local, Costs
<1>7. Lists(r.timers, Queued(r))
  BY <1>4, <1>6 DEF Linked
<1>8. ASSUME NEW g \in Hosts
      PROVE  /\ Lists(r.ipqueue[g], Local(r, g))
             /\ r.ipqueue[g] # <<>> => g \in r.hosts
             /\ r.ip_frag_mem[g] = SumOf(Costs(r, g))
  BY <1>4, <1>6 DEF Linked
<1>9. Linked(r)
  BY <1>5, <1>7, <1>8 DEF Linked
<1>10. Vacant(r) \subseteq Vacant(t) \cup {h}
  BY <1>4 DEF Vacant
<1> QED BY <1>4, <1>9, <1>10 DEF r
\* t with another queue for d, and its timers in another order.
Updated(t, d, y, s) ==
  [hosts |-> t.hosts,
   ip_frag_mem |-> [t.ip_frag_mem EXCEPT ![HostOf[d]] = @ + (Cost(y) - Cost(t.q[d]))],
   ipqueue |-> t.ipqueue, q |-> [t.q EXCEPT ![d] = y], timers |-> s]

\* A queue that changes, and the account of its host with it.
LEMMA UpdatedLinked ==
  ASSUME NEW t, Linked(t), NEW d \in Queued(t), NEW y \in Queues, NEW s, Lists(s, Queued(t))
  PROVE  LET r == Updated(t, d, y, s)
             h == HostOf[d]
         IN  /\ Linked(r) /\ Vacant(r) = Vacant(t) /\ Queued(r) = Queued(t)
             /\ r.q[d] = y /\ \A x \in Queued(t) : x # d => r.q[x] = t.q[x]
             /\ r.ip_frag_mem[h] = t.ip_frag_mem[h] + (Cost(y) - Cost(t.q[d]))
             /\ \A g \in Hosts : g # h => r.ip_frag_mem[g] = t.ip_frag_mem[g]
<1> DEFINE r == Updated(t, d, y, s)
           h == HostOf[d]
           n == Len(t.ipqueue[h])
<1>1. t \in Tables /\ h \in Hosts /\ Lists(t.ipqueue[h], Local(t, h)) /\ d \in Local(t, h)
      /\ t.q[d] \in Queues
  BY TableFields DEF Linked, Local
<1>2. t.hosts \subseteq Hosts /\ t.ip_frag_mem \in [Hosts -> Nat]
      /\ t.ipqueue \in [Hosts -> Seq(Datagrams)]
      /\ Queued(t) \subseteq Datagrams /\ t.q \in [Queued(t) -> Queues]
  BY <1>1, TableFields
<1>3. /\ r.hosts = t.hosts /\ r.ipqueue = t.ipqueue /\ r.timers = s
      /\ r.ip_frag_mem = [t.ip_frag_mem EXCEPT ![h] = @ + (Cost(y) - Cost(t.q[d]))]
      /\ r.q = [t.q EXCEPT ![d] = y]
      /\ r = [hosts |-> r.hosts, ip_frag_mem |-> r.ip_frag_mem, ipqueue |-> r.ipqueue,
              q |-> r.q, timers |-> r.timers]
  BY DEF Updated
<1> HIDE DEF r
<1>4. Queued(r) = Queued(t) /\ r.q \in [Queued(t) -> Queues] /\ r.q[d] = y
      /\ \A x \in Queued(t) : x # d => r.q[x] = t.q[x]
  BY <1>2, <1>3 DEF Queued
<1>5. /\ r.ip_frag_mem[h] = t.ip_frag_mem[h] + (Cost(y) - Cost(t.q[d]))
      /\ \A g \in Hosts : g # h => r.ip_frag_mem[g] = t.ip_frag_mem[g]
  BY <1>1, <1>2, <1>3
<1>6. \A g \in Hosts : Local(r, g) = Local(t, g)
  BY <1>4 DEF Local
<1>7. PICK i \in 1..n : t.ipqueue[h][i] = d
  BY <1>1 DEF Lists, ToSet
<1>8. /\ Costs(t, h) \in Seq(Nat) /\ Len(Costs(t, h)) = n /\ n \in Nat
      /\ \A k \in 1..n : /\ t.ipqueue[h][k] \in Queued(t)
                         /\ Costs(t, h)[k] = Cost(t.q[t.ipqueue[h][k]])
  BY <1>1, CostsType
<1>9. Cost(y) \in Nat /\ Cost(t.q[d]) \in Nat
  BY <1>1, CostType
<1>10. Costs(r, h) = [k \in 1..n |-> Cost(r.q[t.ipqueue[h][k]])]
  BY <1>3 DEF Costs
<1>11. ASSUME NEW k \in 1..n, k # i PROVE Cost(r.q[t.ipqueue[h][k]]) = Costs(t, h)[k]
  <2>1. t.ipqueue[h][k] # d
    BY <1>1, <1>7, <1>11 DEF Lists
  <2> QED BY <1>4, <1>8, <2>1
<1>12. /\ Costs(r, h) \in Seq(Nat) /\ Len(Costs(r, h)) = n /\ Costs(r, h)[i] = Cost(y)
       /\ \A k \in 1..n : k # i => Costs(r, h)[k] = Costs(t, h)[k]
  <2> DEFINE c == [k \in 1..n |-> Cost(r.q[t.ipqueue[h][k]])]
  <2>1. \A k \in 1..n : c[k] \in Nat
    <3> SUFFICES ASSUME NEW k \in 1..n PROVE Cost(r.q[t.ipqueue[h][k]]) \in Nat
      OBVIOUS
    <3>1. CASE k = i
      BY <1>4, <1>7, <1>9, <3>1
    <3>2. CASE k # i
      BY <1>8, <1>11, <3>2
    <3> QED BY <3>1, <3>2
  <2>2. c \in Seq(Nat) /\ Len(c) = n
    <3>1. c \in [1..n -> Nat]
      BY <2>1
    <3>2. n \in Nat
      BY <1>8
    <3> HIDE DEF c, n
    <3> QED BY <3>1, <3>2
  <2>3. c[i] = Cost(y)
    BY <1>4, <1>7
  <2>4. \A k \in 1..n : k # i => c[k] = Costs(t, h)[k]
    BY <1>11
  <2> HIDE DEF c
  <2>5. Costs(r, h) = c
    BY <1>10 DEF c
  <2> QED BY <2>2, <2>3, <2>4, <2>5
<1>13. SumOf(Costs(t, h)) \in Nat
       /\ SumOf(Costs(r, h)) = SumOf(Costs(t, h)) - Costs(t, h)[i] + Costs(r, h)[i]
  <2>1. Costs(t, h) \in Seq(Nat) /\ Costs(r, h) \in Seq(Nat) /\ Len(Costs(r, h)) = Len(Costs(t, h))
        /\ i \in 1..Len(Costs(t, h))
        /\ \A k \in 1..Len(Costs(t, h)) : k # i => Costs(r, h)[k] = Costs(t, h)[k]
    BY <1>8, <1>12
  <2> QED BY <2>1, SumChanged
<1>14. SumOf(Costs(r, h)) \in Nat
  BY <1>12, SumEmpty, SumConcat
<1>15. r.ip_frag_mem[h] = SumOf(Costs(r, h))
  <2>1. t.ip_frag_mem[h] = SumOf(Costs(t, h))
    BY <1>1 DEF Linked
  <2>2. Costs(t, h)[i] = Cost(t.q[d])
    BY <1>7, <1>8
  <2> QED BY <1>5, <1>9, <1>12, <1>13, <2>1, <2>2
<1>16. ASSUME NEW g \in Hosts, g # h PROVE Costs(r, g) = Costs(t, g)
  <2>1. \A k \in 1..Len(t.ipqueue[g]) : t.ipqueue[g][k] \in Queued(t) /\ HostOf[t.ipqueue[g][k]] = g
    BY CostsType
  <2>2. \A k \in 1..Len(t.ipqueue[g]) : r.q[t.ipqueue[g][k]] = t.q[t.ipqueue[g][k]]
    BY <1>4, <1>16, <2>1
  <2> QED BY <1>3, <2>2 DEF Costs
<1>17. r \in Tables
  <2>1. r.ip_frag_mem \in [Hosts -> Nat]
    BY <1>1, <1>2, <1>3, <1>5, <1>14, <1>15
  <2>2. r.q \in UNION {[D -> Queues] : D \in SUBSET Datagrams}
    BY <1>2, <1>4
  <2>3. r.timers \in Seq(Datagrams)
    BY <1>3 DEF Lists
  <2>4. r.hosts \in SUBSET Hosts /\ r.ipqueue \in [Hosts -> Seq(Datagrams)]
    BY <1>2, <1>3
  <2> QED BY <1>3, <2>1, <2>2, <2>3, <2>4 DEF Tables
<1>18. ASSUME NEW g \in Hosts
       PROVE  /\ Lists(r.ipqueue[g], Local(r, g))
              /\ r.ipqueue[g] # <<>> => g \in r.hosts
              /\ r.ip_frag_mem[g] = SumOf(Costs(r, g))
  <2>1. Lists(r.ipqueue[g], Local(r, g)) /\ (r.ipqueue[g] # <<>> => g \in r.hosts)
    BY <1>3, <1>6 DEF Linked
  <2>2. g # h => r.ip_frag_mem[g] = SumOf(Costs(r, g))
    BY <1>5, <1>16 DEF Linked
  <2> QED BY <1>15, <2>1, <2>2
<1>19. Linked(r)
  <2>1. Lists(r.timers, Queued(r))
    BY <1>3, <1>4
  <2> QED BY <1>17, <1>18, <2>1 DEF Linked
<1>20. Vacant(r) = Vacant(t)
  BY <1>3 DEF Vacant
<1> QED BY <1>4, <1>5, <1>19, <1>20 DEF r

\* x comes before y.
Before(s, x, y) == \E k, m \in 1..Len(s) : k < m /\ s[k] = x /\ s[m] = y

\* The timer of d goes to the end of the list.
LEMMA Requeued ==
  ASSUME NEW D, NEW s, Lists(s, D), NEW d \in D
  PROVE  LET w == Append(RemoveFirst(s, d), d)
         IN  /\ Lists(w, D) /\ Len(w) = Len(s) /\ Len(s) \in Nat /\ w[Len(s)] = d
             /\ \A i, j \in 1..Len(w) : i < j /\ j # Len(s) => Before(s, w[i], w[j])
<1> DEFINE v == RemoveFirst(s, d)
           w == Append(v, d)
           n == Len(s)
<1>1. Lists(v, D \ {d}) /\ Len(v) = n - 1
  BY RemovedLists
<1>2. PICK p \in 1..n : s[p] = d /\ v = RemoveAt(s, p)
  BY RemovedFirst
<1>3. s \in Seq(Datagrams) /\ n \in Nat /\ d \in Datagrams
  BY DEF Lists, ToSet
<1>4. \A k \in 1..(n - 1) : v[k] = IF k < p THEN s[k] ELSE s[k + 1]
  BY <1>2, <1>3, Removed
<1>5. v \in Seq(Datagrams)
  BY <1>1 DEF Lists
<1> HIDE DEF v
<1>6. w \in Seq(Datagrams) /\ Len(w) = n /\ w[n] = d /\ \A k \in 1..(n - 1) : w[k] = v[k]
  <2>1. w \in Seq(Datagrams) /\ Len(w) = Len(v) + 1 /\ w[Len(v) + 1] = d
        /\ \A k \in 1..Len(v) : w[k] = v[k]
    BY <1>3, <1>5, AppendProperties
  <2>2. Len(v) + 1 = n
    BY <1>1, <1>3
  <2> HIDE DEF w
  <2> QED BY <1>1, <2>1, <2>2
<1> HIDE DEF w
<1>7. ASSUME NEW i \in 1..n, NEW j \in 1..n, w[i] = w[j] PROVE i = j
  <2>1. \A k \in 1..(n - 1) : v[k] # d
    BY <1>1 DEF Lists, ToSet
  <2>2. CASE i = n
    BY <1>3, <1>6, <1>7, <2>1, <2>2
  <2>3. CASE j = n
    BY <1>3, <1>6, <1>7, <2>1, <2>3
  <2>4. CASE i # n /\ j # n
    <3>1. i \in 1..(n - 1) /\ j \in 1..(n - 1)
      BY <1>3, <2>4
    <3>2. v[i] = v[j]
      BY <1>6, <1>7, <3>1
    <3> QED BY <1>1, <3>1, <3>2 DEF Lists
  <2> QED BY <2>2, <2>3, <2>4
<1>8. ToSet(w) = D
  <2>1. ToSet(v) = D \ {d} /\ ToSet(v) = {v[k] : k \in 1..(n - 1)}
    BY <1>1 DEF Lists, ToSet
  <2>2. ToSet(w) = {w[k] : k \in 1..n}
    BY <1>6 DEF ToSet
  <2>3. {w[k] : k \in 1..n} = {v[k] : k \in 1..(n - 1)} \cup {d}
    <3>1. \A k \in 1..n : k = n \/ k \in 1..(n - 1)
      BY <1>3
    <3>2. \A k \in 1..(n - 1) : k \in 1..n
      BY <1>3
    <3>3. n \in 1..n
      BY <1>2, <1>3
    <3> QED BY <1>6, <3>1, <3>2, <3>3
  <2> QED BY <2>1, <2>2, <2>3
<1>9. ASSUME NEW i \in 1..n, NEW j \in 1..n, i < j, j # n
      PROVE  Before(s, w[i], w[j])
  <2> DEFINE k == IF i < p THEN i ELSE i + 1
             m == IF j < p THEN j ELSE j + 1
  <2>1. i \in 1..(n - 1) /\ j \in 1..(n - 1)
    BY <1>3, <1>9
  <2>2. k \in 1..n /\ m \in 1..n /\ k < m
    BY <1>3, <1>9, <2>1
  <2>3. w[i] = s[k] /\ w[j] = s[m]
    BY <1>4, <1>6, <2>1
  <2> HIDE DEF k, m
  <2> QED BY <2>2, <2>3 DEF Before
<1>10. Lists(w, D)
  BY <1>6, <1>7, <1>8 DEF Lists
<1>11. \A i, j \in 1..Len(w) : i < j /\ j # n => Before(s, w[i], w[j])
  <2>1. Len(w) = n
    BY <1>6
  <2> HIDE DEF n
  <2> QED BY <1>9, <2>1
<1> QED BY <1>3, <1>6, <1>10, <1>11 DEF w, v
\* One more member, at either end of a list.
LEMMA ListedMore ==
  ASSUME NEW D, NEW s, Lists(s, D), NEW d \in Datagrams, d \notin D
  PROVE  Lists(Append(s, d), D \cup {d}) /\ Lists(<<d>> \o s, D \cup {d})
<1> DEFINE n == Len(s)
           v == Append(s, d)
           w == <<d>> \o s
<1>1. s \in Seq(Datagrams) /\ n \in Nat /\ \A k \in 1..n : s[k] \in D
  BY DEF Lists, ToSet
<1>2. \A x \in D : \E k \in 1..n : x = s[k]
  BY DEF Lists, ToSet
<1>3. \A i, j \in 1..n : s[i] = s[j] => i = j
  BY DEF Lists
<1>4. v \in Seq(Datagrams) /\ Len(v) = n + 1 /\ v[n + 1] = d /\ \A k \in 1..n : v[k] = s[k]
  BY <1>1, AppendProperties
<1>5. w \in Seq(Datagrams) /\ Len(w) = n + 1 /\ w[1] = d /\ \A k \in 1..n : w[k + 1] = s[k]
  <2> DEFINE e == <<d>>
  <2>1. e \in Seq(Datagrams) /\ Len(e) = 1 /\ e[1] = d
    OBVIOUS
  <2> HIDE DEF e
  <2>2. e \o s \in Seq(Datagrams) /\ Len(e \o s) = Len(e) + n
        /\ \A k \in 1..(Len(e) + n) : (e \o s)[k] = IF k <= Len(e) THEN e[k] ELSE s[k - Len(e)]
    BY <1>1, <2>1, ConcatProperties
  <2>3. \A k \in 1..(1 + n) : (e \o s)[k] = IF k <= 1 THEN e[k] ELSE s[k - 1]
    BY <2>1, <2>2
  <2>4. (e \o s)[1] = d
    BY <1>1, <2>1, <2>3
  <2>5. \A k \in 1..n : k + 1 \in 1..(1 + n) /\ ~(k + 1 <= 1) /\ (k + 1) - 1 = k
    BY <1>1
  <2>6. \A k \in 1..n : (e \o s)[k + 1] = s[k]
    BY <2>3, <2>5
  <2>7. Len(e \o s) = n + 1 /\ e \o s \in Seq(Datagrams)
    BY <1>1, <2>1, <2>2
  <2> QED BY <2>4, <2>6, <2>7 DEF e
<1> HIDE DEF v, w, n
<1>6. ASSUME NEW i \in 1..(n + 1), NEW j \in 1..(n + 1), v[i] = v[j] PROVE i = j
  <2>1. (i = n + 1 \/ i \in 1..n) /\ (j = n + 1 \/ j \in 1..n)
    BY <1>1
  <2> QED BY <1>1, <1>3, <1>4, <1>6, <2>1
<1>7. ASSUME NEW i \in 1..(n + 1), NEW j \in 1..(n + 1), w[i] = w[j] PROVE i = j
  <2>1. /\ i = 1 \/ (i - 1 \in 1..n /\ i = (i - 1) + 1)
        /\ j = 1 \/ (j - 1 \in 1..n /\ j = (j - 1) + 1)
    BY <1>1
  <2>2. CASE i = 1 \/ j = 1
    BY <1>1, <1>5, <1>7, <2>1, <2>2
  <2>3. CASE i # 1 /\ j # 1
    <3>1. s[i - 1] = s[j - 1]
      BY <1>5, <1>7, <2>1, <2>3
    <3>2. i - 1 = j - 1
      BY <1>3, <2>1, <2>3, <3>1
    <3> QED BY <2>1, <2>3, <3>2
  <2> QED BY <2>2, <2>3
<1>8. ToSet(v) = D \cup {d}
  <2>1. ToSet(v) = {v[k] : k \in 1..(n + 1)}
    BY <1>4 DEF ToSet
  <2>2. ASSUME NEW x \in D \cup {d} PROVE \E k \in 1..(n + 1) : x = v[k]
    <3>1. n + 1 \in 1..(n + 1) /\ \A k \in 1..n : k \in 1..(n + 1)
      BY <1>1
    <3> QED BY <1>2, <1>4, <3>1
  <2>3. ASSUME NEW k \in 1..(n + 1) PROVE v[k] \in D \cup {d}
    <3>1. k = n + 1 \/ k \in 1..n
      BY <1>1
    <3> QED BY <1>1, <1>4, <3>1
  <2> QED BY <2>1, <2>2, <2>3
<1>9. ToSet(w) = D \cup {d}
  <2>1. ToSet(w) = {w[k] : k \in 1..(n + 1)}
    BY <1>5 DEF ToSet
  <2>2. ASSUME NEW x \in D \cup {d} PROVE \E k \in 1..(n + 1) : x = w[k]
    <3>1. 1 \in 1..(n + 1) /\ \A k \in 1..n : k + 1 \in 1..(n + 1)
      BY <1>1
    <3> QED BY <1>2, <1>5, <3>1
  <2>3. ASSUME NEW k \in 1..(n + 1) PROVE w[k] \in D \cup {d}
    <3>1. k = 1 \/ (k - 1 \in 1..n /\ k = (k - 1) + 1)
      BY <1>1
    <3>2. CASE k = 1
      BY <1>5, <3>2
    <3>3. CASE k - 1 \in 1..n /\ k = (k - 1) + 1
      <4>1. w[(k - 1) + 1] = s[k - 1]
        BY <1>5, <3>3
      <4> QED BY <1>1, <3>3, <4>1
    <3> QED BY <3>1, <3>2, <3>3
  <2> QED BY <2>1, <2>2, <2>3
<1> QED BY <1>4, <1>5, <1>6, <1>7, <1>8, <1>9 DEF Lists, v, w

\* r is t with a queue for d whose timer starts now.
Fresh(t, r, d) ==
  /\ Linked(r) /\ Timely(r)
  /\ Vacant(r) \subseteq Vacant(t) \ {HostOf[d]}
  /\ Queued(r) = Queued(t) \cup {d} /\ \A x \in Queued(t) : x # d => r.q[x] = t.q[x]
  /\ r.q[d].seen = now /\ r.q[d].expires = Int32(jiffies + IP_FRAG_TIME)
  /\ r.ip_frag_mem[HostOf[d]] <= t.ip_frag_mem[HostOf[d]] + sizeof_ipq
  /\ \A g \in Hosts : g # HostOf[d] => r.ip_frag_mem[g] = t.ip_frag_mem[g]

\* Timers that were set earlier.
Earlier(t) == now \in Nat /\ \A x \in Queued(t) : t.q[x].seen <= now

\* The clock and a new deadline are ints.
LEMMA Deadline == now \in Nat => jiffies \in Int /\ Int32(jiffies + IP_FRAG_TIME) \in (-Half)..(Half - 1)
<1> SUFFICES ASSUME now \in Nat
             PROVE  jiffies \in Int /\ Int32(jiffies + IP_FRAG_TIME) \in (-Half)..(Half - 1)
  OBVIOUS
<1>1. now \in Int /\ Half \in Nat /\ IP_FRAG_TIME \in Nat
  BY IpFragAssumption
<1>2. Int32(now) \in (-Half)..(Half - 1)
  BY <1>1, Wrapped
<1>3. jiffies \in Int
  BY <1>1, <1>2 DEF jiffies
<1>4. jiffies + IP_FRAG_TIME \in Int
  BY <1>1, <1>3
<1> QED BY <1>3, <1>4, Wrapped

\* Renewing restarts the timer and touches nothing else.
LEMMA Renewed ==
  ASSUME NEW t, Linked(t) /\ Timely(t) /\ Earlier(t), NEW d \in Queued(t)
  PROVE  LET r == Renew(t, d)
         IN  /\ Fresh(t, r, d)
             /\ r.q[d] \in Queues /\ r.q[d].len = t.q[d].len /\ r.q[d].header = t.q[d].header
             /\ r.q[d].fragments = t.q[d].fragments /\ r.q[d].have = t.q[d].have
<1> DEFINE r == Renew(t, d)
           h == HostOf[d]
           w == Append(RemoveFirst(t.timers, d), d)
           e == Int32(jiffies + IP_FRAG_TIME)
           y == [t.q[d] EXCEPT !.expires = e, !.seen = now]
<1>1. /\ t \in Tables /\ t.q[d] \in Queues /\ h \in Hosts /\ t.ip_frag_mem \in [Hosts -> Nat]
      /\ t.q \in [Queued(t) -> Queues]
  BY TableFields DEF Linked
<1>2. e \in (-Half)..(Half - 1) /\ now \in Nat
  BY Deadline DEF Earlier
<1>3. /\ y \in Queues /\ y.expires = e /\ y.seen = now /\ y.len = t.q[d].len
      /\ y.header = t.q[d].header /\ y.fragments = t.q[d].fragments /\ y.have = t.q[d].have
  <2> HIDE DEF e
  <2> QED BY <1>1, <1>2 DEF Queues
<1>4. Cost(y) = Cost(t.q[d]) /\ Cost(t.q[d]) \in Nat
  <2> HIDE DEF y
  <2> QED BY <1>1, <1>3, CostType
<1>5. [t.ip_frag_mem EXCEPT ![h] = @ + (Cost(y) - Cost(t.q[d]))] = t.ip_frag_mem
  <2> HIDE DEF y, h
  <2>1. t.ip_frag_mem[h] + (Cost(y) - Cost(t.q[d])) = t.ip_frag_mem[h]
    BY <1>1, <1>4
  <2> QED BY <1>1, <2>1
<1>6. r = Updated(t, d, y, w)
  <2>1. r = [t EXCEPT !.timers = w, !.q[d].expires = e, !.q[d].seen = now]
    BY DEF Renew
  <2> HIDE DEF r, w, e
  <2>2. t = [hosts |-> t.hosts, ip_frag_mem |-> t.ip_frag_mem, ipqueue |-> t.ipqueue,
             q |-> t.q, timers |-> t.timers]
    BY <1>1 DEF Tables
  <2>3. [t.q EXCEPT ![d].expires = e, ![d].seen = now] = [t.q EXCEPT ![d] = y]
    BY <1>1
  <2>4. r = [hosts |-> t.hosts, ip_frag_mem |-> t.ip_frag_mem, ipqueue |-> t.ipqueue,
             q |-> [t.q EXCEPT ![d].expires = e, ![d].seen = now], timers |-> w]
    BY <2>1, <2>2
  <2> HIDE DEF y
  <2> QED BY <1>5, <2>3, <2>4 DEF Updated
<1>7. /\ Lists(w, Queued(t)) /\ Len(w) = Len(t.timers) /\ Len(w) \in Nat /\ w[Len(w)] = d
      /\ \A i, j \in 1..Len(w) : i < j /\ j # Len(w) => Before(t.timers, w[i], w[j])
  <2>1. Lists(t.timers, Queued(t))
    BY DEF Linked
  <2>2. /\ Lists(w, Queued(t)) /\ Len(w) = Len(t.timers) /\ Len(t.timers) \in Nat
        /\ w[Len(t.timers)] = d
        /\ \A i, j \in 1..Len(w) : i < j /\ j # Len(t.timers) => Before(t.timers, w[i], w[j])
    BY <2>1, Requeued
  <2> HIDE DEF w
  <2> QED BY <2>2
<1> HIDE DEF w, y, e
<1>8. /\ Linked(r) /\ Vacant(r) = Vacant(t) /\ Queued(r) = Queued(t)
      /\ r.q[d] = y /\ \A x \in Queued(t) : x # d => r.q[x] = t.q[x]
      /\ r.ip_frag_mem = t.ip_frag_mem /\ r.timers = w
  <2>1. /\ Linked(r) /\ Vacant(r) = Vacant(t) /\ Queued(r) = Queued(t)
        /\ r.q[d] = y /\ \A x \in Queued(t) : x # d => r.q[x] = t.q[x]
    BY <1>3, <1>6, <1>7, UpdatedLinked
  <2>2. r.ip_frag_mem = t.ip_frag_mem /\ r.timers = w
    BY <1>5, <1>6 DEF Updated
  <2> QED BY <2>1, <2>2
<1> HIDE DEF r
<1>9. \A x \in Queued(t) : r.q[x].seen <= now /\ r.q[x].seen \in Nat
  <2> SUFFICES ASSUME NEW x \in Queued(t) PROVE r.q[x].seen <= now /\ r.q[x].seen \in Nat
    OBVIOUS
  <2>1. CASE x = d
    BY <1>2, <1>3, <1>8, <2>1
  <2>2. CASE x # d
    <3>1. t.q[x].seen \in Nat
      BY <1>1 DEF Queues
    <3> QED BY <1>8, <2>2, <3>1 DEF Earlier
  <2> QED BY <2>1, <2>2
<1>10. Timely(r)
  <2> SUFFICES ASSUME NEW i \in 1..Len(w), NEW j \in 1..Len(w), i < j
               PROVE  r.q[w[i]].seen <= r.q[w[j]].seen
    BY <1>8 DEF Timely
  <2>1. w[i] \in Queued(t)
    BY <1>7 DEF Lists, ToSet
  <2>2. CASE j = Len(w)
    BY <1>3, <1>7, <1>8, <1>9, <2>1, <2>2
  <2>3. CASE j # Len(w)
    <3>1. PICK k \in 1..Len(t.timers), m \in 1..Len(t.timers) :
            k < m /\ w[i] = t.timers[k] /\ w[j] = t.timers[m]
      <4>1. Before(t.timers, w[i], w[j])
        BY <1>7, <2>3
      <4> QED BY <4>1 DEF Before
    <3>2. t.q[w[i]].seen <= t.q[w[j]].seen
      BY <3>1 DEF Timely
    <3>3. w[j] # d /\ w[j] \in Queued(t)
      BY <1>7, <2>3 DEF Lists, ToSet
    <3>4. w[i] # d
      <4>1. i # Len(w)
        BY <1>7
      <4> QED BY <1>7, <4>1 DEF Lists
    <3> QED BY <1>8, <2>1, <3>2, <3>3, <3>4
  <2> QED BY <2>2, <2>3
<1>11. h \notin Vacant(t)
  <2>1. d \in Local(t, h) /\ Lists(t.ipqueue[h], Local(t, h))
    BY <1>1 DEF Linked, Local
  <2>2. t.ipqueue[h] # <<>>
    BY <2>1 DEF Lists, ToSet
  <2> QED BY <2>2 DEF Vacant
<1>12. r.ip_frag_mem[h] <= t.ip_frag_mem[h] + sizeof_ipq
  <2>1. t.ip_frag_mem[h] \in Nat
    BY <1>1
  <2> QED BY <1>8, <2>1 DEF sizeof_ipq
<1>13. r.q[d].seen = now /\ r.q[d].expires = Int32(jiffies + IP_FRAG_TIME)
  BY <1>3, <1>8 DEF e
<1>14. Fresh(t, r, d)
  BY <1>8, <1>10, <1>11, <1>12, <1>13 DEF Fresh
<1> QED BY <1>3, <1>8, <1>14 DEF r
\* A new queue takes its place in front, its timer at the end.
LEMMA Created ==
  ASSUME NEW t, Linked(t) /\ Timely(t) /\ Earlier(t), NEW d \in Datagrams, d \notin Queued(t),
         HostOf[d] \in t.hosts
  PROVE  Fresh(t, ip_create(t, d), d) /\ ip_create(t, d).q[d] = NewQueue /\ NewQueue \in Queues
<1> DEFINE r == ip_create(t, d)
           h == HostOf[d]
           l == <<d>> \o t.ipqueue[h]
           w == Append(t.timers, d)
           n == Len(t.ipqueue[h])
           m == Len(t.timers)
<1>1. /\ t \in Tables /\ h \in Hosts /\ t.ip_frag_mem \in [Hosts -> Nat]
      /\ t.q \in [Queued(t) -> Queues] /\ Queued(t) \subseteq Datagrams
      /\ t.ipqueue \in [Hosts -> Seq(Datagrams)] /\ t.hosts \subseteq Hosts
      /\ t.timers \in Seq(Datagrams)
  BY TableFields, IpFragAssumption DEF Linked
<1>2. NewQueue \in Queues
  <2>1. now \in Nat /\ Int32(jiffies + IP_FRAG_TIME) \in (-Half)..(Half - 1)
    BY Deadline DEF Earlier
  <2>2. <<>> \in Seq(Pieces)
    OBVIOUS
  <2> QED BY <2>1, <2>2 DEF NewQueue, Queues
<1>3. Cost(NewQueue) = sizeof_ipq
  <2>1. NewQueue.fragments = <<>>
    BY DEF NewQueue
  <2> QED BY <2>1, ChargesNone DEF Cost, sizeof_ipq
<1>4. Lists(w, Queued(t) \cup {d}) /\ Lists(l, Local(t, h) \cup {d})
  <2>1. Lists(t.timers, Queued(t)) /\ Lists(t.ipqueue[h], Local(t, h)) /\ d \notin Local(t, h)
    BY <1>1 DEF Linked, Local
  <2> QED BY <2>1, ListedMore
<1>5. /\ r.hosts = t.hosts
      /\ r.ip_frag_mem = [t.ip_frag_mem EXCEPT ![h] = @ + sizeof_ipq]
      /\ r.ipqueue = [t.ipqueue EXCEPT ![h] = l] /\ r.timers = w
      /\ r.q = [x \in Queued(t) \cup {d} |-> IF x = d THEN NewQueue ELSE t.q[x]]
      /\ r = [hosts |-> r.hosts, ip_frag_mem |-> r.ip_frag_mem, ipqueue |-> r.ipqueue,
              q |-> r.q, timers |-> r.timers]
  <2> DEFINE qs == [x \in Queued(t) \cup {d} |-> IF x = d THEN NewQueue ELSE t.q[x]]
  <2>1. r = [t EXCEPT !.ip_frag_mem[h] = @ + sizeof_ipq, !.ipqueue[h] = l, !.timers = w, !.q = qs]
    BY DEF ip_create
  <2> HIDE DEF r, l, w, qs
  <2>2. t = [hosts |-> t.hosts, ip_frag_mem |-> t.ip_frag_mem, ipqueue |-> t.ipqueue,
             q |-> t.q, timers |-> t.timers]
    BY <1>1 DEF Tables
  <2>3. r = [hosts |-> t.hosts, ip_frag_mem |-> [t.ip_frag_mem EXCEPT ![h] = @ + sizeof_ipq],
             ipqueue |-> [t.ipqueue EXCEPT ![h] = l], q |-> qs, timers |-> w]
    BY <2>1, <2>2
  <2> QED BY <2>3 DEF qs
<1>6. /\ l \in Seq(Datagrams) /\ Len(l) = n + 1 /\ n \in Nat /\ l[1] = d
      /\ \A k \in 1..n : l[k + 1] = t.ipqueue[h][k]
  <2> DEFINE e == <<d>>
             s == t.ipqueue[h]
  <2>1. e \in Seq(Datagrams) /\ Len(e) = 1 /\ e[1] = d
    OBVIOUS
  <2>2. s \in Seq(Datagrams) /\ n \in Nat /\ n = Len(s)
    BY <1>1
  <2> HIDE DEF e, s, n
  <2>3. e \o s \in Seq(Datagrams) /\ Len(e \o s) = Len(e) + Len(s)
        /\ \A k \in 1..(Len(e) + Len(s)) : (e \o s)[k] = IF k <= Len(e) THEN e[k] ELSE s[k - Len(e)]
    BY <2>1, <2>2, ConcatProperties
  <2>4. \A k \in 1..(1 + n) : (e \o s)[k] = IF k <= 1 THEN e[k] ELSE s[k - 1]
    BY <2>1, <2>2, <2>3
  <2>5. (e \o s)[1] = d
    BY <2>1, <2>2, <2>4
  <2>6. \A k \in 1..n : k + 1 \in 1..(1 + n) /\ ~(k + 1 <= 1) /\ (k + 1) - 1 = k
    BY <2>2
  <2>7. \A k \in 1..n : (e \o s)[k + 1] = s[k]
    BY <2>4, <2>6
  <2>8. Len(e \o s) = n + 1
    BY <2>1, <2>2, <2>3
  <2> QED BY <2>2, <2>3, <2>5, <2>7, <2>8 DEF e, s
<1>7. w \in Seq(Datagrams) /\ Len(w) = m + 1 /\ m \in Nat /\ w[m + 1] = d
      /\ \A k \in 1..m : w[k] = t.timers[k]
  BY <1>1, AppendProperties
<1> HIDE DEF r, l, w
<1>8. /\ Queued(r) = Queued(t) \cup {d} /\ r.q \in [Queued(t) \cup {d} -> Queues]
      /\ r.q[d] = NewQueue /\ \A x \in Queued(t) : x # d /\ r.q[x] = t.q[x]
  BY <1>1, <1>2, <1>5 DEF Queued
<1>9. /\ r.ipqueue[h] = l /\ \A g \in Hosts : g # h => r.ipqueue[g] = t.ipqueue[g]
      /\ r.ip_frag_mem[h] = t.ip_frag_mem[h] + sizeof_ipq
      /\ \A g \in Hosts : g # h => r.ip_frag_mem[g] = t.ip_frag_mem[g]
  BY <1>1, <1>5
<1>10. Local(r, h) = Local(t, h) \cup {d} /\ \A g \in Hosts : g # h => Local(r, g) = Local(t, g)
  BY <1>8 DEF Local
<1>11. /\ Costs(t, h) \in Seq(Nat) /\ Len(Costs(t, h)) = n
       /\ \A k \in 1..n : /\ t.ipqueue[h][k] \in Queued(t)
                          /\ Costs(t, h)[k] = Cost(t.q[t.ipqueue[h][k]])
  BY <1>1, CostsType
<1>12. Costs(r, h) = <<sizeof_ipq>> \o Costs(t, h)
  <2> DEFINE e == <<sizeof_ipq>>
             c == Costs(t, h)
  <2>1. e \in Seq(Nat) /\ Len(e) = 1 /\ e[1] = sizeof_ipq
    BY DEF sizeof_ipq
  <2> HIDE DEF e, c, n
  <2>2. c \in Seq(Nat) /\ Len(c) = n /\ n \in Nat
    BY <1>6, <1>11 DEF c
  <2>3. e \o c \in Seq(Nat) /\ Len(e \o c) = Len(e) + Len(c)
        /\ \A k \in 1..(Len(e) + Len(c)) : (e \o c)[k] = IF k <= Len(e) THEN e[k] ELSE c[k - Len(e)]
    BY <2>1, <2>2, ConcatProperties
  <2>4. Len(e \o c) = n + 1 /\ \A k \in 1..(n + 1) : (e \o c)[k] = IF k <= 1 THEN e[k] ELSE c[k - 1]
    BY <2>1, <2>2, <2>3
  <2>5. Costs(r, h) = [k \in 1..(n + 1) |-> Cost(r.q[l[k]])]
    BY <1>6, <1>9 DEF Costs
  <2>6. ASSUME NEW k \in 1..(n + 1) PROVE Cost(r.q[l[k]]) = (e \o c)[k]
    <3>1. CASE k = 1
      BY <1>3, <1>6, <1>8, <2>1, <2>4, <3>1
    <3>2. CASE k # 1
      <4>1. k - 1 \in 1..n /\ k = (k - 1) + 1 /\ ~(k <= 1)
        BY <1>6, <3>2
      <4>2. l[k] = t.ipqueue[h][k - 1]
        BY <1>6, <4>1
      <4>3. (e \o c)[k] = c[k - 1]
        BY <2>4, <4>1
      <4>4. c[k - 1] = Cost(t.q[t.ipqueue[h][k - 1]]) /\ t.ipqueue[h][k - 1] \in Queued(t)
        BY <1>11, <4>1 DEF c
      <4> QED BY <1>8, <4>2, <4>3, <4>4
    <3> QED BY <3>1, <3>2
  <2>7. e \o c = [k \in 1..(n + 1) |-> (e \o c)[k]]
    <3> DEFINE v == e \o c
    <3>1. v \in Seq(Nat) /\ Len(v) = n + 1
      BY <2>3, <2>4
    <3> HIDE DEF v
    <3>2. v = [k \in 1..(n + 1) |-> v[k]]
      BY <3>1
    <3> QED BY <3>2 DEF v
  <2>8. [k \in 1..(n + 1) |-> Cost(r.q[l[k]])] = [k \in 1..(n + 1) |-> (e \o c)[k]]
    BY <2>6
  <2>9. Costs(r, h) = e \o c
    BY <2>5, <2>7, <2>8
  <2> QED BY <2>9 DEF e, c
<1>13. SumOf(Costs(r, h)) = sizeof_ipq + SumOf(Costs(t, h)) /\ SumOf(Costs(t, h)) \in Nat
  <2>1. <<>> \in Seq(Nat) /\ sizeof_ipq \in Nat /\ <<sizeof_ipq>> \in Seq(Nat)
        /\ Append(<<>>, sizeof_ipq) = <<sizeof_ipq>>
    BY DEF sizeof_ipq
  <2>2. SumOf(<<sizeof_ipq>>) = 0 + sizeof_ipq
    BY <2>1, SumEmpty, SumAppend
  <2>3. SumOf(<<sizeof_ipq>>) = sizeof_ipq
    BY <2>1, <2>2
  <2>4. SumOf(Costs(t, h)) \in Nat
        /\ SumOf(<<sizeof_ipq>> \o Costs(t, h)) = SumOf(<<sizeof_ipq>>) + SumOf(Costs(t, h))
    BY <1>11, <2>1, SumConcat
  <2> QED BY <1>12, <2>3, <2>4
<1>14. r.ip_frag_mem[h] = SumOf(Costs(r, h)) /\ r.ip_frag_mem[h] \in Nat
  <2>1. t.ip_frag_mem[h] = SumOf(Costs(t, h))
    BY <1>1 DEF Linked
  <2> QED BY <1>9, <1>13, <2>1 DEF sizeof_ipq
<1>15. ASSUME NEW g \in Hosts, g # h PROVE Costs(r, g) = Costs(t, g)
  <2>1. \A k \in 1..Len(t.ipqueue[g]) : t.ipqueue[g][k] \in Queued(t)
    BY CostsType
  <2>2. \A k \in 1..Len(t.ipqueue[g]) : r.q[t.ipqueue[g][k]] = t.q[t.ipqueue[g][k]]
    BY <1>8, <2>1
  <2>3. r.ipqueue[g] = t.ipqueue[g]
    BY <1>9, <1>15
  <2> QED BY <2>2, <2>3 DEF Costs
<1>16. r \in Tables
  <2>1. r.ip_frag_mem \in [Hosts -> Nat]
    BY <1>1, <1>5, <1>9, <1>14
  <2>2. Queued(t) \cup {d} \in SUBSET Datagrams
    BY <1>1
  <2>3. r.q \in UNION {[D -> Queues] : D \in SUBSET Datagrams}
    BY <1>8, <2>2
  <2>4. r.timers \in Seq(Datagrams)
    BY <1>5, <1>7
  <2>5. r.hosts \in SUBSET Hosts /\ r.ipqueue \in [Hosts -> Seq(Datagrams)]
    BY <1>1, <1>5, <1>6
  <2> QED BY <1>5, <2>1, <2>3, <2>4, <2>5 DEF Tables
<1>17. ASSUME NEW g \in Hosts
       PROVE  /\ Lists(r.ipqueue[g], Local(r, g))
              /\ r.ipqueue[g] # <<>> => g \in r.hosts
              /\ r.ip_frag_mem[g] = SumOf(Costs(r, g))
  <2>1. CASE g = h
    BY <1>4, <1>5, <1>9, <1>10, <1>14, <2>1
  <2>2. CASE g # h
    BY <1>5, <1>9, <1>10, <1>15, <2>2 DEF Linked
  <2> QED BY <2>1, <2>2
<1>18. Linked(r)
  <2>1. Lists(r.timers, Queued(r))
    BY <1>4, <1>5, <1>8
  <2> QED BY <1>16, <1>17, <2>1 DEF Linked
<1>19. Vacant(r) \subseteq Vacant(t) \ {h}
  <2> SUFFICES ASSUME NEW g \in r.hosts, r.ipqueue[g] = <<>>
               PROVE  g \in t.hosts /\ t.ipqueue[g] = <<>> /\ g # h
    BY DEF Vacant
  <2>1. g \in t.hosts /\ g \in Hosts
    BY <1>1, <1>5
  <2>2. l # <<>>
    BY <1>6
  <2>3. g # h
    BY <1>9, <2>2
  <2> QED BY <1>9, <2>1, <2>3
<1>20. Timely(r)
  <2> SUFFICES ASSUME NEW i \in 1..(m + 1), NEW j \in 1..(m + 1), i < j
               PROVE  r.q[w[i]].seen <= r.q[w[j]].seen
    BY <1>5, <1>7 DEF Timely
  <2>1. i \in 1..m /\ (j = m + 1 \/ j \in 1..m)
    BY <1>7
  <2>2. \A k \in 1..m : t.timers[k] \in Queued(t)
    BY DEF Linked, Lists, ToSet
  <2>3. w[i] = t.timers[i] /\ r.q[w[i]] = t.q[t.timers[i]]
    BY <1>7, <1>8, <2>1, <2>2
  <2>4. CASE j = m + 1
    <3>1. r.q[w[j]].seen = now
      BY <1>7, <1>8, <2>4 DEF NewQueue
    <3>2. t.q[t.timers[i]].seen <= now
      BY <2>1, <2>2 DEF Earlier
    <3> QED BY <2>3, <3>1, <3>2
  <2>5. CASE j \in 1..m
    <3>1. w[j] = t.timers[j] /\ r.q[w[j]] = t.q[t.timers[j]]
      BY <1>7, <1>8, <2>2, <2>5
    <3> QED BY <2>1, <2>3, <2>5, <3>1 DEF Timely
  <2> QED BY <2>1, <2>4, <2>5
<1>21. r.q[d].seen = now /\ r.q[d].expires = Int32(jiffies + IP_FRAG_TIME)
  BY <1>8 DEF NewQueue
<1>22. r.ip_frag_mem[h] <= t.ip_frag_mem[h] + sizeof_ipq
  <2>1. t.ip_frag_mem[h] \in Nat
    BY <1>1
  <2> QED BY <1>9, <2>1 DEF sizeof_ipq
<1>23. Fresh(t, r, d)
  BY <1>8, <1>9, <1>18, <1>19, <1>20, <1>21, <1>22 DEF Fresh
<1> QED BY <1>2, <1>8, <1>23 DEF r
\* The header is no part of what the lists and accounts say.
LEMMA Headed ==
  ASSUME NEW t, Linked(t) /\ Timely(t), NEW d \in Queued(t), NEW i \in Int
  PROVE  LET r == [t EXCEPT !.q[d].header = i]
         IN  /\ Linked(r) /\ Timely(r) /\ Vacant(r) = Vacant(t) /\ Queued(r) = Queued(t)
             /\ r.q[d] = [t.q[d] EXCEPT !.header = i] /\ r.q[d] \in Queues
             /\ \A x \in Queued(t) : x # d => r.q[x] = t.q[x]
             /\ r.ip_frag_mem = t.ip_frag_mem
<1> DEFINE r == [t EXCEPT !.q[d].header = i]
           h == HostOf[d]
           y == [t.q[d] EXCEPT !.header = i]
<1>1. /\ t \in Tables /\ t.q[d] \in Queues /\ h \in Hosts /\ t.ip_frag_mem \in [Hosts -> Nat]
      /\ t.q \in [Queued(t) -> Queues] /\ Lists(t.timers, Queued(t))
  BY TableFields DEF Linked
<1>2. y \in Queues /\ y.fragments = t.q[d].fragments /\ y.seen = t.q[d].seen
  BY <1>1 DEF Queues
<1>3. Cost(y) = Cost(t.q[d]) /\ Cost(t.q[d]) \in Nat
  <2> HIDE DEF y
  <2> QED BY <1>1, <1>2, CostType
<1>4. [t.ip_frag_mem EXCEPT ![h] = @ + (Cost(y) - Cost(t.q[d]))] = t.ip_frag_mem
  <2> HIDE DEF y, h
  <2>1. t.ip_frag_mem[h] + (Cost(y) - Cost(t.q[d])) = t.ip_frag_mem[h]
    BY <1>1, <1>3
  <2> QED BY <1>1, <2>1
<1>5. r = Updated(t, d, y, t.timers)
  <2>1. t = [hosts |-> t.hosts, ip_frag_mem |-> t.ip_frag_mem, ipqueue |-> t.ipqueue,
             q |-> t.q, timers |-> t.timers]
    BY <1>1 DEF Tables
  <2>2. [t.q EXCEPT ![d].header = i] = [t.q EXCEPT ![d] = y]
    BY <1>1
  <2>3. r = [hosts |-> t.hosts, ip_frag_mem |-> t.ip_frag_mem, ipqueue |-> t.ipqueue,
             q |-> [t.q EXCEPT ![d].header = i], timers |-> t.timers]
    BY <2>1
  <2> HIDE DEF y, r
  <2> QED BY <1>4, <2>2, <2>3 DEF Updated
<1> HIDE DEF y, r
<1>6. /\ Linked(r) /\ Vacant(r) = Vacant(t) /\ Queued(r) = Queued(t)
      /\ r.q[d] = y /\ \A x \in Queued(t) : x # d => r.q[x] = t.q[x]
  BY <1>1, <1>2, <1>5, UpdatedLinked
<1>7. r.ip_frag_mem = t.ip_frag_mem /\ r.timers = t.timers
  BY <1>4, <1>5 DEF Updated
<1>8. Timely(r)
  <2> SUFFICES ASSUME NEW j \in 1..Len(t.timers), NEW k \in 1..Len(t.timers), j < k
               PROVE  r.q[t.timers[j]].seen <= r.q[t.timers[k]].seen
    BY <1>7 DEF Timely
  <2>1. t.timers[j] \in Queued(t) /\ t.timers[k] \in Queued(t)
    BY <1>1 DEF Lists, ToSet
  <2>2. \A x \in Queued(t) : r.q[x].seen = t.q[x].seen
    BY <1>2, <1>6
  <2> QED BY <2>1, <2>2 DEF Timely
<1> QED BY <1>2, <1>6, <1>7, <1>8 DEF y, r

\* The host is found and cleaned up: some queues are gone, no more.
LEMMA Looked ==
  ASSUME NEW t, Linked(t) /\ Timely(t) /\ Vacant(t) = {}, NEW h \in Hosts
  PROVE  LET r == hostfrag(CleanUp(hostfrag(Expire(t), h), h), h)
         IN  /\ Linked(r) /\ Timely(r) /\ Vacant(r) \subseteq {h} /\ h \in r.hosts
             /\ Queued(r) \subseteq Queued(t) /\ \A x \in Queued(r) : r.q[x] = t.q[x]
             /\ r.ip_frag_mem[h] <= IPFRAG_HIGH_THRESH
             /\ \A g \in Hosts : r.ip_frag_mem[g] <= t.ip_frag_mem[g]
<1> DEFINE a == Expire(t)
           b == hostfrag(a, h)
           c == CleanUp(b, h)
           r == hostfrag(c, h)
<1>1. Less(t, a)
  BY Expired
<1>2. /\ Linked(a) /\ Timely(a) /\ Vacant(a) = {}
      /\ Queued(a) \subseteq Queued(t) /\ \A x \in Queued(a) : a.q[x] = t.q[x]
      /\ \A g \in Hosts : a.ip_frag_mem[g] <= t.ip_frag_mem[g]
  BY <1>1 DEF Less
<1> HIDE DEF a
<1>3. /\ Linked(b) /\ Vacant(b) \subseteq Vacant(a) \cup {h}
      /\ b.q = a.q /\ b.timers = a.timers /\ b.ip_frag_mem = a.ip_frag_mem
  BY <1>2, Hosted
<1> HIDE DEF b
<1>4. Timely(b)
  BY <1>2, <1>3 DEF Timely
<1>5. Less(b, c) /\ c.ip_frag_mem[h] <= IPFRAG_HIGH_THRESH
  BY <1>3, Cleaned
<1> HIDE DEF c
<1>6. /\ Linked(c) /\ Timely(c) /\ Vacant(c) \subseteq {h}
      /\ Queued(c) \subseteq Queued(b) /\ \A x \in Queued(c) : c.q[x] = b.q[x]
      /\ \A g \in Hosts : c.ip_frag_mem[g] <= b.ip_frag_mem[g]
  BY <1>2, <1>3, <1>4, <1>5 DEF Less
<1>7. /\ Linked(r) /\ Vacant(r) \subseteq Vacant(c) \cup {h} /\ h \in r.hosts
      /\ r.q = c.q /\ r.timers = c.timers /\ r.ip_frag_mem = c.ip_frag_mem
  BY <1>6, Hosted
<1> HIDE DEF r
<1>8. Timely(r)
  BY <1>6, <1>7 DEF Timely
<1>9. Queued(r) = Queued(c) /\ Queued(b) = Queued(a)
  BY <1>3, <1>7 DEF Queued
<1>10. Queued(r) \subseteq Queued(t) /\ \A x \in Queued(r) : r.q[x] = t.q[x]
  BY <1>2, <1>3, <1>6, <1>7, <1>9
<1>11. ASSUME NEW g \in Hosts PROVE r.ip_frag_mem[g] <= t.ip_frag_mem[g]
  <2>1. t.ip_frag_mem[g] \in Nat /\ a.ip_frag_mem[g] \in Nat /\ c.ip_frag_mem[g] \in Nat
    BY <1>2, <1>6, TableFields DEF Linked
  <2>2. c.ip_frag_mem[g] <= a.ip_frag_mem[g] /\ a.ip_frag_mem[g] <= t.ip_frag_mem[g]
    BY <1>2, <1>3, <1>6
  <2>3. r.ip_frag_mem[g] = c.ip_frag_mem[g]
    BY <1>7
  <2> QED BY <2>1, <2>2, <2>3
<1>12. r.ip_frag_mem[h] <= IPFRAG_HIGH_THRESH
  BY <1>5, <1>7
<1>13. Vacant(r) \subseteq {h}
  BY <1>6, <1>7
<1> QED BY <1>7, <1>8, <1>10, <1>11, <1>12, <1>13 DEF r, c, b, a

\* r is t less some queues, with the queue of d ready for a fragment.
Ready(t, r, d) ==
  /\ Linked(r) /\ Timely(r) /\ Vacant(r) = {}
  /\ d \in Queued(r) /\ Sound(r.q[d], now)
  /\ \A x \in Queued(r) : x # d => x \in Queued(t) /\ r.q[x] = t.q[x]
  /\ r.ip_frag_mem[HostOf[d]] <= IPFRAG_HIGH_THRESH + sizeof_ipq
  /\ \A g \in Hosts : g # HostOf[d] => r.ip_frag_mem[g] <= t.ip_frag_mem[g]

\* ip_defrag up to the fragment itself.
LEMMA Entered ==
  ASSUME now \in Nat, Settled(tab, now), NEW d \in Datagrams, NEW offset \in 0..(Size - 1)
  PROVE  LET r == Entry(tab, d, offset)
         IN  Ready(tab, r, d) /\ (offset = 0 => r.q[d].header = 0)
<1> DEFINE h  == HostOf[d]
           t1 == hostfrag(CleanUp(hostfrag(Expire(tab), h), h), h)
           t2 == IF d \in Queued(t1) THEN Renew(t1, d) ELSE ip_create(t1, d)
           r  == IF offset = 0 \/ d \notin Queued(t1) THEN [t2 EXCEPT !.q[d].header = offset] ELSE t2
<1>1. r = Entry(tab, d, offset)
  BY DEF Entry
<1>2. h \in Hosts /\ Size \in Nat /\ offset \in Int /\ IPFRAG_HIGH_THRESH \in Nat
  BY IpFragAssumption
<1>3. /\ Linked(tab) /\ Timely(tab) /\ Vacant(tab) = {}
      /\ \A x \in Queued(tab) : Sound(tab.q[x], now)
  BY DEF Settled
<1>4. /\ Linked(t1) /\ Timely(t1) /\ Vacant(t1) \subseteq {h} /\ h \in t1.hosts
      /\ Queued(t1) \subseteq Queued(tab) /\ \A x \in Queued(t1) : t1.q[x] = tab.q[x]
      /\ t1.ip_frag_mem[h] <= IPFRAG_HIGH_THRESH
      /\ \A g \in Hosts : t1.ip_frag_mem[g] <= tab.ip_frag_mem[g]
  BY <1>2, <1>3, Looked
<1> HIDE DEF t1
<1>5. Earlier(t1)
  BY <1>3, <1>4 DEF Sound, Filed, Earlier
<1>6. Fresh(t1, t2, d) /\ t2.q[d] \in Queues
  <2>1. CASE d \in Queued(t1)
    BY <1>4, <1>5, <2>1, Renewed
  <2>2. CASE d \notin Queued(t1)
    BY <1>4, <1>5, <2>2, Created
  <2> QED BY <2>1, <2>2
<1>7. d \in Queued(t1) =>
        /\ t2.q[d].len = tab.q[d].len /\ t2.q[d].header = tab.q[d].header
        /\ t2.q[d].fragments = tab.q[d].fragments /\ t2.q[d].have = tab.q[d].have
        /\ Sound(tab.q[d], now)
  BY <1>3, <1>4, <1>5, Renewed
<1>8. d \notin Queued(t1) => t2.q[d] = NewQueue
  BY <1>4, <1>5, Created
<1> HIDE DEF t2
<1>9. /\ Linked(t2) /\ Timely(t2) /\ Vacant(t2) = {}
      /\ Queued(t2) = Queued(t1) \cup {d} /\ \A x \in Queued(t1) : x # d => t2.q[x] = t1.q[x]
      /\ t2.q[d].seen = now /\ t2.q[d].expires = Int32(jiffies + IP_FRAG_TIME)
      /\ t2.ip_frag_mem[h] <= t1.ip_frag_mem[h] + sizeof_ipq
      /\ \A g \in Hosts : g # h => t2.ip_frag_mem[g] = t1.ip_frag_mem[g]
  BY <1>4, <1>6 DEF Fresh
<1>10. /\ Linked(r) /\ Timely(r) /\ Vacant(r) = {} /\ Queued(r) = Queued(t2)
       /\ \A x \in Queued(t2) : x # d => r.q[x] = t2.q[x]
       /\ r.ip_frag_mem = t2.ip_frag_mem
       /\ r.q[d] = IF offset = 0 \/ d \notin Queued(t1) THEN [t2.q[d] EXCEPT !.header = offset]
                   ELSE t2.q[d]
  <2>1. CASE offset = 0 \/ d \notin Queued(t1)
    <3> DEFINE s == [t2 EXCEPT !.q[d].header = offset]
    <3>1. r = s
      BY <2>1
    <3> HIDE DEF r
    <3>2. /\ Linked(s) /\ Timely(s) /\ Vacant(s) = Vacant(t2) /\ Queued(s) = Queued(t2)
          /\ s.q[d] = [t2.q[d] EXCEPT !.header = offset]
          /\ \A x \in Queued(t2) : x # d => s.q[x] = t2.q[x]
          /\ s.ip_frag_mem = t2.ip_frag_mem
      BY <1>2, <1>9, Headed
    <3> HIDE DEF s
    <3> QED BY <1>9, <2>1, <3>1, <3>2
  <2>2. CASE ~(offset = 0 \/ d \notin Queued(t1))
    <3>1. r = t2
      BY <2>2
    <3> HIDE DEF r
    <3> QED BY <1>9, <2>2, <3>1
  <2> QED BY <2>1, <2>2
<1> HIDE DEF r
<1>11. /\ r.q[d].header = IF offset = 0 \/ d \notin Queued(t1) THEN offset ELSE t2.q[d].header
       /\ r.q[d].len = t2.q[d].len /\ r.q[d].fragments = t2.q[d].fragments
       /\ r.q[d].have = t2.q[d].have /\ r.q[d].seen = t2.q[d].seen
       /\ r.q[d].expires = t2.q[d].expires
  BY <1>6, <1>10 DEF Queues
<1>12. r.q[d].seen \in 0..now /\ r.q[d].expires = Int32(Int32(r.q[d].seen) + IP_FRAG_TIME)
  BY <1>9, <1>11 DEF jiffies
<1>13. Sound(r.q[d], now)
  <2>1. CASE d \in Queued(t1)
    <3>1. /\ r.q[d].len = tab.q[d].len /\ r.q[d].fragments = tab.q[d].fragments
          /\ r.q[d].have = tab.q[d].have /\ Sound(tab.q[d], now)
          /\ r.q[d].header = IF offset = 0 THEN 0 ELSE tab.q[d].header
      BY <1>7, <1>11, <2>1
    <3>2. 0 \in 0..(Size - 1)
      BY <1>2
    <3>3. ip_done(r.q[d]) <=> ip_done(tab.q[d])
      BY <3>1 DEF ip_done
    <3> QED BY <1>12, <3>1, <3>2, <3>3 DEF Sound, Filed
  <2>2. CASE d \notin Queued(t1)
    <3>1. /\ r.q[d].len = 0 /\ r.q[d].fragments = <<>> /\ r.q[d].have = {} /\ r.q[d].header = offset
      BY <1>8, <1>11, <2>2 DEF NewQueue
    <3>2. ~ip_done(r.q[d])
      BY <3>1 DEF ip_done
    <3>3. Chain(<<>>) /\ ~Ends(<<>>) /\ ~Begins(<<>>)
      BY DEF Chain, Ends, Begins
    <3> QED BY <1>12, <3>1, <3>2, <3>3 DEF Sound, Filed
  <2> QED BY <2>1, <2>2
<1>14. \A x \in Queued(r) : x # d => x \in Queued(tab) /\ r.q[x] = tab.q[x]
  BY <1>4, <1>9, <1>10
<1>15. r.ip_frag_mem[h] <= IPFRAG_HIGH_THRESH + sizeof_ipq
  <2>1. t1.ip_frag_mem[h] \in Nat /\ t2.ip_frag_mem[h] \in Nat
    BY <1>2, <1>4, <1>9, TableFields DEF Linked
  <2> QED BY <1>2, <1>4, <1>9, <1>10, <2>1 DEF sizeof_ipq
<1>16. \A g \in Hosts : g # h => r.ip_frag_mem[g] <= tab.ip_frag_mem[g]
  BY <1>4, <1>9, <1>10
<1>17. d \in Queued(r)
  BY <1>9, <1>10
<1>18. Ready(tab, r, d)
  BY <1>10, <1>13, <1>14, <1>15, <1>16, <1>17 DEF Ready
<1>19. offset = 0 => r.q[d].header = 0
  BY <1>11
<1> QED BY <1>1, <1>18, <1>19-----------------------------------------------------------------------------
(* Fragments that are whole.                                               *)

\* A list of which ip_done says that nothing is missing: each fragment begins
\* where the one before it ends.
LEMMA InARow ==
  ASSUME NEW qp, Filed(qp, now), ip_done(qp)
  PROVE  LET fs == qp.fragments
             n  == Len(fs)
         IN  /\ n \in Nat /\ n > 0 /\ \A k \in 1..n : fs[k] \in Pieces
             /\ fs[1].offset = 0 /\ \A k \in 1..n : k > 1 => fs[k].offset = fs[k - 1].end
             /\ qp.len = Size /\ Size # 0 /\ qp.header = 0
             /\ \E k \in 1..n : fs[k].end = Size
<1> DEFINE fs == qp.fragments
           n  == Len(fs)
<1>1. /\ Chain(fs) /\ qp.len = (IF Ends(fs) THEN Size ELSE 0) /\ (Begins(fs) => qp.header = 0)
      /\ qp.len # 0 /\ \A k \in 1..n : fs[k].offset <= IF k = 1 THEN 0 ELSE fs[k - 1].end
  BY DEF Filed, ip_done
<1> HIDE DEF fs
<1>2. fs \in Seq(Pieces) /\ n \in Nat /\ \A k \in 1..n : fs[k] \in Pieces
  BY <1>1 DEF Chain
<1>3. Ends(fs) /\ qp.len = Size /\ Size # 0
  BY <1>1
<1>4. \E k \in 1..n : fs[k].end = Size
  BY <1>3 DEF Ends
<1>5. n > 0 /\ 1 \in 1..n
  BY <1>2, <1>4
<1>6. fs[1].offset = 0
  <2>1. fs[1].offset \in Nat
    BY <1>2, <1>5, PieceFields
  <2>2. fs[1].offset <= 0
    BY <1>1, <1>5
  <2> QED BY <2>1, <2>2
<1>7. ASSUME NEW k \in 1..n, k > 1 PROVE fs[k].offset = fs[k - 1].end
  <2>1. k - 1 \in 1..n /\ k - 1 < k /\ k # 1
    BY <1>2, <1>7
  <2>2. fs[k].offset <= fs[k - 1].end
    BY <1>1, <2>1
  <2>3. fs[k - 1].end <= fs[k].offset
    BY <1>1, <2>1 DEF Chain
  <2>4. fs[k].offset \in Nat /\ fs[k - 1].end \in Nat
    BY <1>2, <2>1, PieceFields
  <2> QED BY <2>2, <2>3, <2>4
<1>8. qp.header = 0
  BY <1>1, <1>5, <1>6 DEF Begins
<1> QED BY <1>2, <1>3, <1>4, <1>5, <1>6, <1>7, <1>8 DEF fs

\* Then, if no length is negative, each unit is in one fragment, and the
\* lengths add up.
LEMMA AddsUpToEnd ==
  ASSUME NEW fs \in Seq(Pieces), Len(fs) > 0, fs[1].offset = 0,
         \A k \in 1..Len(fs) : fs[k].len >= 0 /\ (k > 1 => fs[k].offset = fs[k - 1].end)
  PROVE  SumOf([k \in 1..Len(fs) |-> fs[k].len]) = fs[Len(fs)].end
<1> DEFINE n == Len(fs)
           e == [k \in 1..n |-> fs[k].len]
           T == {m \in Nat : 1 <= m /\ m <= n => Sums(e)[m] = fs[m].end}
<1>1. n \in Nat /\ n > 0
      /\ \A k \in 1..n : fs[k].offset \in Nat /\ fs[k].end \in Nat /\ fs[k].len = fs[k].end - fs[k].offset
  BY PieceFields
<1>2. e \in Seq(Nat) /\ Len(e) = n /\ \A k \in 1..n : e[k] = fs[k].end - fs[k].offset
  <2>1. \A k \in 1..n : fs[k].len \in Nat
    BY <1>1
  <2>2. e \in [1..n -> Nat]
    BY <2>1
  <2>3. \A k \in 1..n : e[k] = fs[k].end - fs[k].offset
    BY <1>1
  <2> HIDE DEF e
  <2> QED BY <1>1, <2>2, <2>3
<1> HIDE DEF e
<1>3. \A k \in 0..n : Sums(e)[k] = IF k = 0 THEN 0 ELSE Sums(e)[k - 1] + e[k]
  BY <1>2, SumsExist DEF AddsUp
<1>4. 0 \in T
  OBVIOUS
<1>5. ASSUME NEW m \in T PROVE m + 1 \in T
  <2>1. m \in Nat /\ m + 1 \in Nat
    OBVIOUS
  <2>2. ASSUME m + 1 <= n PROVE Sums(e)[m + 1] = fs[m + 1].end
    <3>1. m + 1 \in 1..n /\ m + 1 \in 0..n /\ m + 1 # 0 /\ (m + 1) - 1 = m
      BY <1>1, <2>1, <2>2
    <3>2. Sums(e)[m + 1] = Sums(e)[m] + e[m + 1]
      BY <1>3, <3>1
    <3>3. CASE m = 0
      <4>1. Sums(e)[m] = 0
        BY <1>1, <1>3, <3>3
      <4> QED BY <1>1, <1>2, <3>1, <3>2, <3>3, <4>1
    <3>4. CASE m # 0
      <4>1. Sums(e)[m] = fs[m].end /\ m \in 1..n
        BY <1>1, <2>1, <2>2, <3>4
      <4>2. fs[m + 1].offset = fs[m].end
        <5>1. m + 1 > 1
          BY <2>1, <3>4
        <5> QED BY <3>1, <5>1
      <4>3. fs[m].end \in Nat /\ fs[m + 1].end \in Nat
        BY <1>1, <3>1, <4>1
      <4>4. e[m + 1] = fs[m + 1].end - fs[m + 1].offset
        BY <1>2, <3>1
      <4> QED BY <3>2, <4>1, <4>2, <4>3, <4>4
    <3> QED BY <3>3, <3>4
  <2> QED BY <2>1, <2>2
<1>6. T = Nat
  <2> HIDE DEF T
  <2>1. T \in SUBSET Nat
    BY DEF T
  <2> QED BY <1>4, <1>5, <2>1, SetInduction
<1>7. Sums(e)[n] = fs[n].end
  <2>1. n \in T /\ 1 <= n /\ n <= n
    <3> HIDE DEF T
    <3> QED BY <1>1, <1>6
  <2> HIDE DEF n
  <2> QED BY <2>1
<1> QED BY <1>2, <1>7 DEF SumOf, e

\* In a list where each fragment begins where the one before it ends, every
\* unit in front of an end is in a fragment: the first one that ends behind it.
LEMMA UnitPlaced ==
  ASSUME NEW fs \in Seq(Pieces), fs[1].offset = 0,
         \A k \in 1..Len(fs) : k > 1 => fs[k].offset = fs[k - 1].end,
         NEW i \in Nat, \E k \in 1..Len(fs) : i < fs[k].end
  PROVE  \E k \in 1..Len(fs) : fs[k].offset <= i /\ i < fs[k].end
<1> DEFINE n == Len(fs)
           K == {k \in 1..n : i < fs[k].end}
<1>1. n \in Nat /\ \A k \in 1..n : fs[k].offset \in Nat /\ fs[k].end \in Nat
  BY PieceFields
<1>2. K # {} /\ K \in SUBSET Nat
  OBVIOUS
<1>3. PICK k \in K : \A m \in K : k <= m
  <2> HIDE DEF K
  <2> QED BY <1>2, LeastNumber
<1>4. k \in 1..n /\ i < fs[k].end
  OBVIOUS
<1>5. fs[k].offset <= i
  <2>1. CASE k = 1
    BY <2>1
  <2>2. CASE k # 1
    <3>1. k > 1 /\ k - 1 \in 1..n /\ ~(k <= k - 1)
      BY <1>1, <1>4, <2>2
    <3>2. ~(i < fs[k - 1].end)
      BY <1>3, <3>1
    <3>3. fs[k].offset = fs[k - 1].end
      BY <1>4, <3>1
    <3> QED BY <1>1, <3>1, <3>2, <3>3
  <2> QED BY <2>1, <2>2
<1> QED BY <1>4, <1>5

\* What ip_glue makes of such a list is the datagram.
LEMMA Glued ==
  ASSUME NEW d, NEW qp, Filed(qp, now), ip_done(qp), ip_glue(d, qp) # None
  PROVE  LET o == ip_glue(d, qp)
         IN  o.count = Size /\ o.header = 0 /\ o.data = [i \in 0..(Size - 1) |-> {i}]
<1> DEFINE fs == qp.fragments
           n  == Len(fs)
           at(i) == {k \in 1..n : i \in fs[k].offset..(fs[k].offset + fs[k].len - 1)}
           data == [i \in 0..(qp.len - 1) |-> {fs[k].ptr + (i - fs[k].offset) : k \in at(i)}]
           count == SumOf([k \in 1..n |-> fs[k].len])
<1>1. /\ n \in Nat /\ n > 0 /\ \A k \in 1..n : fs[k] \in Pieces
      /\ fs[1].offset = 0 /\ \A k \in 1..n : k > 1 => fs[k].offset = fs[k - 1].end
      /\ qp.len = Size /\ Size # 0 /\ qp.header = 0
      /\ \E k \in 1..n : fs[k].end = Size
  BY InARow
<1>2. Chain(fs) /\ fs \in Seq(Pieces) /\ Size \in Nat
  BY IpFragAssumption DEF Filed, Chain
<1>3. ~(\E k \in 1..n : fs[k].len < 0 \/ fs[k].offset + fs[k].len > qp.len)
  BY DEF ip_glue
<1>4. ip_glue(d, qp) = [datagram |-> d, header |-> qp.header, count |-> count, data |-> data]
  BY <1>3 DEF ip_glue
<1>5. \A k \in 1..n : /\ fs[k].offset \in Nat /\ fs[k].end \in Nat /\ fs[k].end <= Size
                      /\ fs[k].len = fs[k].end - fs[k].offset /\ fs[k].ptr = fs[k].offset
  BY <1>1, PieceFields
<1>6. \A k \in 1..n : fs[k].len >= 0
  BY <1>3, <1>5
<1> HIDE DEF fs
<1>7. count = fs[n].end
  <2>1. \A k \in 1..Len(fs) : fs[k].len >= 0 /\ (k > 1 => fs[k].offset = fs[k - 1].end)
    BY <1>1, <1>6
  <2> QED BY <1>1, <1>2, <2>1, AddsUpToEnd
<1>8. fs[n].end = Size
  <2>1. PICK k \in 1..n : fs[k].end = Size
    BY <1>1
  <2>2. CASE k = n
    BY <2>1, <2>2
  <2>3. CASE k # n
    <3>1. n \in 1..n /\ k < n
      BY <1>1, <2>3
    <3>2. fs[k].end <= fs[n].offset
      BY <1>2, <3>1 DEF Chain
    <3>3. fs[n].offset <= fs[n].end
      BY <1>5, <1>6, <3>1
    <3> QED BY <1>2, <1>5, <2>1, <3>1, <3>2, <3>3
  <2> QED BY <2>2, <2>3
<1>9. ASSUME NEW i \in 0..(Size - 1) PROVE {fs[k].ptr + (i - fs[k].offset) : k \in at(i)} = {i}
  <2>1. i \in Nat /\ i < Size
    BY <1>2
  <2>2. PICK k \in 1..n : fs[k].offset <= i /\ i < fs[k].end
    <3>1. \E k \in 1..n : i < fs[k].end
      BY <1>1, <2>1
    <3> QED BY <1>1, <1>2, <2>1, <3>1, UnitPlaced
  <2>3. k \in at(i)
    <3>1. fs[k].offset + fs[k].len - 1 = fs[k].end - 1
      BY <1>5
    <3> QED BY <1>5, <2>1, <2>2, <3>1
  <2>4. \A m \in at(i) : fs[m].ptr + (i - fs[m].offset) = i
    <3> SUFFICES ASSUME NEW m \in 1..n PROVE fs[m].ptr + (i - fs[m].offset) = i
      OBVIOUS
    <3>1. fs[m].offset \in Nat /\ fs[m].ptr = fs[m].offset
      BY <1>5
    <3> QED BY <2>1, <3>1
  <2> HIDE DEF at
  <2> QED BY <2>3, <2>4
<1>10. data = [i \in 0..(Size - 1) |-> {i}]
  <2> HIDE DEF at
  <2> QED BY <1>1, <1>9
<1> HIDE DEF data, count
<1> QED BY <1>1, <1>4, <1>7, <1>8, <1>10

\* A list that has every unit, and no fragment of negative length, is one of
\* which ip_done says that nothing is missing.
LEMMA NothingMissing ==
  ASSUME NEW qp, Filed(qp, now), \A u \in 0..(Size - 1) : Covers(qp.fragments, u),
         \A k \in 1..Len(qp.fragments) : qp.fragments[k].len >= 0
  PROVE  ip_done(qp)
<1> DEFINE fs == qp.fragments
           n  == Len(fs)
<1>1. Chain(fs) /\ qp.len = (IF Ends(fs) THEN Size ELSE 0) /\ Size \in Nat /\ Size > 0
  <2>1. qp.header \in 0..(Size - 1) /\ Size \in Nat
    BY IpFragAssumption DEF Filed
  <2> QED BY <2>1 DEF Filed
<1>2. \A k \in 1..n : /\ fs[k].offset \in Nat /\ fs[k].end \in Nat /\ fs[k].end <= Size
                      /\ fs[k].offset <= Size /\ fs[k].offset <= fs[k].end
  <2> SUFFICES ASSUME NEW k \in 1..n
               PROVE  /\ fs[k].offset \in Nat /\ fs[k].end \in Nat /\ fs[k].end <= Size
                      /\ fs[k].offset <= Size /\ fs[k].offset <= fs[k].end
    OBVIOUS
  <2>1. fs[k] \in Pieces
    BY <1>1 DEF Chain
  <2>2. fs[k].offset \in Nat /\ fs[k].end \in Nat /\ fs[k].end <= Size /\ fs[k].offset <= Size
        /\ fs[k].len = fs[k].end - fs[k].offset
    BY <2>1, PieceFields
  <2>3. fs[k].len >= 0
    OBVIOUS
  <2> HIDE DEF fs
  <2> QED BY <2>2, <2>3
<1>3. \A u \in 0..(Size - 1) : \E i \in 1..n : fs[i].offset <= u /\ u < fs[i].end
  BY DEF Covers
<1>4. \A i, j \in 1..n : i < j => fs[i].offset <= fs[j].offset /\ fs[i].end <= fs[j].offset
  BY <1>1 DEF Chain
<1>5. n \in Nat
  BY <1>1 DEF Chain
<1> HIDE DEF fs
<1>6. Ends(fs)
  <2>1. Size - 1 \in 0..(Size - 1)
    BY <1>1
  <2>2. PICK i \in 1..n : Size - 1 < fs[i].end
    BY <1>3, <2>1
  <2>3. fs[i].end = Size
    BY <1>1, <1>2, <2>2
  <2> QED BY <2>3 DEF Ends
<1>7. ASSUME NEW k \in 1..n PROVE fs[k].offset <= IF k = 1 THEN 0 ELSE fs[k - 1].end
  <2>1. CASE k = 1
    <3>1. PICK i \in 1..n : fs[i].offset <= 0
      <4>1. 0 \in 0..(Size - 1)
        BY <1>1
      <4> QED BY <1>3, <4>1
    <3>2. CASE i = 1
      BY <2>1, <3>1, <3>2
    <3>3. CASE i # 1
      <4>1. fs[1].offset <= fs[i].offset /\ 1 \in 1..n
        BY <1>4, <1>5, <2>1, <3>3
      <4> QED BY <1>2, <2>1, <3>1, <4>1
    <3> QED BY <3>2, <3>3
  <2>2. CASE k # 1
    <3>1. k - 1 \in 1..n /\ k - 1 < k
      BY <1>5, <2>2
    <3> SUFFICES ASSUME fs[k].offset > fs[k - 1].end PROVE FALSE
      BY <1>2, <2>2, <3>1
    <3> DEFINE u == fs[k - 1].end
    <3>2. u \in 0..(Size - 1)
      BY <1>1, <1>2, <3>1
    <3>3. PICK i \in 1..n : fs[i].offset <= u /\ u < fs[i].end
      BY <1>3, <3>2
    <3>4. CASE i = k - 1
      BY <1>2, <3>1, <3>3, <3>4
    <3>5. CASE i < k - 1
      <4>1. fs[i].end <= fs[k - 1].offset
        BY <1>4, <3>1, <3>5
      <4> QED BY <1>2, <3>1, <3>3, <4>1
    <3>6. CASE i > k - 1
      <4>1. fs[k].offset <= fs[i].offset
        <5>1. i = k \/ k < i
          BY <1>5, <3>6
        <5> QED BY <1>2, <1>4, <5>1
      <4> QED BY <1>2, <3>1, <3>3, <4>1
    <3> QED BY <1>5, <3>4, <3>5, <3>6
  <2> QED BY <2>1, <2>2
<1>8. qp.len # 0
  BY <1>1, <1>6
<1> QED BY <1>7, <1>8 DEF ip_done, fs-----------------------------------------------------------------------------
(* The steps.                                                              *)

\* A table that is ready for a fragment of d has room for one.
LEMMA ReadyTable ==
  ASSUME Settled(tab, now), NEW t, NEW d \in Datagrams, Ready(tab, t, d)
  PROVE  /\ \A x \in Queued(t) : x # d => Sound(t.q[x], now)
         /\ \A g \in Hosts : g # HostOf[d] =>
              t.ip_frag_mem[g] <= IPFRAG_HIGH_THRESH + sizeof_ipq + sizeof_ipfrag + Size
         /\ t.ip_frag_mem[HostOf[d]] <= IPFRAG_HIGH_THRESH + sizeof_ipq + sizeof_ipfrag + Size
<1> DEFINE h     == HostOf[d]
           Bound == IPFRAG_HIGH_THRESH + sizeof_ipq + sizeof_ipfrag + Size
<1>1. /\ IPFRAG_HIGH_THRESH \in Nat /\ Size \in Nat /\ h \in Hosts
      /\ Bound \in Nat /\ IPFRAG_HIGH_THRESH + sizeof_ipq <= Bound
  BY IpFragAssumption DEF sizeof_ipq, sizeof_ipfrag
<1>2. \A x \in Queued(t) : x # d => Sound(t.q[x], now)
  <2>1. \A x \in Queued(t) : x # d => x \in Queued(tab) /\ t.q[x] = tab.q[x]
    BY DEF Ready
  <2>2. \A x \in Queued(tab) : Sound(tab.q[x], now)
    BY DEF Settled
  <2> QED BY <2>1, <2>2
<1>3. ASSUME NEW g \in Hosts, g # h PROVE t.ip_frag_mem[g] <= Bound
  <2>1. t.ip_frag_mem[g] <= tab.ip_frag_mem[g]
    BY <1>3 DEF Ready
  <2>2. tab.ip_frag_mem[g] <= Bound
    BY DEF Settled
  <2>3. t.ip_frag_mem[g] \in Nat /\ tab.ip_frag_mem[g] \in Nat
    BY TableFields DEF Linked, Ready, Settled
  <2> HIDE DEF Bound
  <2> QED BY <1>1, <2>1, <2>2, <2>3
<1>4. t.ip_frag_mem[h] <= Bound
  <2>1. t.ip_frag_mem[h] <= IPFRAG_HIGH_THRESH + sizeof_ipq
    BY DEF Ready
  <2>2. t.ip_frag_mem[h] \in Nat
    BY <1>1, TableFields DEF Linked, Ready
  <2>3. IPFRAG_HIGH_THRESH + sizeof_ipq \in Nat
    BY <1>1 DEF sizeof_ipq
  <2> HIDE DEF Bound
  <2> QED BY <1>1, <2>1, <2>2, <2>3
<1> QED BY <1>2, <1>3, <1>4

\* The table with the new fragment in its queue.
Stored(t, d, c) ==
  LET r == Insert(t.q[d].fragments, c)
  IN  [t EXCEPT !.q[d].len = IF c[2] = Size THEN c[2] ELSE @,
                !.q[d].fragments = r.fragments,
                !.q[d].have = @ \cup (c[1]..(c[2] - 1)),
                !.ip_frag_mem[HostOf[d]] = @ + r.charged]

\* Storing a fragment: the lists and accounts agree, and the queue is filed,
\* if not yet known to miss something.
LEMMA StoredQueue ==
  ASSUME Settled(tab, now), NEW d \in Datagrams, NEW c \in CutsOf[d],
         NEW t, Ready(tab, t, d) /\ (c[1] = 0 => t.q[d].header = 0)
  PROVE  LET s == Stored(t, d, c)
         IN  /\ Linked(s) /\ Timely(s) /\ Vacant(s) = {} /\ Queued(s) = Queued(t)
             /\ Filed(s.q[d], now)
             /\ \A x \in Queued(s) : x # d => Sound(s.q[x], now)
             /\ \A g \in Hosts :
                  s.ip_frag_mem[g] <= IPFRAG_HIGH_THRESH + sizeof_ipq + sizeof_ipfrag + Size
<1> DEFINE h  == HostOf[d]
           q  == t.q[d]
           r  == Insert(q.fragments, c)
           w  == r.fragments
           ln == IF c[2] = Size THEN c[2] ELSE q.len
           hv == q.have \cup (c[1]..(c[2] - 1))
           y  == [q EXCEPT !.len = ln, !.fragments = w, !.have = hv]
           s  == Stored(t, d, c)
           m  == t.ip_frag_mem
<1>1. /\ h \in Hosts /\ c[1] \in Nat /\ c[2] \in 1..Size /\ c[1] < c[2] /\ Size \in Nat
      /\ IPFRAG_HIGH_THRESH \in Nat
  BY IpFragAssumption
<1>2. /\ Linked(t) /\ Timely(t) /\ Vacant(t) = {} /\ d \in Queued(t) /\ Sound(q, now)
      /\ t.ip_frag_mem[h] <= IPFRAG_HIGH_THRESH + sizeof_ipq
  BY DEF Ready
<1>3. /\ t \in Tables /\ q \in Queues /\ m \in [Hosts -> Nat] /\ t.q \in [Queued(t) -> Queues]
      /\ Lists(t.timers, Queued(t))
  BY <1>2, TableFields DEF Linked
<1>4. /\ Chain(q.fragments) /\ q.len = (IF Ends(q.fragments) THEN Size ELSE 0)
      /\ q.header \in 0..(Size - 1) /\ (Begins(q.fragments) => q.header = 0)
      /\ q.have \subseteq 0..(Size - 1) /\ (\A u \in q.have : Covers(q.fragments, u))
      /\ q.seen \in 0..now /\ q.expires = Int32(Int32(q.seen) + IP_FRAG_TIME)
  BY <1>2 DEF Sound, Filed
<1>5. /\ Chain(w) /\ r.charged \in Int /\ r.charged <= sizeof_ipfrag + Size
      /\ Charges(w) = Charges(q.fragments) + r.charged
      /\ \A u \in Nat : Covers(q.fragments, u) \/ u \in c[1]..(c[2] - 1) => Covers(w, u)
      /\ Ends(w) <=> Ends(q.fragments) \/ c[2] = Size
      /\ Begins(w) => Begins(q.fragments) \/ c[1] = 0
  <2> DEFINE fs == q.fragments
  <2>1. Chain(fs)
    BY <1>4
  <2> HIDE DEF fs
  <2>2. LET v == Insert(fs, c)
            z == v.fragments
        IN  /\ Chain(z)
            /\ v.charged \in Int /\ v.charged <= sizeof_ipfrag + Size
            /\ Charges(z) = Charges(fs) + v.charged
            /\ \A u \in Nat : Covers(fs, u) \/ u \in c[1]..(c[2] - 1) => Covers(z, u)
            /\ Ends(z) <=> Ends(fs) \/ c[2] = Size
            /\ Begins(z) => Begins(fs) \/ c[1] = 0
    BY <1>1, <2>1, Inserted
  <2> QED BY <2>2 DEF fs
<1> HIDE DEF r, w
<1>6. /\ y \in Queues /\ y.len = ln /\ y.header = q.header /\ y.fragments = w /\ y.have = hv
      /\ y.seen = q.seen /\ y.expires = q.expires
  <2>1. w \in Seq(Pieces)
    BY <1>5 DEF Chain
  <2>2. ln \in {0, Size} /\ hv \in SUBSET Nat
    BY <1>1, <1>3 DEF Queues
  <2> HIDE DEF ln, hv, q
  <2> QED BY <1>3, <2>1, <2>2 DEF Queues
<1> HIDE DEF y, hv
<1>7. Cost(y) - Cost(q) = r.charged
  <2>1. /\ Cost(y) = sizeof_ipq + Charges(w) /\ Cost(q) = sizeof_ipq + Charges(q.fragments)
        /\ Charges(w) \in Nat /\ Charges(q.fragments) \in Nat
    BY <1>3, <1>6, CostType
  <2> HIDE DEF q
  <2> QED BY <1>5, <2>1 DEF sizeof_ipq
<1>8. s = Updated(t, d, y, t.timers)
  <2>1. t = [hosts |-> t.hosts, ip_frag_mem |-> m, ipqueue |-> t.ipqueue, q |-> t.q,
             timers |-> t.timers]
    BY <1>3 DEF Tables
  <2>2. s = [t EXCEPT !.q[d].len = IF c[2] = Size THEN c[2] ELSE @,
                      !.q[d].fragments = w,
                      !.q[d].have = @ \cup (c[1]..(c[2] - 1)),
                      !.ip_frag_mem[h] = @ + r.charged]
    BY DEF Stored, r, w
  <2> DEFINE f == [t.q EXCEPT ![d].len = ln, ![d].fragments = w, ![d].have = hv]
             k == m[h] + r.charged
  <2>3. f = [t.q EXCEPT ![d] = y]
    <3> HIDE DEF ln, hv, w
    <3> QED BY <1>2, <1>3 DEF y
  <2>4. s = [hosts |-> t.hosts, ip_frag_mem |-> [m EXCEPT ![h] = k],
             ipqueue |-> t.ipqueue, q |-> f, timers |-> t.timers]
    <3>1. s = [t EXCEPT !.q[d].len = ln, !.q[d].fragments = w, !.q[d].have = hv, !.ip_frag_mem[h] = k]
      BY <1>2, <1>3, <2>1, <2>2 DEF hv
    <3> HIDE DEF s, ln, hv, k
    <3> QED BY <2>1, <3>1
  <2>5. [m EXCEPT ![h] = k] = [m EXCEPT ![h] = @ + (Cost(y) - Cost(t.q[d]))]
    BY <1>7
  <2> HIDE DEF s, f, k
  <2> QED BY <2>3, <2>4, <2>5 DEF Updated
<1> HIDE DEF s
<1>9. /\ Linked(s) /\ Vacant(s) = Vacant(t) /\ Queued(s) = Queued(t)
      /\ s.q[d] = y /\ \A x \in Queued(t) : x # d => s.q[x] = t.q[x]
      /\ s.ip_frag_mem[h] = m[h] + (Cost(y) - Cost(q))
      /\ \A g \in Hosts : g # h => s.ip_frag_mem[g] = m[g]
  BY <1>2, <1>3, <1>6, <1>8, UpdatedLinked
<1>10. Timely(s)
  <2>1. s.timers = t.timers
    BY <1>8 DEF Updated
  <2> SUFFICES ASSUME NEW i \in 1..Len(t.timers), NEW j \in 1..Len(t.timers), i < j
               PROVE  s.q[t.timers[i]].seen <= s.q[t.timers[j]].seen
    BY <2>1 DEF Timely
  <2>2. t.timers[i] \in Queued(t) /\ t.timers[j] \in Queued(t)
    BY <1>3 DEF Lists, ToSet
  <2>3. \A x \in Queued(t) : s.q[x].seen = t.q[x].seen
    BY <1>6, <1>9
  <2> QED BY <1>2, <2>2, <2>3 DEF Timely
<1>11. Filed(y, now)
  <2>1. ln = IF Ends(w) THEN Size ELSE 0
    BY <1>4, <1>5
  <2>2. Begins(w) => q.header = 0
    BY <1>4, <1>5
  <2>3. hv \subseteq 0..(Size - 1) /\ \A u \in hv : Covers(w, u)
    <3>1. c[1]..(c[2] - 1) \subseteq 0..(Size - 1)
      BY <1>1
    <3>2. 0..(Size - 1) \subseteq Nat
      BY <1>1
    <3> QED BY <1>4, <1>5, <3>1, <3>2 DEF hv
  <2> HIDE DEF ln, q
  <2> QED BY <1>4, <1>5, <1>6, <2>1, <2>2, <2>3 DEF Filed
<1>12. /\ \A x \in Queued(t) : x # d => Sound(t.q[x], now)
       /\ \A g \in Hosts : g # h =>
            m[g] <= IPFRAG_HIGH_THRESH + sizeof_ipq + sizeof_ipfrag + Size
  BY ReadyTable
<1>13. \A x \in Queued(s) : x # d => Sound(s.q[x], now)
  BY <1>9, <1>12
<1>14. ASSUME NEW g \in Hosts
       PROVE  s.ip_frag_mem[g] <= IPFRAG_HIGH_THRESH + sizeof_ipq + sizeof_ipfrag + Size
  <2>1. CASE g = h
    <3>1. m[h] \in Nat /\ m[h] <= IPFRAG_HIGH_THRESH + sizeof_ipq
          /\ s.ip_frag_mem[g] = m[h] + r.charged
      BY <1>1, <1>2, <1>3, <1>7, <1>9, <2>1
    <3> HIDE DEF m
    <3> QED BY <1>1, <1>5, <3>1 DEF sizeof_ipq, sizeof_ipfrag
  <2>2. CASE g # h
    BY <1>9, <1>12, <2>2
  <2> QED BY <2>1, <2>2
<1> QED BY <1>2, <1>9, <1>10, <1>11, <1>13, <1>14 DEF s

\* A fragment: stored, and if nothing is missing glued and freed.
LEMMA FragmentStep ==
  ASSUME now \in Nat, Settled(tab, now), NEW d \in Datagrams, NEW c \in CutsOf[d], Fragment(d, c)
  PROVE  Settled(tab', now) /\ GluedIsWhole' /\ now' = now
<1> DEFINE t == Entry(tab, d, c[1])
           s == Stored(t, d, c)
           Bound == IPFRAG_HIGH_THRESH + sizeof_ipq + sizeof_ipfrag + Size
<1>1. /\ tab' = IF ip_done(s.q[d]) THEN ip_free(s, d) ELSE s
      /\ out' = IF ip_done(s.q[d]) THEN ip_glue(d, s.q[d]) ELSE None
      /\ now' = now
  BY DEF Fragment, Stored
<1>2. c[1] \in 0..(Size - 1)
  BY IpFragAssumption
<1>3. Ready(tab, t, d) /\ (c[1] = 0 => t.q[d].header = 0)
  BY <1>2, Entered
<1> HIDE DEF t
<1>4. /\ Linked(s) /\ Timely(s) /\ Vacant(s) = {} /\ Queued(s) = Queued(t)
      /\ Filed(s.q[d], now)
      /\ \A x \in Queued(s) : x # d => Sound(s.q[x], now)
      /\ \A g \in Hosts : s.ip_frag_mem[g] <= Bound
  BY <1>3, StoredQueue
<1>5. d \in Queued(s)
  BY <1>3, <1>4 DEF Ready
<1> HIDE DEF s
<1>6. CASE ip_done(s.q[d])
  <2> DEFINE r == ip_free(s, d)
  <2>1. Less(s, r) /\ Queued(r) = Queued(s) \ {d}
    BY <1>4, <1>5, Freed
  <2> HIDE DEF r
  <2>2. Linked(r) /\ Timely(r) /\ Vacant(r) = {} /\ \A x \in Queued(r) : Sound(r.q[x], now)
    BY <1>4, <2>1 DEF Less
  <2>3. ASSUME NEW g \in Hosts PROVE r.ip_frag_mem[g] <= Bound
    <3>1. r.ip_frag_mem[g] <= s.ip_frag_mem[g]
      BY <2>1 DEF Less
    <3>2. s.ip_frag_mem[g] \in Nat /\ r.ip_frag_mem[g] \in Nat
      BY <1>4, <2>2, TableFields DEF Linked
    <3>3. Bound \in Nat
      BY IpFragAssumption DEF sizeof_ipq, sizeof_ipfrag
    <3>4. s.ip_frag_mem[g] <= Bound
      BY <1>4
    <3> HIDE DEF Bound
    <3> QED BY <3>1, <3>2, <3>3, <3>4
  <2>4. Settled(r, now)
    BY <2>2, <2>3 DEF Settled
  <2>5. tab' = r /\ out' = ip_glue(d, s.q[d])
    BY <1>1, <1>6 DEF r
  <2>6. GluedIsWhole'
    <3> SUFFICES ASSUME out' # None
                 PROVE  /\ out'.count = Size /\ out'.header = 0
                        /\ out'.data = [i \in 0..(Size - 1) |-> {i}]
      BY DEF GluedIsWhole
    <3>1. ip_glue(d, s.q[d]) # None
      BY <2>5
    <3> DEFINE o == ip_glue(d, s.q[d])
    <3>2. o.count = Size /\ o.header = 0 /\ o.data = [i \in 0..(Size - 1) |-> {i}]
      BY <1>4, <1>6, <3>1, Glued
    <3> HIDE DEF o
    <3>3. out' = o
      BY <2>5 DEF o
    <3> QED BY <3>2, <3>3
  <2> QED BY <1>1, <2>4, <2>5, <2>6
<1>7. CASE ~ip_done(s.q[d])
  <2>1. \A x \in Queued(s) : Sound(s.q[x], now)
    BY <1>4, <1>7 DEF Sound
  <2>2. Settled(s, now)
    BY <1>4, <2>1 DEF Settled
  <2>3. tab' = s /\ out' = None
    BY <1>1, <1>7
  <2> QED BY <1>1, <2>2, <2>3 DEF GluedIsWhole
<1> QED BY <1>6, <1>7

\* A fragment that would make the datagram too large: its queue is there and
\* it is not.
LEMMA OversizedStep ==
  ASSUME now \in Nat, Settled(tab, now), NEW d \in Datagrams, NEW c \in CutsOf[d],
         OversizedFragment(d, c)
  PROVE  Settled(tab', now) /\ GluedIsWhole' /\ now' = now
<1> DEFINE t == Entry(tab, d, c[1])
<1>1. tab' = t /\ out' = None /\ now' = now
  BY DEF OversizedFragment
<1>2. c[1] \in 0..(Size - 1)
  BY IpFragAssumption
<1>3. Ready(tab, t, d)
  BY <1>2, Entered
<1> HIDE DEF t
<1>4. /\ Linked(t) /\ Timely(t) /\ Vacant(t) = {} /\ Sound(t.q[d], now)
  BY <1>3 DEF Ready
<1>5. /\ \A x \in Queued(t) : x # d => Sound(t.q[x], now)
      /\ \A g \in Hosts : t.ip_frag_mem[g] <= IPFRAG_HIGH_THRESH + sizeof_ipq + sizeof_ipfrag + Size
  BY <1>3, ReadyTable
<1>6. Settled(t, now)
  BY <1>4, <1>5 DEF Settled
<1> QED BY <1>1, <1>6 DEF GluedIsWhole

\* A datagram that was not cut: the queue of its fragments goes.
LEMMA WholeStep ==
  ASSUME now \in Nat, Settled(tab, now), NEW d \in Datagrams, Whole(d)
  PROVE  Settled(tab', now) /\ GluedIsWhole' /\ now' = now
<1> DEFINE h  == HostOf[d]
           t0 == Expire(tab)
           t  == IF h \in t0.hosts THEN CleanUp(t0, h) ELSE t0
           r  == IF d \in Queued(t) THEN ip_free(t, d) ELSE t
<1>1. tab' = r /\ out' = None /\ now' = now
  BY DEF Whole
<1>2. h \in Hosts /\ Linked(tab)
  BY IpFragAssumption DEF Settled
<1>3. Settled(t0, now) /\ Linked(t0)
  <2>1. Less(tab, t0)
    BY <1>2, Expired
  <2> HIDE DEF t0
  <2> QED BY <2>1, LessSettled DEF Less
<1> HIDE DEF t0
<1>4. Settled(t, now) /\ Linked(t)
  <2>1. Less(t0, CleanUp(t0, h))
    BY <1>2, <1>3, Cleaned
  <2>2. Settled(CleanUp(t0, h), now) /\ Linked(CleanUp(t0, h))
    BY <1>3, <2>1, LessSettled DEF Less
  <2> QED BY <1>3, <2>2
<1> HIDE DEF t
<1>5. Settled(r, now)
  <2>1. CASE d \in Queued(t)
    <3>1. Less(t, ip_free(t, d))
      BY <1>4, <2>1, Freed
    <3> QED BY <1>4, <2>1, <3>1, LessSettled
  <2>2. CASE d \notin Queued(t)
    BY <1>4, <2>2
  <2> QED BY <2>1, <2>2
<1> HIDE DEF r
<1> QED BY <1>1, <1>5 DEF GluedIsWhole
\* Nothing is queued at first.
LEMMA FragInit == LayerInit => FragInv
<1> SUFFICES ASSUME LayerInit PROVE FragInv
  OBVIOUS
<1>1. /\ tab = [hosts |-> {}, ip_frag_mem |-> [h \in Hosts |-> 0],
                ipqueue |-> [h \in Hosts |-> <<>>], q |-> <<>>, timers |-> <<>>]
      /\ now = 0 /\ out = None
  BY DEF LayerInit, Init
<1>2. Queued(tab) = {}
  BY <1>1 DEF Queued
<1>3. Lists(<<>>, {})
  BY DEF Lists, ToSet
<1>4. tab \in Tables
  <2> DEFINE m == [h \in Hosts |-> 0]
             l == [h \in Hosts |-> <<>>]
             f == <<>>
             Q == UNION {[D -> Queues] : D \in SUBSET Datagrams}
  <2>1. f \in [{} -> Queues] /\ {} \in SUBSET Datagrams
    OBVIOUS
  <2>2. f \in Q
    <3> HIDE DEF f
    <3> QED BY <2>1
  <2>3. m \in [Hosts -> Nat] /\ l \in [Hosts -> Seq(Datagrams)]
    OBVIOUS
  <2>4. tab = [hosts |-> {}, ip_frag_mem |-> m, ipqueue |-> l, q |-> f, timers |-> <<>>]
    BY <1>1
  <2>5. {} \in SUBSET Hosts /\ <<>> \in Seq(Datagrams)
    OBVIOUS
  <2> HIDE DEF m, l, f, Q
  <2>6. tab \in [hosts : SUBSET Hosts, ip_frag_mem : [Hosts -> Nat],
                ipqueue : [Hosts -> Seq(Datagrams)], q : Q, timers : Seq(Datagrams)]
    BY <2>2, <2>3, <2>4, <2>5
  <2> QED BY <2>6 DEF Tables, Q
<1>5. ASSUME NEW h \in Hosts
      PROVE  /\ Lists(tab.ipqueue[h], Local(tab, h)) /\ tab.ipqueue[h] = <<>>
             /\ tab.ip_frag_mem[h] = 0 /\ tab.ip_frag_mem[h] = SumOf(Costs(tab, h))
  <2>1. tab.ipqueue[h] = <<>> /\ tab.ip_frag_mem[h] = 0
    BY <1>1
  <2>2. Local(tab, h) = {}
    BY <1>2 DEF Local
  <2>3. Costs(tab, h) = <<>>
    BY <2>1 DEF Costs
  <2> QED BY <1>3, <2>1, <2>2, <2>3, SumEmpty
<1>6. Linked(tab)
  <2>1. Lists(tab.timers, Queued(tab))
    BY <1>1, <1>2, <1>3
  <2> QED BY <1>4, <1>5, <2>1 DEF Linked
<1>7. Timely(tab) /\ Vacant(tab) = {}
  BY <1>1 DEF Timely, Vacant
<1>8. 0 <= IPFRAG_HIGH_THRESH + sizeof_ipq + sizeof_ipfrag + Size /\ MaxNow \in Nat
  BY IpFragAssumption DEF sizeof_ipq, sizeof_ipfrag
<1>9. Settled(tab, now)
  BY <1>2, <1>5, <1>6, <1>7, <1>8 DEF Settled
<1> QED BY <1>1, <1>8, <1>9 DEF FragInv, GluedIsWhole

\* The clock moves on.
LEMMA TickStep ==
  ASSUME FragInv, Tick
  PROVE  Settled(tab', now') /\ GluedIsWhole' /\ now' \in 0..MaxNow
<1>1. now < MaxNow /\ now' = now + 1 /\ tab' = tab /\ out' = out
  BY DEF Tick
<1>2. now \in 0..MaxNow /\ MaxNow \in Nat /\ Settled(tab, now) /\ GluedIsWhole
  BY IpFragAssumption DEF FragInv
<1>3. now' \in 0..MaxNow /\ 0..now \subseteq 0..(now + 1)
  BY <1>1, <1>2
<1>4. \A x \in Queued(tab) : Sound(tab.q[x], now + 1)
  BY <1>2, <1>3 DEF Settled, Sound, Filed
<1>5. Settled(tab, now + 1)
  BY <1>2, <1>4 DEF Settled
<1> QED BY <1>1, <1>2, <1>3, <1>5 DEF GluedIsWhole

\* Every step of the layer keeps the invariant; those of IpInput do not touch
\* the table.
LEMMA FragNext == FragInv /\ [LayerNext]_<<vars, pkt>> => FragInv'
<1> SUFFICES ASSUME FragInv, [LayerNext]_<<vars, pkt>> PROVE FragInv'
  OBVIOUS
<1>1. now \in 0..MaxNow /\ now \in Nat /\ Settled(tab, now) /\ GluedIsWhole
  BY IpFragAssumption DEF FragInv
<1> SUFFICES Settled(tab', now') /\ GluedIsWhole' /\ now' \in 0..MaxNow
  BY DEF FragInv, Settled, Linked, Timely, Vacant, Queued, Local, Costs
<1>2. ASSUME NEW d \in Datagrams, Whole(d)
      PROVE  Settled(tab', now') /\ GluedIsWhole' /\ now' \in 0..MaxNow
  BY <1>1, <1>2, WholeStep
<1>3. ASSUME NEW d \in Datagrams, NEW c \in CutsOf[d], Fragment(d, c)
      PROVE  Settled(tab', now') /\ GluedIsWhole' /\ now' \in 0..MaxNow
  BY <1>1, <1>3, FragmentStep
<1>4. ASSUME NEW d \in Datagrams, NEW c \in CutsOf[d], OversizedFragment(d, c)
      PROVE  Settled(tab', now') /\ GluedIsWhole' /\ now' \in 0..MaxNow
  BY <1>1, <1>4, OversizedStep
<1>5. CASE Tick
  BY <1>5, TickStep
<1>6. CASE UNCHANGED vars
  BY <1>1, <1>6 DEF vars, GluedIsWhole
<1>7. Next \/ UNCHANGED vars
  BY DEF LayerNext, vars
<1> QED BY <1>2, <1>3, <1>4, <1>5, <1>6, <1>7 DEF Next

\* The invariant holds.
LEMMA FragAlways == LayerSpec => []FragInv
BY FragInit, FragNext, PTL DEF LayerSpec

\* The structures describe the same queues however a fragment or a queue is
\* freed (QueuesSound): one timer and one place in the list of its host for
\* each, no dangling or missing host entry, ip_frag_mem exactly what the queues
\* take, and never more than one queue with one fragment above the high mark.
THEOREM QueuesAlwaysSound == LayerSpec => []QueuesSound
<1>1. FragInv => QueuesSound
  <2> SUFFICES ASSUME FragInv PROVE QueuesSound
    OBVIOUS
  <2>1. now \in 0..MaxNow /\ Settled(tab, now)
    BY DEF FragInv
  <2>2. /\ Linked(tab) /\ Vacant(tab) = {} /\ \A d \in Queued(tab) : Sound(tab.q[d], now)
        /\ \A h \in Hosts :
             tab.ip_frag_mem[h] <= IPFRAG_HIGH_THRESH + sizeof_ipq + sizeof_ipfrag + Size
    BY <2>1 DEF Settled
  <2>3. /\ tab \in Tables /\ Lists(tab.timers, Queued(tab))
        /\ \A h \in Hosts : /\ Lists(tab.ipqueue[h], Local(tab, h))
                            /\ tab.ipqueue[h] # <<>> => h \in tab.hosts
                            /\ tab.ip_frag_mem[h] = SumOf(Costs(tab, h))
    BY <2>2 DEF Linked
  <2>4. TypeOK
    <3>1. tab.hosts \subseteq Hosts /\ Queued(tab) \subseteq Datagrams
          /\ tab.timers \in Seq(Datagrams) /\ tab.ip_frag_mem \in [Hosts -> Nat]
          /\ \A d \in Queued(tab) : tab.q[d] \in Queues
      BY <2>3, TableFields
    <3>2. \A d \in Queued(tab) : /\ tab.q[d].len \in {0, Size}
                                 /\ tab.q[d].expires \in (-Half)..(Half - 1)
      BY <3>1 DEF Queues
    <3>3. \A d \in Queued(tab) : tab.q[d].header \in 0..(Size - 1)
      BY <2>2 DEF Sound, Filed
    <3> QED BY <2>1, <3>1, <3>2, <3>3 DEF TypeOK
  <2>5. ToSet(tab.timers) = Queued(tab) /\ Len(tab.timers) = Cardinality(Queued(tab))
    BY <2>3, ListedCardinality DEF Lists
  <2>6. ASSUME NEW h \in Hosts
        PROVE  /\ ToSet(tab.ipqueue[h]) = {d \in Queued(tab) : HostOf[d] = h}
               /\ Len(tab.ipqueue[h]) = Cardinality(ToSet(tab.ipqueue[h]))
               /\ h \in tab.hosts <=> tab.ipqueue[h] # <<>>
               /\ tab.ip_frag_mem[h] =
                    SumOf([i \in 1..Len(tab.ipqueue[h]) |->
                             sizeof_ipq + Charges(tab.q[tab.ipqueue[h][i]].fragments)])
    <3>1. ToSet(tab.ipqueue[h]) = Local(tab, h) /\ Lists(tab.ipqueue[h], Local(tab, h))
      BY <2>3 DEF Lists
    <3>2. Len(tab.ipqueue[h]) = Cardinality(ToSet(tab.ipqueue[h]))
      BY <3>1, ListedCardinality
    <3>3. h \in tab.hosts <=> tab.ipqueue[h] # <<>>
      BY <2>2, <2>3 DEF Vacant
    <3>4. tab.ip_frag_mem[h] =
            SumOf([i \in 1..Len(tab.ipqueue[h]) |->
                     sizeof_ipq + Charges(tab.q[tab.ipqueue[h][i]].fragments)])
      BY <2>3 DEF Costs, Cost
    <3> QED BY <3>1, <3>2, <3>3, <3>4 DEF Local
  <2> QED BY <2>2, <2>4, <2>5, <2>6 DEF QueuesSound
<1> QED BY <1>1, FragAlways, PTL

\* ip_defrag_stub, which looks at the head of the timer list only, frees
\* exactly the queues without a fragment for IP_FRAG_TIME, as long as clock
\* and timers fit an int (ExpiresInTime).
THEOREM QueuesExpireInTime == LayerSpec => []ExpiresInTime
<1>1. FragInv => ExpiresInTime
  <2> SUFFICES ASSUME FragInv, now + IP_FRAG_TIME < Half, NEW d \in Queued(tab)
               PROVE  d \in Queued(Expire(tab)) <=> now - tab.q[d].seen <= IP_FRAG_TIME
    BY DEF ExpiresInTime
  <2> DEFINE r == Expire(tab)
  <2>1. /\ now \in Nat /\ Half \in Nat /\ IP_FRAG_TIME \in Nat
        /\ Linked(tab) /\ Timely(tab) /\ \A x \in Queued(tab) : Sound(tab.q[x], now)
    BY IpFragAssumption DEF FragInv, Settled
  <2>2. jiffies = now
    <3>1. now \in Int /\ -Half <= now /\ now < Half
      BY <2>1
    <3> QED BY <3>1, Wrapped DEF jiffies
  <2>3. ASSUME NEW x \in Queued(tab)
        PROVE  tab.q[x].seen \in Nat /\ tab.q[x].expires = tab.q[x].seen + IP_FRAG_TIME
    <3> DEFINE n == tab.q[x].seen
    <3>1. n \in 0..now /\ tab.q[x].expires = Int32(Int32(n) + IP_FRAG_TIME)
      BY <2>1 DEF Sound, Filed
    <3> HIDE DEF n
    <3>2. n \in Int /\ -Half <= n /\ n < Half
      BY <2>1, <3>1
    <3>3. Int32(n) = n
      BY <3>2, Wrapped
    <3>4. n + IP_FRAG_TIME \in Int /\ -Half <= n + IP_FRAG_TIME /\ n + IP_FRAG_TIME < Half
      BY <2>1, <3>1
    <3>5. Int32(n + IP_FRAG_TIME) = n + IP_FRAG_TIME
      BY <3>4, Wrapped
    <3>6. n \in Nat /\ tab.q[x].expires = n + IP_FRAG_TIME
      BY <3>1, <3>3, <3>5
    <3> QED BY <3>6 DEF n
  <2>4. /\ Less(tab, r)
        /\ \A x \in Queued(tab) \ Queued(r) : tab.q[x].expires < jiffies
        /\ r.timers = <<>> \/ Stopped(r)
    BY <2>1, Expired
  <2> HIDE DEF r
  <2>5. CASE d \notin Queued(r)
    <3>1. tab.q[d].expires < now
      BY <2>2, <2>4, <2>5
    <3>2. tab.q[d].seen \in Nat /\ tab.q[d].expires = tab.q[d].seen + IP_FRAG_TIME
      BY <2>3
    <3> QED BY <2>1, <2>5, <3>1, <3>2 DEF r
  <2>6. CASE d \in Queued(r)
    <3>1. Linked(r) /\ Timely(r) /\ Queued(r) \subseteq Queued(tab)
          /\ \A x \in Queued(r) : r.q[x] = tab.q[x]
      BY <2>1, <2>4 DEF Less
    <3>2. r.timers \in Seq(Datagrams) /\ ToSet(r.timers) = Queued(r)
      BY <3>1 DEF Linked, Lists
    <3>3. PICK i \in 1..Len(r.timers) : r.timers[i] = d
      BY <2>6, <3>2 DEF ToSet
    <3>4. r.timers # <<>> /\ 1 \in 1..Len(r.timers) /\ Head(r.timers) = r.timers[1]
          /\ Len(r.timers) \in Nat
      BY <3>2, <3>3
    <3> DEFINE x == r.timers[1]
    <3>5. x \in Queued(r) /\ x \in Queued(tab)
      BY <3>1, <3>2, <3>4 DEF ToSet
    <3>6. ~(r.q[x].expires < now)
      BY <2>2, <2>4, <3>4 DEF Stopped
    <3>7. r.q[x].seen <= r.q[d].seen
      <4>1. CASE i = 1
        <5>1. x = d /\ r.q[d].seen \in Nat
          BY <2>3, <2>6, <3>1, <3>3, <4>1
        <5> HIDE DEF x
        <5> QED BY <5>1
      <4>2. CASE i # 1
        <5>1. 1 < i
          BY <3>4, <4>2
        <5> QED BY <3>1, <3>3, <3>4, <5>1 DEF Timely
      <4> QED BY <4>1, <4>2
    <3> HIDE DEF x
    <3>8. /\ r.q[x] = tab.q[x] /\ r.q[d] = tab.q[d]
          /\ tab.q[x].seen \in Nat /\ tab.q[x].expires = tab.q[x].seen + IP_FRAG_TIME
          /\ tab.q[d].seen \in Nat
      BY <2>3, <2>6, <3>1, <3>5
    <3>9. ~(tab.q[x].seen + IP_FRAG_TIME < now) /\ tab.q[x].seen <= tab.q[d].seen
      BY <3>6, <3>7, <3>8
    <3>10. now - tab.q[d].seen <= IP_FRAG_TIME
      BY <2>1, <3>8, <3>9
    <3> QED BY <2>6, <3>10 DEF r
  <2> QED BY <2>5, <2>6
<1> QED BY <1>1, FragAlways, PTL

\* What ip_glue hands on is the datagram that was cut, whatever fragments
\* overlapped and in whatever order they came (GluedIsWhole).
THEOREM GluedAlwaysWhole == LayerSpec => []GluedIsWhole
<1>1. FragInv => GluedIsWhole
  BY DEF FragInv
<1> QED BY <1>1, FragAlways, PTL

\* A datagram of which every unit came is glued at once, except for a fragment
\* that lay strictly inside an earlier one (WaitsOnlyForMissing).
THEOREM OnlyMissingWaits == LayerSpec => []WaitsOnlyForMissing
<1>1. FragInv => WaitsOnlyForMissing
  <2> SUFFICES ASSUME FragInv, NEW d \in Queued(tab), tab.q[d].have = 0..(Size - 1),
                      \A k \in 1..Len(tab.q[d].fragments) : ~(tab.q[d].fragments[k].len < 0)
               PROVE  FALSE
    BY DEF WaitsOnlyForMissing
  <2> DEFINE qp == tab.q[d]
  <2>1. Filed(qp, now) /\ ~ip_done(qp)
    BY DEF FragInv, Settled, Sound
  <2>2. \A u \in 0..(Size - 1) : Covers(qp.fragments, u)
    BY <2>1 DEF Filed
  <2>3. \A k \in 1..Len(qp.fragments) : qp.fragments[k].len >= 0
    <3>1. \A k \in 1..Len(qp.fragments) : qp.fragments[k] \in Pieces
      BY <2>1 DEF Filed, Chain
    <3>2. \A k \in 1..Len(qp.fragments) : qp.fragments[k].len \in Int
      BY <3>1 DEF Pieces
    <3> HIDE DEF qp
    <3> QED BY <3>2 DEF qp
  <2> HIDE DEF qp
  <2> QED BY <2>1, <2>2, <2>3, NothingMissing
<1> QED BY <1>1, FragAlways, PTL
=============================================================================
