----------------------------- MODULE SumsProofs -----------------------------
(***************************************************************************)
(* Sums of sequences of numbers.  The recursion in Sums is shown to be     *)
(* well founded by an induction over a set of numbers: the principle       *)
(* follows from the well-foundedness of < on Nat.                          *)
(***************************************************************************)
EXTENDS Sums, WellFoundedInduction, TLAPS

\* Every set of natural numbers has a least one.
LEMMA LeastNumber ==
  ASSUME NEW T \in SUBSET Nat, T # {}
  PROVE  \E x \in T : \A y \in T : x <= y
<1> DEFINE R == {ss \in Nat \X Nat : ss[1] < ss[2]}
<1>1. IsWellFoundedOn(R, Nat)
  BY NatLessThanWellFounded DEF OpToRel
<1>2. \A y \in Nat : \A x \in Nat : y < x => <<y, x>> \in R
  OBVIOUS
<1> HIDE DEF R
<1>3. PICK x \in T : \A y \in T : ~(<<y, x>> \in R)
  BY <1>1, WFMin
<1>4. \A y \in T : x <= y
  <2> TAKE y \in T
  <2>1. x \in Nat /\ y \in Nat
    OBVIOUS
  <2>2. ~(y < x)
    BY <1>2, <1>3, <2>1
  <2> QED BY <2>1, <2>2
<1> QED BY <1>3, <1>4

\* Induction: a set of natural numbers with 0 and all successors is Nat.
LEMMA SetInduction ==
  ASSUME NEW T \in SUBSET Nat, 0 \in T, \A n \in T : n + 1 \in T
  PROVE  T = Nat
<1> SUFFICES ASSUME T # Nat PROVE FALSE
  OBVIOUS
<1>1. Nat \ T # {} /\ Nat \ T \in SUBSET Nat
  OBVIOUS
<1>2. PICK x \in Nat \ T : \A y \in Nat \ T : x <= y
  BY <1>1, LeastNumber
<1>3. x # 0 /\ x - 1 \in Nat /\ x - 1 < x
  BY <1>2
<1>4. x - 1 \in T
  BY <1>2, <1>3
<1>5. (x - 1) + 1 = x
  BY <1>2
<1> QED BY <1>2, <1>4, <1>5

\* g holds the sums of the first n numbers of f.
AddsUp(f, n, g) == g = [i \in 0..n |-> IF i = 0 THEN 0 ELSE g[i - 1] + f[i]]

\* There are such sums, so that Sums(f) is what its recursion says.
LEMMA SumsExist ==
  ASSUME NEW f \in Seq(Nat)
  PROVE  AddsUp(f, Len(f), Sums(f))
<1> DEFINE T == {n \in Nat : n <= Len(f) => \E g \in [0..n -> Nat] : AddsUp(f, n, g)}
<1>0. Len(f) \in Nat
  OBVIOUS
<1>1. 0 \in T
  <2> DEFINE g == [i \in 0..0 |-> 0]
  <2>1. g \in [0..0 -> Nat] /\ AddsUp(f, 0, g)
    BY DEF AddsUp
  <2> QED BY <2>1
<1>2. ASSUME NEW n \in T PROVE n + 1 \in T
  <2>0. n \in Nat /\ n + 1 \in Nat
    OBVIOUS
  <2>1. ASSUME n + 1 <= Len(f) PROVE \E g \in [0..(n + 1) -> Nat] : AddsUp(f, n + 1, g)
    <3>1. n <= Len(f) /\ f[n + 1] \in Nat
      BY <1>0, <2>0, <2>1
    <3>2. PICK g \in [0..n -> Nat] : AddsUp(f, n, g)
      BY <3>1
    <3> DEFINE h == [i \in 0..(n + 1) |-> IF i = n + 1 THEN g[n] + f[n + 1] ELSE g[i]]
    <3>3. h \in [0..(n + 1) -> Nat]
      BY <2>0, <3>1
    <3>4. \A i \in 0..n : g[i] = IF i = 0 THEN 0 ELSE g[i - 1] + f[i]
      BY <3>2 DEF AddsUp
    <3>5. ASSUME NEW i \in 0..(n + 1) PROVE h[i] = IF i = 0 THEN 0 ELSE h[i - 1] + f[i]
      <4>1. CASE i = n + 1
        BY <2>0, <4>1
      <4>2. CASE i \in 0..n /\ i # n + 1
        BY <2>0, <3>4, <4>2
      <4> QED BY <2>0, <4>1, <4>2
    <3>6. AddsUp(f, n + 1, h)
      <4> HIDE DEF h
      <4>1. h = [i \in 0..(n + 1) |-> h[i]]
        BY <3>3
      <4> QED BY <3>5, <4>1 DEF AddsUp
    <3> QED BY <3>3, <3>6
  <2> QED BY <2>0, <2>1
<1>3. T = Nat
  <2> HIDE DEF T
  <2>1. T \in SUBSET Nat
    BY DEF T
  <2> QED BY <1>1, <1>2, <2>1, SetInduction
<1>4. \E g : AddsUp(f, Len(f), g)
  BY <1>0, <1>3
<1>5. Sums(f) = CHOOSE g : AddsUp(f, Len(f), g)
  BY DEF Sums, AddsUp
<1> QED BY <1>4, <1>5

\* Sums of natural numbers are natural numbers, and those of two sequences
\* agree as far as the sequences do.
LEMMA SumsAgree ==
  ASSUME NEW f \in Seq(Nat), NEW e \in Seq(Nat), Len(f) <= Len(e),
         \A i \in 1..Len(f) : f[i] = e[i]
  PROVE  \A n \in 0..Len(f) : Sums(f)[n] \in Nat /\ Sums(e)[n] = Sums(f)[n]
<1> DEFINE T == {n \in Nat : n <= Len(f) => Sums(f)[n] \in Nat /\ Sums(e)[n] = Sums(f)[n]}
<1>0. Len(f) \in Nat /\ Len(e) \in Nat
  OBVIOUS
<1>1. /\ \A i \in 0..Len(f) : Sums(f)[i] = IF i = 0 THEN 0 ELSE Sums(f)[i - 1] + f[i]
      /\ \A i \in 0..Len(e) : Sums(e)[i] = IF i = 0 THEN 0 ELSE Sums(e)[i - 1] + e[i]
  BY SumsExist DEF AddsUp
<1>2. 0 \in T
  BY <1>0, <1>1
<1>3. ASSUME NEW n \in T PROVE n + 1 \in T
  <2>1. n \in Nat /\ n + 1 \in Nat
    OBVIOUS
  <2>2. ASSUME n + 1 <= Len(f)
        PROVE  Sums(f)[n + 1] \in Nat /\ Sums(e)[n + 1] = Sums(f)[n + 1]
    <3>1. Sums(f)[n] \in Nat /\ Sums(e)[n] = Sums(f)[n]
      BY <1>0, <2>1, <2>2
    <3>2. n + 1 \in 0..Len(f) /\ n + 1 \in 0..Len(e) /\ n + 1 \in 1..Len(f) /\ (n + 1) - 1 = n
          /\ n + 1 # 0
      BY <1>0, <2>1, <2>2
    <3>3. f[n + 1] \in Nat /\ e[n + 1] = f[n + 1]
      BY <3>2
    <3>4. Sums(f)[n + 1] = Sums(f)[n] + f[n + 1] /\ Sums(e)[n + 1] = Sums(e)[n] + e[n + 1]
      BY <1>1, <3>2
    <3> QED BY <3>1, <3>3, <3>4
  <2> QED BY <2>1, <2>2
<1>4. T = Nat
  <2> HIDE DEF T
  <2>1. T \in SUBSET Nat
    BY DEF T
  <2> QED BY <1>2, <1>3, <2>1, SetInduction
<1> QED BY <1>0, <1>4

\* The sum of no numbers, and of one number more.
LEMMA SumEmpty == SumOf(<<>>) = 0
<1>1. <<>> \in Seq(Nat) /\ Len(<<>>) = 0
  OBVIOUS
<1>2. AddsUp(<<>>, 0, Sums(<<>>))
  BY <1>1, SumsExist
<1> QED BY <1>1, <1>2 DEF SumOf, AddsUp

\* One more number adds itself.
LEMMA SumAppend ==
  ASSUME NEW f \in Seq(Nat), NEW x \in Nat
  PROVE  SumOf(f) \in Nat /\ SumOf(Append(f, x)) = SumOf(f) + x
<1> DEFINE e == Append(f, x)
           n == Len(f)
<1>1. e \in Seq(Nat) /\ Len(e) = n + 1 /\ n \in Nat /\ e[n + 1] = x
      /\ \A i \in 1..n : f[i] = e[i]
  OBVIOUS
<1> HIDE DEF e
<1>2. Sums(f)[n] \in Nat /\ Sums(e)[n] = Sums(f)[n]
  BY <1>1, SumsAgree
<1>3. \A i \in 0..(n + 1) : Sums(e)[i] = IF i = 0 THEN 0 ELSE Sums(e)[i - 1] + e[i]
  BY <1>1, SumsExist DEF AddsUp
<1> HIDE DEF n
<1>4. n + 1 \in 0..(n + 1) /\ n + 1 # 0 /\ (n + 1) - 1 = n
  BY <1>1
<1>5. Sums(e)[n + 1] = Sums(e)[n] + x
  BY <1>1, <1>3, <1>4
<1> QED BY <1>1, <1>2, <1>5 DEF SumOf, e, n

\* The sum of one sequence behind another.
LEMMA SumConcat ==
  ASSUME NEW f \in Seq(Nat), NEW e \in Seq(Nat)
  PROVE  SumOf(f) \in Nat /\ SumOf(e) \in Nat /\ SumOf(f \o e) = SumOf(f) + SumOf(e)
<1> DEFINE c == f \o e
           m == Len(f)
           T == {n \in Nat : n <= Len(e) => Sums(c)[m + n] = SumOf(f) + Sums(e)[n]}
<1>1. /\ c \in Seq(Nat) /\ Len(c) = m + Len(e) /\ m \in Nat /\ Len(e) \in Nat
      /\ \A i \in 1..m : f[i] = c[i]
      /\ \A i \in 1..Len(e) : c[m + i] = e[i]
  OBVIOUS
<1> HIDE DEF c
<1>2. Sums(f)[m] \in Nat /\ Sums(c)[m] = Sums(f)[m]
  <2>1. \A i \in 1..Len(f) : f[i] = c[i]
    BY <1>1
  <2>4. Len(f) <= Len(c)
    <3>1. Len(c) = Len(f) + Len(e) /\ Len(f) \in Nat /\ Len(e) \in Nat
      BY <1>1
    <3> QED BY <3>1
  <2>2. \A n \in 0..Len(f) : Sums(f)[n] \in Nat /\ Sums(c)[n] = Sums(f)[n]
    BY <1>1, <2>1, <2>4, SumsAgree
  <2>3. m \in 0..Len(f)
    BY <1>1
  <2> QED BY <2>2, <2>3
<1>3. /\ \A i \in 0..Len(c) : Sums(c)[i] = IF i = 0 THEN 0 ELSE Sums(c)[i - 1] + c[i]
      /\ \A i \in 0..Len(e) : Sums(e)[i] = IF i = 0 THEN 0 ELSE Sums(e)[i - 1] + e[i]
  BY <1>1, SumsExist DEF AddsUp
<1>4. \A n \in 0..Len(e) : Sums(e)[n] \in Nat
  BY SumsAgree
<1> HIDE DEF m
<1>5. SumOf(f) = Sums(f)[m] /\ SumOf(f) \in Nat
  BY <1>2 DEF SumOf, m
<1>6. 0 \in T
  BY <1>1, <1>2, <1>3, <1>5
<1>7. ASSUME NEW n \in T PROVE n + 1 \in T
  <2>1. n \in Nat /\ n + 1 \in Nat
    OBVIOUS
  <2>2. ASSUME n + 1 <= Len(e) PROVE Sums(c)[m + (n + 1)] = SumOf(f) + Sums(e)[n + 1]
    <3> DEFINE k == n + 1
               j == m + k
    <3>1. /\ n <= Len(e) /\ n \in 0..Len(e) /\ k \in 1..Len(e) /\ k \in 0..Len(e) /\ k # 0
          /\ k - 1 = n /\ j \in 0..Len(c) /\ j # 0 /\ j - 1 = m + n
      <4>1. Len(c) = m + Len(e) /\ m \in Nat /\ Len(e) \in Nat
        BY <1>1
      <4> HIDE DEF T
      <4> QED BY <2>1, <2>2, <4>1
    <3>2. Sums(c)[m + n] = SumOf(f) + Sums(e)[n]
      BY <3>1
    <3>3. c[j] = e[k] /\ e[k] \in Nat /\ Sums(e)[n] \in Nat
      <4>1. c[j] = e[k]
        BY <1>1, <3>1
      <4> HIDE DEF k, j, T
      <4> QED BY <1>4, <3>1, <4>1
    <3>4. Sums(c)[j] = Sums(c)[m + n] + e[k] /\ Sums(e)[k] = Sums(e)[n] + e[k]
      <4> HIDE DEF k, j, T
      <4>1. Sums(c)[j] = Sums(c)[j - 1] + c[j] /\ Sums(e)[k] = Sums(e)[k - 1] + e[k]
        BY <1>3, <3>1
      <4> QED BY <3>1, <3>3, <4>1
    <3> QED BY <1>5, <3>2, <3>3, <3>4
  <2> QED BY <2>1, <2>2
<1>8. T = Nat
  <2> HIDE DEF T
  <2>1. T \in SUBSET Nat
    BY DEF T
  <2> QED BY <1>6, <1>7, <2>1, SetInduction
<1>9. Sums(c)[m + Len(e)] = SumOf(f) + Sums(e)[Len(e)]
  <2>1. Len(e) \in T
    BY <1>1, <1>8
  <2>2. Len(e) \in Nat /\ Len(e) <= Len(e)
    BY <1>1
  <2> QED BY <2>1, <2>2
<1>10. SumOf(c) = SumOf(f) + SumOf(e) /\ SumOf(e) \in Nat
  BY <1>1, <1>4, <1>9 DEF SumOf
<1> QED BY <1>5, <1>10 DEF c
=============================================================================
