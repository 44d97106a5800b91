------------------------------ MODULE SumsProofs ------------------------------
(***************************************************************************)
(* Lemmas about sums and filters, for the proofs about plans.  The library *)
(* states induction with an operator for a parameter; here it is stated    *)
(* with a set, from the well-foundedness of Nat.                           *)
(***************************************************************************)
EXTENDS Sums, SequencesExt, SequenceTheorems, WellFoundedInduction, TLAPS

\* A set of numbers has a least one.
LEMMA LeastNat ==
  ASSUME NEW T \in SUBSET Nat, T # {}
  PROVE  \E n \in T : \A m \in T : n <= m
<1> DEFINE R == OpToRel(<, Nat)
<1>1. IsWellFoundedOn(R, Nat)
  BY NatLessThanWellFounded
<1>2. \A x, y \in Nat : x < y => <<x, y>> \in R
  BY DEF OpToRel
<1> HIDE DEF R
<1>3. PICK x \in T : \A y \in T : <<y, x>> \notin R
  BY <1>1, WFMin
<1>4. \A y \in T : ~(y < x)
  BY <1>2, <1>3
<1>5. \A y \in T : x <= y
  BY <1>4
<1> QED BY <1>5

\* A set of numbers with a bound has a greatest one.
LEMMA GreatestNat ==
  ASSUME NEW T \in SUBSET Nat, T # {}, NEW b \in Nat, \A x \in T : x <= b
  PROVE  \E n \in T : \A x \in T : x <= n
<1> DEFINE D == {n \in Nat : \E x \in T : x + n = b}
<1>1. \A x \in T : b - x \in D /\ x \in Nat
  OBVIOUS
<1>2. D \in SUBSET Nat /\ D # {}
  BY <1>1
<1>3. PICK n \in D : \A m \in D : n <= m
  <2> HIDE DEF D
  <2> QED BY <1>2, LeastNat
<1>4. PICK x \in T : x + n = b
  BY <1>3
<1>5. \A y \in T : y <= x
  <2> TAKE y \in T
  <2>1. n <= b - y /\ n \in Nat /\ y \in Nat /\ x \in Nat
    BY <1>1, <1>2, <1>3
  <2> QED BY <1>4, <2>1
<1> QED BY <1>5

\* Induction over the numbers, for a set.
LEMMA Induction ==
  ASSUME NEW G, 0 \in G, \A n \in Nat : n \in G => n + 1 \in G
  PROVE  Nat \subseteq G
<1> SUFFICES ASSUME Nat \ G # {} PROVE FALSE
  OBVIOUS
<1>1. PICK n \in Nat \ G : \A m \in Nat \ G : n <= m
  BY LeastNat
<1>2. n - 1 \in Nat /\ n - 1 \notin Nat \ G
  BY <1>1
<1> QED BY <1>1, <1>2

\* The recursion defines a function.
LEMMA RunningTotalDef ==
  ASSUME NEW S, NEW s \in Seq(S)
  PROVE  RunningTotal(s) =
           [n \in 0..Len(s) |-> IF n = 0 THEN 0 ELSE RunningTotal(s)[n - 1] + s[n]]
<1> DEFINE Is(c, m) == c = [n \in 0..m |-> IF n = 0 THEN 0 ELSE c[n - 1] + s[n]]
           G == {m \in Nat : m <= Len(s) => \E c : Is(c, m)}
<1>1. 0 \in G
  <2>1. Is([n \in 0..0 |-> 0], 0)
    OBVIOUS
  <2> QED BY <2>1
<1>2. ASSUME NEW m \in Nat, m \in G PROVE m + 1 \in G
  <2> SUFFICES ASSUME m + 1 <= Len(s) PROVE \E c : Is(c, m + 1)
    OBVIOUS
  <2>1. PICK c : Is(c, m)
    BY <1>2
  <2> DEFINE d == [n \in 0..(m + 1) |-> IF n <= m THEN c[n] ELSE c[m] + s[m + 1]]
  <2>2. \A n \in 0..m : c[n] = IF n = 0 THEN 0 ELSE c[n - 1] + s[n]
    BY <2>1
  <2>3. \A n \in 0..(m + 1) : d[n] = IF n = 0 THEN 0 ELSE d[n - 1] + s[n]
    BY <2>2
  <2>4. Is(d, m + 1)
    BY <2>3
  <2> QED BY <2>4
<1>3. Len(s) \in G
  <2> HIDE DEF G
  <2> QED BY <1>1, <1>2, Induction
<1>4. \E c : c = [n \in 0..Len(s) |-> IF n = 0 THEN 0 ELSE c[n - 1] + s[n]]
  BY <1>3
<1>5. RunningTotal(s) = CHOOSE c : c = [n \in 0..Len(s) |-> IF n = 0 THEN 0 ELSE c[n - 1] + s[n]]
  BY DEF RunningTotal
<1> QED BY <1>4, <1>5

\* A total is that of one element less, and the element.
LEMMA TotalStep ==
  ASSUME NEW s \in Seq(Nat)
  PROVE  /\ RunningTotal(s)[0] = 0
         /\ \A n \in 1..Len(s) : RunningTotal(s)[n] = RunningTotal(s)[n - 1] + s[n]
  BY RunningTotalDef

\* A total of numbers is a number.
LEMMA TotalIsNat ==
  ASSUME NEW s \in Seq(Nat)
  PROVE  \A n \in 0..Len(s) : RunningTotal(s)[n] \in Nat
<1> DEFINE G == {n \in Nat : n <= Len(s) => RunningTotal(s)[n] \in Nat}
<1>1. 0 \in G
  BY TotalStep
<1>2. ASSUME NEW n \in Nat, n \in G PROVE n + 1 \in G
  <2> SUFFICES ASSUME n + 1 <= Len(s) PROVE RunningTotal(s)[n + 1] \in Nat
    OBVIOUS
  <2>1. RunningTotal(s)[n + 1] = RunningTotal(s)[n] + s[n + 1]
    BY TotalStep
  <2>2. RunningTotal(s)[n] \in Nat /\ s[n + 1] \in Nat
    BY <1>2
  <2> QED BY <2>1, <2>2
<1>3. Nat \subseteq G
  <2> HIDE DEF G
  <2> QED BY <1>1, <1>2, Induction
<1> QED BY <1>3

\* It grows along the list.
LEMMA TotalGrows ==
  ASSUME NEW s \in Seq(Nat), NEW m \in 0..Len(s), NEW n \in 0..Len(s), m <= n
  PROVE  RunningTotal(s)[m] <= RunningTotal(s)[n]
<1> DEFINE G == {k \in Nat : m + k <= Len(s) => RunningTotal(s)[m] <= RunningTotal(s)[m + k]}
<1>0. \A k \in 0..Len(s) : RunningTotal(s)[k] \in Nat
  BY TotalIsNat
<1>1. 0 \in G
  BY <1>0
<1>2. ASSUME NEW k \in Nat, k \in G PROVE k + 1 \in G
  <2> SUFFICES ASSUME m + (k + 1) <= Len(s)
               PROVE  RunningTotal(s)[m] <= RunningTotal(s)[m + (k + 1)]
    OBVIOUS
  <2>1. m + (k + 1) \in 1..Len(s) /\ (m + (k + 1)) - 1 = m + k /\ m + k \in 0..Len(s)
    OBVIOUS
  <2>2. RunningTotal(s)[m + (k + 1)] = RunningTotal(s)[m + k] + s[m + (k + 1)]
    BY <2>1, TotalStep
  <2>3. /\ RunningTotal(s)[m] <= RunningTotal(s)[m + k] /\ s[m + (k + 1)] \in Nat
        /\ RunningTotal(s)[m] \in Nat /\ RunningTotal(s)[m + k] \in Nat
    BY <1>0, <1>2, <2>1
  <2> QED BY <2>2, <2>3
<1>3. Nat \subseteq G
  <2> HIDE DEF G
  <2> QED BY <1>1, <1>2, Induction
<1>4. n - m \in G
  BY <1>3
<1> QED BY <1>4

\* Lists that begin alike have the same totals.
LEMMA TotalOfPrefix ==
  ASSUME NEW s \in Seq(Nat), NEW t \in Seq(Nat), NEW m \in Nat, m <= Len(s), m <= Len(t),
         \A k \in 1..m : s[k] = t[k]
  PROVE  \A n \in 0..m : RunningTotal(s)[n] = RunningTotal(t)[n]
<1> DEFINE G == {n \in Nat : n <= m => RunningTotal(s)[n] = RunningTotal(t)[n]}
<1>1. 0 \in G
  BY TotalStep
<1>2. ASSUME NEW n \in Nat, n \in G PROVE n + 1 \in G
  <2> SUFFICES ASSUME n + 1 <= m PROVE RunningTotal(s)[n + 1] = RunningTotal(t)[n + 1]
    OBVIOUS
  <2>1. n + 1 \in 1..Len(s) /\ n + 1 \in 1..Len(t) /\ n + 1 \in 1..m /\ (n + 1) - 1 = n
    OBVIOUS
  <2> QED BY <1>2, <2>1, TotalStep
<1>3. Nat \subseteq G
  <2> HIDE DEF G
  <2> QED BY <1>1, <1>2, Induction
<1> QED BY <1>3

\* An element more.
LEMMA TotalOfAppend ==
  ASSUME NEW s \in Seq(Nat), NEW x \in Nat
  PROVE  /\ \A n \in 0..Len(s) : RunningTotal(Append(s, x))[n] = RunningTotal(s)[n]
         /\ SumOf(Append(s, x)) = SumOf(s) + x
<1> DEFINE t == Append(s, x)
<1>1. /\ t \in Seq(Nat) /\ Len(t) = Len(s) + 1 /\ t[Len(t)] = x
      /\ \A k \in 1..Len(s) : s[k] = t[k]
  OBVIOUS
<1> HIDE DEF t
<1>2. \A n \in 0..Len(s) : RunningTotal(s)[n] = RunningTotal(t)[n]
  <2>1. Len(s) \in Nat /\ Len(s) <= Len(s) /\ Len(s) <= Len(t)
    BY <1>1
  <2> QED BY <1>1, <2>1, TotalOfPrefix
<1>3. RunningTotal(t)[Len(t)] = RunningTotal(t)[Len(s)] + x
  <2>1. Len(t) \in 1..Len(t) /\ Len(t) - 1 = Len(s)
    BY <1>1
  <2> QED BY <1>1, <2>1, TotalStep
<1> QED BY <1>2, <1>3 DEF SumOf, t

\* What is left when one element is taken out.
LEMMA Removal ==
  ASSUME NEW S, NEW s \in Seq(S), NEW i \in 1..Len(s)
  PROVE  /\ RemoveAt(s, i) \in Seq(S) /\ Len(RemoveAt(s, i)) = Len(s) - 1
         /\ \A k \in 1..(Len(s) - 1) : RemoveAt(s, i)[k] = IF k < i THEN s[k] ELSE s[k + 1]
<1>1. /\ SubSeq(s, 1, i - 1) \in Seq(S) /\ Len(SubSeq(s, 1, i - 1)) = i - 1
      /\ \A k \in 1..(i - 1) : SubSeq(s, 1, i - 1)[k] = s[k]
  OBVIOUS
<1>2. /\ SubSeq(s, i + 1, Len(s)) \in Seq(S) /\ Len(SubSeq(s, i + 1, Len(s))) = Len(s) - i
      /\ \A k \in 1..(Len(s) - i) : SubSeq(s, i + 1, Len(s))[k] = s[i + k]
  OBVIOUS
<1> DEFINE a == SubSeq(s, 1, i - 1)
           b == SubSeq(s, i + 1, Len(s))
<1>3. RemoveAt(s, i) = a \o b
  BY DEF RemoveAt
<1> HIDE DEF a, b
<1>4. a \in Seq(S) /\ b \in Seq(S)
  BY <1>1, <1>2 DEF a, b
<1>5. /\ Len(a) = i - 1 /\ Len(b) = Len(s) - i
      /\ \A k \in 1..(i - 1) : a[k] = s[k]
      /\ \A k \in 1..(Len(s) - i) : b[k] = s[i + k]
  BY <1>1, <1>2 DEF a, b
<1>6. /\ a \o b \in Seq(S) /\ Len(a \o b) = Len(s) - 1
      /\ \A k \in 1..(Len(s) - 1) : (a \o b)[k] = IF k <= i - 1 THEN a[k] ELSE b[k - (i - 1)]
  <2>1. /\ a \o b \in Seq(S) /\ Len(a \o b) = Len(a) + Len(b)
        /\ \A k \in 1..(Len(a) + Len(b)) :
             (a \o b)[k] = IF k <= Len(a) THEN a[k] ELSE b[k - Len(a)]
    BY <1>4, ConcatProperties
  <2>2. Len(a) + Len(b) = Len(s) - 1
    BY <1>5
  <2> QED BY <1>5, <2>1, <2>2
<1>7. ASSUME NEW k \in 1..(Len(s) - 1)
      PROVE  (a \o b)[k] = IF k < i THEN s[k] ELSE s[k + 1]
  <2>1. CASE k < i
    <3>1. k \in 1..(i - 1) /\ k <= i - 1
      BY <2>1
    <3> QED BY <1>5, <1>6, <2>1, <3>1
  <2>2. CASE ~(k < i)
    <3>1. k - (i - 1) \in 1..(Len(s) - i) /\ i + (k - (i - 1)) = k + 1 /\ ~(k <= i - 1)
      BY <2>2
    <3> QED BY <1>5, <1>6, <2>2, <3>1
  <2> QED BY <2>1, <2>2
<1> QED BY <1>3, <1>6, <1>7

\* The totals without one element.
LEMMA TotalOfRemoval ==
  ASSUME NEW s \in Seq(Nat), NEW i \in 1..Len(s)
  PROVE  \A n \in 0..(Len(s) - 1) :
           RunningTotal(RemoveAt(s, i))[n] =
             IF n < i THEN RunningTotal(s)[n] ELSE RunningTotal(s)[n + 1] - s[i]
<1> DEFINE t == RemoveAt(s, i)
<1>1. /\ t \in Seq(Nat) /\ Len(t) = Len(s) - 1
      /\ \A k \in 1..Len(t) : t[k] = IF k < i THEN s[k] ELSE s[k + 1]
  BY Removal
<1> HIDE DEF t
<1> DEFINE P(n) == RunningTotal(t)[n] =
                     IF n < i THEN RunningTotal(s)[n] ELSE RunningTotal(s)[n + 1] - s[i]
           G == {n \in Nat : n <= Len(t) => P(n)}
<1>2. 0 \in G
  BY <1>1, TotalStep
<1>3. ASSUME NEW n \in Nat, n \in G PROVE n + 1 \in G
  <2> SUFFICES ASSUME n + 1 <= Len(t) PROVE P(n + 1)
    OBVIOUS
  <2>1. /\ RunningTotal(t)[n + 1] = RunningTotal(t)[n] + t[n + 1]
        /\ RunningTotal(s)[n + 1] = RunningTotal(s)[n] + s[n + 1]
        /\ RunningTotal(s)[n + 2] = RunningTotal(s)[n + 1] + s[n + 2]
    <3>1. /\ n + 1 \in 1..Len(t) /\ n + 1 \in 1..Len(s) /\ n + 2 \in 1..Len(s)
          /\ (n + 1) - 1 = n /\ (n + 2) - 1 = n + 1
      BY <1>1
    <3> QED BY <1>1, <3>1, TotalStep
  <2>2. /\ RunningTotal(s)[n] \in Nat /\ RunningTotal(s)[n + 1] \in Nat /\ s[n + 1] \in Nat
        /\ s[n + 2] \in Nat /\ s[i] \in Nat
    <3>1. n \in 0..Len(s) /\ n + 1 \in 0..Len(s) /\ n + 1 \in 1..Len(s) /\ n + 2 \in 1..Len(s)
      BY <1>1
    <3> QED BY <3>1, TotalIsNat
  <2>3. t[n + 1] = IF n + 1 < i THEN s[n + 1] ELSE s[n + 2]
    BY <1>1
  <2>4. P(n)
    BY <1>3, <1>1
  <2>5. CASE n + 1 < i
    <3>1. n < i
      BY <2>5
    <3>2. RunningTotal(t)[n + 1] = RunningTotal(s)[n + 1]
      BY <2>1, <2>3, <2>4, <2>5, <3>1
    <3> QED BY <2>5, <3>2
  <2>6. CASE n + 1 = i
    <3>1. n < i /\ ~(n + 1 < i)
      BY <2>6
    <3>2. RunningTotal(t)[n + 1] = RunningTotal(s)[n] + s[n + 2]
      BY <2>1, <2>3, <2>4, <3>1
    <3>3. RunningTotal(s)[(n + 1) + 1] = (RunningTotal(s)[n] + s[i]) + s[n + 2]
      BY <2>1, <2>6
    <3>4. RunningTotal(t)[n + 1] = RunningTotal(s)[(n + 1) + 1] - s[i]
      BY <2>2, <3>2, <3>3
    <3> QED BY <3>1, <3>4
  <2>7. CASE n + 1 > i
    <3>1. ~(n < i) /\ ~(n + 1 < i)
      BY <2>7
    <3>2. RunningTotal(t)[n + 1] = (RunningTotal(s)[n + 1] - s[i]) + s[n + 2]
      BY <2>1, <2>3, <2>4, <3>1
    <3>3. RunningTotal(s)[(n + 1) + 1] = RunningTotal(s)[n + 1] + s[n + 2]
      BY <2>1
    <3>4. RunningTotal(t)[n + 1] = RunningTotal(s)[(n + 1) + 1] - s[i]
      BY <2>2, <3>2, <3>3
    <3> QED BY <3>1, <3>4
  <2> QED BY <2>5, <2>6, <2>7
<1>4. Nat \subseteq G
  <2> HIDE DEF G
  <2> QED BY <1>2, <1>3, Induction
<1> QED BY <1>1, <1>4 DEF t

\* The recursion of the filter defines a function.
LEMMA RunningFilterDef ==
  ASSUME NEW S, NEW s \in Seq(S), NEW K
  PROVE  RunningFilter(s, K) =
           [n \in 0..Len(s) |->
              IF n = 0 THEN <<>>
              ELSE IF s[n] \in K THEN Append(RunningFilter(s, K)[n - 1], s[n])
                   ELSE RunningFilter(s, K)[n - 1]]
<1> DEFINE Step(c, n) == IF s[n] \in K THEN Append(c[n - 1], s[n]) ELSE c[n - 1]
           Is(c, m) == c = [n \in 0..m |-> IF n = 0 THEN <<>> ELSE Step(c, n)]
           G == {m \in Nat : m <= Len(s) => \E c : Is(c, m)}
<1>1. 0 \in G
  <2>1. Is([n \in 0..0 |-> <<>>], 0)
    OBVIOUS
  <2> QED BY <2>1
<1>2. ASSUME NEW m \in Nat, m \in G PROVE m + 1 \in G
  <2> SUFFICES ASSUME m + 1 <= Len(s) PROVE \E c : Is(c, m + 1)
    OBVIOUS
  <2>1. PICK c : Is(c, m)
    <3>1. m <= Len(s)
      OBVIOUS
    <3> HIDE DEF Is
    <3> QED BY <1>2, <3>1
  <2> DEFINE next == IF s[m + 1] \in K THEN Append(c[m], s[m + 1]) ELSE c[m]
             d == [n \in 0..(m + 1) |-> IF n <= m THEN c[n] ELSE next]
  <2>2. \A n \in 0..m : c[n] = IF n = 0 THEN <<>> ELSE Step(c, n)
    BY <2>1
  <2>3. \A n \in 0..(m + 1) : d[n] = IF n = 0 THEN <<>> ELSE Step(d, n)
    <3>1. \A n \in 0..m : d[n] = c[n]
      OBVIOUS
    <3>2. \A n \in 1..m : n - 1 \in 0..m /\ Step(d, n) = Step(c, n)
      BY <3>1
    <3>3. d[m + 1] = next /\ m + 1 - 1 = m /\ m \in 0..m
      OBVIOUS
    <3>4. d[m + 1] = Step(d, m + 1)
      BY <3>1, <3>3
    <3>5. \A n \in 0..(m + 1) : n = m + 1 \/ n = 0 \/ n \in 1..m
      OBVIOUS
    <3>6. \A n \in 1..m : n # 0 /\ n \in 0..m
      OBVIOUS
    <3> HIDE DEF d, next, Step
    <3> QED BY <2>2, <3>1, <3>2, <3>4, <3>5, <3>6
  <2>4. Is(d, m + 1)
    <3>1. d = [n \in 0..(m + 1) |-> d[n]]
      OBVIOUS
    <3> HIDE DEF d, next, Step
    <3> QED BY <2>3, <3>1
  <2> QED BY <2>4
<1>3. Len(s) \in G
  <2> HIDE DEF G
  <2> QED BY <1>1, <1>2, Induction
<1>4. \E c : c = [n \in 0..Len(s) |-> IF n = 0 THEN <<>> ELSE Step(c, n)]
  BY <1>3
<1>5. RunningFilter(s, K)
        = CHOOSE c : c = [n \in 0..Len(s) |-> IF n = 0 THEN <<>> ELSE Step(c, n)]
  BY DEF RunningFilter
<1> QED BY <1>4, <1>5

\* One element more is kept, when it is in the set.
LEMMA FilterStep ==
  ASSUME NEW S, NEW s \in Seq(S), NEW K
  PROVE  /\ RunningFilter(s, K)[0] = <<>>
         /\ \A n \in 1..Len(s) :
              RunningFilter(s, K)[n] =
                IF s[n] \in K THEN Append(RunningFilter(s, K)[n - 1], s[n])
                ELSE RunningFilter(s, K)[n - 1]
<1>1. /\ 0 \in 0..Len(s)
      /\ \A n \in 1..Len(s) : n \in 0..Len(s) /\ n # 0
  OBVIOUS
<1> DEFINE F == RunningFilter(s, K)
           Next(n) == IF s[n] \in K THEN Append(F[n - 1], s[n]) ELSE F[n - 1]
<1>2. F = [n \in 0..Len(s) |-> IF n = 0 THEN <<>> ELSE Next(n)]
  BY RunningFilterDef
<1>3. \A n \in 0..Len(s) : F[n] = IF n = 0 THEN <<>> ELSE Next(n)
  <2> HIDE DEF F, Next
  <2> QED BY <1>2
<1>4. F[0] = <<>> /\ \A n \in 1..Len(s) : F[n] = Next(n)
  <2> HIDE DEF F, Next
  <2> QED BY <1>1, <1>3
<1> QED BY <1>4

\* A filter leaves a list of the same elements.
LEMMA FilterIsSeq ==
  ASSUME NEW S, NEW s \in Seq(S), NEW K
  PROVE  \A n \in 0..Len(s) : RunningFilter(s, K)[n] \in Seq(S)
<1> DEFINE G == {n \in Nat : n <= Len(s) => RunningFilter(s, K)[n] \in Seq(S)}
<1>1. 0 \in G
  <2>1. RunningFilter(s, K)[0] = <<>> /\ <<>> \in Seq(S)
    BY FilterStep
  <2> QED BY <2>1
<1>2. ASSUME NEW n \in Nat, n \in G PROVE n + 1 \in G
  <2> SUFFICES ASSUME n + 1 <= Len(s) PROVE RunningFilter(s, K)[n + 1] \in Seq(S)
    OBVIOUS
  <2>1. n + 1 \in 1..Len(s) /\ (n + 1) - 1 = n /\ s[n + 1] \in S
    OBVIOUS
  <2>2. RunningFilter(s, K)[n] \in Seq(S)
    BY <1>2
  <2>3. RunningFilter(s, K)[n + 1] = IF s[n + 1] \in K THEN Append(RunningFilter(s, K)[n], s[n + 1])
                                     ELSE RunningFilter(s, K)[n]
    BY <2>1, FilterStep
  <2> QED BY <2>1, <2>2, <2>3
<1>3. Nat \subseteq G
  <2> HIDE DEF G
  <2> QED BY <1>1, <1>2, Induction
<1> QED BY <1>3

\* What is kept of the first elements stays, in its place.
LEMMA FilterGrows ==
  ASSUME NEW S, NEW s \in Seq(S), NEW K, NEW m \in 0..Len(s), NEW n \in 0..Len(s), m <= n
  PROVE  IsPrefix(RunningFilter(s, K)[m], RunningFilter(s, K)[n])
<1> DEFINE F == RunningFilter(s, K)
           Begins(t, u) == Len(t) <= Len(u) /\ \A k \in 1..Len(t) : u[k] = t[k]
           G == {k \in Nat : m + k <= Len(s) => Begins(F[m], F[m + k])}
<1>0. \A k \in 0..Len(s) : F[k] \in Seq(S)
  BY FilterIsSeq
<1>1. 0 \in G
  BY <1>0
<1>2. ASSUME NEW k \in Nat, k \in G PROVE k + 1 \in G
  <2> SUFFICES ASSUME m + (k + 1) <= Len(s) PROVE Begins(F[m], F[m + (k + 1)])
    OBVIOUS
  <2>1. /\ m + (k + 1) \in 1..Len(s) /\ (m + (k + 1)) - 1 = m + k /\ m + k \in 0..Len(s)
        /\ s[m + (k + 1)] \in S
    OBVIOUS
  <2>2. F[m + (k + 1)] = IF s[m + (k + 1)] \in K THEN Append(F[m + k], s[m + (k + 1)]) ELSE F[m + k]
    BY <2>1, FilterStep
  <2>3. Begins(F[m], F[m + k]) /\ F[m] \in Seq(S) /\ F[m + k] \in Seq(S)
    BY <1>0, <1>2, <2>1
  <2> HIDE DEF F
  <2> QED BY <2>1, <2>2, <2>3
<1>3. Nat \subseteq G
  <2> HIDE DEF G
  <2> QED BY <1>1, <1>2, Induction
<1>4. n - m \in Nat /\ m + (n - m) = n /\ n <= Len(s)
  OBVIOUS
<1>5. n - m \in G
  <2> HIDE DEF G
  <2> QED BY <1>3, <1>4
<1>6. Begins(F[m], F[m + (n - m)])
  <2> HIDE DEF Begins, F
  <2> QED BY <1>4, <1>5
<1>7. Begins(F[m], F[n]) /\ F[m] \in Seq(S) /\ F[n] \in Seq(S)
  <2> HIDE DEF Begins, F
  <2> QED BY <1>0, <1>4, <1>6
<1>8. Len(F[m]) <= Len(F[n]) /\ SubSeq(F[m], 1, Len(F[m])) = SubSeq(F[n], 1, Len(F[m]))
  <2> HIDE DEF F
  <2> QED BY <1>7
<1> QED BY <1>8 DEF IsPrefix
=============================================================================
