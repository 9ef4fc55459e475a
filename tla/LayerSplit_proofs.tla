-------------------------- MODULE LayerSplit_proofs --------------------------
(***************************************************************************)
(* What the split of the layers computes, for any number of nodes, any     *)
(* weights and any number of layers.                                       *)
(*                                                                         *)
(* Sum is a recursive function.  That it has the values its definition     *)
(* gives, and what holds of all of them, is proved by induction; the       *)
(* induction is an argument about the least element of a set of naturals   *)
(* (there is one, since < is well-founded), which needs no operator for    *)
(* the formula it is about.                                                *)
(***************************************************************************)
EXTENDS LayerSplit, FiniteSetTheorems, TLAPS

\* A set of naturals that is not empty has a least element.
LEMMA LeastNat ==
  ASSUME NEW T, T \subseteq Nat, T # {} PROVE \E m \in T : \A k \in T : m <= k
<1>1. PICK R : IsWellFoundedOn(R, Nat) /\ \A m, k \in Nat : <<k, m>> \in R <=> k < m
  BY NatLessThanWellFounded DEF OpToRel
<1>2. PICK m \in T : \A k \in T : <<k, m>> \notin R
  BY <1>1, WFMin
<1>3. ASSUME NEW k \in T PROVE m <= k
  <2>1. m \in Nat /\ k \in Nat /\ <<k, m>> \notin R
    BY <1>2
  <2>2. ~(k < m)
    BY <1>1, <2>1
  <2> QED
    BY <2>1, <2>2
<1> QED
  BY <1>3

\* Induction: a set that has 0, and the successor of each natural it has, has them all.
LEMMA NatInd ==
  ASSUME NEW S, 0 \in S, \A n \in Nat : n \in S => n + 1 \in S
  PROVE  Nat \subseteq S
<1> DEFINE T == Nat \ S
<1> SUFFICES ASSUME T # {} PROVE FALSE
  OBVIOUS
<1>1. PICK m \in T : \A k \in T : m <= k
  BY LeastNat
<1>2. m # 0 /\ m - 1 \in Nat /\ m - 1 \notin T
  BY <1>1
<1> QED
  BY <1>2

-----------------------------------------------------------------------------
(* Sums. *)

\* What the recursion of Sum defines, up to n.
IsSum(f, s, n) == f = [i \in 0..n |-> IF i = 0 THEN 0 ELSE f[i - 1] + s[i]]

LEMMA SumExists ==
  ASSUME NEW s
  PROVE  \A n \in Nat : \E f : IsSum(f, s, n)
<1> DEFINE S == {n \in Nat : \E f : IsSum(f, s, n)}
<1>1. 0 \in S
  <2> DEFINE f == [i \in 0..0 |-> 0]
  <2>1. IsSum(f, s, 0)
    BY DEF IsSum
  <2> QED
    BY <2>1
<1>2. ASSUME NEW n \in Nat, n \in S PROVE n + 1 \in S
  <2>1. PICK f : IsSum(f, s, n)
    BY <1>2
  <2> DEFINE g == [i \in 0..n + 1 |-> IF i = n + 1 THEN f[n] + s[n + 1] ELSE f[i]]
  <2>2. \A i \in 0..n : f[i] = IF i = 0 THEN 0 ELSE f[i - 1] + s[i]
    BY <2>1 DEF IsSum
  <2>3. \A i \in 0..n + 1 : g[i] = IF i = 0 THEN 0 ELSE g[i - 1] + s[i]
    BY <2>2
  <2>5. g = [i \in 0..n + 1 |-> g[i]]
    OBVIOUS
  <2> HIDE DEF g
  <2>4. IsSum(g, s, n + 1)
    BY <2>3, <2>5 DEF IsSum
  <2> QED
    BY <2>4
<1> HIDE DEF S
<1>3. Nat \subseteq S
  BY <1>1, <1>2, NatInd
<1> QED
  BY <1>3 DEF S

LEMMA SumDef ==
  ASSUME NEW s, Len(s) \in Nat
  PROVE  IsSum(Sum(s), s, Len(s))
<1>1. \E f : IsSum(f, s, Len(s))
  BY SumExists
<1>2. Sum(s) = CHOOSE f : IsSum(f, s, Len(s))
  BY Zenon DEF Sum, IsSum
<1> QED
  BY <1>1, <1>2, Zenon

LEMMA SumIs ==
  ASSUME NEW s, Len(s) \in Nat
  PROVE  \A i \in 0..Len(s) : Sum(s)[i] = IF i = 0 THEN 0 ELSE Sum(s)[i - 1] + s[i]
<1> DEFINE f == Sum(s)
<1>1. f = [i \in 0..Len(s) |-> IF i = 0 THEN 0 ELSE f[i - 1] + s[i]]
  BY SumDef, Zenon DEF IsSum
<1> HIDE DEF f
<1>2. \A i \in 0..Len(s) : f[i] = IF i = 0 THEN 0 ELSE f[i - 1] + s[i]
  BY <1>1
<1> QED
  BY <1>2 DEF f

\* The sums of naturals are naturals, and grow.
LEMMA SumGrows ==
  ASSUME NEW s, Len(s) \in Nat, \A i \in 1..Len(s) : s[i] \in Nat
  PROVE  /\ Sum(s)[0] = 0
         /\ \A i \in 0..Len(s) : Sum(s)[i] \in Nat
         /\ \A i, j \in 0..Len(s) : i <= j => Sum(s)[i] <= Sum(s)[j]
<1> DEFINE f == Sum(s)
           n == Len(s)
<1>0. \A i \in 0..n : f[i] = IF i = 0 THEN 0 ELSE f[i - 1] + s[i]
  BY SumIs
<1> HIDE DEF f, n
<1>1. n \in Nat /\ \A i \in 1..n : s[i] \in Nat
  BY DEF n
<1>2. f[0] = 0
  BY <1>0, <1>1
<1> DEFINE S == {j \in Nat : j <= n => \A i \in 0..j : f[i] \in Nat /\ f[i] <= f[j]}
<1>3. 0 \in S
  BY <1>2
<1>4. ASSUME NEW j \in Nat, j \in S PROVE j + 1 \in S
  <2> SUFFICES ASSUME j + 1 <= n PROVE \A i \in 0..j + 1 : f[i] \in Nat /\ f[i] <= f[j + 1]
    OBVIOUS
  <2>1. j + 1 \in 0..n /\ j + 1 \in 1..n /\ j <= n
    BY <1>1
  <2>2. f[j + 1] = f[j] + s[j + 1] /\ s[j + 1] \in Nat /\ f[j] \in Nat
    BY <1>0, <1>1, <1>4, <2>1
  <2>3. ASSUME NEW i \in 0..j PROVE f[i] \in Nat /\ f[i] <= f[j + 1]
    <3>1. f[i] \in Nat /\ f[i] <= f[j]
      BY <1>4, <2>1
    <3> QED
      BY <3>1, <2>2
  <2> QED
    BY <2>2, <2>3
<1> HIDE DEF S
<1>5. Nat \subseteq S
  BY <1>3, <1>4, NatInd
<1>6. \A j \in 0..n : \A i \in 0..j : f[i] \in Nat /\ f[i] <= f[j]
  <2> TAKE j \in 0..n
  <2>1. j \in Nat /\ j <= n
    BY <1>1
  <2>2. j \in S
    BY <1>5, <2>1
  <2> QED
    BY <2>1, <2>2 DEF S
<1>7. \A i, j \in 0..n : i <= j => i \in 0..j
  BY <1>1
<1> QED
  BY <1>2, <1>6, <1>7 DEF f, n

\* A sum of at least one number, none of them 0.
LEMMA SumPositive ==
  ASSUME NEW s, Len(s) \in Nat \ {0}, \A i \in 1..Len(s) : s[i] \in Nat \ {0}
  PROVE  Sum(s)[Len(s)] \in Nat \ {0}
<1> DEFINE n == Len(s)
<1>1. n \in Nat \ {0} /\ n - 1 \in 0..n /\ n \in 1..n /\ n \in 0..n
  OBVIOUS
<1>2. Sum(s)[n - 1] \in Nat
  BY <1>1, SumGrows
<1>3. Sum(s)[n] = Sum(s)[n - 1] + s[n]
  BY <1>1, SumIs
<1> QED
  BY <1>1, <1>2, <1>3

-----------------------------------------------------------------------------
(* The split. *)

LEMMA RoundNat ==
  ASSUME NEW p \in Nat, NEW q \in Nat, q > 0
  PROVE  Round(p, q) \in Nat
<1> DEFINE a == 2 * p + q
           b == 2 * q
<1>1. a \in Nat /\ b \in Nat /\ b > 0
  OBVIOUS
<1> HIDE DEF a, b
<1>2. a \div b \in Nat
  BY <1>1
<1> QED
  BY <1>2 DEF Round, a, b

\* The shares are naturals, and every layer is in one of them, and in one only, whatever
\* the weights and however the rounding goes.
THEOREM SplitCovers ==
  ASSUME NEW n \in Nat \ {0}, NEW weights \in [1..n -> Nat \ {0}], NEW layers \in Nat
  PROVE  LET share == Split(weights, layers)
         IN  /\ share \in [1..n -> [first: Nat, last: Nat]]
             /\ \A l \in 0..layers - 1 : \E i \in 1..n :
                  /\ share[i].first <= l /\ l < share[i].last
                  /\ \A j \in 1..n : share[j].first <= l /\ l < share[j].last => j = i
<1> DEFINE total == Sum(weights)[n]
           count == [i \in 1..n - 1 |-> Round(layers * weights[i], total)]
           start == Sum(count)
           share == Split(weights, layers)
<1>1. Len(weights) = n /\ Len(count) = n - 1 /\ n - 1 \in Nat
  OBVIOUS
<1>2. total \in Nat /\ total > 0
  <2>1. \A i \in 1..n : weights[i] \in Nat \ {0}
    OBVIOUS
  <2> QED
    BY <1>1, <2>1, SumPositive
<1> HIDE DEF total
<1>3. \A i \in 1..n - 1 : count[i] \in Nat
  <2> TAKE i \in 1..n - 1
  <2>1. weights[i] \in Nat
    OBVIOUS
  <2>2. layers * weights[i] \in Nat
    BY <2>1
  <2> QED
    BY <1>2, <2>2, RoundNat
<1> HIDE DEF count
<1>4. /\ start[0] = 0
      /\ \A i \in 0..n - 1 : start[i] \in Nat
      /\ \A i, j \in 0..n - 1 : i <= j => start[i] <= start[j]
  BY <1>1, <1>3, SumGrows
<1>5. share = [i \in 1..n |->
         [first |-> start[i - 1], last |-> IF i = n THEN layers ELSE start[i]]]
  BY <1>1, Zenon DEF Split, count, total
<1> HIDE DEF start, share
<1>6. \A i \in 1..n : /\ share[i].first = start[i - 1]
                      /\ share[i].last = IF i = n THEN layers ELSE start[i]
  BY <1>5
<1>7. share \in [1..n -> [first: Nat, last: Nat]]
  BY <1>4, <1>5
<1>8. ASSUME NEW l \in 0..layers - 1
      PROVE  \E i \in 1..n :
                  /\ share[i].first <= l /\ l < share[i].last
                  /\ \A j \in 1..n : share[j].first <= l /\ l < share[j].last => j = i
  <2> DEFINE T == {i \in 1..n : i = n \/ l < start[i]}
  <2>1. T \subseteq Nat /\ n \in T
    OBVIOUS
  <2>2. PICK i \in T : \A k \in T : i <= k
    BY <2>1, LeastNat
  <2>3. i \in 1..n /\ (i = n \/ l < start[i])
    BY <2>2
  <2>4. start[i - 1] <= l
    <3>1. CASE i = 1
      BY <1>4, <3>1
    <3>2. CASE i > 1
      <4>1. i - 1 \in 1..n /\ i - 1 \in 0..n - 1 /\ i - 1 \notin T
        BY <2>2, <2>3, <3>2
      <4>2. ~(l < start[i - 1]) /\ start[i - 1] \in Nat
        BY <1>4, <4>1
      <4> QED
        BY <4>2
    <3> QED
      BY <2>3, <3>1, <3>2
  <2>5. share[i].first <= l /\ l < share[i].last
    BY <1>6, <2>3, <2>4
  <2>6. ASSUME NEW j \in 1..n, share[j].first <= l, l < share[j].last, j # i
        PROVE  FALSE
    <3>1. start[j - 1] <= l /\ (j = n \/ l < start[j])
      BY <1>6, <2>6
    <3>2. CASE i < j
      <4>1. i \in 0..n - 1 /\ j - 1 \in 0..n - 1 /\ i <= j - 1 /\ i # n
        BY <2>3, <3>2
      <4>2. start[i] <= start[j - 1] /\ start[i] \in Nat /\ start[j - 1] \in Nat
        BY <1>4, <4>1
      <4> QED
        BY <2>3, <3>1, <4>1, <4>2
    <3>3. CASE j < i
      <4>1. j \in 0..n - 1 /\ i - 1 \in 0..n - 1 /\ j <= i - 1 /\ j # n
        BY <2>3, <3>3
      <4>2. start[j] <= start[i - 1] /\ start[j] \in Nat /\ start[i - 1] \in Nat
        BY <1>4, <4>1
      <4> QED
        BY <2>4, <3>1, <4>1, <4>2
    <3> QED
      BY <2>3, <2>6, <3>2, <3>3
  <2> QED
    BY <2>3, <2>5, <2>6
<1> QED
  BY <1>7, <1>8, Zenon DEF share
===============================================================================
