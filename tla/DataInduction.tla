--------------------------- MODULE DataInduction ---------------------------
(***************************************************************************)
(* Induction over the natural numbers, stated for a set instead of a       *)
(* predicate: a set that holds 0 and the successor of each of its members  *)
(* holds every number.  If it lacked m, its members below m would be a     *)
(* finite set that the successor maps one to one into itself, and 0 would  *)
(* not be in the image.  With it, what a recursive function is: the        *)
(* function that CHOOSE takes from a recursion exists and satisfies it.    *)
(***************************************************************************)
EXTENDS Integers, Sequences, FiniteSets, FiniteSetTheorems, TLAPS

\* Every number is in a set that is closed under successor.
LEMMA SetInduction ==
    ASSUME NEW T, 0 \in T, \A n \in Nat : n \in T => n + 1 \in T
    PROVE  Nat \subseteq T
<1> SUFFICES ASSUME NEW m \in Nat, m \notin T PROVE FALSE
  OBVIOUS
<1> DEFINE S == {k \in 0..m : k \in T}
           R == S \ {0}
           f == [k \in S |-> k + 1]
<1>1. S \subseteq 0..m /\ 0 \in S
  OBVIOUS
<1>2. IsFiniteSet(S)
  <2>1. IsFiniteSet(0..m)
    BY FS_Interval
  <2> QED
    BY <1>1, <2>1, FS_Subset
<1>3. IsFiniteSet(R) /\ Cardinality(R) = Cardinality(S) - 1 /\ Cardinality(S) \in Nat
  <2> HIDE DEF S
  <2> QED
    BY <1>1, <1>2, FS_RemoveElement, FS_CardinalityType
<1>4. \A k \in S : k \in Nat /\ k # m /\ k + 1 \in R
  <2> SUFFICES ASSUME NEW k \in S PROVE k \in Nat /\ k # m /\ k + 1 \in R
    OBVIOUS
  <2>1. k \in Nat /\ k <= m /\ k \in T
    OBVIOUS
  <2>2. k # m
    BY <2>1
  <2>3. k + 1 \in T /\ k + 1 \in 0..m /\ k + 1 # 0
    BY <2>1, <2>2
  <2> QED
    BY <2>1, <2>2, <2>3
<1>5. f \in [S -> R] /\ \A a, b \in S : f[a] = f[b] => a = b
  BY <1>4
<1>6. \A a, b \in S : f[a] = f[b] => a = b
  BY <1>5
<1> HIDE DEF f, R, S
<1>7. Cardinality(R) < Cardinality(S)
  BY <1>3
<1>8. \E a, b \in S : a # b /\ f[a] = f[b]
  BY <1>2, <1>3, <1>5, <1>7, FS_PigeonHole
<1> QED
  BY <1>6, <1>8

\* A set that holds the empty sequence and, with a sequence, each that is one
\* element longer holds every sequence.
LEMMA SequenceInduction ==
    ASSUME NEW S, NEW T, <<>> \in T,
           \A q \in Seq(S), x \in S : q \in T => Append(q, x) \in T
    PROVE  Seq(S) \subseteq T
<1> DEFINE P == {n \in Nat : \A q \in Seq(S) : Len(q) = n => q \in T}
<1>1. 0 \in P
  <2>1. \A q \in Seq(S) : Len(q) = 0 => q = <<>>
    OBVIOUS
  <2> QED
    BY <2>1
<1>2. ASSUME NEW n \in Nat, n \in P PROVE n + 1 \in P
  <2> SUFFICES ASSUME NEW q \in Seq(S), Len(q) = n + 1 PROVE q \in T
    OBVIOUS
  <2> DEFINE r == SubSeq(q, 1, n)
  <2>1. r \in Seq(S) /\ Len(r) = n /\ q[n+1] \in S
    OBVIOUS
  <2>2. q = Append(r, q[n+1])
    OBVIOUS
  <2> HIDE DEF r
  <2> QED
    BY <1>2, <2>1, <2>2
<1> HIDE DEF P
<1>3. Nat \subseteq P
  BY <1>1, <1>2, SetInduction
<1> QED
  <2> SUFFICES ASSUME NEW q \in Seq(S) PROVE q \in T
    OBVIOUS
  <2>1. Len(q) \in Nat
    OBVIOUS
  <2> QED
    BY <1>3, <2>1 DEF P

(***************************************************************************)
(* A definition by recursion over numbers, f[k] from f[k - 1], defines a   *)
(* function: for each n there is one table of the values up to n, and f    *)
(* takes its value at n from it.  The step is a function, too: step[k] of  *)
(* the value before gives the k-th.                                        *)
(***************************************************************************)
Table(g, n, step, x0) == g = [k \in 0..n |-> IF k = 0 THEN x0 ELSE step[k][g[k - 1]]]

LEMMA TableValues ==
    ASSUME NEW n \in Nat, NEW step, NEW x0, NEW g, Table(g, n, step, x0)
    PROVE  g[0] = x0 /\ \A k \in 1..n : g[k] = step[k][g[k - 1]]
<1>1. \A k \in 0..n : g[k] = IF k = 0 THEN x0 ELSE step[k][g[k - 1]]
  BY DEF Table
<1> QED
  BY <1>1

\* Two tables agree as far as both go.
LEMMA TablesAgree ==
    ASSUME NEW n \in Nat, NEW m \in Nat, n <= m, NEW step, NEW x0, NEW g, NEW h,
           Table(g, n, step, x0), Table(h, m, step, x0)
    PROVE  \A k \in 0..n : g[k] = h[k]
<1> DEFINE T == {k \in Nat : k <= n => g[k] = h[k]}
<1>1. 0 \in T
  BY TableValues
<1>2. ASSUME NEW k \in Nat, k \in T PROVE k + 1 \in T
  <2> SUFFICES ASSUME k + 1 <= n PROVE g[k + 1] = h[k + 1]
    OBVIOUS
  <2>1. g[k] = h[k] /\ k + 1 \in 1..n /\ k + 1 \in 1..m /\ (k + 1) - 1 = k
    BY <1>2
  <2> QED
    BY <2>1, TableValues
<1> HIDE DEF T
<1>3. Nat \subseteq T
  BY <1>1, <1>2, SetInduction
<1> QED
  BY <1>3 DEF T

LEMMA TableExists ==
    ASSUME NEW S, NEW x0 \in S, NEW D \in SUBSET Nat, \A k \in D : k > 0 => k - 1 \in D,
           NEW step \in [D -> [S -> S]], NEW n \in D
    PROVE  \E g \in [0..n -> S] : Table(g, n, step, x0)
<1> DEFINE T == {k \in Nat : k \in D => \E g \in [0..k -> S] : Table(g, k, step, x0)}
<1>1. 0 \in T
  <2> DEFINE g == [k \in 0..0 |-> x0]
  <2>1. g \in [0..0 -> S] /\ g = [k \in 0..0 |-> IF k = 0 THEN x0 ELSE step[k][g[k - 1]]]
    OBVIOUS
  <2> QED
    BY <2>1, Zenon DEF Table
<1>2. ASSUME NEW k \in Nat, k \in T PROVE k + 1 \in T
  <2> SUFFICES ASSUME k + 1 \in D PROVE \E g \in [0..k + 1 -> S] : Table(g, k + 1, step, x0)
    OBVIOUS
  <2>1. k \in D
    <3>1. k + 1 > 0 /\ (k + 1) - 1 = k
      OBVIOUS
    <3> QED
      BY <3>1
  <2>2. PICK g \in [0..k -> S] : Table(g, k, step, x0)
    BY <1>2, <2>1
  <2>7. g[0] = x0 /\ \A i \in 1..k : g[i] = step[i][g[i - 1]]
    <3>1. \A i \in 0..k : g[i] = IF i = 0 THEN x0 ELSE step[i][g[i - 1]]
      BY <2>2 DEF Table
    <3> HIDE DEF T
    <3> QED
      BY <3>1
  <2> DEFINE y == step[k + 1][g[k]]
             h == [i \in 0..k + 1 |-> IF i <= k THEN g[i] ELSE y]
  <2>3. y \in S
    OBVIOUS
  <2>4. h \in [0..k + 1 -> S]
    <3> HIDE DEF y
    <3> QED
      BY <2>3
  <2>5. \A i \in 0..k + 1 : h[i] = IF i = 0 THEN x0 ELSE step[i][h[i - 1]]
    <3> SUFFICES ASSUME NEW i \in 0..k + 1 PROVE h[i] = IF i = 0 THEN x0 ELSE step[i][h[i - 1]]
      OBVIOUS
    <3>1. CASE i = 0
      BY <3>1, <2>7
    <3>2. CASE i \in 1..k
      <4>1. h[i] = g[i] /\ h[i - 1] = g[i - 1] /\ i # 0
        BY <3>2
      <4>2. g[i] = step[i][g[i - 1]]
        BY <3>2, <2>7
      <4> HIDE DEF h
      <4> QED
        BY <4>1, <4>2
    <3>3. CASE i = k + 1
      <4>1. h[i] = y /\ h[i - 1] = g[k]
        BY <3>3
      <4> QED
        BY <3>3, <4>1
    <3> QED
      BY <3>1, <3>2, <3>3
  <2>6. h = [i \in 0..k + 1 |-> IF i = 0 THEN x0 ELSE step[i][h[i - 1]]]
    <3> HIDE DEF h
    <3> QED
      BY <2>4, <2>5
  <2> QED
    BY <2>4, <2>6 DEF Table
<1> HIDE DEF T
<1>3. Nat \subseteq T
  BY <1>1, <1>2, SetInduction
<1> QED
  BY <1>3 DEF T

\* The recursion over D, all numbers or those up to some n.
Recurs(f, D, step, x0) == \A k \in D : f[k] = IF k = 0 THEN x0 ELSE step[k][f[k - 1]]
Downward(D) == D \in SUBSET Nat /\ \A k \in D : k > 0 => k - 1 \in D

LEMMA Recursion ==
    ASSUME NEW S, NEW x0 \in S, NEW D, Downward(D), NEW step \in [D -> [S -> S]]
    PROVE  \E f \in [D -> S] : Recurs(f, D, step, x0)
<1> USE DEF Downward
<1> DEFINE tab == [n \in D |-> CHOOSE g \in [0..n -> S] : Table(g, n, step, x0)]
           f == [n \in D |-> tab[n][n]]
<1>1. \A n \in D : tab[n] \in [0..n -> S] /\ Table(tab[n], n, step, x0)
  BY TableExists, Zenon
<1>2. f \in [D -> S]
  <2> HIDE DEF tab
  <2>1. \A n \in D : n \in 0..n
    OBVIOUS
  <2> QED
    BY <1>1, <2>1
<1>3. \A k \in D : f[k] = IF k = 0 THEN x0 ELSE step[k][f[k - 1]]
  <2> SUFFICES ASSUME NEW k \in D PROVE f[k] = IF k = 0 THEN x0 ELSE step[k][f[k - 1]]
    OBVIOUS
  <2>1. f[k] = tab[k][k]
    OBVIOUS
  <2> HIDE DEF tab
  <2>2. CASE k = 0
    BY <1>1, <2>1, <2>2, TableValues
  <2>3. CASE k > 0
    <3>1. k - 1 \in D /\ k - 1 \in Nat /\ k \in Nat /\ k - 1 <= k /\ k \in 1..k /\ k - 1 \in 0..k - 1
      BY <2>3
    <3>2. f[k - 1] = tab[k - 1][k - 1]
      BY <3>1
    <3>3. tab[k - 1][k - 1] = tab[k][k - 1]
      BY <1>1, <3>1, TablesAgree
    <3>4. tab[k][k] = step[k][tab[k][k - 1]]
      BY <1>1, <3>1, TableValues
    <3> QED
      BY <2>1, <2>3, <3>2, <3>3, <3>4
  <2> QED
    BY <2>2, <2>3
<1> HIDE DEF f
<1> QED
  BY <1>2, <1>3 DEF Recurs

LEMMA RecursionNat ==
    ASSUME NEW S, NEW x0 \in S, NEW step \in [Nat -> [S -> S]]
    PROVE  \E f \in [Nat -> S] : \A k \in Nat : f[k] = IF k = 0 THEN x0 ELSE step[k][f[k - 1]]
<1>1. Downward(Nat)
  BY DEF Downward
<1>2. \E f \in [Nat -> S] : Recurs(f, Nat, step, x0)
  BY <1>1, Recursion
<1> QED
  BY <1>2 DEF Recurs

=============================================================================
