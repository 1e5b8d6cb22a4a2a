--------------------------- MODULE NumberInduction ---------------------------
(***************************************************************************)
(* Induction over the natural numbers for the proofs of the other modules: *)
(* what is proved for each number is a set of numbers, a function that is  *)
(* defined from 0 on exists, and ranks do not descend for ever.            *)
(***************************************************************************)
EXTENDS Integers, TLAPS, WellFoundedInduction

LEMMA LeastNat ==
    ASSUME NEW T \in SUBSET Nat, T # {}
    PROVE  \E x \in T : \A y \in T : x <= y
<1> DEFINE R == OpToRel(<, Nat)
<1>1. IsWellFoundedOn(R, Nat)
  BY NatLessThanWellFounded
<1>2. \A a, b \in Nat : <<a, b>> \in R <=> a < b
  BY DEF OpToRel
<1> HIDE DEF R
<1>3. PICK x \in T : \A y \in T : ~(<<y, x>> \in R)
  BY <1>1, WFMin
<1>4. ASSUME NEW y \in T PROVE x <= y
  <2>1. x \in Nat /\ y \in Nat /\ ~(y < x)
    BY <1>2, <1>3
  <2> QED
    BY <2>1
<1> QED
  BY <1>4

\* a set that holds 0, and with each number the next, holds all
LEMMA Induction ==
    ASSUME NEW S, 0 \in S, \A n \in Nat : n \in S => n + 1 \in S
    PROVE  Nat \subseteq S
<1> SUFFICES ASSUME Nat \ S # {}
             PROVE  FALSE
  OBVIOUS
<1>1. PICK x \in Nat \ S : \A y \in Nat \ S : x <= y
  <2>1. Nat \ S \in SUBSET Nat
    OBVIOUS
  <2> QED
    BY <2>1, LeastNat
<1>2. x # 0 /\ x - 1 \in Nat /\ ~(x <= x - 1)
  BY <1>1
<1>3. x - 1 \in S
  BY <1>1, <1>2
<1>4. (x - 1) + 1 = x
  BY <1>1
<1> QED
  BY <1>1, <1>2, <1>3, <1>4

\* the same up to a limit
LEMMA InductionTo ==
    ASSUME NEW N \in Nat, NEW S, 0 \in S, \A n \in 1 .. N : n - 1 \in S => n \in S
    PROVE  0 .. N \subseteq S
<1> DEFINE T == {n \in Nat : n <= N => n \in S}
<1>1. 0 \in T
  OBVIOUS
<1>2. ASSUME NEW n \in Nat, n \in T
      PROVE  n + 1 \in T
  <2>1. CASE n + 1 <= N
    <3>1. n \in S /\ n + 1 \in 1 .. N /\ (n + 1) - 1 = n
      BY <1>2, <2>1
    <3> QED
      BY <3>1
  <2>2. CASE ~(n + 1 <= N)
    BY <2>2
  <2> QED
    BY <2>1, <2>2
<1> HIDE DEF T
<1>3. Nat \subseteq T
  BY <1>1, <1>2, Induction
<1> QED
  BY <1>3 DEF T

\* F gives the k-th value of a function from the one before; g is that function
Rule(F, S, N) == F \in [S \X (1 .. N) -> S]
Follows(g, F, S, N, x) ==
    g \in [0 .. N -> S] /\ g[0] = x /\ \A k \in 1 .. N : g[k] = F[<<g[k - 1], k>>]

\* a function may be defined from 0 on, each value from the one before
LEMMA Recursion ==
    ASSUME NEW S, NEW x \in S, NEW N \in Nat, NEW F, Rule(F, S, N)
    PROVE  \E g : Follows(g, F, S, N, x)
<1> DEFINE Good(m, g) == g[0] = x /\ \A k \in 1 .. m : g[k] = F[<<g[k - 1], k>>]
           T == {m \in 0 .. N : \E g \in [0 .. m -> S] : Good(m, g)}
<1>1. 0 \in T
  <2> DEFINE g == [k \in 0 .. 0 |-> x]
  <2>1. g \in [0 .. 0 -> S] /\ Good(0, g)
    OBVIOUS
  <2>2. 0 \in 0 .. N
    OBVIOUS
  <2> HIDE DEF g
  <2> QED
    BY <2>1, <2>2
<1>2. ASSUME NEW m \in 1 .. N, m - 1 \in T
      PROVE  m \in T
  <2>1. PICK g \in [0 .. (m - 1) -> S] : Good(m - 1, g)
    BY <1>2
  <2> DEFINE h == [k \in 0 .. m |-> IF k = m THEN F[<<g[m - 1], m>>] ELSE g[k]]
  <2>2. g[m - 1] \in S /\ F[<<g[m - 1], m>>] \in S
    BY <2>1 DEF Rule
  <2>3. h \in [0 .. m -> S]
    BY <2>1, <2>2
  <2>4. h[0] = x
    BY <2>1
  <2>5. \A k \in 0 .. (m - 1) : h[k] = g[k]
    OBVIOUS
  <2>6. h[m] = F[<<h[m - 1], m>>]
    <3>1. m - 1 \in 0 .. (m - 1) /\ m \in 0 .. m
      OBVIOUS
    <3>2. h[m - 1] = g[m - 1]
      BY <2>5, <3>1
    <3>3. h[m] = F[<<g[m - 1], m>>]
      BY <3>1
    <3> QED
      BY <3>2, <3>3
  <2>7. ASSUME NEW k \in 1 .. (m - 1)
        PROVE  h[k] = F[<<h[k - 1], k>>]
    <3>1. k \in 0 .. (m - 1) /\ k - 1 \in 0 .. (m - 1)
      OBVIOUS
    <3> QED
      BY <2>1, <2>5, <3>1
  <2> HIDE DEF h
  <2>8. \A k \in 1 .. m : k = m \/ k \in 1 .. (m - 1)
    OBVIOUS
  <2>9. Good(m, h)
    BY <2>4, <2>6, <2>7, <2>8
  <2> QED
    BY <2>3, <2>9
<1> HIDE DEF T
<1>3. N \in T
  BY <1>1, <1>2, InductionTo
<1> QED
  BY <1>3 DEF T, Follows

-----------------------------------------------------------------------------
(* Ranks: what descends from state to state cannot go on for ever. *)

Ranks == Nat \X Nat \X Nat \X Nat

\* the first place at which two ranks differ decides
Lower(a, b) ==
    \/ a[1] < b[1]
    \/ a[1] = b[1] /\ a[2] < b[2]
    \/ a[1] = b[1] /\ a[2] = b[2] /\ a[3] < b[3]
    \/ a[1] = b[1] /\ a[2] = b[2] /\ a[3] = b[3] /\ a[4] < b[4]

\* a set of elements whose i-th parts are numbers has one whose i-th part is the least
LEMMA LeastPart ==
    ASSUME NEW T, NEW i, T # {}, \A x \in T : x[i] \in Nat
    PROVE  \E x \in T : \A y \in T : x[i] <= y[i]
<1> DEFINE P == {x[i] : x \in T}
<1>1. P \in SUBSET Nat /\ P # {}
  OBVIOUS
<1>2. PICK p \in P : \A q \in P : p <= q
  BY <1>1, LeastNat
<1> QED
  BY <1>2

LEMMA LeastRank ==
    ASSUME NEW T \in SUBSET Ranks, T # {}
    PROVE  \E x \in T : \A y \in T : ~Lower(y, x)
<1>1. \A x \in T : x[1] \in Nat /\ x[2] \in Nat /\ x[3] \in Nat /\ x[4] \in Nat
  BY DEF Ranks
<1>2. PICK a \in T : \A y \in T : a[1] <= y[1]
  BY <1>1, LeastPart
<1> DEFINE A == {y \in T : y[1] = a[1]}
<1>3. PICK b \in A : \A y \in A : b[2] <= y[2]
  <2>1. A # {} /\ \A x \in A : x[2] \in Nat
    BY <1>1
  <2> HIDE DEF A
  <2> QED
    BY <2>1, LeastPart
<1> DEFINE B == {y \in A : y[2] = b[2]}
<1>4. PICK c \in B : \A y \in B : c[3] <= y[3]
  <2>1. B # {} /\ \A x \in B : x[3] \in Nat
    BY <1>1
  <2> HIDE DEF B
  <2> QED
    BY <2>1, LeastPart
<1> DEFINE C == {y \in B : y[3] = c[3]}
<1>5. PICK d \in C : \A y \in C : d[4] <= y[4]
  <2>1. C # {} /\ \A x \in C : x[4] \in Nat
    BY <1>1
  <2> HIDE DEF C
  <2> QED
    BY <2>1, LeastPart
<1>6. d \in T /\ d[1] = a[1] /\ d[2] = b[2] /\ d[3] = c[3]
  OBVIOUS
<1>7. ASSUME NEW y \in T, Lower(y, d)
      PROVE  FALSE
  <2>1. y[1] \in Nat /\ y[2] \in Nat /\ y[3] \in Nat /\ y[4] \in Nat
        /\ d[1] \in Nat /\ d[2] \in Nat /\ d[3] \in Nat /\ d[4] \in Nat
    BY <1>1, <1>6
  <2>2. d[1] <= y[1]
    BY <1>2, <1>6
  <2>3. y[1] = d[1] => d[2] <= y[2]
    BY <1>3, <1>6
  <2>4. y[1] = d[1] /\ y[2] = d[2] => d[3] <= y[3]
    BY <1>4, <1>6
  <2>5. y[1] = d[1] /\ y[2] = d[2] /\ y[3] = d[3] => d[4] <= y[4]
    BY <1>5, <1>6
  <2>6. y[1] < d[1] \/ (y[1] = d[1] /\ y[2] < d[2])
        \/ (y[1] = d[1] /\ y[2] = d[2] /\ y[3] < d[3])
        \/ (y[1] = d[1] /\ y[2] = d[2] /\ y[3] = d[3] /\ y[4] < d[4])
    BY <1>7 DEF Lower
  <2> QED
    BY ONLY <2>1, <2>2, <2>3, <2>4, <2>5, <2>6
<1> QED
  BY <1>6, <1>7

\* no sequence of ranks descends for ever
LEMMA NoEndlessDescent ==
    ASSUME NEW f \in [Nat -> Ranks]
    PROVE  \E n \in Nat : ~Lower(f[n + 1], f[n])
<1> DEFINE T == {f[n] : n \in Nat}
<1>1. T \in SUBSET Ranks /\ T # {}
  OBVIOUS
<1>2. PICK x \in T : \A y \in T : ~Lower(y, x)
  BY <1>1, LeastRank
<1>3. PICK n \in Nat : x = f[n]
  OBVIOUS
<1>4. f[n + 1] \in T
  OBVIOUS
<1> QED
  BY <1>2, <1>3, <1>4
=============================================================================
