---------------------------- MODULE MetricsProofs ----------------------------
(***************************************************************************)
(* The summary, for every limit, every number of Stats and every sequence  *)
(* of results.  The Stats are described part by part (Portrait): the       *)
(* counters are sums over the results, the samples are AddSamples of all   *)
(* the results hold.  Three facts about AddSamples carry the theorems: its *)
(* samples are the first distinct values (AddedAreFirst); samples of       *)
(* samples are the samples of the whole (AddCut), so that neither a batch  *)
(* nor one of several Stats loses any by cutting early; and how many there *)
(* are depends on the set of the values alone (NoMoreSamples).             *)
(***************************************************************************)
EXTENDS Metrics, NumberInduction, FiniteSetTheorems, SequenceTheorems

-----------------------------------------------------------------------------
(* Sequences. *)

\* what a sequence is with one more value
LEMMA AppendIs ==
    ASSUME NEW X, NEW s \in Seq(X), NEW x \in X
    PROVE  /\ Append(s, x) \in Seq(X) /\ Len(s) \in Nat /\ Len(Append(s, x)) = Len(s) + 1
           /\ DOMAIN s = 1 .. Len(s) /\ DOMAIN Append(s, x) = 1 .. (Len(s) + 1)
           /\ \A i \in 1 .. Len(s) : Append(s, x)[i] = s[i] /\ s[i] \in X
           /\ Append(s, x)[Len(s) + 1] = x
  OBVIOUS

\* a set that holds the empty sequence, and with each sequence those that are longer by one
LEMMA SeqInduction ==
    ASSUME NEW X, NEW T, <<>> \in T, \A s \in Seq(X), x \in X : s \in T => Append(s, x) \in T
    PROVE  Seq(X) \subseteq T
<1> DEFINE N == {n \in Nat : \A s \in Seq(X) : Len(s) = n => s \in T}
<1>1. 0 \in N
  <2>1. \A s \in Seq(X) : Len(s) = 0 => s = <<>>
    BY EmptySeq
  <2> QED
    BY <2>1
<1>2. ASSUME NEW n \in Nat, n \in N
      PROVE  n + 1 \in N
  <2>1. ASSUME NEW s \in Seq(X), Len(s) = n + 1
        PROVE  s \in T
    <3> DEFINE t == [i \in 1 .. n |-> s[i]]
    <3>1. t \in Seq(X) /\ Len(t) = n /\ s[n + 1] \in X
      BY <2>1
    <3>2. s = Append(t, s[n + 1])
      <4>1. Len(Append(t, s[n + 1])) = n + 1 /\ Append(t, s[n + 1]) \in Seq(X)
        BY <3>1
      <4>2. \A i \in 1 .. (n + 1) : Append(t, s[n + 1])[i] = s[i]
        BY <3>1
      <4> QED
        BY <2>1, <4>1, <4>2, SeqEqual
    <3>3. t \in T
      BY <1>2, <3>1
    <3> HIDE DEF t
    <3> QED
      BY <3>1, <3>2, <3>3
  <2> QED
    BY <2>1
<1> HIDE DEF N
<1>3. Nat \subseteq N
  BY <1>1, <1>2, Induction
<1>4. ASSUME NEW s \in Seq(X)
      PROVE  s \in T
  <2>1. Len(s) \in N
    BY <1>3
  <2> QED
    BY <2>1 DEF N
<1> QED
  BY <1>4

-----------------------------------------------------------------------------
(* Samples. *)

\* g holds the samples after each of the values xs
IsAdded(g, samples, limit, xs) ==
    g[0] = samples /\ \A k \in 1 .. Len(xs) : g[k] = AddSample(g[k - 1], limit, xs[k])

LEMMA AddSampleType ==
    ASSUME NEW X, NEW s \in Seq(X), NEW x \in X, NEW limit
    PROVE  AddSample(s, limit, x) \in Seq(X)
  BY DEF AddSample

\* the function that AddSamples builds exists
LEMMA AddedIs ==
    ASSUME NEW X, NEW s \in Seq(X), NEW limit, NEW xs \in Seq(X)
    PROVE  /\ AddSamples(s, limit, xs) \in Seq(X)
           /\ \E g : IsAdded(g, s, limit, xs) /\ AddSamples(s, limit, xs) = g[Len(xs)]
<1>1. PICK N \in Nat : N = Len(xs)
  OBVIOUS
<1> DEFINE S == Seq(X)
           F == [p \in S \X (1 .. N) |-> AddSample(p[1], limit, xs[p[2]])]
           Def(g) == g = [k \in 0 .. N |-> IF k = 0 THEN s
                                           ELSE AddSample(g[k - 1], limit, xs[k])]
<1>2. \A k \in 1 .. N : xs[k] \in X
  BY <1>1
<1>3. \A t \in S, k \in 1 .. N : AddSample(t, limit, xs[k]) \in S
  BY <1>2, AddSampleType
<1>4. Rule(F, S, N)
  <2>1. \A p \in S \X (1 .. N) : F[p] \in S
    BY <1>3
  <2> QED
    BY <2>1 DEF Rule
<1>5. \A t \in S, k \in 1 .. N : F[<<t, k>>] = AddSample(t, limit, xs[k])
  OBVIOUS
<1>6. s \in S
  OBVIOUS
<1> HIDE DEF F, S
<1>7. PICK g : Follows(g, F, S, N, s)
  BY <1>4, <1>6, Recursion
<1>8. /\ g \in [0 .. N -> S] /\ g[0] = s
      /\ \A k \in 1 .. N : g[k] = AddSample(g[k - 1], limit, xs[k])
  <2>1. g \in [0 .. N -> S] /\ g[0] = s /\ \A k \in 1 .. N : g[k] = F[<<g[k - 1], k>>]
    BY <1>7 DEF Follows
  <2>2. \A k \in 1 .. N : k - 1 \in 0 .. N
    OBVIOUS
  <2> QED
    BY <1>5, <2>1, <2>2
<1>9. Def(g)
  <2>1. \A k \in 0 .. N : k = 0 \/ k \in 1 .. N
    OBVIOUS
  <2>2. \A k \in 0 .. N : g[k] = IF k = 0 THEN s ELSE AddSample(g[k - 1], limit, xs[k])
    BY <1>8, <2>1
  <2> QED
    BY <1>8, <2>2
<1> DEFINE h == CHOOSE f : Def(f)
<1>11. Def(h)
  BY <1>9
<1>12. h[0] = s /\ \A k \in 1 .. N : h[k] = AddSample(h[k - 1], limit, xs[k])
  <2>1. 0 \in 0 .. N /\ \A k \in 1 .. N : k \in 0 .. N /\ k # 0
    OBVIOUS
  <2> QED
    BY <1>11, <2>1
<1>13. AddSamples(s, limit, xs) = h[N]
  BY <1>1 DEF AddSamples
<1> HIDE DEF h, Def
<1> DEFINE T == {k \in 0 .. N : h[k] \in S}
<1>14. 0 \in T
  BY <1>6, <1>12
<1>15. ASSUME NEW k \in 1 .. N, k - 1 \in T
       PROVE  k \in T
  BY <1>3, <1>12, <1>15
<1> HIDE DEF T
<1>16. 0 .. N \subseteq T
  BY <1>14, <1>15, InductionTo
<1>17. h[N] \in S
  <2>1. N \in 0 .. N
    OBVIOUS
  <2> QED
    BY <1>16, <2>1 DEF T
<1>18. IsAdded(h, s, limit, xs)
  BY <1>1, <1>12 DEF IsAdded
<1> QED
  BY <1>1, <1>13, <1>17, <1>18 DEF S

LEMMA AddNothing ==
    ASSUME NEW X, NEW s \in Seq(X), NEW limit
    PROVE  AddSamples(s, limit, <<>>) = s
<1>1. <<>> \in Seq(X) /\ Len(<<>>) = 0
  OBVIOUS
<1>2. PICK e \in Seq(X) : e = <<>>
  BY <1>1
<1>3. PICK g : IsAdded(g, s, limit, e) /\ AddSamples(s, limit, e) = g[Len(e)]
  BY AddedIs
<1> QED
  BY <1>1, <1>2, <1>3 DEF IsAdded

LEMMA AddSamplesType ==
    ASSUME NEW X, NEW s \in Seq(X), NEW limit, NEW xs \in Seq(X)
    PROVE  AddSamples(s, limit, xs) \in Seq(X)
  BY AddedIs

\* one more value is one more AddSample
LEMMA AddNext ==
    ASSUME NEW X, NEW s \in Seq(X), NEW limit, NEW xs \in Seq(X), NEW x \in X
    PROVE  AddSamples(s, limit, Append(xs, x)) = AddSample(AddSamples(s, limit, xs), limit, x)
<1>1. PICK N \in Nat : N = Len(xs)
  OBVIOUS
<1>2. PICK ys \in Seq(X) : ys = Append(xs, x)
  BY AppendIs
<1>3. Len(ys) = N + 1 /\ ys[N + 1] = x /\ \A k \in 1 .. N : ys[k] = xs[k]
  BY <1>1, <1>2
<1>4. PICK g : IsAdded(g, s, limit, xs) /\ AddSamples(s, limit, xs) = g[N]
  BY <1>1, AddedIs
<1>5. PICK h : IsAdded(h, s, limit, ys) /\ AddSamples(s, limit, ys) = h[N + 1]
  BY <1>3, AddedIs
<1>6. /\ AddSamples(s, limit, xs) = g[N] /\ g[0] = s
      /\ \A k \in 1 .. N : g[k] = AddSample(g[k - 1], limit, xs[k])
  BY <1>1, <1>4 DEF IsAdded
<1>7. /\ AddSamples(s, limit, ys) = h[N + 1] /\ h[0] = s
      /\ \A k \in 1 .. (N + 1) : h[k] = AddSample(h[k - 1], limit, ys[k])
  BY <1>3, <1>5 DEF IsAdded
<1> DEFINE T == {k \in 0 .. N : g[k] = h[k]}
<1>8. 0 \in T
  BY <1>6, <1>7
<1>9. ASSUME NEW k \in 1 .. N, k - 1 \in T
      PROVE  k \in T
  <2>1. k \in 1 .. (N + 1) /\ g[k - 1] = h[k - 1] /\ xs[k] = ys[k]
    BY <1>3, <1>9
  <2> QED
    BY <1>6, <1>7, <2>1
<1> HIDE DEF T
<1>10. 0 .. N \subseteq T
  BY <1>8, <1>9, InductionTo
<1>11. g[N] = h[N]
  <2>1. N \in 0 .. N
    OBVIOUS
  <2> QED
    BY <1>10, <2>1 DEF T
<1>12. h[N + 1] = AddSample(h[N], limit, x)
  <2>1. N + 1 \in 1 .. (N + 1) /\ (N + 1) - 1 = N
    OBVIOUS
  <2> QED
    BY <1>3, <1>7, <2>1
<1> QED
  BY <1>2, <1>6, <1>7, <1>11, <1>12

\* a value is added, or there is no room for it, or it is there
LEMMA AddSampleIs ==
    ASSUME NEW X, NEW s \in Seq(X), NEW x \in X, NEW limit \in Nat
    PROVE  \/ /\ AddSample(s, limit, x) = Append(s, x)
              /\ Len(s) < limit /\ \A i \in 1 .. Len(s) : s[i] # x
           \/ /\ AddSample(s, limit, x) = s
              /\ Len(s) >= limit \/ \E i \in 1 .. Len(s) : s[i] = x
<1>1. PICK n \in Nat : n = Len(s) /\ DOMAIN s = 1 .. n
  OBVIOUS
<1>2. x \in Range(s) <=> \E i \in 1 .. n : s[i] = x
  BY <1>1 DEF Range
<1>3. n < limit \/ n >= limit
  OBVIOUS
<1> QED
  BY <1>1, <1>2, <1>3 DEF AddSample

\* no value twice
Distinct(s) == \A i, j \in 1 .. Len(s) : s[i] = s[j] => i = j

\* no sample is taken twice
LEMMA AddSampleDistinct ==
    ASSUME NEW X, NEW s \in Seq(X), NEW x \in X, NEW limit \in Nat, Distinct(s)
    PROVE  Distinct(AddSample(s, limit, x))
<1>1. PICK t \in Seq(X) : t = AddSample(s, limit, x)
  BY AddSampleType
<1>2. CASE t = s
  BY <1>1, <1>2
<1>3. CASE t = Append(s, x) /\ \A i \in 1 .. Len(s) : s[i] # x
  <2>1. PICK n \in Nat : n = Len(s)
    OBVIOUS
  <2>2. Len(t) = n + 1 /\ t[n + 1] = x /\ \A i \in 1 .. n : t[i] = s[i] /\ t[i] # x
    BY <1>3, <2>1
  <2>3. \A i \in 1 .. (n + 1) : i = n + 1 \/ i \in 1 .. n
    OBVIOUS
  <2>4. Distinct(t)
    BY <2>1, <2>2, <2>3 DEF Distinct
  <2> QED
    BY <1>1, <2>4
<1> QED
  BY <1>1, <1>2, <1>3, AddSampleIs

\* every value of d is a value of t
Within(d, t) == \A i \in 1 .. Len(d) : \E j \in 1 .. Len(t) : d[i] = t[j]

\* distinct values of t are no more than t has places
LEMMA Pigeons ==
    ASSUME NEW X, NEW d \in Seq(X), NEW t \in Seq(X), Distinct(d), Within(d, t)
    PROVE  Len(d) <= Len(t)
<1>1. PICK m \in Nat : m = Len(d)
  OBVIOUS
<1>2. PICK n \in Nat : n = Len(t)
  OBVIOUS
<1> DEFINE f == [i \in 1 .. m |-> CHOOSE j \in 1 .. n : d[i] = t[j]]
<1>3. \A i \in 1 .. m : f[i] \in 1 .. n /\ d[i] = t[f[i]]
  BY <1>1, <1>2 DEF Within
<1>4. f \in [1 .. m -> 1 .. n]
  BY <1>3
<1>5. \A i, j \in 1 .. m : f[i] = f[j] => i = j
  BY <1>1, <1>3 DEF Distinct
<1> HIDE DEF f
<1>6. f \in Injection(1 .. m, 1 .. n)
  BY <1>4, <1>5 DEF Injection, IsInjective
<1>7. /\ IsFiniteSet(1 .. n) /\ Cardinality(1 .. n) = n /\ Cardinality(1 .. m) = m
  <2>1. \A k \in Nat : IsFiniteSet(1 .. k) /\ Cardinality(1 .. k) = IF 1 > k THEN 0 ELSE k - 1 + 1
    BY FS_Interval
  <2> QED
    BY <2>1
<1> QED
  BY <1>1, <1>2, <1>6, <1>7, FS_Injection

\* what is added is there at the end, unless there was no room
LEMMA AddedOrFull ==
    ASSUME NEW X, NEW s \in Seq(X), NEW limit \in Nat, NEW d \in Seq(X)
    PROVE  \/ Within(d, AddSamples(s, limit, d))
           \/ Len(AddSamples(s, limit, d)) >= limit
<1> DEFINE P(e) == \/ Within(e, AddSamples(s, limit, e))
                   \/ Len(AddSamples(s, limit, e)) >= limit
           T == {e \in Seq(X) : P(e)}
<1>1. <<>> \in T
  BY DEF Within
<1>2. ASSUME NEW e \in Seq(X), NEW x \in X, e \in T
      PROVE  Append(e, x) \in T
  <2>1. PICK t \in Seq(X) : t = AddSamples(s, limit, e)
    BY AddSamplesType
  <2>2. PICK n \in Nat : n = Len(t)
    OBVIOUS
  <2>3. PICK m \in Nat : m = Len(e)
    OBVIOUS
  <2>4. PICK f \in Seq(X) : f = Append(e, x)
    BY AppendIs
  <2>5. Len(f) = m + 1 /\ f[m + 1] = x /\ \A i \in 1 .. m : f[i] = e[i]
    BY <2>3, <2>4
  <2>6. AddSamples(s, limit, f) = AddSample(t, limit, x)
    BY <2>1, <2>4, AddNext
  <2>7. \A i \in 1 .. (m + 1) : i = m + 1 \/ i \in 1 .. m
    OBVIOUS
  <2>8. Within(e, t) \/ n >= limit
    BY <1>2, <2>1, <2>2
  <2>9. CASE AddSample(t, limit, x) = t /\ n >= limit
    BY <2>2, <2>4, <2>6, <2>9
  <2>10. CASE AddSample(t, limit, x) = t /\ Within(e, t) /\ \E i \in 1 .. n : t[i] = x
    <3>1. Within(f, t)
      BY <2>2, <2>3, <2>5, <2>7, <2>10 DEF Within
    <3> QED
      BY <2>4, <2>6, <2>10, <3>1
  <2>11. CASE AddSample(t, limit, x) = Append(t, x) /\ n < limit
    <3>1. PICK u \in Seq(X) : u = Append(t, x)
      BY AppendIs
    <3>2. Len(u) = n + 1 /\ u[n + 1] = x /\ \A i \in 1 .. n : u[i] = t[i]
      BY <2>2, <3>1
    <3>3. \A i \in 1 .. n : i \in 1 .. (n + 1)
      OBVIOUS
    <3>4. n + 1 \in 1 .. (n + 1)
      OBVIOUS
    <3>5. Within(e, t)
      BY <2>8, <2>11
    <3>6. Within(f, u)
      BY <2>2, <2>3, <2>5, <2>7, <3>2, <3>3, <3>4, <3>5 DEF Within
    <3> QED
      BY <2>4, <2>6, <2>11, <3>1, <3>6
  <2> QED
    BY <2>2, <2>8, <2>9, <2>10, <2>11, AddSampleIs
<1> HIDE DEF T
<1>3. Seq(X) \subseteq T
  BY <1>1, <1>2, SeqInduction
<1> QED
  BY <1>3 DEF T

\* A value that d, which holds the first of some, does not take would not be taken after d
\* either.
LEMMA AddOne ==
    ASSUME NEW X, NEW s \in Seq(X), NEW limit \in Nat, NEW d \in Seq(X), Distinct(d),
           NEW x \in X
    PROVE  AddSamples(s, limit, AddSample(d, limit, x))
             = AddSample(AddSamples(s, limit, d), limit, x)
<1>1. PICK t \in Seq(X) : t = AddSamples(s, limit, d)
  BY AddSamplesType
<1>2. CASE AddSample(d, limit, x) = Append(d, x)
  BY <1>2, AddNext
<1>3. CASE AddSample(d, limit, x) = d /\ (Len(d) >= limit \/ \E i \in 1 .. Len(d) : d[i] = x)
  <2>1. PICK m \in Nat : m = Len(d)
    OBVIOUS
  <2>2. PICK n \in Nat : n = Len(t)
    OBVIOUS
  <2>3. Within(d, t) \/ n >= limit
    BY <1>1, <2>2, AddedOrFull
  <2>4. n >= limit \/ \E j \in 1 .. n : t[j] = x
    <3>1. CASE n >= limit
      BY <3>1
    <3>2. CASE Within(d, t) /\ m >= limit
      <4>1. m <= n
        BY <2>1, <2>2, <3>2, Pigeons
      <4> QED
        BY <3>2, <4>1
    <3>3. CASE Within(d, t) /\ \E i \in 1 .. m : d[i] = x
      BY <2>1, <2>2, <3>3 DEF Within
    <3> QED
      BY <1>3, <2>1, <2>3, <3>1, <3>2, <3>3
  <2>5. AddSample(t, limit, x) = t
    <3>1. CASE n >= limit
      BY <2>2, <3>1 DEF AddSample
    <3>2. CASE \E j \in 1 .. n : t[j] = x
      <4>1. x \in Range(t)
        BY <2>2, <3>2 DEF Range
      <4> QED
        BY <4>1 DEF AddSample
    <3> QED
      BY <2>4, <3>1, <3>2
  <2> QED
    BY <1>1, <1>3, <2>5
<1> QED
  BY <1>2, <1>3, AddSampleIs

\* cutting early loses nothing
LEMMA AddCut ==
    ASSUME NEW X, NEW s \in Seq(X), NEW limit \in Nat, NEW d \in Seq(X), Distinct(d),
           NEW xs \in Seq(X)
    PROVE  /\ AddSamples(s, limit, AddSamples(d, limit, xs))
                = AddSamples(AddSamples(s, limit, d), limit, xs)
           /\ Distinct(AddSamples(d, limit, xs))
<1> DEFINE P(e) == /\ AddSamples(s, limit, AddSamples(d, limit, e))
                       = AddSamples(AddSamples(s, limit, d), limit, e)
                   /\ Distinct(AddSamples(d, limit, e))
           T == {e \in Seq(X) : P(e)}
<1>1. <<>> \in T
  <2>1. AddSamples(s, limit, d) \in Seq(X)
    BY AddSamplesType
  <2>2. AddSamples(d, limit, <<>>) = d
    BY AddNothing
  <2>3. AddSamples(AddSamples(s, limit, d), limit, <<>>) = AddSamples(s, limit, d)
    BY <2>1, AddNothing
  <2>4. <<>> \in Seq(X)
    OBVIOUS
  <2> QED
    BY <2>2, <2>3, <2>4
<1>2. ASSUME NEW e \in Seq(X), NEW x \in X, e \in T
      PROVE  Append(e, x) \in T
  <2>1. PICK c \in Seq(X) : c = AddSamples(d, limit, e)
    BY AddSamplesType
  <2>2. PICK t \in Seq(X) : t = AddSamples(s, limit, d)
    BY AddSamplesType
  <2>3. AddSamples(d, limit, Append(e, x)) = AddSample(c, limit, x)
    BY <2>1, AddNext
  <2>4. AddSamples(t, limit, Append(e, x)) = AddSample(AddSamples(t, limit, e), limit, x)
    BY AddNext
  <2>5. Distinct(c) /\ AddSamples(s, limit, c) = AddSamples(t, limit, e)
    BY <1>2, <2>1, <2>2
  <2>6. AddSamples(s, limit, AddSample(c, limit, x)) = AddSample(AddSamples(s, limit, c), limit, x)
    BY <2>5, AddOne
  <2>7. Distinct(AddSample(c, limit, x))
    BY <2>5, AddSampleDistinct
  <2>8. Append(e, x) \in Seq(X)
    BY AppendIs
  <2> QED
    BY <2>2, <2>3, <2>4, <2>5, <2>6, <2>7, <2>8
<1> HIDE DEF T
<1>3. Seq(X) \subseteq T
  BY <1>1, <1>2, SeqInduction
<1> QED
  BY <1>3 DEF T

-----------------------------------------------------------------------------
(* Sums, and sequences of sequences. *)

\* g holds the sums of the first of xs
IsSum(g, xs) == g[0] = 0 /\ \A k \in 1 .. Len(xs) : g[k] = g[k - 1] + xs[k]

\* the function that Sum builds exists
LEMMA SumIs ==
    ASSUME NEW xs \in Seq(Int)
    PROVE  Sum(xs) \in Int /\ \E g : IsSum(g, xs) /\ Sum(xs) = g[Len(xs)]
<1>1. PICK N \in Nat : N = Len(xs)
  OBVIOUS
<1> DEFINE F == [p \in Int \X (1 .. N) |-> p[1] + xs[p[2]]]
           Def(g) == g = [k \in 0 .. N |-> IF k = 0 THEN 0 ELSE g[k - 1] + xs[k]]
<1>2. \A k \in 1 .. N : xs[k] \in Int
  BY <1>1
<1>3. Rule(F, Int, N)
  <2>1. \A p \in Int \X (1 .. N) : F[p] \in Int
    BY <1>2
  <2> QED
    BY <2>1 DEF Rule
<1>4. \A t \in Int, k \in 1 .. N : F[<<t, k>>] = t + xs[k]
  OBVIOUS
<1>5. 0 \in Int
  OBVIOUS
<1> HIDE DEF F
<1>6. PICK g : Follows(g, F, Int, N, 0)
  BY <1>3, <1>5, Recursion
<1>7. g \in [0 .. N -> Int] /\ g[0] = 0 /\ \A k \in 1 .. N : g[k] = g[k - 1] + xs[k]
  <2>1. g \in [0 .. N -> Int] /\ g[0] = 0 /\ \A k \in 1 .. N : g[k] = F[<<g[k - 1], k>>]
    BY <1>6 DEF Follows
  <2>2. \A k \in 1 .. N : k - 1 \in 0 .. N
    OBVIOUS
  <2>3. \A k \in 1 .. N : g[k - 1] \in Int
    BY <2>1, <2>2
  <2> QED
    BY <1>4, <2>1, <2>3
<1>8. Def(g)
  <2>1. \A k \in 0 .. N : k = 0 \/ k \in 1 .. N
    OBVIOUS
  <2>2. \A k \in 0 .. N : g[k] = IF k = 0 THEN 0 ELSE g[k - 1] + xs[k]
    BY <1>7, <2>1
  <2> QED
    BY <1>7, <2>2
<1> DEFINE h == CHOOSE f : Def(f)
<1>9. Def(h)
  BY <1>8
<1>10. h[0] = 0 /\ \A k \in 1 .. N : h[k] = h[k - 1] + xs[k]
  <2>1. 0 \in 0 .. N /\ \A k \in 1 .. N : k \in 0 .. N /\ k # 0
    OBVIOUS
  <2> QED
    BY <1>9, <2>1
<1>11. Sum(xs) = h[N]
  BY <1>1 DEF Sum
<1> HIDE DEF h, Def
<1> DEFINE T == {k \in 0 .. N : h[k] \in Int}
<1>12. 0 \in T
  BY <1>10
<1>13. ASSUME NEW k \in 1 .. N, k - 1 \in T
       PROVE  k \in T
  BY <1>2, <1>10, <1>13
<1> HIDE DEF T
<1>14. 0 .. N \subseteq T
  BY <1>12, <1>13, InductionTo
<1>15. h[N] \in Int
  <2>1. N \in 0 .. N
    OBVIOUS
  <2> QED
    BY <1>14, <2>1 DEF T
<1>16. IsSum(h, xs)
  BY <1>1, <1>10 DEF IsSum
<1> QED
  BY <1>1, <1>11, <1>15, <1>16

LEMMA SumOfNone == Sum(<<>>) = 0
<1>1. PICK e \in Seq(Int) : e = <<>> /\ Len(e) = 0
  <2>1. <<>> \in Seq(Int) /\ Len(<<>>) = 0
    OBVIOUS
  <2> QED
    BY <2>1
<1>2. PICK g : IsSum(g, e) /\ Sum(e) = g[Len(e)]
  BY SumIs
<1> QED
  BY <1>1, <1>2 DEF IsSum

LEMMA SumOfOneMore ==
    ASSUME NEW xs \in Seq(Int), NEW x \in Int
    PROVE  Sum(Append(xs, x)) = Sum(xs) + x
<1>1. PICK N \in Nat : N = Len(xs)
  OBVIOUS
<1>2. PICK ys \in Seq(Int) : ys = Append(xs, x)
  BY AppendIs
<1>3. Len(ys) = N + 1 /\ ys[N + 1] = x /\ \A k \in 1 .. N : ys[k] = xs[k]
  BY <1>1, <1>2
<1>4. PICK g : IsSum(g, xs) /\ Sum(xs) = g[N]
  BY <1>1, SumIs
<1>5. PICK h : IsSum(h, ys) /\ Sum(ys) = h[N + 1]
  BY <1>3, SumIs
<1>6. g[0] = 0 /\ \A k \in 1 .. N : g[k] = g[k - 1] + xs[k]
  BY <1>1, <1>4 DEF IsSum
<1>7. h[0] = 0 /\ \A k \in 1 .. (N + 1) : h[k] = h[k - 1] + ys[k]
  BY <1>3, <1>5 DEF IsSum
<1> DEFINE T == {k \in 0 .. N : g[k] = h[k]}
<1>8. 0 \in T
  BY <1>6, <1>7
<1>9. ASSUME NEW k \in 1 .. N, k - 1 \in T
      PROVE  k \in T
  <2>1. k \in 1 .. (N + 1) /\ g[k - 1] = h[k - 1] /\ xs[k] = ys[k]
    BY <1>3, <1>9
  <2> QED
    BY <1>6, <1>7, <2>1
<1> HIDE DEF T
<1>10. 0 .. N \subseteq T
  BY <1>8, <1>9, InductionTo
<1>11. g[N] = h[N]
  <2>1. N \in 0 .. N
    OBVIOUS
  <2> QED
    BY <1>10, <2>1 DEF T
<1>12. h[N + 1] = h[N] + x
  <2>1. N + 1 \in 1 .. (N + 1) /\ (N + 1) - 1 = N
    OBVIOUS
  <2> QED
    BY <1>3, <1>7, <2>1
<1> QED
  BY <1>2, <1>4, <1>5, <1>11, <1>12

\* g holds what the first of the sequences ss hold
IsFlat(g, ss) == g[0] = <<>> /\ \A k \in 1 .. Len(ss) : g[k] = g[k - 1] \o ss[k]

\* the function that FlattenSeq builds exists
LEMMA FlatIs ==
    ASSUME NEW X, NEW ss \in Seq(Seq(X))
    PROVE  FlattenSeq(ss) \in Seq(X) /\ \E g : IsFlat(g, ss) /\ FlattenSeq(ss) = g[Len(ss)]
<1>1. PICK N \in Nat : N = Len(ss)
  OBVIOUS
<1> DEFINE S == Seq(X)
           F == [p \in S \X (1 .. N) |-> p[1] \o ss[p[2]]]
           Def(g) == g = [k \in 1 .. N |-> IF k = 1 THEN ss[k] ELSE g[k - 1] \o ss[k]]
<1>2. \A k \in 1 .. N : ss[k] \in S
  BY <1>1
<1>3. \A t \in S, k \in 1 .. N : t \o ss[k] \in S
  BY <1>2, ConcatProperties
<1>4. Rule(F, S, N)
  <2>1. \A p \in S \X (1 .. N) : F[p] \in S
    BY <1>3
  <2> QED
    BY <2>1 DEF Rule
<1>5. \A t \in S, k \in 1 .. N : F[<<t, k>>] = t \o ss[k]
  OBVIOUS
<1>6. <<>> \in S /\ \A t \in S : <<>> \o t = t
  BY ConcatEmptySeq
<1> HIDE DEF F, S
<1>7. PICK g : Follows(g, F, S, N, <<>>)
  BY <1>4, <1>6, Recursion
<1>8. g \in [0 .. N -> S] /\ g[0] = <<>> /\ \A k \in 1 .. N : g[k] = g[k - 1] \o ss[k]
  <2>1. g \in [0 .. N -> S] /\ g[0] = <<>> /\ \A k \in 1 .. N : g[k] = F[<<g[k - 1], k>>]
    BY <1>7 DEF Follows
  <2>2. \A k \in 1 .. N : k - 1 \in 0 .. N
    OBVIOUS
  <2>3. \A k \in 1 .. N : g[k - 1] \in S
    BY <2>1, <2>2
  <2> QED
    BY <1>5, <2>1, <2>3
<1> DEFINE f == [k \in 1 .. N |-> g[k]]
<1>9. Def(f)
  <2>1. ASSUME NEW k \in 1 .. N
        PROVE  f[k] = IF k = 1 THEN ss[k] ELSE f[k - 1] \o ss[k]
    <3>1. CASE k = 1
      BY <1>2, <1>6, <1>8, <3>1
    <3>2. CASE k # 1
      <4>1. k - 1 \in 1 .. N
        BY <3>2
      <4> QED
        BY <1>8, <3>2, <4>1
    <3> QED
      BY <3>1, <3>2
  <2> QED
    BY <2>1
<1> HIDE DEF f
<1> DEFINE h == CHOOSE e : Def(e)
<1>10. Def(h)
  BY <1>9
<1>11. N # 0 => FlattenSeq(ss) = h[N]
  BY <1>1 DEF FlattenSeq
<1>12. N = 0 => FlattenSeq(ss) = <<>>
  BY <1>1, EmptySeq DEF FlattenSeq
<1> DEFINE w == [k \in 0 .. N |-> IF k = 0 THEN <<>> ELSE h[k]]
<1>13. \A k \in 1 .. N : h[k] = IF k = 1 THEN ss[k] ELSE h[k - 1] \o ss[k]
  BY <1>10
<1> HIDE DEF h, Def
<1>14. w[0] = <<>> /\ FlattenSeq(ss) = w[N]
  <2>1. 0 \in 0 .. N /\ N \in 0 .. N
    OBVIOUS
  <2> QED
    BY <1>11, <1>12, <2>1
<1>15. ASSUME NEW k \in 1 .. N
       PROVE  w[k] = w[k - 1] \o ss[k]
  <2>1. k \in 0 .. N /\ k - 1 \in 0 .. N /\ k # 0
    OBVIOUS
  <2>2. w[k] = h[k] /\ w[k - 1] = IF k - 1 = 0 THEN <<>> ELSE h[k - 1]
    BY <2>1
  <2>3. h[k] = IF k = 1 THEN ss[k] ELSE h[k - 1] \o ss[k]
    BY <1>13
  <2> HIDE DEF w
  <2>4. CASE k = 1
    <3>1. w[k] = ss[k] /\ w[k - 1] = <<>> /\ <<>> \o ss[k] = ss[k]
      BY <1>2, <1>6, <2>2, <2>3, <2>4
    <3> QED
      BY <3>1
  <2>5. CASE k # 1
    <3>1. k - 1 # 0
      BY <2>5
    <3>2. w[k] = h[k - 1] \o ss[k] /\ w[k - 1] = h[k - 1]
      BY <2>2, <2>3, <2>5, <3>1
    <3> QED
      BY <3>2
  <2> QED
    BY <2>4, <2>5
<1> HIDE DEF w
<1> DEFINE T == {k \in 0 .. N : w[k] \in S}
<1>16. 0 \in T
  BY <1>6, <1>14
<1>17. ASSUME NEW k \in 1 .. N, k - 1 \in T
       PROVE  k \in T
  <2>1. w[k - 1] \in S /\ k \in 0 .. N
    BY <1>17
  <2>2. w[k - 1] \o ss[k] \in S
    BY <1>3, <2>1
  <2>3. w[k] \in S
    BY <1>15, <2>2
  <2> QED
    BY <2>1, <2>3
<1> HIDE DEF T
<1>18. 0 .. N \subseteq T
  BY <1>16, <1>17, InductionTo
<1>19. w[N] \in S
  <2>1. N \in 0 .. N
    OBVIOUS
  <2> QED
    BY <1>18, <2>1 DEF T
<1>20. IsFlat(w, ss)
  BY <1>1, <1>14, <1>15 DEF IsFlat
<1> QED
  BY <1>1, <1>14, <1>19, <1>20 DEF S

LEMMA FlatNone == FlattenSeq(<<>>) = <<>>
  BY DEF FlattenSeq

LEMMA FlatOneMore ==
    ASSUME NEW X, NEW ss \in Seq(Seq(X)), NEW x \in Seq(X)
    PROVE  FlattenSeq(Append(ss, x)) = FlattenSeq(ss) \o x
<1>1. PICK N \in Nat : N = Len(ss)
  OBVIOUS
<1>2. PICK ts \in Seq(Seq(X)) : ts = Append(ss, x)
  BY AppendIs
<1>3. Len(ts) = N + 1 /\ ts[N + 1] = x /\ \A k \in 1 .. N : ts[k] = ss[k]
  BY <1>1, <1>2
<1>4. PICK g : IsFlat(g, ss) /\ FlattenSeq(ss) = g[N]
  BY <1>1, FlatIs
<1>5. PICK h : IsFlat(h, ts) /\ FlattenSeq(ts) = h[N + 1]
  BY <1>3, FlatIs
<1>6. g[0] = <<>> /\ \A k \in 1 .. N : g[k] = g[k - 1] \o ss[k]
  BY <1>1, <1>4 DEF IsFlat
<1>7. h[0] = <<>> /\ \A k \in 1 .. (N + 1) : h[k] = h[k - 1] \o ts[k]
  BY <1>3, <1>5 DEF IsFlat
<1> DEFINE T == {k \in 0 .. N : g[k] = h[k]}
<1>8. 0 \in T
  BY <1>6, <1>7
<1>9. ASSUME NEW k \in 1 .. N, k - 1 \in T
      PROVE  k \in T
  <2>1. k \in 1 .. (N + 1) /\ k \in 0 .. N /\ g[k - 1] = h[k - 1] /\ ss[k] = ts[k]
    BY <1>3, <1>9
  <2>2. g[k] = g[k - 1] \o ss[k]
    BY <1>6
  <2>3. h[k] = h[k - 1] \o ts[k]
    BY <1>7, <2>1
  <2>4. g[k] = h[k]
    BY <2>1, <2>2, <2>3
  <2> QED
    BY <2>1, <2>4
<1> HIDE DEF T
<1>10. 0 .. N \subseteq T
  BY <1>8, <1>9, InductionTo
<1>11. g[N] = h[N]
  <2>1. N \in 0 .. N
    OBVIOUS
  <2> QED
    BY <1>10, <2>1 DEF T
<1>12. h[N + 1] = h[N] \o x
  <2>1. N + 1 \in 1 .. (N + 1) /\ (N + 1) - 1 = N
    OBVIOUS
  <2> QED
    BY <1>3, <1>7, <2>1
<1> QED
  BY <1>2, <1>4, <1>5, <1>11, <1>12

-----------------------------------------------------------------------------
(* The samples of a sequence are its first distinct values. *)

First(x, seq) == Min({k \in DOMAIN seq : seq[k] = x})

\* the parts of AreFirstOf, with indices
IsFirst(s, limit, seq) ==
    /\ Len(s) <= limit /\ Within(s, seq)
    /\ \A i, j \in 1 .. Len(s) : i < j => First(s[i], seq) < First(s[j], seq)
    /\ \A k \in 1 .. Len(seq) :
          \/ \E i \in 1 .. Len(s) : s[i] = seq[k]
          \/ Len(s) = limit /\ \A i \in 1 .. Len(s) : First(s[i], seq) < First(seq[k], seq)

\* First is the first place of a value
LEMMA FirstIs ==
    ASSUME NEW X, NEW seq \in Seq(X), NEW j \in 1 .. Len(seq)
    PROVE  /\ First(seq[j], seq) \in 1 .. Len(seq) /\ seq[First(seq[j], seq)] = seq[j]
           /\ \A k \in 1 .. Len(seq) : seq[k] = seq[j] => First(seq[j], seq) <= k
<1> DEFINE K == {k \in DOMAIN seq : seq[k] = seq[j]}
<1>1. PICK n \in Nat : n = Len(seq) /\ DOMAIN seq = 1 .. n
  OBVIOUS
<1>2. K \in SUBSET Nat /\ j \in K
  BY <1>1
<1>3. \E x \in K : \A y \in K : x <= y
  <2> HIDE DEF K
  <2> QED
    BY <1>2, LeastNat
<1>4. First(seq[j], seq) \in K /\ \A y \in K : First(seq[j], seq) <= y
  <2>1. First(seq[j], seq) = CHOOSE x \in K : \A y \in K : x <= y
    BY DEF First, Min
  <2> HIDE DEF K
  <2> QED
    BY <1>3, <2>1
<1> QED
  BY <1>1, <1>4

\* a place is the first one if no earlier one has its value
LEMMA FirstOnly ==
    ASSUME NEW X, NEW seq \in Seq(X), NEW j \in 1 .. Len(seq),
           \A k \in 1 .. Len(seq) : seq[k] = seq[j] => j <= k
    PROVE  First(seq[j], seq) = j
<1>1. PICK f \in 1 .. Len(seq) : f = First(seq[j], seq)
  BY FirstIs
<1>2. seq[f] = seq[j] /\ f <= j
  BY <1>1, FirstIs
<1>3. j <= f
  BY <1>2
<1> QED
  BY <1>1, <1>2, <1>3

\* a value keeps its place when the sequence grows
LEMMA FirstStays ==
    ASSUME NEW X, NEW seq \in Seq(X), NEW x \in X, NEW j \in 1 .. Len(seq)
    PROVE  First(seq[j], Append(seq, x)) = First(seq[j], seq)
<1>1. PICK n \in Nat : n = Len(seq)
  OBVIOUS
<1>2. PICK longer \in Seq(X) : longer = Append(seq, x)
  BY AppendIs
<1>3. Len(longer) = n + 1 /\ \A k \in 1 .. n : longer[k] = seq[k]
  BY <1>1, <1>2
<1>4. PICK f \in 1 .. n : f = First(seq[j], seq)
  BY <1>1, FirstIs
<1>5. seq[f] = seq[j] /\ \A k \in 1 .. n : seq[k] = seq[j] => f <= k
  BY <1>1, <1>4, FirstIs
<1>6. f \in 1 .. (n + 1) /\ longer[f] = seq[j]
  BY <1>3, <1>5
<1>7. \A k \in 1 .. (n + 1) : longer[k] = longer[f] => f <= k
  <2>1. \A k \in 1 .. (n + 1) : k \in 1 .. n \/ k = n + 1
    OBVIOUS
  <2> QED
    BY <1>3, <1>5, <1>6, <2>1
<1>8. First(longer[f], longer) = f
  <2>1. f \in 1 .. Len(longer) /\ \A k \in 1 .. Len(longer) : longer[k] = longer[f] => f <= k
    BY <1>3, <1>6, <1>7
  <2> QED
    BY <2>1, FirstOnly
<1> QED
  BY <1>2, <1>4, <1>6, <1>8

\* a value that was not there yet is first at the end
LEMMA FirstIsNew ==
    ASSUME NEW X, NEW seq \in Seq(X), NEW x \in X, \A k \in 1 .. Len(seq) : seq[k] # x
    PROVE  First(x, Append(seq, x)) = Len(seq) + 1
<1>1. PICK n \in Nat : n = Len(seq)
  OBVIOUS
<1>2. PICK longer \in Seq(X) : longer = Append(seq, x)
  BY AppendIs
<1>3. Len(longer) = n + 1 /\ longer[n + 1] = x /\ \A k \in 1 .. n : longer[k] # x
  BY <1>1, <1>2
<1>4. \A k \in 1 .. (n + 1) : longer[k] = longer[n + 1] => n + 1 <= k
  BY <1>3
<1>5. First(longer[n + 1], longer) = n + 1
  <2>1. n + 1 \in 1 .. Len(longer)
        /\ \A k \in 1 .. Len(longer) : longer[k] = longer[n + 1] => n + 1 <= k
    BY <1>3, <1>4
  <2> QED
    BY <2>1, FirstOnly
<1> QED
  BY <1>1, <1>2, <1>3, <1>5

\* IsFirst is what the property AreFirstOf says
LEMMA FirstsOf ==
    ASSUME NEW X, NEW s \in Seq(X), NEW seq \in Seq(X), NEW limit, IsFirst(s, limit, seq)
    PROVE  AreFirstOf(s, limit, seq)
<1>1. DOMAIN s = 1 .. Len(s) /\ DOMAIN seq = 1 .. Len(seq)
  OBVIOUS
<1>2. Range(s) \subseteq Range(seq)
  BY <1>1 DEF IsFirst, Within, Range
<1>3. \A x \in Range(seq) \ Range(s) :
          Len(s) = limit /\ \A i \in DOMAIN s : First(s[i], seq) < First(x, seq)
  <2>1. ASSUME NEW x \in Range(seq), x \notin Range(s)
        PROVE  Len(s) = limit /\ \A i \in DOMAIN s : First(s[i], seq) < First(x, seq)
    <3>1. PICK k \in 1 .. Len(seq) : x = seq[k]
      BY <1>1 DEF Range
    <3>2. ~ \E i \in 1 .. Len(s) : s[i] = seq[k]
      BY <1>1, <2>1, <3>1 DEF Range
    <3> QED
      BY <1>1, <3>1, <3>2 DEF IsFirst
  <2> QED
    BY <2>1
<1> QED
  BY <1>1, <1>2, <1>3 DEF IsFirst, AreFirstOf, First

\* the samples stay the first values when one more comes
LEMMA OneMoreFirst ==
    ASSUME NEW X, NEW s \in Seq(X), NEW seq \in Seq(X), NEW x \in X, NEW limit \in Nat,
           IsFirst(s, limit, seq)
    PROVE  IsFirst(AddSample(s, limit, x), limit, Append(seq, x))
<1>1. PICK n \in Nat : n = Len(seq)
  OBVIOUS
<1>2. PICK m \in Nat : m = Len(s)
  OBVIOUS
<1>3. PICK longer \in Seq(X) : longer = Append(seq, x)
  BY AppendIs
<1>4. Len(longer) = n + 1 /\ longer[n + 1] = x /\ \A k \in 1 .. n : longer[k] = seq[k]
  BY <1>1, <1>3
<1>5. \A k \in 1 .. (n + 1) : k \in 1 .. n \/ k = n + 1
  OBVIOUS
<1>6. \A k \in 1 .. n : k \in 1 .. (n + 1)
  OBVIOUS
\* the places of the old values
<1>7. \A k \in 1 .. n : /\ First(seq[k], longer) = First(seq[k], seq)
                        /\ First(seq[k], seq) \in 1 .. n
  BY <1>1, <1>3, FirstIs, FirstStays
<1>8. /\ m <= limit
      /\ \A i \in 1 .. m : \E k \in 1 .. n : s[i] = seq[k]
      /\ \A i, j \in 1 .. m : i < j => First(s[i], seq) < First(s[j], seq)
      /\ \A k \in 1 .. n :
            \/ \E i \in 1 .. m : s[i] = seq[k]
            \/ m = limit /\ \A i \in 1 .. m : First(s[i], seq) < First(seq[k], seq)
  BY <1>1, <1>2 DEF IsFirst, Within
<1>9. \A i \in 1 .. m : First(s[i], longer) = First(s[i], seq) /\ First(s[i], seq) \in 1 .. n
  BY <1>7, <1>8
<1>10. (\A k \in 1 .. n : seq[k] # x) => First(x, longer) = n + 1
  BY <1>1, <1>3, FirstIsNew
<1>11. CASE AddSample(s, limit, x) = s /\ (m >= limit \/ \E i \in 1 .. m : s[i] = x)
  <2>1. Within(s, longer)
    <3>1. \A i \in 1 .. m : \E k \in 1 .. (n + 1) : s[i] = longer[k]
      BY <1>4, <1>6, <1>8
    <3> QED
      BY <1>2, <1>4, <3>1 DEF Within
  <2>2. \A i, j \in 1 .. m : i < j => First(s[i], longer) < First(s[j], longer)
    BY <1>8, <1>9
  <2>3. ASSUME NEW k \in 1 .. (n + 1)
        PROVE  \/ \E i \in 1 .. m : s[i] = longer[k]
               \/ m = limit /\ \A i \in 1 .. m : First(s[i], longer) < First(longer[k], longer)
    <3>1. CASE k \in 1 .. n
      <4>1. longer[k] = seq[k] /\ First(longer[k], longer) = First(seq[k], seq)
        BY <1>4, <1>7, <3>1
      <4>2. CASE \E i \in 1 .. m : s[i] = seq[k]
        BY <4>1, <4>2
      <4>3. CASE m = limit /\ \A i \in 1 .. m : First(s[i], seq) < First(seq[k], seq)
        <5>1. \A i \in 1 .. m : First(s[i], longer) < First(longer[k], longer)
          BY <1>9, <4>1, <4>3
        <5> QED
          BY <4>3, <5>1
      <4> QED
        BY <1>8, <3>1, <4>2, <4>3
    <3>2. CASE k = n + 1 /\ \E j \in 1 .. n : seq[j] = x
      <4>1. PICK j \in 1 .. n : seq[j] = x
        BY <3>2
      <4>2. longer[k] = seq[j]
        BY <1>4, <3>2, <4>1
      <4> QED
        BY <1>7, <1>8, <1>9, <4>2
    <3>3. CASE k = n + 1 /\ \A j \in 1 .. n : seq[j] # x
      <4>1. ~ \E i \in 1 .. m : s[i] = x
        BY <1>8, <3>3
      <4>2. m = limit
        BY <1>8, <1>11, <4>1
      <4>3. First(longer[k], longer) = n + 1
        BY <1>4, <1>10, <3>3
      <4>4. \A i \in 1 .. m : First(s[i], longer) \in 1 .. n
        BY <1>9
      <4>5. \A i \in 1 .. m : First(s[i], longer) < n + 1
        BY <4>4
      <4> QED
        BY <4>2, <4>3, <4>5
    <3> QED
      BY <1>5, <3>1, <3>2, <3>3
  <2>4. IsFirst(s, limit, longer)
    BY <1>2, <1>4, <1>8, <2>1, <2>2, <2>3 DEF IsFirst
  <2> QED
    BY <1>3, <1>11, <2>4
<1>12. CASE AddSample(s, limit, x) = Append(s, x) /\ m < limit /\ \A i \in 1 .. m : s[i] # x
  <2>1. PICK t \in Seq(X) : t = Append(s, x)
    BY AppendIs
  <2>2. Len(t) = m + 1 /\ t[m + 1] = x /\ \A i \in 1 .. m : t[i] = s[i]
    BY <1>2, <2>1
  <2>3. \A i \in 1 .. (m + 1) : i \in 1 .. m \/ i = m + 1
    OBVIOUS
  <2>4. \A i \in 1 .. m : i \in 1 .. (m + 1)
    OBVIOUS
  \* with room left, every value so far is a sample: x is new
  <2>5. \A k \in 1 .. n : \E i \in 1 .. m : s[i] = seq[k]
    BY <1>8, <1>12
  <2>6. \A k \in 1 .. n : seq[k] # x
    BY <1>12, <2>5
  <2>7. First(x, longer) = n + 1
    BY <1>10, <2>6
  <2>8. n + 1 \in 1 .. (n + 1) /\ m + 1 \in 1 .. (m + 1)
    OBVIOUS
  <2>9. Within(t, longer)
    <3>1. \A i \in 1 .. (m + 1) : \E k \in 1 .. (n + 1) : t[i] = longer[k]
      BY <1>4, <1>6, <1>8, <2>2, <2>3, <2>8
    <3> QED
      BY <1>4, <2>2, <3>1 DEF Within
  <2>10. \A i, j \in 1 .. (m + 1) : i < j => First(t[i], longer) < First(t[j], longer)
    <3>1. ASSUME NEW i \in 1 .. (m + 1), NEW j \in 1 .. (m + 1), i < j
          PROVE  First(t[i], longer) < First(t[j], longer)
      <4>1. i \in 1 .. m
        BY <3>1
      <4>2. t[i] = s[i] /\ First(s[i], longer) = First(s[i], seq) /\ First(s[i], seq) \in 1 .. n
        BY <1>9, <2>2, <4>1
      <4>3. CASE j \in 1 .. m
        <5>1. t[j] = s[j] /\ First(s[j], longer) = First(s[j], seq)
          BY <1>9, <2>2, <4>3
        <5> QED
          BY <1>8, <3>1, <4>1, <4>2, <4>3, <5>1
      <4>4. CASE j = m + 1
        BY <2>2, <2>7, <4>2, <4>4
      <4> QED
        BY <2>3, <4>3, <4>4
    <3> QED
      BY <3>1
  <2>11. \A k \in 1 .. (n + 1) : \E i \in 1 .. (m + 1) : t[i] = longer[k]
    BY <1>4, <1>5, <2>2, <2>4, <2>5, <2>8
  <2>12. m + 1 <= limit
    BY <1>12
  <2>13. IsFirst(t, limit, longer)
    BY <1>4, <2>2, <2>9, <2>10, <2>11, <2>12 DEF IsFirst
  <2> QED
    BY <1>3, <1>12, <2>1, <2>13
<1> QED
  BY <1>2, <1>11, <1>12, AddSampleIs

\* the samples of a sequence are its first distinct values
LEMMA AddedAreFirst ==
    ASSUME NEW X, NEW seq \in Seq(X), NEW limit \in Nat
    PROVE  IsFirst(AddSamples(<<>>, limit, seq), limit, seq)
<1> DEFINE T == {e \in Seq(X) : IsFirst(AddSamples(<<>>, limit, e), limit, e)}
<1>1. PICK none \in Seq(X) : none = <<>> /\ Len(none) = 0
  <2>1. <<>> \in Seq(X) /\ Len(<<>>) = 0
    OBVIOUS
  <2> QED
    BY <2>1
<1>2. none \in T
  <2>1. AddSamples(none, limit, none) = none
    BY <1>1, AddNothing
  <2>2. IsFirst(none, limit, none)
    BY <1>1 DEF IsFirst, Within
  <2> QED
    BY <1>1, <2>1, <2>2
<1>3. ASSUME NEW e \in Seq(X), NEW x \in X, e \in T
      PROVE  Append(e, x) \in T
  <2>1. PICK t \in Seq(X) : t = AddSamples(none, limit, e)
    BY AddSamplesType
  <2>2. IsFirst(t, limit, e)
    BY <1>1, <1>3, <2>1
  <2>3. AddSamples(none, limit, Append(e, x)) = AddSample(t, limit, x)
    BY <2>1, AddNext
  <2>4. IsFirst(AddSample(t, limit, x), limit, Append(e, x))
    BY <2>2, OneMoreFirst
  <2>5. Append(e, x) \in Seq(X)
    BY AppendIs
  <2> QED
    BY <1>1, <2>3, <2>4, <2>5
<1> HIDE DEF T
<1>4. Seq(X) \subseteq T
  BY <1>1, <1>2, <1>3, SeqInduction
<1> QED
  BY <1>4 DEF T

-----------------------------------------------------------------------------
(* What one more result does to each part of the Stats. *)

IDs == UNION {Range(r.batch) : r \in Results}
Texts == {r.err.message : r \in Results}

StatsSet ==
    [durations : Seq(Int), successes : Nat, failures : Nat, breakdown : [Classes -> Nat],
     failureSamples : [Classes -> Seq(Texts)],
     traceIDSamples : Seq(IDs), failedTraceIDSamples : Seq(IDs)]

\* the failed trace IDs of a result, and its message as one of a class
FailedOf(r) == IF r.err # NoError THEN r.batch ELSE <<>>
IsOf(r, class) == r.err # NoError /\ ClassifyError(r.err) = class
MessageOf(r, class) ==
    IF IsOf(r, class) /\ r.err.message # "" THEN <<r.err.message>> ELSE <<>>

LEMMA LimitsAreNumbers ==
    TraceIDSampleLimit \in Nat /\ MaxFailureSamplesPerClass \in Nat /\ Shards \in Nat
  BY MetricsAssumption

LEMMA ResultIs ==
    ASSUME NEW r \in Results
    PROVE  /\ r.batch \in Seq(IDs) /\ r.duration \in Int /\ r.err.message \in Texts
           /\ FailedOf(r) \in Seq(IDs) /\ \A c \in Classes : MessageOf(r, c) \in Seq(Texts)
<1>1. r.batch \in Seq(Range(r.batch)) /\ r.duration \in Int
  BY MetricsAssumption
<1>2. Range(r.batch) \subseteq IDs
  BY DEF IDs
<1>3. r.batch \in Seq(IDs)
  BY <1>1, <1>2, SeqMonotonic
<1>4. r.err.message \in Texts
  BY DEF Texts
<1>5. FailedOf(r) \in Seq(IDs)
  BY <1>3 DEF FailedOf
<1>6. <<r.err.message>> \in Seq(Texts)
  <2>1. PICK m \in Texts : m = r.err.message
    BY <1>4
  <2> QED
    BY <2>1
<1>7. \A c \in Classes : MessageOf(r, c) \in Seq(Texts)
  <2>1. <<>> \in Seq(Texts)
    OBVIOUS
  <2> QED
    BY <1>6, <2>1 DEF MessageOf
<1> QED
  BY <1>1, <1>3, <1>4, <1>5, <1>7

LEMMA AddOnly ==
    ASSUME NEW X, NEW s \in Seq(X), NEW limit, NEW x \in X
    PROVE  AddSamples(s, limit, <<x>>) = AddSample(s, limit, x)
<1>1. PICK none \in Seq(X) : none = <<>>
  <2>1. <<>> \in Seq(X)
    OBVIOUS
  <2> QED
    BY <2>1
<1>2. AddSamples(s, limit, Append(none, x)) = AddSample(AddSamples(s, limit, none), limit, x)
  BY AddNext
<1>3. Append(none, x) = <<x>>
  BY <1>1
<1>4. AddSamples(s, limit, none) = s
  BY <1>1, AddNothing
<1> QED
  BY <1>2, <1>3, <1>4

\* a batch that was cut to the limit brings the samples of the whole batch
LEMMA AddBatch ==
    ASSUME NEW s \in Seq(IDs), NEW batch \in Seq(IDs)
    PROVE  AddSamples(s, TraceIDSampleLimit, SampleTraceIDs(batch))
             = AddSamples(s, TraceIDSampleLimit, batch)
<1>1. PICK none \in Seq(IDs) : none = <<>> /\ Len(none) = 0
  <2>1. <<>> \in Seq(IDs) /\ Len(<<>>) = 0
    OBVIOUS
  <2> QED
    BY <2>1
<1>2. Distinct(none)
  BY <1>1 DEF Distinct
<1>3. AddSamples(s, TraceIDSampleLimit, AddSamples(none, TraceIDSampleLimit, batch))
        = AddSamples(AddSamples(s, TraceIDSampleLimit, none), TraceIDSampleLimit, batch)
  BY <1>2, AddCut, LimitsAreNumbers
<1>4. AddSamples(s, TraceIDSampleLimit, none) = s
  BY <1>1, AddNothing
<1> QED
  BY <1>1, <1>3, <1>4 DEF SampleTraceIDs

LEMMA StatsParts ==
    ASSUME NEW s \in StatsSet
    PROVE  /\ s.durations \in Seq(Int) /\ s.successes \in Nat /\ s.failures \in Nat
           /\ s.breakdown \in [Classes -> Nat] /\ s.failureSamples \in [Classes -> Seq(Texts)]
           /\ s.traceIDSamples \in Seq(IDs) /\ s.failedTraceIDSamples \in Seq(IDs)
  BY DEF StatsSet

\* what RecordFailure does to each part
LEMMA FailureIs ==
    ASSUME NEW s \in StatsSet, NEW r \in Results, r.err # NoError
    PROVE  LET t == RecordFailure(s, r.err)
           IN  /\ t \in StatsSet
               /\ t.durations = s.durations /\ t.successes = s.successes
               /\ t.failures = s.failures + 1
               /\ \A c \in Classes : t.breakdown[c]
                                        = s.breakdown[c] + IF IsOf(r, c) THEN 1 ELSE 0
               /\ \A c \in Classes : t.failureSamples[c]
                     = AddSamples(s.failureSamples[c], MaxFailureSamplesPerClass, MessageOf(r, c))
               /\ t.traceIDSamples = s.traceIDSamples
               /\ t.failedTraceIDSamples = s.failedTraceIDSamples
<1>1. PICK class : class = ClassifyError(r.err)
  OBVIOUS
<1>2. PICK text \in Texts : text = r.err.message
  BY ResultIs
<1> DEFINE samples == IF text = "" THEN s.failureSamples[class]
                      ELSE AddSample(s.failureSamples[class], MaxFailureSamplesPerClass, text)
           counts == [s.breakdown EXCEPT ![class] = @ + 1]
           told == [s.failureSamples EXCEPT ![class] = samples]
           t == [s EXCEPT !.failures = @ + 1, !.breakdown = counts, !.failureSamples = told]
<1>3. RecordFailure(s, r.err) = t
  BY <1>1, <1>2 DEF RecordFailure
<1>4. counts \in [Classes -> Nat]
      /\ \A c \in Classes : counts[c] = s.breakdown[c] + IF c = class THEN 1 ELSE 0
  <2>1. s.breakdown \in [Classes -> Nat]
    BY StatsParts
  <2>2. ASSUME NEW c \in Classes
        PROVE  counts[c] \in Nat /\ counts[c] = s.breakdown[c] + IF c = class THEN 1 ELSE 0
    <3>1. CASE c = class
      BY <2>1, <3>1
    <3>2. CASE c # class
      BY <2>1, <3>2
    <3> QED
      BY <3>1, <3>2
  <2> QED
    BY <2>1, <2>2
<1>5. \A c \in Classes : s.failureSamples[c] \in Seq(Texts)
  BY StatsParts
<1>6. told \in [Classes -> Seq(Texts)]
      /\ \A c \in Classes : told[c] = IF c = class THEN samples ELSE s.failureSamples[c]
  <2>1. s.failureSamples \in [Classes -> Seq(Texts)]
    BY StatsParts
  <2>2. class \in Classes => samples \in Seq(Texts)
    BY <1>5, AddSampleType
  <2> HIDE DEF samples
  <2>3. ASSUME NEW c \in Classes
        PROVE  told[c] \in Seq(Texts)
               /\ told[c] = IF c = class THEN samples ELSE s.failureSamples[c]
    <3>1. CASE c = class
      BY <2>1, <2>2, <3>1
    <3>2. CASE c # class
      BY <2>1, <3>2
    <3> QED
      BY <3>1, <3>2
  <2> QED
    BY <2>1, <2>3
<1>7. ASSUME NEW c \in Classes
      PROVE  told[c]
               = AddSamples(s.failureSamples[c], MaxFailureSamplesPerClass, MessageOf(r, c))
  <2>1. PICK old \in Seq(Texts) : old = s.failureSamples[c]
    BY <1>5
  <2>2. CASE c = class /\ text # ""
    <3>1. MessageOf(r, c) = <<text>>
      BY <1>1, <1>2, <2>2 DEF MessageOf, IsOf
    <3>2. AddSamples(old, MaxFailureSamplesPerClass, <<text>>)
            = AddSample(old, MaxFailureSamplesPerClass, text)
      BY AddOnly
    <3> QED
      BY <1>6, <2>1, <2>2, <3>1, <3>2
  <2>3. CASE ~(c = class /\ text # "")
    <3>1. MessageOf(r, c) = <<>>
      BY <1>1, <1>2, <2>3 DEF MessageOf, IsOf
    <3>2. AddSamples(old, MaxFailureSamplesPerClass, <<>>) = old
      BY AddNothing
    <3>3. told[c] = old
      BY <1>6, <2>1, <2>3
    <3> QED
      BY <2>1, <3>1, <3>2, <3>3
  <2> QED
    BY <2>2, <2>3
<1>8. \A c \in Classes : c = class <=> IsOf(r, c)
  BY <1>1 DEF IsOf
<1> HIDE DEF counts, told, samples
<1>9. /\ t \in StatsSet
      /\ t.durations = s.durations /\ t.successes = s.successes /\ t.failures = s.failures + 1
      /\ t.breakdown = counts /\ t.failureSamples = told
      /\ t.traceIDSamples = s.traceIDSamples
      /\ t.failedTraceIDSamples = s.failedTraceIDSamples
  <2>1. PICK n \in Nat : n = s.failures + 1
    BY StatsParts
  <2>2. PICK b \in [Classes -> Nat] : b = counts
    BY <1>4
  <2>3. PICK f \in [Classes -> Seq(Texts)] : f = told
    BY <1>6
  <2>4. PICK u : u = [s EXCEPT !.failures = n, !.breakdown = b, !.failureSamples = f]
    OBVIOUS
  <2>5. /\ u \in StatsSet /\ u.durations = s.durations /\ u.successes = s.successes
        /\ u.failures = n /\ u.breakdown = b /\ u.failureSamples = f
        /\ u.traceIDSamples = s.traceIDSamples
        /\ u.failedTraceIDSamples = s.failedTraceIDSamples
    BY <2>4 DEF StatsSet
  <2>6. t = u
    BY <2>1, <2>2, <2>3, <2>4
  <2> HIDE DEF t
  <2> QED
    BY <2>1, <2>2, <2>3, <2>5, <2>6
<1> HIDE DEF t
<1>10. \A c \in Classes : counts[c] = s.breakdown[c] + IF IsOf(r, c) THEN 1 ELSE 0
  BY <1>4, <1>8
<1> QED
  BY <1>3, <1>7, <1>9, <1>10

\* t is s with the result r
Grown(s, t, r) ==
    /\ t.durations = Append(s.durations, r.duration)
    /\ t.successes = s.successes + IF r.err = NoError THEN 1 ELSE 0
    /\ t.failures = s.failures + IF r.err = NoError THEN 0 ELSE 1
    /\ \A c \in Classes : t.breakdown[c] = s.breakdown[c] + IF IsOf(r, c) THEN 1 ELSE 0
    /\ \A c \in Classes : t.failureSamples[c]
          = AddSamples(s.failureSamples[c], MaxFailureSamplesPerClass, MessageOf(r, c))
    /\ t.traceIDSamples = AddSamples(s.traceIDSamples, TraceIDSampleLimit, r.batch)
    /\ t.failedTraceIDSamples
          = AddSamples(s.failedTraceIDSamples, TraceIDSampleLimit, FailedOf(r))

\* what RecordWithTraceIDs does to each part
LEMMA RecordIs ==
    ASSUME NEW s \in StatsSet, NEW r \in Results
    PROVE  RecordWithTraceIDs(s, r) \in StatsSet /\ Grown(s, RecordWithTraceIDs(s, r), r)
<1> DEFINE timed == [s EXCEPT !.durations = Append(s.durations, r.duration)]
           failed == r.err # NoError
           counted == IF failed THEN RecordFailure(timed, r.err)
                      ELSE [timed EXCEPT !.successes = timed.successes + 1]
<1>1. /\ timed \in StatsSet
      /\ timed.durations = Append(s.durations, r.duration) /\ timed.successes = s.successes
      /\ timed.failures = s.failures /\ timed.breakdown = s.breakdown
      /\ timed.failureSamples = s.failureSamples /\ timed.traceIDSamples = s.traceIDSamples
      /\ timed.failedTraceIDSamples = s.failedTraceIDSamples
  <2>1. PICK d : d = Append(s.durations, r.duration)
    OBVIOUS
  <2>2. d \in Seq(Int)
    BY <2>1, StatsParts, ResultIs, AppendIs
  <2> QED
    BY <2>1, <2>2 DEF StatsSet
<1>2. RecordWithTraceIDs(s, r) = RecordTraceIDs(counted, SampleTraceIDs(r.batch), failed)
  BY DEF RecordWithTraceIDs
<1> HIDE DEF timed
<1>3. /\ counted \in StatsSet /\ counted.durations = timed.durations
      /\ counted.successes = timed.successes + IF r.err = NoError THEN 1 ELSE 0
      /\ counted.failures = timed.failures + IF r.err = NoError THEN 0 ELSE 1
      /\ \A c \in Classes : counted.breakdown[c]
                               = timed.breakdown[c] + IF IsOf(r, c) THEN 1 ELSE 0
      /\ \A c \in Classes : counted.failureSamples[c]
            = AddSamples(timed.failureSamples[c], MaxFailureSamplesPerClass, MessageOf(r, c))
      /\ counted.traceIDSamples = timed.traceIDSamples
      /\ counted.failedTraceIDSamples = timed.failedTraceIDSamples
  <2>1. CASE failed
    <3>1. PICK t : t = RecordFailure(timed, r.err)
      OBVIOUS
    <3>2. counted = t
      BY <2>1, <3>1
    <3> HIDE DEF counted
    <3>3. /\ t \in StatsSet
          /\ t.durations = timed.durations /\ t.successes = timed.successes
          /\ t.failures = timed.failures + 1
          /\ \A c \in Classes : t.breakdown[c]
                                   = timed.breakdown[c] + IF IsOf(r, c) THEN 1 ELSE 0
          /\ \A c \in Classes : t.failureSamples[c]
               = AddSamples(timed.failureSamples[c], MaxFailureSamplesPerClass, MessageOf(r, c))
          /\ t.traceIDSamples = timed.traceIDSamples
          /\ t.failedTraceIDSamples = timed.failedTraceIDSamples
      BY <1>1, <2>1, <3>1, FailureIs
    <3>4. t.successes = timed.successes + 0
      BY <1>1, <3>3, StatsParts
    <3> QED
      BY <2>1, <3>2, <3>3, <3>4
  <2>2. CASE ~failed
    <3>1. PICK u \in StatsSet : u = timed
      BY <1>1
    <3> DEFINE t == [u EXCEPT !.successes = u.successes + 1]
    <3>2. PICK n \in Nat : n = u.successes + 1
      BY StatsParts
    <3>3. counted = t
      BY <2>2, <3>1
    <3> HIDE DEF counted
    <3>4. /\ t \in StatsSet /\ t.durations = u.durations /\ t.successes = u.successes + 1
          /\ t.failures = u.failures /\ t.breakdown = u.breakdown
          /\ t.failureSamples = u.failureSamples /\ t.traceIDSamples = u.traceIDSamples
          /\ t.failedTraceIDSamples = u.failedTraceIDSamples
      <4>1. PICK v : v = [u EXCEPT !.successes = n]
        OBVIOUS
      <4>2. /\ v \in StatsSet /\ v.durations = u.durations /\ v.successes = n
            /\ v.failures = u.failures /\ v.breakdown = u.breakdown
            /\ v.failureSamples = u.failureSamples /\ v.traceIDSamples = u.traceIDSamples
            /\ v.failedTraceIDSamples = u.failedTraceIDSamples
        BY <4>1 DEF StatsSet
      <4>3. t = v
        BY <3>2, <4>1
      <4> HIDE DEF t
      <4> QED
        BY <3>2, <4>2, <4>3
    <3> HIDE DEF t
    <3>5. \A c \in Classes : ~IsOf(r, c) /\ MessageOf(r, c) = <<>>
      BY <2>2 DEF IsOf, MessageOf
    <3>6. \A c \in Classes : u.breakdown[c] = u.breakdown[c] + 0
                               /\ u.failureSamples[c] \in Seq(Texts)
      BY StatsParts
    <3>7. \A c \in Classes : u.failureSamples[c]
            = AddSamples(u.failureSamples[c], MaxFailureSamplesPerClass, MessageOf(r, c))
      BY <3>5, <3>6, AddNothing
    <3>8. u.failures = u.failures + 0
      BY StatsParts
    <3> QED
      BY <2>2, <3>1, <3>3, <3>4, <3>5, <3>6, <3>7, <3>8
  <2> QED
    BY <2>1, <2>2
<1> HIDE DEF counted
<1>4. PICK a \in Seq(IDs) : a = counted.traceIDSamples
  BY <1>3, StatsParts
<1>5. PICK b \in Seq(IDs) : b = counted.failedTraceIDSamples
  BY <1>3, StatsParts
<1>6. r.batch \in Seq(IDs)
  BY ResultIs
<1>7. PICK a2 \in Seq(IDs) : a2 = AddSamples(a, TraceIDSampleLimit, r.batch)
  BY <1>6, AddSamplesType
<1>8. PICK b2 \in Seq(IDs) : b2 = AddSamples(b, TraceIDSampleLimit, FailedOf(r))
  BY ResultIs, AddSamplesType
<1>9. a2 = AddSamples(a, TraceIDSampleLimit, SampleTraceIDs(r.batch))
  BY <1>6, <1>7, AddBatch
<1>10. b2 = IF failed THEN AddSamples(b, TraceIDSampleLimit, SampleTraceIDs(r.batch)) ELSE b
  <2>1. CASE failed
    BY <1>6, <1>8, <2>1, AddBatch DEF FailedOf
  <2>2. CASE ~failed
    BY <1>8, <2>2, AddNothing DEF FailedOf
  <2> QED
    BY <2>1, <2>2
<1>11. PICK t : t = [counted EXCEPT !.traceIDSamples = a2, !.failedTraceIDSamples = b2]
  OBVIOUS
<1>12. RecordWithTraceIDs(s, r) = t
  BY <1>2, <1>4, <1>5, <1>9, <1>10, <1>11 DEF RecordTraceIDs
<1>13. /\ t \in StatsSet /\ t.durations = counted.durations
       /\ t.successes = counted.successes /\ t.failures = counted.failures
       /\ t.breakdown = counted.breakdown /\ t.failureSamples = counted.failureSamples
       /\ t.traceIDSamples = a2 /\ t.failedTraceIDSamples = b2
  BY <1>3, <1>11 DEF StatsSet
<1>14. Grown(s, t, r)
  BY <1>1, <1>3, <1>4, <1>5, <1>7, <1>8, <1>13 DEF Grown
<1> QED
  BY <1>12, <1>13, <1>14

-----------------------------------------------------------------------------
(* The Stats of a sequence of results. *)

NewStatsFacts ==
    /\ NewStats \in StatsSet /\ NewStats.durations = <<>> /\ NewStats.successes = 0
    /\ NewStats.failures = 0 /\ \A c \in Classes : NewStats.breakdown[c] = 0
    /\ \A c \in Classes : NewStats.failureSamples[c] = <<>>
    /\ NewStats.traceIDSamples = <<>> /\ NewStats.failedTraceIDSamples = <<>>

LEMMA NewStatsAre == NewStatsFacts
  BY DEF NewStatsFacts, NewStats, StatsSet

IsReplay(g, rs) ==
    g[0] = NewStats /\ \A k \in 1 .. Len(rs) : g[k] = RecordWithTraceIDs(g[k - 1], rs[k])

\* the function that Replay builds exists
LEMMA ReplayIs ==
    ASSUME NEW rs \in Seq(Results)
    PROVE  Replay(rs) \in StatsSet /\ \E g : IsReplay(g, rs) /\ Replay(rs) = g[Len(rs)]
<1>1. PICK N \in Nat : N = Len(rs)
  OBVIOUS
<1> DEFINE S == StatsSet
           F == [p \in S \X (1 .. N) |-> RecordWithTraceIDs(p[1], rs[p[2]])]
           Def(g) == g = [k \in 0 .. N |-> IF k = 0 THEN NewStats
                                           ELSE RecordWithTraceIDs(g[k - 1], rs[k])]
<1>2. \A k \in 1 .. N : rs[k] \in Results
  BY <1>1
<1>3. \A t \in S, k \in 1 .. N : RecordWithTraceIDs(t, rs[k]) \in S
  BY <1>2, RecordIs
<1>4. Rule(F, S, N)
  <2>1. \A p \in S \X (1 .. N) : F[p] \in S
    BY <1>3
  <2> QED
    BY <2>1 DEF Rule
<1>5. \A t \in S, k \in 1 .. N : F[<<t, k>>] = RecordWithTraceIDs(t, rs[k])
  OBVIOUS
<1>6. NewStats \in S
  BY NewStatsAre DEF NewStatsFacts
<1> HIDE DEF F, S
<1>7. PICK g : Follows(g, F, S, N, NewStats)
  BY <1>4, <1>6, Recursion
<1>8. /\ g \in [0 .. N -> S] /\ g[0] = NewStats
      /\ \A k \in 1 .. N : g[k] = RecordWithTraceIDs(g[k - 1], rs[k])
  <2>1. g \in [0 .. N -> S] /\ g[0] = NewStats /\ \A k \in 1 .. N : g[k] = F[<<g[k - 1], k>>]
    BY <1>7 DEF Follows
  <2>2. \A k \in 1 .. N : k - 1 \in 0 .. N
    OBVIOUS
  <2>3. \A k \in 1 .. N : g[k - 1] \in S
    BY <2>1, <2>2
  <2> QED
    BY <1>5, <2>1, <2>3
<1>9. Def(g)
  <2>1. \A k \in 0 .. N : k = 0 \/ k \in 1 .. N
    OBVIOUS
  <2>2. \A k \in 0 .. N :
            g[k] = IF k = 0 THEN NewStats ELSE RecordWithTraceIDs(g[k - 1], rs[k])
    BY <1>8, <2>1
  <2> QED
    BY <1>8, <2>2
<1> DEFINE h == CHOOSE f : Def(f)
<1>10. Def(h)
  BY <1>9
<1>11. h[0] = NewStats /\ \A k \in 1 .. N : h[k] = RecordWithTraceIDs(h[k - 1], rs[k])
  <2>1. 0 \in 0 .. N /\ \A k \in 1 .. N : k \in 0 .. N /\ k # 0
    OBVIOUS
  <2> QED
    BY <1>10, <2>1
<1>12. Replay(rs) = h[N]
  BY <1>1 DEF Replay
<1> HIDE DEF h, Def
<1> DEFINE T == {k \in 0 .. N : h[k] \in S}
<1>13. 0 \in T
  BY <1>6, <1>11
<1>14. ASSUME NEW k \in 1 .. N, k - 1 \in T
       PROVE  k \in T
  BY <1>3, <1>11, <1>14
<1> HIDE DEF T
<1>15. 0 .. N \subseteq T
  BY <1>13, <1>14, InductionTo
<1>16. h[N] \in S
  <2>1. N \in 0 .. N
    OBVIOUS
  <2> QED
    BY <1>15, <2>1 DEF T
<1>17. IsReplay(h, rs)
  BY <1>1, <1>11 DEF IsReplay
<1> QED
  BY <1>1, <1>12, <1>16, <1>17 DEF S

LEMMA ReplayNone == Replay(<<>>) = NewStats
<1>1. PICK none \in Seq(Results) : none = <<>> /\ Len(none) = 0
  <2>1. <<>> \in Seq(Results) /\ Len(<<>>) = 0
    OBVIOUS
  <2> QED
    BY <2>1
<1>2. PICK g : IsReplay(g, none) /\ Replay(none) = g[Len(none)]
  BY ReplayIs
<1> QED
  BY <1>1, <1>2 DEF IsReplay

LEMMA ReplayOneMore ==
    ASSUME NEW rs \in Seq(Results), NEW r \in Results
    PROVE  Replay(Append(rs, r)) = RecordWithTraceIDs(Replay(rs), r)
<1>1. PICK N \in Nat : N = Len(rs)
  OBVIOUS
<1>2. PICK ts \in Seq(Results) : ts = Append(rs, r)
  BY AppendIs
<1>3. Len(ts) = N + 1 /\ ts[N + 1] = r /\ \A k \in 1 .. N : ts[k] = rs[k]
  BY <1>1, <1>2
<1>4. PICK g : IsReplay(g, rs) /\ Replay(rs) = g[N]
  BY <1>1, ReplayIs
<1>5. PICK h : IsReplay(h, ts) /\ Replay(ts) = h[N + 1]
  BY <1>3, ReplayIs
<1>6. g[0] = NewStats /\ \A k \in 1 .. N : g[k] = RecordWithTraceIDs(g[k - 1], rs[k])
  BY <1>1, <1>4 DEF IsReplay
<1>7. h[0] = NewStats /\ \A k \in 1 .. (N + 1) : h[k] = RecordWithTraceIDs(h[k - 1], ts[k])
  BY <1>3, <1>5 DEF IsReplay
<1> DEFINE T == {k \in 0 .. N : g[k] = h[k]}
<1>8. 0 \in T
  BY <1>6, <1>7
<1>9. ASSUME NEW k \in 1 .. N, k - 1 \in T
      PROVE  k \in T
  <2>1. k \in 1 .. (N + 1) /\ k \in 0 .. N /\ g[k - 1] = h[k - 1] /\ rs[k] = ts[k]
    BY <1>3, <1>9
  <2>2. g[k] = RecordWithTraceIDs(g[k - 1], rs[k])
    BY <1>6
  <2>3. h[k] = RecordWithTraceIDs(h[k - 1], ts[k])
    BY <1>7, <2>1
  <2>4. g[k] = h[k]
    BY <2>1, <2>2, <2>3
  <2> QED
    BY <2>1, <2>4
<1> HIDE DEF T
<1>10. 0 .. N \subseteq T
  BY <1>8, <1>9, InductionTo
<1>11. g[N] = h[N]
  <2>1. N \in 0 .. N
    OBVIOUS
  <2> QED
    BY <1>10, <2>1 DEF T
<1>12. h[N + 1] = RecordWithTraceIDs(h[N], r)
  <2>1. N + 1 \in 1 .. (N + 1) /\ (N + 1) - 1 = N
    OBVIOUS
  <2> QED
    BY <1>3, <1>7, <2>1
<1> QED
  BY <1>2, <1>4, <1>5, <1>11, <1>12

LEMMA ConcatAppend ==
    ASSUME NEW X, NEW xs \in Seq(X), NEW ys \in Seq(X), NEW y \in X
    PROVE  xs \o Append(ys, y) = Append(xs \o ys, y)
<1>1. PICK m \in Nat : m = Len(xs)
  OBVIOUS
<1>2. PICK n \in Nat : n = Len(ys)
  OBVIOUS
<1>3. PICK u \in Seq(X) : u = xs \o ys
  BY ConcatProperties
<1>4. PICK zs \in Seq(X) : zs = Append(ys, y)
  BY AppendIs
<1>5. PICK v \in Seq(X) : v = Append(u, y)
  BY AppendIs
<1>6. PICK w \in Seq(X) : w = xs \o zs
  BY ConcatProperties
<1>7. Len(u) = m + n /\ \A i \in 1 .. (m + n) : u[i] = IF i <= m THEN xs[i] ELSE ys[i - m]
  BY <1>1, <1>2, <1>3, ConcatProperties
<1>8. Len(zs) = n + 1 /\ zs[n + 1] = y /\ \A i \in 1 .. n : zs[i] = ys[i]
  BY <1>2, <1>4
<1>9. Len(v) = m + n + 1 /\ v[m + n + 1] = y /\ \A i \in 1 .. (m + n) : v[i] = u[i]
  BY <1>5, <1>7
<1>10. /\ Len(w) = m + n + 1
       /\ \A i \in 1 .. (m + n + 1) : w[i] = IF i <= m THEN xs[i] ELSE zs[i - m]
  <2>1. Len(xs \o zs) = Len(xs) + Len(zs)
    BY ConcatProperties
  <2>2. \A i \in 1 .. Len(xs) + Len(zs) :
            (xs \o zs)[i] = IF i <= Len(xs) THEN xs[i] ELSE zs[i - Len(xs)]
    BY ConcatProperties
  <2>3. Len(xs) + Len(zs) = m + n + 1
    BY <1>1, <1>8
  <2>4. Len(w) = m + n + 1
    BY <1>6, <2>1, <2>3
  <2>5. \A i \in 1 .. m + n + 1 : w[i] = IF i <= m THEN xs[i] ELSE zs[i - m]
    BY <1>1, <1>6, <2>2, <2>3
  <2> QED
    BY <2>4, <2>5
<1>11. ASSUME NEW i \in 1 .. (m + n + 1)
       PROVE  w[i] = v[i]
  <2>1. CASE i <= m
    <3>1. i \in 1 .. (m + n)
      BY <2>1
    <3> QED
      BY <1>7, <1>9, <1>10, <2>1, <3>1
  <2>2. CASE ~(i <= m) /\ i # m + n + 1
    <3>1. i \in 1 .. (m + n) /\ i - m \in 1 .. n
      BY <2>2
    <3> QED
      BY <1>7, <1>8, <1>9, <1>10, <2>2, <3>1
  <2>3. CASE i = m + n + 1
    <3>1. i - m = n + 1 /\ ~(i <= m)
      BY <2>3
    <3> QED
      BY <1>8, <1>9, <1>10, <2>3, <3>1
  <2> QED
    BY <2>1, <2>2, <2>3
<1>12. w = v
  BY <1>9, <1>10, <1>11, SeqEqual
<1> QED
  BY <1>3, <1>4, <1>5, <1>6, <1>12

\* samples are taken one sequence after the other
LEMMA AddConcat ==
    ASSUME NEW X, NEW s \in Seq(X), NEW limit \in Nat, NEW xs \in Seq(X), NEW ys \in Seq(X)
    PROVE  AddSamples(s, limit, xs \o ys) = AddSamples(AddSamples(s, limit, xs), limit, ys)
<1> DEFINE P(e) == AddSamples(s, limit, xs \o e)
                     = AddSamples(AddSamples(s, limit, xs), limit, e)
           T == {e \in Seq(X) : P(e)}
<1>1. PICK t \in Seq(X) : t = AddSamples(s, limit, xs)
  BY AddSamplesType
<1>2. <<>> \in T
  <2>1. xs \o <<>> = xs
    BY ConcatEmptySeq
  <2>2. AddSamples(t, limit, <<>>) = t
    BY AddNothing
  <2>3. <<>> \in Seq(X)
    OBVIOUS
  <2> QED
    BY <1>1, <2>1, <2>2, <2>3
<1>3. ASSUME NEW e \in Seq(X), NEW x \in X, e \in T
      PROVE  Append(e, x) \in T
  <2>1. PICK u \in Seq(X) : u = xs \o e
    BY ConcatProperties
  <2>2. xs \o Append(e, x) = Append(u, x)
    BY <2>1, ConcatAppend
  <2>3. AddSamples(s, limit, Append(u, x)) = AddSample(AddSamples(s, limit, u), limit, x)
    BY AddNext
  <2>4. AddSamples(t, limit, Append(e, x)) = AddSample(AddSamples(t, limit, e), limit, x)
    BY AddNext
  <2>5. AddSamples(s, limit, u) = AddSamples(t, limit, e)
    BY <1>1, <1>3, <2>1
  <2>6. Append(e, x) \in Seq(X)
    BY AppendIs
  <2> QED
    BY <1>1, <2>2, <2>3, <2>4, <2>5, <2>6
<1> HIDE DEF T
<1>4. Seq(X) \subseteq T
  BY <1>2, <1>3, SeqInduction
<1> QED
  BY <1>4 DEF T

Durations(rs) == [k \in DOMAIN rs |-> rs[k].duration]
Successes(rs) == [k \in DOMAIN rs |-> IF rs[k].err = NoError THEN 1 ELSE 0]
Failures(rs)  == [k \in DOMAIN rs |-> IF rs[k].err = NoError THEN 0 ELSE 1]
InClass(rs, class) == [k \in DOMAIN rs |-> IF IsOf(rs[k], class) THEN 1 ELSE 0]
Batches(rs)   == [k \in DOMAIN rs |-> rs[k].batch]
FailedBatches(rs) == [k \in DOMAIN rs |-> FailedOf(rs[k])]
Texted(rs, class) == [k \in DOMAIN rs |-> MessageOf(rs[k], class)]

\* what each part is made of, result by result
LEMMA MappedIs ==
    ASSUME NEW rs \in Seq(Results)
    PROVE  /\ Durations(rs) \in Seq(Int) /\ Successes(rs) \in Seq(Int)
           /\ Failures(rs) \in Seq(Int) /\ \A c \in Classes : InClass(rs, c) \in Seq(Int)
           /\ Batches(rs) \in Seq(Seq(IDs)) /\ FailedBatches(rs) \in Seq(Seq(IDs))
           /\ \A c \in Classes : Texted(rs, c) \in Seq(Seq(Texts))
           /\ TraceIDs(rs) = FlattenSeq(Batches(rs))
           /\ FailedTraceIDs(rs) = FlattenSeq(FailedBatches(rs))
           /\ \A c \in Classes : Messages(rs, c) = FlattenSeq(Texted(rs, c))
<1>1. PICK N \in Nat : N = Len(rs) /\ DOMAIN rs = 1 .. N
  OBVIOUS
<1>2. \A k \in 1 .. N : rs[k] \in Results
  BY <1>1
<1>3. Durations(rs) \in Seq(Int)
  <2>1. \A k \in 1 .. N : rs[k].duration \in Int
    BY <1>2, ResultIs
  <2> QED
    BY <1>1, <2>1 DEF Durations
<1>4. Successes(rs) \in Seq(Int) /\ Failures(rs) \in Seq(Int)
  BY <1>1 DEF Successes, Failures
<1>5. \A c \in Classes : InClass(rs, c) \in Seq(Int)
  BY <1>1 DEF InClass
<1>6. Batches(rs) \in Seq(Seq(IDs)) /\ FailedBatches(rs) \in Seq(Seq(IDs))
  <2>1. \A k \in 1 .. N : rs[k].batch \in Seq(IDs) /\ FailedOf(rs[k]) \in Seq(IDs)
    BY <1>2, ResultIs
  <2> QED
    BY <1>1, <2>1 DEF Batches, FailedBatches
<1>7. \A c \in Classes : Texted(rs, c) \in Seq(Seq(Texts))
  <2>1. \A c \in Classes : \A k \in 1 .. N : MessageOf(rs[k], c) \in Seq(Texts)
    BY <1>2, ResultIs
  <2> QED
    BY <1>1, <2>1 DEF Texted
<1>8. /\ TraceIDs(rs) = FlattenSeq(Batches(rs))
      /\ FailedTraceIDs(rs) = FlattenSeq(FailedBatches(rs))
  BY DEF TraceIDs, FailedTraceIDs, Batches, FailedBatches, FailedOf
<1>9. \A c \in Classes : Messages(rs, c) = FlattenSeq(Texted(rs, c))
  BY DEF Messages, Texted, MessageOf, IsOf
<1> QED
  BY <1>3, <1>4, <1>5, <1>6, <1>7, <1>8, <1>9

LEMMA MappedOneMore ==
    ASSUME NEW rs \in Seq(Results), NEW r \in Results
    PROVE  LET ts == Append(rs, r)
           IN  /\ Durations(ts) = Append(Durations(rs), r.duration)
               /\ Successes(ts) = Append(Successes(rs), IF r.err = NoError THEN 1 ELSE 0)
               /\ Failures(ts) = Append(Failures(rs), IF r.err = NoError THEN 0 ELSE 1)
               /\ \A c \in Classes :
                     InClass(ts, c) = Append(InClass(rs, c), IF IsOf(r, c) THEN 1 ELSE 0)
               /\ Batches(ts) = Append(Batches(rs), r.batch)
               /\ FailedBatches(ts) = Append(FailedBatches(rs), FailedOf(r))
               /\ \A c \in Classes : Texted(ts, c) = Append(Texted(rs, c), MessageOf(r, c))
<1>1. PICK N \in Nat : N = Len(rs) /\ DOMAIN rs = 1 .. N
  OBVIOUS
<1>2. PICK ts \in Seq(Results) : ts = Append(rs, r)
  BY AppendIs
<1>3. /\ DOMAIN ts = 1 .. (N + 1) /\ ts[N + 1] = r /\ \A k \in 1 .. N : ts[k] = rs[k]
  BY <1>1, <1>2
<1>4. \A k \in 1 .. (N + 1) : k \in 1 .. N \/ k = N + 1
  OBVIOUS
\* two ways to write a sequence
<1>5. ASSUME NEW X, NEW old \in Seq(X), NEW x \in X, NEW new \in Seq(X), Len(old) = N,
             Len(new) = N + 1, new[N + 1] = x, \A k \in 1 .. N : new[k] = old[k]
      PROVE  new = Append(old, x)
  <2>1. PICK a \in Seq(X) : a = Append(old, x)
    BY AppendIs
  <2>2. Len(a) = N + 1 /\ a[N + 1] = x /\ \A k \in 1 .. N : a[k] = old[k]
    BY <1>5, <2>1
  <2>3. \A k \in 1 .. (N + 1) : a[k] = new[k]
    BY <1>4, <1>5, <2>2
  <2> QED
    BY <1>5, <2>1, <2>2, <2>3, SeqEqual
<1>6. r.duration \in Int /\ r.batch \in Seq(IDs) /\ FailedOf(r) \in Seq(IDs)
      /\ \A c \in Classes : MessageOf(r, c) \in Seq(Texts)
  BY ResultIs
<1>7. Durations(ts) = Append(Durations(rs), r.duration)
  <2>1. Durations(ts) \in Seq(Int) /\ Durations(rs) \in Seq(Int)
    BY MappedIs
  <2>2. /\ Len(Durations(rs)) = N /\ Len(Durations(ts)) = N + 1
        /\ Durations(ts)[N + 1] = r.duration
        /\ \A k \in 1 .. N : Durations(ts)[k] = Durations(rs)[k]
    BY <1>1, <1>3 DEF Durations
  <2> QED
    BY <1>5, <1>6, <2>1, <2>2
<1>8. Successes(ts) = Append(Successes(rs), IF r.err = NoError THEN 1 ELSE 0)
  <2>1. Successes(ts) \in Seq(Int) /\ Successes(rs) \in Seq(Int)
    BY MappedIs
  <2>2. PICK x \in Int : x = IF r.err = NoError THEN 1 ELSE 0
    OBVIOUS
  <2>3. /\ Len(Successes(rs)) = N /\ Len(Successes(ts)) = N + 1 /\ Successes(ts)[N + 1] = x
        /\ \A k \in 1 .. N : Successes(ts)[k] = Successes(rs)[k]
    BY <1>1, <1>3, <2>2 DEF Successes
  <2> QED
    BY <1>5, <2>1, <2>2, <2>3
<1>9. Failures(ts) = Append(Failures(rs), IF r.err = NoError THEN 0 ELSE 1)
  <2>1. Failures(ts) \in Seq(Int) /\ Failures(rs) \in Seq(Int)
    BY MappedIs
  <2>2. PICK x \in Int : x = IF r.err = NoError THEN 0 ELSE 1
    OBVIOUS
  <2>3. /\ Len(Failures(rs)) = N /\ Len(Failures(ts)) = N + 1 /\ Failures(ts)[N + 1] = x
        /\ \A k \in 1 .. N : Failures(ts)[k] = Failures(rs)[k]
    BY <1>1, <1>3, <2>2 DEF Failures
  <2> QED
    BY <1>5, <2>1, <2>2, <2>3
<1>10. ASSUME NEW c \in Classes
       PROVE  InClass(ts, c) = Append(InClass(rs, c), IF IsOf(r, c) THEN 1 ELSE 0)
  <2>1. InClass(ts, c) \in Seq(Int) /\ InClass(rs, c) \in Seq(Int)
    BY MappedIs
  <2>2. PICK x \in Int : x = IF IsOf(r, c) THEN 1 ELSE 0
    OBVIOUS
  <2>3. /\ Len(InClass(rs, c)) = N /\ Len(InClass(ts, c)) = N + 1 /\ InClass(ts, c)[N + 1] = x
        /\ \A k \in 1 .. N : InClass(ts, c)[k] = InClass(rs, c)[k]
    BY <1>1, <1>3, <2>2 DEF InClass
  <2> QED
    BY <1>5, <2>1, <2>2, <2>3
<1>11. Batches(ts) = Append(Batches(rs), r.batch)
  <2>1. Batches(ts) \in Seq(Seq(IDs)) /\ Batches(rs) \in Seq(Seq(IDs))
    BY MappedIs
  <2>2. /\ Len(Batches(rs)) = N /\ Len(Batches(ts)) = N + 1 /\ Batches(ts)[N + 1] = r.batch
        /\ \A k \in 1 .. N : Batches(ts)[k] = Batches(rs)[k]
    BY <1>1, <1>3 DEF Batches
  <2> QED
    BY <1>5, <1>6, <2>1, <2>2
<1>12. FailedBatches(ts) = Append(FailedBatches(rs), FailedOf(r))
  <2>1. FailedBatches(ts) \in Seq(Seq(IDs)) /\ FailedBatches(rs) \in Seq(Seq(IDs))
    BY MappedIs
  <2>2. /\ Len(FailedBatches(rs)) = N /\ Len(FailedBatches(ts)) = N + 1
        /\ FailedBatches(ts)[N + 1] = FailedOf(r)
        /\ \A k \in 1 .. N : FailedBatches(ts)[k] = FailedBatches(rs)[k]
    BY <1>1, <1>3 DEF FailedBatches
  <2> QED
    BY <1>5, <1>6, <2>1, <2>2
<1>13. ASSUME NEW c \in Classes
       PROVE  Texted(ts, c) = Append(Texted(rs, c), MessageOf(r, c))
  <2>1. Texted(ts, c) \in Seq(Seq(Texts)) /\ Texted(rs, c) \in Seq(Seq(Texts))
    BY MappedIs
  <2>2. /\ Len(Texted(rs, c)) = N /\ Len(Texted(ts, c)) = N + 1
        /\ Texted(ts, c)[N + 1] = MessageOf(r, c)
        /\ \A k \in 1 .. N : Texted(ts, c)[k] = Texted(rs, c)[k]
    BY <1>1, <1>3 DEF Texted
  <2> QED
    BY <1>5, <1>6, <2>1, <2>2
<1> QED
  BY <1>2, <1>7, <1>8, <1>9, <1>10, <1>11, <1>12, <1>13

-----------------------------------------------------------------------------
(* The Stats of a sequence of results, part by part. *)

\* s is what the results rs leave behind
Portrait(s, rs) ==
    /\ s.durations = Durations(rs)
    /\ s.successes = Sum(Successes(rs)) /\ s.failures = Sum(Failures(rs))
    /\ \A c \in Classes : s.breakdown[c] = Sum(InClass(rs, c))
    /\ \A c \in Classes : s.failureSamples[c]
          = AddSamples(<<>>, MaxFailureSamplesPerClass, Messages(rs, c))
    /\ s.traceIDSamples = AddSamples(<<>>, TraceIDSampleLimit, TraceIDs(rs))
    /\ s.failedTraceIDSamples = AddSamples(<<>>, TraceIDSampleLimit, FailedTraceIDs(rs))

LEMMA NoPortrait == Portrait(NewStats, <<>>)
<1>1. PICK none \in Seq(Results) : none = <<>> /\ DOMAIN none = {}
  <2>1. <<>> \in Seq(Results) /\ DOMAIN <<>> = {}
    OBVIOUS
  <2> QED
    BY <2>1
<1>2. /\ Durations(none) = <<>> /\ Successes(none) = <<>> /\ Failures(none) = <<>>
      /\ \A c \in Classes : InClass(none, c) = <<>> /\ Texted(none, c) = <<>>
      /\ Batches(none) = <<>> /\ FailedBatches(none) = <<>>
  BY <1>1 DEF Durations, Successes, Failures, InClass, Texted, Batches, FailedBatches
<1>3. /\ TraceIDs(none) = <<>> /\ FailedTraceIDs(none) = <<>>
      /\ \A c \in Classes : Messages(none, c) = <<>>
  BY <1>2, MappedIs, FlatNone
<1>4. \A limit : AddSamples(<<>>, limit, <<>>) = <<>>
  <2>1. ASSUME NEW limit
        PROVE  AddSamples(<<>>, limit, <<>>) = <<>>
    <3>1. PICK e \in Seq(Results) : e = <<>>
      BY <1>1
    <3> QED
      BY <3>1, AddNothing
  <2> QED
    BY <2>1
<1>5. Portrait(NewStats, none)
  BY <1>2, <1>3, <1>4, NewStatsAre, SumOfNone DEF Portrait, NewStatsFacts
<1> QED
  BY <1>1, <1>5

\* the portrait of one more result
LEMMA GrownPortrait ==
    ASSUME NEW s \in StatsSet, NEW t, NEW rs \in Seq(Results), NEW r \in Results,
           Portrait(s, rs), Grown(s, t, r)
    PROVE  Portrait(t, Append(rs, r))
<1>1. PICK ts \in Seq(Results) : ts = Append(rs, r)
  BY AppendIs
<1>2. /\ Durations(ts) = Append(Durations(rs), r.duration)
      /\ Successes(ts) = Append(Successes(rs), IF r.err = NoError THEN 1 ELSE 0)
      /\ Failures(ts) = Append(Failures(rs), IF r.err = NoError THEN 0 ELSE 1)
      /\ \A c \in Classes : InClass(ts, c) = Append(InClass(rs, c), IF IsOf(r, c) THEN 1 ELSE 0)
      /\ Batches(ts) = Append(Batches(rs), r.batch)
      /\ FailedBatches(ts) = Append(FailedBatches(rs), FailedOf(r))
      /\ \A c \in Classes : Texted(ts, c) = Append(Texted(rs, c), MessageOf(r, c))
  BY <1>1, MappedOneMore
<1>3. t.durations = Durations(ts)
  BY <1>2 DEF Portrait, Grown
<1>4. t.successes = Sum(Successes(ts))
  <2>1. PICK x \in Int : x = IF r.err = NoError THEN 1 ELSE 0
    OBVIOUS
  <2>2. t.successes = s.successes + x /\ s.successes = Sum(Successes(rs))
    BY <2>1 DEF Portrait, Grown
  <2>3. Successes(ts) = Append(Successes(rs), x) /\ Successes(rs) \in Seq(Int)
    BY <1>2, <2>1, MappedIs
  <2> QED
    BY <2>2, <2>3, SumOfOneMore
<1>5. t.failures = Sum(Failures(ts))
  <2>1. PICK x \in Int : x = IF r.err = NoError THEN 0 ELSE 1
    OBVIOUS
  <2>2. t.failures = s.failures + x /\ s.failures = Sum(Failures(rs))
    BY <2>1 DEF Portrait, Grown
  <2>3. Failures(ts) = Append(Failures(rs), x) /\ Failures(rs) \in Seq(Int)
    BY <1>2, <2>1, MappedIs
  <2> QED
    BY <2>2, <2>3, SumOfOneMore
<1>6. ASSUME NEW c \in Classes
      PROVE  t.breakdown[c] = Sum(InClass(ts, c))
  <2>1. PICK x \in Int : x = IF IsOf(r, c) THEN 1 ELSE 0
    OBVIOUS
  <2>2. t.breakdown[c] = s.breakdown[c] + x /\ s.breakdown[c] = Sum(InClass(rs, c))
    BY <2>1 DEF Portrait, Grown
  <2>3. InClass(ts, c) = Append(InClass(rs, c), x) /\ InClass(rs, c) \in Seq(Int)
    BY <1>2, <2>1, MappedIs
  <2> QED
    BY <2>2, <2>3, SumOfOneMore
<1>7. PICK none : none = <<>> /\ none \in Seq(IDs) /\ none \in Seq(Texts)
  <2>1. <<>> \in Seq(IDs) /\ <<>> \in Seq(Texts)
    OBVIOUS
  <2> QED
    BY <2>1
<1>8. ASSUME NEW c \in Classes
      PROVE  t.failureSamples[c] = AddSamples(<<>>, MaxFailureSamplesPerClass, Messages(ts, c))
  <2>1. PICK old \in Seq(Texts) : old = Messages(rs, c)
    BY MappedIs, FlatIs
  <2>2. PICK m \in Seq(Texts) : m = MessageOf(r, c)
    BY ResultIs
  <2>3. Messages(ts, c) = old \o m
    <3>1. Messages(ts, c) = FlattenSeq(Append(Texted(rs, c), m))
      BY <1>2, <2>2, MappedIs
    <3>2. FlattenSeq(Append(Texted(rs, c), m)) = FlattenSeq(Texted(rs, c)) \o m
      BY MappedIs, FlatOneMore
    <3>3. FlattenSeq(Texted(rs, c)) = old
      BY <2>1, MappedIs
    <3> QED
      BY <3>1, <3>2, <3>3
  <2>4. AddSamples(none, MaxFailureSamplesPerClass, Messages(ts, c))
          = AddSamples(AddSamples(none, MaxFailureSamplesPerClass, old),
                       MaxFailureSamplesPerClass, m)
    <3>1. PICK limit \in Nat : limit = MaxFailureSamplesPerClass
      BY LimitsAreNumbers
    <3>2. none \in Seq(Texts)
      BY <1>7
    <3>3. AddSamples(none, limit, old \o m)
            = AddSamples(AddSamples(none, limit, old), limit, m)
      BY <3>2, AddConcat
    <3> QED
      BY <2>3, <3>1, <3>3
  <2>5. /\ t.failureSamples[c] = AddSamples(s.failureSamples[c], MaxFailureSamplesPerClass, m)
        /\ s.failureSamples[c] = AddSamples(none, MaxFailureSamplesPerClass, old)
    BY <1>7, <2>1, <2>2 DEF Portrait, Grown
  <2> QED
    BY <1>7, <2>4, <2>5
<1>9. t.traceIDSamples = AddSamples(<<>>, TraceIDSampleLimit, TraceIDs(ts))
  <2>1. PICK old \in Seq(IDs) : old = TraceIDs(rs)
    BY MappedIs, FlatIs
  <2>2. PICK m \in Seq(IDs) : m = r.batch
    BY ResultIs
  <2>3. TraceIDs(ts) = old \o m
    <3>1. TraceIDs(ts) = FlattenSeq(Append(Batches(rs), m))
      BY <1>2, <2>2, MappedIs
    <3>2. FlattenSeq(Append(Batches(rs), m)) = FlattenSeq(Batches(rs)) \o m
      BY MappedIs, FlatOneMore
    <3>3. FlattenSeq(Batches(rs)) = old
      BY <2>1, MappedIs
    <3> QED
      BY <3>1, <3>2, <3>3
  <2>4. AddSamples(none, TraceIDSampleLimit, TraceIDs(ts))
          = AddSamples(AddSamples(none, TraceIDSampleLimit, old), TraceIDSampleLimit, m)
    <3>1. PICK limit \in Nat : limit = TraceIDSampleLimit
      BY LimitsAreNumbers
    <3>2. none \in Seq(IDs)
      BY <1>7
    <3>3. AddSamples(none, limit, old \o m)
            = AddSamples(AddSamples(none, limit, old), limit, m)
      BY <3>2, AddConcat
    <3> QED
      BY <2>3, <3>1, <3>3
  <2>5. /\ t.traceIDSamples = AddSamples(s.traceIDSamples, TraceIDSampleLimit, m)
        /\ s.traceIDSamples = AddSamples(none, TraceIDSampleLimit, old)
    BY <1>7, <2>1, <2>2 DEF Portrait, Grown
  <2> QED
    BY <1>7, <2>4, <2>5
<1>10. t.failedTraceIDSamples = AddSamples(<<>>, TraceIDSampleLimit, FailedTraceIDs(ts))
  <2>1. PICK old \in Seq(IDs) : old = FailedTraceIDs(rs)
    BY MappedIs, FlatIs
  <2>2. PICK m \in Seq(IDs) : m = FailedOf(r)
    BY ResultIs
  <2>3. FailedTraceIDs(ts) = old \o m
    <3>1. FailedTraceIDs(ts) = FlattenSeq(Append(FailedBatches(rs), m))
      BY <1>2, <2>2, MappedIs
    <3>2. FlattenSeq(Append(FailedBatches(rs), m)) = FlattenSeq(FailedBatches(rs)) \o m
      BY MappedIs, FlatOneMore
    <3>3. FlattenSeq(FailedBatches(rs)) = old
      BY <2>1, MappedIs
    <3> QED
      BY <3>1, <3>2, <3>3
  <2>4. AddSamples(none, TraceIDSampleLimit, FailedTraceIDs(ts))
          = AddSamples(AddSamples(none, TraceIDSampleLimit, old), TraceIDSampleLimit, m)
    <3>1. PICK limit \in Nat : limit = TraceIDSampleLimit
      BY LimitsAreNumbers
    <3>2. none \in Seq(IDs)
      BY <1>7
    <3>3. AddSamples(none, limit, old \o m)
            = AddSamples(AddSamples(none, limit, old), limit, m)
      BY <3>2, AddConcat
    <3> QED
      BY <2>3, <3>1, <3>3
  <2>5. /\ t.failedTraceIDSamples = AddSamples(s.failedTraceIDSamples, TraceIDSampleLimit, m)
        /\ s.failedTraceIDSamples = AddSamples(none, TraceIDSampleLimit, old)
    BY <1>7, <2>1, <2>2 DEF Portrait, Grown
  <2> QED
    BY <1>7, <2>4, <2>5
<1> QED
  BY <1>1, <1>3, <1>4, <1>5, <1>6, <1>8, <1>9, <1>10 DEF Portrait

\* the Stats of any results, part by part
LEMMA ReplayPortrait ==
    ASSUME NEW rs \in Seq(Results)
    PROVE  Portrait(Replay(rs), rs)
<1> DEFINE T == {e \in Seq(Results) : Portrait(Replay(e), e)}
<1>1. <<>> \in T
  <2>1. <<>> \in Seq(Results)
    OBVIOUS
  <2> QED
    BY <2>1, NoPortrait, ReplayNone
<1>2. ASSUME NEW e \in Seq(Results), NEW r \in Results, e \in T
      PROVE  Append(e, r) \in T
  <2>1. PICK s \in StatsSet : s = Replay(e)
    BY ReplayIs
  <2>2. Grown(s, RecordWithTraceIDs(s, r), r)
    BY RecordIs
  <2>3. Portrait(RecordWithTraceIDs(s, r), Append(e, r))
    BY <1>2, <2>1, <2>2, GrownPortrait
  <2>4. Replay(Append(e, r)) = RecordWithTraceIDs(s, r) /\ Append(e, r) \in Seq(Results)
    BY <2>1, ReplayOneMore, AppendIs
  <2> QED
    BY <2>3, <2>4
<1> HIDE DEF T
<1>3. Seq(Results) \subseteq T
  BY <1>1, <1>2, SeqInduction
<1> QED
  BY <1>3 DEF T

-----------------------------------------------------------------------------
(* The behaviours. *)

\* what is inductive: each of the Stats is that of the results it recorded
Replayed ==
    /\ log \in [1 .. Shards -> Seq(Results)]
    /\ stats = [i \in 1 .. Shards |-> Replay(log[i])]

LEMMA ReplayedInit == Init => Replayed
<1>1. <<>> \in Seq(Results)
  OBVIOUS
<1> QED
  BY <1>1, ReplayNone DEF Init, Replayed

LEMMA ReplayedNext == Replayed /\ [Next]_vars => Replayed'
<1> SUFFICES ASSUME Replayed, [Next]_vars
             PROVE  Replayed'
  OBVIOUS
<1>1. ASSUME NEW i \in 1 .. Shards, NEW r \in Results, Record(i, r)
      PROVE  Replayed'
  <2>1. PICK rs \in Seq(Results) : rs = log[i]
    BY DEF Replayed
  <2>2. PICK ts \in Seq(Results) : ts = Append(rs, r)
    BY AppendIs
  <2>3. log' = [log EXCEPT ![i] = ts]
    BY <1>1, <2>1, <2>2 DEF Record
  <2>4. stats[i] = Replay(rs)
    BY <2>1 DEF Replayed
  <2>5. stats' = [stats EXCEPT ![i] = Replay(ts)]
    BY <1>1, <2>2, <2>4, ReplayOneMore DEF Record
  <2>6. log' \in [1 .. Shards -> Seq(Results)]
    BY <2>3 DEF Replayed
  <2>7. stats' = [j \in 1 .. Shards |-> Replay(log'[j])]
    BY <2>3, <2>5 DEF Replayed
  <2> QED
    BY <2>6, <2>7 DEF Replayed
<1>2. CASE UNCHANGED vars
  BY <1>2 DEF vars, Replayed
<1> QED
  BY <1>1, <1>2 DEF Next

\* Each of the Stats of a run is at all times that of the results it recorded.
THEOREM StatsAreReplayed == Spec => []Replayed
  BY ReplayedInit, ReplayedNext, PTL DEF Spec

\* the samples of a portrait are the first values of its results
LEMMA PortraitFirst ==
    ASSUME NEW s, NEW rs \in Seq(Results), Portrait(s, rs)
    PROVE  /\ AreFirstOf(s.traceIDSamples, TraceIDSampleLimit, TraceIDs(rs))
           /\ AreFirstOf(s.failedTraceIDSamples, TraceIDSampleLimit, FailedTraceIDs(rs))
           /\ \A c \in Classes :
                 AreFirstOf(s.failureSamples[c], MaxFailureSamplesPerClass, Messages(rs, c))
<1>1. ASSUME NEW X, NEW seq \in Seq(X), NEW limit \in Nat
      PROVE  AreFirstOf(AddSamples(<<>>, limit, seq), limit, seq)
  <2>1. <<>> \in Seq(X)
    OBVIOUS
  <2>2. PICK t \in Seq(X) : t = AddSamples(<<>>, limit, seq)
    BY <2>1, AddSamplesType
  <2>3. IsFirst(t, limit, seq)
    BY <2>2, AddedAreFirst
  <2> QED
    BY <2>2, <2>3, FirstsOf
<1>2. TraceIDs(rs) \in Seq(IDs) /\ FailedTraceIDs(rs) \in Seq(IDs)
  BY MappedIs, FlatIs
<1>3. \A c \in Classes : Messages(rs, c) \in Seq(Texts)
  BY MappedIs, FlatIs
<1>4. PICK limit \in Nat : limit = TraceIDSampleLimit
  BY LimitsAreNumbers
<1>5. PICK most \in Nat : most = MaxFailureSamplesPerClass
  BY LimitsAreNumbers
<1>6. AreFirstOf(s.traceIDSamples, limit, TraceIDs(rs))
  BY <1>1, <1>2, <1>4 DEF Portrait
<1>7. AreFirstOf(s.failedTraceIDSamples, limit, FailedTraceIDs(rs))
  BY <1>1, <1>2, <1>4 DEF Portrait
<1>8. \A c \in Classes : AreFirstOf(s.failureSamples[c], most, Messages(rs, c))
  BY <1>1, <1>3, <1>5 DEF Portrait
<1> QED
  BY <1>4, <1>5, <1>6, <1>7, <1>8

\* The samples of every summary are the first distinct values of all that was recorded:
\* the limit cuts each batch, and the Stats, but never a value that the whole would show.
THEOREM SamplesFirst == Spec => []SamplesAreFirst
<1>1. Replayed => SamplesAreFirst
  <2> SUFFICES ASSUME Replayed, NEW i \in 1 .. Shards
               PROVE  /\ AreFirstOf(stats[i].traceIDSamples, TraceIDSampleLimit,
                                    TraceIDs(log[i]))
                      /\ AreFirstOf(stats[i].failedTraceIDSamples, TraceIDSampleLimit,
                                    FailedTraceIDs(log[i]))
                      /\ \A c \in Classes :
                            AreFirstOf(stats[i].failureSamples[c],
                                       MaxFailureSamplesPerClass, Messages(log[i], c))
    BY DEF SamplesAreFirst
  <2>1. PICK rs \in Seq(Results) : rs = log[i]
    BY DEF Replayed
  <2>2. stats[i] = Replay(rs)
    BY <2>1 DEF Replayed
  <2>3. Portrait(stats[i], rs)
    BY <2>2, ReplayPortrait
  <2> QED
    BY <2>1, <2>3, PortraitFirst
<1> QED
  BY <1>1, StatsAreReplayed, PTL

-----------------------------------------------------------------------------
(* Several Stats are as good as one. *)

\* Stats are equal when their parts are
LEMMA StatsEqual ==
    ASSUME NEW s \in StatsSet, NEW t \in StatsSet,
           s.durations = t.durations, s.successes = t.successes, s.failures = t.failures,
           \A c \in Classes : s.breakdown[c] = t.breakdown[c],
           \A c \in Classes : s.failureSamples[c] = t.failureSamples[c],
           s.traceIDSamples = t.traceIDSamples,
           s.failedTraceIDSamples = t.failedTraceIDSamples
    PROVE  s = t
<1>1. s.breakdown = t.breakdown /\ s.failureSamples = t.failureSamples
  BY StatsParts
<1> DEFINE Copy(u) ==
        [durations |-> u.durations, successes |-> u.successes, failures |-> u.failures,
         breakdown |-> u.breakdown, failureSamples |-> u.failureSamples,
         traceIDSamples |-> u.traceIDSamples,
         failedTraceIDSamples |-> u.failedTraceIDSamples]
<1>2. s = Copy(s)
  BY DEF StatsSet
<1>3. t = Copy(t)
  BY DEF StatsSet
<1>4. Copy(s) = Copy(t)
  BY <1>1
<1> QED
  BY <1>2, <1>3, <1>4

\* a limit of 0 is none to mergeStringSamples, and keeps no samples to merge
LEMMA MergeTrace ==
    ASSUME NEW a \in Seq(IDs), NEW b \in Seq(IDs), TraceIDSampleLimit = 0 => b = <<>>
    PROVE  MergeStringSamples(a, b, TraceIDSampleLimit) = AddSamples(a, TraceIDSampleLimit, b)
<1>1. CASE TraceIDSampleLimit = 0
  <2>1. AddSamples(a, TraceIDSampleLimit, b) = a
    BY <1>1, AddNothing
  <2>2. AddSamples(a, Len(a) + Len(b), b) = a
    BY <1>1, AddNothing
  <2> QED
    BY <1>1, <2>1, <2>2 DEF MergeStringSamples
<1>2. CASE TraceIDSampleLimit # 0
  BY <1>2 DEF MergeStringSamples
<1> QED
  BY <1>1, <1>2

\* the samples of s are distinct, and none are kept where none are wanted
Kept(s) ==
    /\ Distinct(s.traceIDSamples) /\ Distinct(s.failedTraceIDSamples)
    /\ \A c \in Classes : Distinct(s.failureSamples[c])
    /\ TraceIDSampleLimit = 0 => s.traceIDSamples = <<>> /\ s.failedTraceIDSamples = <<>>

\* m is a with what b holds
Merged(m, a, b) ==
    /\ m \in StatsSet
    /\ m.durations = a.durations \o b.durations
    /\ m.successes = a.successes + b.successes /\ m.failures = a.failures + b.failures
    /\ \A c \in Classes : m.breakdown[c] = a.breakdown[c] + b.breakdown[c]
    /\ \A c \in Classes : m.failureSamples[c]
          = AddSamples(a.failureSamples[c], MaxFailureSamplesPerClass, b.failureSamples[c])
    /\ m.traceIDSamples = AddSamples(a.traceIDSamples, TraceIDSampleLimit, b.traceIDSamples)
    /\ m.failedTraceIDSamples
          = AddSamples(a.failedTraceIDSamples, TraceIDSampleLimit, b.failedTraceIDSamples)

LEMMA MergeIs ==
    ASSUME NEW a \in StatsSet, NEW b \in StatsSet, Kept(b)
    PROVE  Merged(Merge(a, b), a, b)
<1>1. PICK d \in Seq(Int) : d = a.durations \o b.durations
  BY StatsParts, ConcatProperties
<1>2. PICK n \in Nat : n = a.successes + b.successes
  BY StatsParts
<1>3. PICK f \in Nat : f = a.failures + b.failures
  BY StatsParts
<1>4. PICK u \in [Classes -> Nat] : u = [c \in Classes |-> a.breakdown[c] + b.breakdown[c]]
  <2>1. \A c \in Classes : a.breakdown[c] + b.breakdown[c] \in Nat
    <3>1. \A c \in Classes : a.breakdown[c] \in Nat /\ b.breakdown[c] \in Nat
      BY StatsParts
    <3> QED
      BY <3>1
  <2> QED
    BY <2>1
<1>5. PICK v \in [Classes -> Seq(Texts)] :
          v = [c \in Classes |-> AddSamples(a.failureSamples[c], MaxFailureSamplesPerClass,
                                           b.failureSamples[c])]
  <2>1. \A c \in Classes : a.failureSamples[c] \in Seq(Texts) /\ b.failureSamples[c] \in Seq(Texts)
    BY StatsParts
  <2>2. \A c \in Classes : AddSamples(a.failureSamples[c], MaxFailureSamplesPerClass,
                                      b.failureSamples[c]) \in Seq(Texts)
    BY <2>1, AddSamplesType
  <2> QED
    BY <2>2
<1>6. PICK x \in Seq(IDs) : x = AddSamples(a.traceIDSamples, TraceIDSampleLimit, b.traceIDSamples)
  BY StatsParts, AddSamplesType
<1>7. PICK y \in Seq(IDs) :
          y = AddSamples(a.failedTraceIDSamples, TraceIDSampleLimit, b.failedTraceIDSamples)
  BY StatsParts, AddSamplesType
<1>8. x = MergeStringSamples(a.traceIDSamples, b.traceIDSamples, TraceIDSampleLimit)
  BY <1>6, StatsParts, MergeTrace DEF Kept
<1>9. y = MergeStringSamples(a.failedTraceIDSamples, b.failedTraceIDSamples, TraceIDSampleLimit)
  BY <1>7, StatsParts, MergeTrace DEF Kept
<1>10. PICK m : m = [durations |-> d, successes |-> n, failures |-> f, breakdown |-> u,
                     failureSamples |-> v, traceIDSamples |-> x, failedTraceIDSamples |-> y]
  OBVIOUS
<1>11. Merge(a, b) = m
  BY <1>1, <1>2, <1>3, <1>4, <1>5, <1>8, <1>9, <1>10 DEF Merge, MergeBreakdown, MergeSamples
<1>12. /\ m \in StatsSet /\ m.durations = d /\ m.successes = n /\ m.failures = f
       /\ m.breakdown = u /\ m.failureSamples = v /\ m.traceIDSamples = x
       /\ m.failedTraceIDSamples = y
  BY <1>10 DEF StatsSet
<1>13. Merged(m, a, b)
  BY <1>1, <1>2, <1>3, <1>4, <1>5, <1>6, <1>7, <1>12 DEF Merged
<1> QED
  BY <1>11, <1>13

LEMMA GrownKept ==
    ASSUME NEW s \in StatsSet, NEW r \in Results, NEW t, Kept(s), Grown(s, t, r)
    PROVE  Kept(t)
<1>1. PICK limit \in Nat : limit = TraceIDSampleLimit
  BY LimitsAreNumbers
<1>2. PICK most \in Nat : most = MaxFailureSamplesPerClass
  BY LimitsAreNumbers
<1>3. ASSUME NEW X, NEW d \in Seq(X), NEW max \in Nat, NEW xs \in Seq(X), Distinct(d)
      PROVE  Distinct(AddSamples(d, max, xs))
  <2>1. <<>> \in Seq(X)
    OBVIOUS
  <2> QED
    BY <1>3, <2>1, AddCut
<1>4. Distinct(t.traceIDSamples)
  <2>1. Distinct(AddSamples(s.traceIDSamples, limit, r.batch))
    BY <1>3, StatsParts, ResultIs DEF Kept
  <2> QED
    BY <1>1, <2>1 DEF Grown
<1>5. Distinct(t.failedTraceIDSamples)
  <2>1. Distinct(AddSamples(s.failedTraceIDSamples, limit, FailedOf(r)))
    BY <1>3, StatsParts, ResultIs DEF Kept
  <2> QED
    BY <1>1, <2>1 DEF Grown
<1>6. ASSUME NEW c \in Classes
      PROVE  Distinct(t.failureSamples[c])
  <2>1. PICK d \in Seq(Texts) : d = s.failureSamples[c]
    BY StatsParts
  <2>2. Distinct(AddSamples(d, most, MessageOf(r, c)))
    BY <1>3, <2>1, ResultIs DEF Kept
  <2> QED
    BY <1>2, <2>1, <2>2 DEF Grown
<1>7. ASSUME NEW X, NEW xs \in Seq(X)
      PROVE  AddSamples(<<>>, 0, xs) = <<>>
  <2>1. PICK none \in Seq(X) : none = <<>>
    <3>1. <<>> \in Seq(X)
      OBVIOUS
    <3> QED
      BY <3>1
  <2>2. PICK u \in Seq(X) : u = AddSamples(none, 0, xs)
    BY AddSamplesType
  <2>3. IsFirst(u, 0, xs)
    BY <2>1, <2>2, AddedAreFirst
  <2>4. Len(u) = 0
    BY <2>3 DEF IsFirst
  <2> QED
    BY <2>1, <2>2, <2>4, EmptySeq
<1>8. TraceIDSampleLimit = 0 => t.traceIDSamples = <<>> /\ t.failedTraceIDSamples = <<>>
  BY <1>7, ResultIs DEF Kept, Grown
<1> QED
  BY <1>4, <1>5, <1>6, <1>8 DEF Kept

LEMMA ReplayKept ==
    ASSUME NEW rs \in Seq(Results)
    PROVE  Kept(Replay(rs))
<1> DEFINE T == {e \in Seq(Results) : Kept(Replay(e))}
<1>1. <<>> \in T
  <2>1. <<>> \in Seq(Results)
    OBVIOUS
  <2>2. Distinct(<<>>)
    BY DEF Distinct
  <2>3. Kept(NewStats)
    BY <2>2, NewStatsAre DEF Kept, NewStatsFacts
  <2> QED
    BY <2>1, <2>3, ReplayNone
<1>2. ASSUME NEW e \in Seq(Results), NEW r \in Results, e \in T
      PROVE  Append(e, r) \in T
  <2>1. PICK s \in StatsSet : s = Replay(e)
    BY ReplayIs
  <2>2. Kept(RecordWithTraceIDs(s, r))
    BY <1>2, <2>1, RecordIs, GrownKept
  <2> QED
    BY <2>1, <2>2, ReplayOneMore, AppendIs
<1> HIDE DEF T
<1>3. Seq(Results) \subseteq T
  BY <1>1, <1>2, SeqInduction
<1> QED
  BY <1>3 DEF T

\* to record and then to merge is to merge and then to record
LEMMA MergeRecord ==
    ASSUME NEW a \in StatsSet, NEW b \in StatsSet, NEW r \in Results, Kept(b)
    PROVE  Merge(a, RecordWithTraceIDs(b, r)) = RecordWithTraceIDs(Merge(a, b), r)
<1>1. PICK c : c = RecordWithTraceIDs(b, r)
  OBVIOUS
<1>2. c \in StatsSet /\ Grown(b, c, r)
  BY <1>1, RecordIs
<1>3. Kept(c)
  BY <1>2, GrownKept
<1>4. PICK m : m = Merge(a, b)
  OBVIOUS
<1>5. m \in StatsSet /\ Merged(m, a, b)
  BY <1>4, MergeIs DEF Merged
<1>6. PICK x : x = RecordWithTraceIDs(m, r)
  OBVIOUS
<1>7. x \in StatsSet /\ Grown(m, x, r)
  BY <1>5, <1>6, RecordIs
<1>8. PICK y : y = Merge(a, c)
  OBVIOUS
<1>9. y \in StatsSet /\ Merged(y, a, c)
  BY <1>2, <1>3, <1>8, MergeIs DEF Merged
<1>10. x.durations = y.durations
  <2>1. x.durations = Append(a.durations \o b.durations, r.duration)
    BY <1>5, <1>7 DEF Merged, Grown
  <2>2. y.durations = a.durations \o Append(b.durations, r.duration)
    BY <1>2, <1>9 DEF Merged, Grown
  <2>3. PICK p \in Seq(Int) : p = a.durations
    BY StatsParts
  <2>4. PICK q \in Seq(Int) : q = b.durations
    BY StatsParts
  <2>5. PICK d \in Int : d = r.duration
    BY ResultIs
  <2>6. p \o Append(q, d) = Append(p \o q, d)
    BY ConcatAppend
  <2> QED
    BY <2>1, <2>2, <2>3, <2>4, <2>5, <2>6
<1>11. x.successes = y.successes
  <2>1. PICK one \in Nat : one = IF r.err = NoError THEN 1 ELSE 0
    OBVIOUS
  <2>2. x.successes = (a.successes + b.successes) + one
    BY <1>5, <1>7, <2>1 DEF Merged, Grown
  <2>3. y.successes = a.successes + (b.successes + one)
    BY <1>2, <1>9, <2>1 DEF Merged, Grown
  <2> QED
    BY <2>2, <2>3, StatsParts
<1>12. x.failures = y.failures
  <2>1. PICK one \in Nat : one = IF r.err = NoError THEN 0 ELSE 1
    OBVIOUS
  <2>2. x.failures = (a.failures + b.failures) + one
    BY <1>5, <1>7, <2>1 DEF Merged, Grown
  <2>3. y.failures = a.failures + (b.failures + one)
    BY <1>2, <1>9, <2>1 DEF Merged, Grown
  <2> QED
    BY <2>2, <2>3, StatsParts
<1>13. ASSUME NEW class \in Classes
       PROVE  x.breakdown[class] = y.breakdown[class]
  <2>1. PICK one \in Nat : one = IF IsOf(r, class) THEN 1 ELSE 0
    OBVIOUS
  <2>2. x.breakdown[class] = (a.breakdown[class] + b.breakdown[class]) + one
    BY <1>5, <1>7, <2>1 DEF Merged, Grown
  <2>3. y.breakdown[class] = a.breakdown[class] + (b.breakdown[class] + one)
    BY <1>2, <1>9, <2>1 DEF Merged, Grown
  <2>4. a.breakdown[class] \in Nat /\ b.breakdown[class] \in Nat
    BY StatsParts
  <2> QED
    BY <2>2, <2>3, <2>4
<1>14. PICK limit \in Nat : limit = TraceIDSampleLimit
  BY LimitsAreNumbers
<1>15. PICK most \in Nat : most = MaxFailureSamplesPerClass
  BY LimitsAreNumbers
<1>16. ASSUME NEW class \in Classes
       PROVE  x.failureSamples[class] = y.failureSamples[class]
  <2>1. PICK p \in Seq(Texts) : p = a.failureSamples[class]
    BY StatsParts
  <2>2. PICK q \in Seq(Texts) : q = b.failureSamples[class] /\ Distinct(q)
    BY StatsParts DEF Kept
  <2>3. PICK text \in Seq(Texts) : text = MessageOf(r, class)
    BY ResultIs
  <2>4. m.failureSamples[class] = AddSamples(p, most, q)
    BY <1>5, <1>15, <2>1, <2>2 DEF Merged
  <2>5. x.failureSamples[class] = AddSamples(AddSamples(p, most, q), most, text)
    BY <1>7, <1>15, <2>3, <2>4 DEF Grown
  <2>6. c.failureSamples[class] = AddSamples(q, most, text)
    BY <1>2, <1>15, <2>2, <2>3 DEF Grown
  <2>7. y.failureSamples[class] = AddSamples(p, most, AddSamples(q, most, text))
    BY <1>9, <1>15, <2>1, <2>6 DEF Merged
  <2> QED
    BY <2>2, <2>5, <2>7, AddCut
<1>17. x.traceIDSamples = y.traceIDSamples
  <2>1. PICK p \in Seq(IDs) : p = a.traceIDSamples
    BY StatsParts
  <2>2. PICK q \in Seq(IDs) : q = b.traceIDSamples /\ Distinct(q)
    BY StatsParts DEF Kept
  <2>3. PICK batch \in Seq(IDs) : batch = r.batch
    BY ResultIs
  <2>4. m.traceIDSamples = AddSamples(p, limit, q)
    BY <1>5, <1>14, <2>1, <2>2 DEF Merged
  <2>5. x.traceIDSamples = AddSamples(AddSamples(p, limit, q), limit, batch)
    BY <1>7, <1>14, <2>3, <2>4 DEF Grown
  <2>6. c.traceIDSamples = AddSamples(q, limit, batch)
    BY <1>2, <1>14, <2>2, <2>3 DEF Grown
  <2>7. y.traceIDSamples = AddSamples(p, limit, AddSamples(q, limit, batch))
    BY <1>9, <1>14, <2>1, <2>6 DEF Merged
  <2> QED
    BY <2>2, <2>5, <2>7, AddCut
<1>18. x.failedTraceIDSamples = y.failedTraceIDSamples
  <2>1. PICK p \in Seq(IDs) : p = a.failedTraceIDSamples
    BY StatsParts
  <2>2. PICK q \in Seq(IDs) : q = b.failedTraceIDSamples /\ Distinct(q)
    BY StatsParts DEF Kept
  <2>3. PICK batch \in Seq(IDs) : batch = FailedOf(r)
    BY ResultIs
  <2>4. m.failedTraceIDSamples = AddSamples(p, limit, q)
    BY <1>5, <1>14, <2>1, <2>2 DEF Merged
  <2>5. x.failedTraceIDSamples = AddSamples(AddSamples(p, limit, q), limit, batch)
    BY <1>7, <1>14, <2>3, <2>4 DEF Grown
  <2>6. c.failedTraceIDSamples = AddSamples(q, limit, batch)
    BY <1>2, <1>14, <2>2, <2>3 DEF Grown
  <2>7. y.failedTraceIDSamples = AddSamples(p, limit, AddSamples(q, limit, batch))
    BY <1>9, <1>14, <2>1, <2>6 DEF Merged
  <2> QED
    BY <2>2, <2>5, <2>7, AddCut
<1>19. x = y
  BY <1>7, <1>9, <1>10, <1>11, <1>12, <1>13, <1>16, <1>17, <1>18, StatsEqual
<1> QED
  BY <1>1, <1>4, <1>6, <1>8, <1>19

LEMMA MergeNothing ==
    ASSUME NEW a \in StatsSet
    PROVE  Merge(a, NewStats) = a
<1>1. PICK b \in StatsSet : b = NewStats
  BY NewStatsAre DEF NewStatsFacts
<1>2. Kept(b)
  <2>1. Distinct(<<>>)
    BY DEF Distinct
  <2> QED
    BY <1>1, <2>1, NewStatsAre DEF Kept, NewStatsFacts
<1>3. PICK m : m = Merge(a, b)
  OBVIOUS
<1>4. m \in StatsSet /\ Merged(m, a, b)
  BY <1>2, <1>3, MergeIs DEF Merged
<1>5. /\ b.durations = <<>> /\ b.successes = 0 /\ b.failures = 0
      /\ \A c \in Classes : b.breakdown[c] = 0 /\ b.failureSamples[c] = <<>>
      /\ b.traceIDSamples = <<>> /\ b.failedTraceIDSamples = <<>>
  BY <1>1, NewStatsAre DEF NewStatsFacts
<1>6. m.durations = a.durations
  BY <1>4, <1>5, StatsParts, ConcatEmptySeq DEF Merged
<1>7. m.successes = a.successes /\ m.failures = a.failures
  BY <1>4, <1>5, StatsParts DEF Merged
<1>8. ASSUME NEW c \in Classes
      PROVE  m.breakdown[c] = a.breakdown[c] /\ m.failureSamples[c] = a.failureSamples[c]
  <2>1. a.breakdown[c] \in Nat /\ a.failureSamples[c] \in Seq(Texts)
    BY StatsParts
  <2>2. m.breakdown[c] = a.breakdown[c] + 0
    BY <1>4, <1>5 DEF Merged
  <2>3. m.failureSamples[c] = AddSamples(a.failureSamples[c], MaxFailureSamplesPerClass, <<>>)
    BY <1>4, <1>5 DEF Merged
  <2> QED
    BY <2>1, <2>2, <2>3, AddNothing
<1>9. /\ m.traceIDSamples = a.traceIDSamples
      /\ m.failedTraceIDSamples = a.failedTraceIDSamples
  BY <1>4, <1>5, StatsParts, AddNothing DEF Merged
<1>10. m = a
  BY <1>4, <1>6, <1>7, <1>8, <1>9, StatsEqual
<1> QED
  BY <1>1, <1>3, <1>10

\* two Stats, merged, are one that recorded the results of both
LEMMA MergeReplays ==
    ASSUME NEW rs \in Seq(Results), NEW more \in Seq(Results)
    PROVE  Replay(rs \o more) = Merge(Replay(rs), Replay(more))
<1>1. PICK a \in StatsSet : a = Replay(rs)
  BY ReplayIs
<1> DEFINE T == {e \in Seq(Results) : Replay(rs \o e) = Merge(a, Replay(e))}
<1>2. <<>> \in T
  <2>1. <<>> \in Seq(Results)
    OBVIOUS
  <2>2. rs \o <<>> = rs
    BY ConcatEmptySeq
  <2>3. Merge(a, Replay(<<>>)) = a
    BY MergeNothing, ReplayNone
  <2> QED
    BY <1>1, <2>1, <2>2, <2>3
<1>3. ASSUME NEW e \in Seq(Results), NEW r \in Results, e \in T
      PROVE  Append(e, r) \in T
  <2>1. PICK u \in Seq(Results) : u = rs \o e
    BY ConcatProperties
  <2>2. rs \o Append(e, r) = Append(u, r)
    BY <2>1, ConcatAppend
  <2>3. PICK b \in StatsSet : b = Replay(e) /\ Kept(b)
    BY ReplayIs, ReplayKept
  <2>4. Replay(Append(u, r)) = RecordWithTraceIDs(Merge(a, b), r)
    BY <1>3, <2>1, <2>3, ReplayOneMore
  <2>5. Merge(a, Replay(Append(e, r))) = Merge(a, RecordWithTraceIDs(b, r))
    BY <2>3, ReplayOneMore
  <2>6. Append(e, r) \in Seq(Results)
    BY AppendIs
  <2> QED
    BY <2>2, <2>3, <2>4, <2>5, <2>6, MergeRecord
<1> HIDE DEF T
<1>4. Seq(Results) \subseteq T
  BY <1>2, <1>3, SeqInduction
<1> QED
  BY <1>1, <1>4 DEF T

\* The summary of several Stats is that of one Stats which recorded all their results.
THEOREM MergedAreWhole == Spec => []MergeIsWhole
<1>1. Replayed => MergeIsWhole
  <2> SUFFICES ASSUME Replayed
               PROVE  MergeIsWhole
    OBVIOUS
  <2>1. PICK N \in Nat : N = Shards
    BY LimitsAreNumbers
  <2>2. log \in Seq(Seq(Results)) /\ Len(log) = N
    BY <2>1 DEF Replayed
  <2>3. Len(stats) = N
    BY <2>1 DEF Replayed
  <2>4. PICK g : IsFlat(g, log) /\ FlattenSeq(log) = g[N]
    BY <2>2, FlatIs
  <2>5. g[0] = <<>> /\ \A k \in 1 .. N : g[k] = g[k - 1] \o log[k]
    BY <2>2, <2>4 DEF IsFlat
  <2>6. \A k \in 1 .. N : log[k] \in Seq(Results) /\ stats[k] = Replay(log[k])
    BY <2>1 DEF Replayed
  <2> DEFINE G == {k \in 0 .. N : g[k] \in Seq(Results)}
  <2>7. 0 .. N \subseteq G
    <3>1. 0 \in G
      <4>1. 0 \in 0 .. N /\ <<>> \in Seq(Results)
        OBVIOUS
      <4> QED
        BY <2>5, <4>1
    <3>2. ASSUME NEW k \in 1 .. N, k - 1 \in G
          PROVE  k \in G
      <4>1. g[k - 1] \in Seq(Results)
        BY <3>2
      <4>2. g[k - 1] \o log[k] \in Seq(Results)
        BY <2>6, <4>1, ConcatProperties
      <4>3. k \in 0 .. N
        OBVIOUS
      <4>4. g[k] = g[k - 1] \o log[k]
        BY <2>5
      <4> QED
        BY <4>2, <4>3, <4>4
    <3> HIDE DEF G
    <3> QED
      BY <3>1, <3>2, InductionTo
  <2>8. \A k \in 0 .. N : g[k] \in Seq(Results)
    BY <2>7
  <2> DEFINE Def(m) == m = [k \in 0 .. N |->
                               IF k = 0 THEN NewStats ELSE Merge(m[k - 1], stats[k])]
             f == [k \in 0 .. N |-> Replay(g[k])]
  <2>9. ASSUME NEW k \in 1 .. N
        PROVE  Replay(g[k]) = Merge(Replay(g[k - 1]), stats[k])
    <3>1. k - 1 \in 0 .. N
      OBVIOUS
    <3>2. g[k - 1] \in Seq(Results) /\ log[k] \in Seq(Results)
      BY <2>6, <2>8, <3>1
    <3>3. Replay(g[k - 1] \o log[k]) = Merge(Replay(g[k - 1]), Replay(log[k]))
      BY <3>2, MergeReplays
    <3>4. g[k] = g[k - 1] \o log[k] /\ stats[k] = Replay(log[k])
      BY <2>5, <2>6
    <3> QED
      BY <3>3, <3>4
  <2>10. Def(f)
    <3>1. ASSUME NEW k \in 0 .. N
          PROVE  f[k] = IF k = 0 THEN NewStats ELSE Merge(f[k - 1], stats[k])
      <4>1. CASE k = 0
        BY <2>5, <4>1, ReplayNone
      <4>2. CASE k # 0
        <5>1. k \in 1 .. N /\ k - 1 \in 0 .. N
          BY <4>2
        <5>2. f[k] = Replay(g[k]) /\ f[k - 1] = Replay(g[k - 1])
          BY <5>1
        <5> QED
          BY <2>9, <4>2, <5>1, <5>2
      <4> QED
        BY <4>1, <4>2
    <3> QED
      BY <3>1
  <2> HIDE DEF f
  <2> DEFINE h == CHOOSE m : Def(m)
  <2>11. Def(h)
    BY <2>10
  <2>12. Summarize(stats) = Summary(h[N])
    BY <2>3 DEF Summarize
  <2>13. \A k \in 0 .. N : h[k] = IF k = 0 THEN NewStats ELSE Merge(h[k - 1], stats[k])
    BY <2>11
  <2>14. \A k \in 0 .. N : f[k] = IF k = 0 THEN NewStats ELSE Merge(f[k - 1], stats[k])
    BY <2>10
  <2> HIDE DEF h, Def
  <2> DEFINE T == {k \in 0 .. N : h[k] = f[k]}
  <2>15. 0 \in T
    BY <2>13, <2>14
  <2>16. ASSUME NEW k \in 1 .. N, k - 1 \in T
         PROVE  k \in T
    <3>1. k \in 0 .. N /\ k # 0 /\ h[k - 1] = f[k - 1]
      BY <2>16
    <3>2. h[k] = Merge(h[k - 1], stats[k])
      BY <2>13, <3>1
    <3>3. f[k] = Merge(f[k - 1], stats[k])
      BY <2>14, <3>1
    <3> QED
      BY <3>1, <3>2, <3>3
  <2> HIDE DEF T
  <2>17. 0 .. N \subseteq T
    BY <2>15, <2>16, InductionTo
  <2>18. N \in 0 .. N
    OBVIOUS
  <2>19. h[N] = f[N]
    BY <2>17, <2>18 DEF T
  <2>20. f[N] = Replay(FlattenSeq(log))
    BY <2>4, <2>18 DEF f
  <2> QED
    BY <2>12, <2>19, <2>20 DEF MergeIsWhole
<1> QED
  BY <1>1, StatsAreReplayed, PTL

-----------------------------------------------------------------------------
(* What does not depend on the order. *)

\* p puts the numbers up to n into another order
Order(p, n) ==
    /\ p \in [1 .. n -> 1 .. n]
    /\ \A i, j \in 1 .. n : p[i] = p[j] => i = j
    /\ \A k \in 1 .. n : \E i \in 1 .. n : p[i] = k

\* ys holds the values of xs in the order p
Shuffled(ys, xs, p) ==
    Len(ys) = Len(xs) /\ Order(p, Len(xs)) /\ \A k \in 1 .. Len(xs) : ys[k] = xs[p[k]]

Without(xs, j) == [k \in 1 .. (Len(xs) - 1) |-> IF k < j THEN xs[k] ELSE xs[k + 1]]

IsWithout(w, xs, j, n) ==
    Len(w) = n /\ \A k \in 1 .. n : w[k] = IF k < j THEN xs[k] ELSE xs[k + 1]

LEMMA WithoutIs ==
    ASSUME NEW X, NEW xs \in Seq(X), NEW n \in Nat, Len(xs) = n + 1, NEW j \in 1 .. (n + 1)
    PROVE  Without(xs, j) \in Seq(X) /\ IsWithout(Without(xs, j), xs, j, n)
<1>1. \A k \in 1 .. n : xs[k] \in X /\ xs[k + 1] \in X
  OBVIOUS
<1>2. Without(xs, j) = [k \in 1 .. n |-> IF k < j THEN xs[k] ELSE xs[k + 1]]
  BY DEF Without
<1>3. PICK w \in Seq(X) : w = [k \in 1 .. n |-> IF k < j THEN xs[k] ELSE xs[k + 1]]
  <2> DEFINE v == [k \in 1 .. n |-> IF k < j THEN xs[k] ELSE xs[k + 1]]
  <2>1. \A k \in 1 .. n : v[k] \in X
    BY <1>1
  <2>2. v \in [1 .. n -> X]
    BY <2>1
  <2> HIDE DEF v
  <2>3. v \in Seq(X)
    BY <2>2
  <2> QED
    BY <2>3 DEF v
<1>4. IsWithout(w, xs, j, n)
  BY <1>3 DEF IsWithout
<1> QED
  BY <1>2, <1>3, <1>4

\* a sum without one of its terms
LEMMA SumWithout ==
    ASSUME NEW xs \in Seq(Int), NEW j \in 1 .. Len(xs)
    PROVE  Sum(xs) = Sum(Without(xs, j)) + xs[j]
<1> DEFINE P(e) == \A i \in 1 .. Len(e) : Sum(e) = Sum(Without(e, i)) + e[i]
           T == {e \in Seq(Int) : P(e)}
<1>1. <<>> \in T
  OBVIOUS
<1>2. ASSUME NEW e \in Seq(Int), NEW x \in Int, e \in T
      PROVE  Append(e, x) \in T
  <2>1. PICK m \in Nat : m = Len(e)
    OBVIOUS
  <2>2. PICK f \in Seq(Int) : f = Append(e, x)
    BY AppendIs
  <2>3. Len(f) = m + 1 /\ f[m + 1] = x /\ \A i \in 1 .. m : f[i] = e[i]
    BY <2>1, <2>2
  <2>4. Sum(f) = Sum(e) + x
    BY <2>2, SumOfOneMore
  <2>5. ASSUME NEW i \in 1 .. (m + 1)
        PROVE  Sum(f) = Sum(Without(f, i)) + f[i]
    <3>1. PICK w \in Seq(Int) : w = Without(f, i)
      BY <2>3, WithoutIs
    <3>2. Len(w) = m /\ \A k \in 1 .. m : w[k] = IF k < i THEN f[k] ELSE f[k + 1]
      <4>1. IsWithout(w, f, i, m)
        BY <2>3, <3>1, WithoutIs
      <4> QED
        BY <4>1 DEF IsWithout
    <3>3. CASE i = m + 1
      <4>1. \A k \in 1 .. m : w[k] = e[k]
        BY <2>3, <3>2, <3>3
      <4>2. w = e
        BY <2>1, <3>2, <4>1, SeqEqual
      <4> QED
        BY <2>3, <2>4, <3>1, <3>3, <4>2
    <3>4. CASE i # m + 1
      <4>1. i \in 1 .. m
        BY <3>4
      <4>2. PICK n \in Nat : m = n + 1
        <5>1. m - 1 \in Nat /\ m = (m - 1) + 1
          BY <4>1
        <5> QED
          BY <5>1
      <4>3. PICK v \in Seq(Int) : v = Without(e, i)
        BY <2>1, <4>1, <4>2, WithoutIs
      <4>4. Len(v) = n /\ \A k \in 1 .. n : v[k] = IF k < i THEN e[k] ELSE e[k + 1]
        <5>1. IsWithout(v, e, i, n)
          <6>1. Len(e) = n + 1 /\ i \in 1 .. (n + 1)
            BY <2>1, <4>1, <4>2
          <6> QED
            BY <4>3, <6>1, WithoutIs
        <5> QED
          BY <5>1 DEF IsWithout
      <4>5. PICK u \in Seq(Int) : u = Append(v, x)
        BY AppendIs
      <4>6. Len(u) = n + 1 /\ u[n + 1] = x /\ \A k \in 1 .. n : u[k] = v[k]
        <5>1. Len(v) = n
          BY <4>4
        <5>2. /\ Len(Append(v, x)) = n + 1 /\ Append(v, x)[n + 1] = x
              /\ \A k \in 1 .. n : Append(v, x)[k] = v[k]
          BY <5>1, AppendIs
        <5> QED
          BY <4>5, <5>2
      <4>7. ASSUME NEW k \in 1 .. (n + 1)
            PROVE  w[k] = u[k]
        <5>1. CASE k = n + 1
          <6>1. ~(k < i) /\ k + 1 = m + 1 /\ k \in 1 .. m
            BY <4>1, <4>2, <5>1
          <6> QED
            BY <2>3, <3>2, <4>6, <5>1, <6>1
        <5>2. CASE k # n + 1
          <6>1. k \in 1 .. n /\ k \in 1 .. m /\ k + 1 \in 1 .. m
            BY <4>2, <5>2
          <6> QED
            BY <2>3, <3>2, <4>4, <4>6, <6>1
        <5> QED
          BY <5>1, <5>2
      <4>8. w = u
        BY <3>2, <4>2, <4>6, <4>7, SeqEqual
      <4>9. Sum(w) = Sum(v) + x
        BY <4>5, <4>8, SumOfOneMore
      <4>10. Sum(e) = Sum(v) + e[i]
        BY <1>2, <2>1, <4>1, <4>3
      <4>11. f[i] = e[i] /\ e[i] \in Int /\ Sum(v) \in Int
        BY <2>1, <2>3, <4>1, SumIs
      <4> QED
        BY <2>4, <3>1, <4>9, <4>10, <4>11
    <3> QED
      BY <3>3, <3>4
  <2> QED
    BY <2>2, <2>3, <2>5
<1> HIDE DEF T
<1>3. Seq(Int) \subseteq T
  BY <1>1, <1>2, SeqInduction
<1> QED
  BY <1>3 DEF T

\* a sum does not depend on the order
LEMMA SumShuffled ==
    ASSUME NEW xs \in Seq(Int), NEW ys \in Seq(Int), NEW p, Shuffled(ys, xs, p)
    PROVE  Sum(ys) = Sum(xs)
<1> DEFINE P(n) == \A us, vs \in Seq(Int) :
                      Len(us) = n /\ (\E q : Shuffled(vs, us, q)) => Sum(vs) = Sum(us)
           T == {n \in Nat : P(n)}
<1>1. 0 \in T
  <2>1. ASSUME NEW us \in Seq(Int), NEW vs \in Seq(Int), Len(us) = 0, Len(vs) = Len(us)
        PROVE  Sum(vs) = Sum(us)
    <3>1. us = <<>> /\ vs = <<>>
      BY <2>1, EmptySeq
    <3> QED
      BY <3>1
  <2> QED
    BY <2>1 DEF Shuffled
<1>2. ASSUME NEW n \in Nat, n \in T
      PROVE  n + 1 \in T
  <2>1. ASSUME NEW us \in Seq(Int), NEW vs \in Seq(Int), Len(us) = n + 1, NEW q,
               Shuffled(vs, us, q)
        PROVE  Sum(vs) = Sum(us)
    <3>1. /\ Len(vs) = n + 1 /\ q \in [1 .. (n + 1) -> 1 .. (n + 1)]
          /\ \A i, j \in 1 .. (n + 1) : q[i] = q[j] => i = j
          /\ \A k \in 1 .. (n + 1) : \E i \in 1 .. (n + 1) : q[i] = k
          /\ \A k \in 1 .. (n + 1) : vs[k] = us[q[k]]
      BY <2>1 DEF Shuffled, Order
    <3>2. n + 1 \in 1 .. (n + 1)
      OBVIOUS
    <3>3. PICK j \in 1 .. (n + 1) : q[j] = n + 1
      BY <3>1, <3>2
    <3>4. PICK a \in Seq(Int) : a = Without(us, n + 1)
      BY <2>1, <3>2, WithoutIs
    <3>5. Len(a) = n /\ \A k \in 1 .. n : a[k] = us[k]
      <4>1. \A k \in 1 .. n : a[k] = IF k < n + 1 THEN us[k] ELSE us[k + 1]
        BY <2>1, <3>2, <3>4, WithoutIs DEF IsWithout
      <4>2. Len(a) = n
        BY <2>1, <3>2, <3>4, WithoutIs DEF IsWithout
      <4>3. \A k \in 1 .. n : k < n + 1
        OBVIOUS
      <4> QED
        BY <4>1, <4>2, <4>3
    <3>6. PICK b \in Seq(Int) : b = Without(vs, j)
      BY <3>1, WithoutIs
    <3>7. Len(b) = n /\ \A k \in 1 .. n : b[k] = IF k < j THEN vs[k] ELSE vs[k + 1]
      <4>1. Len(vs) = n + 1
        BY <3>1
      <4>2. IsWithout(b, vs, j, n)
        BY <3>6, <4>1, WithoutIs
      <4> QED
        BY <4>2 DEF IsWithout
    <3> DEFINE step(k) == IF k < j THEN k ELSE k + 1
               r == [k \in 1 .. n |-> q[step(k)]]
    <3>8. \A k \in 1 .. n : step(k) \in 1 .. (n + 1) /\ step(k) # j
      OBVIOUS
    <3>9. \A k, l \in 1 .. n : step(k) = step(l) => k = l
      <4>1. ASSUME NEW k \in 1 .. n, NEW l \in 1 .. n, step(k) = step(l)
            PROVE  k = l
        <5>1. CASE k < j /\ l < j
          BY <4>1, <5>1
        <5>2. CASE k < j /\ ~(l < j)
          BY <4>1, <5>2
        <5>3. CASE ~(k < j) /\ l < j
          BY <4>1, <5>3
        <5>4. CASE ~(k < j) /\ ~(l < j)
          BY <4>1, <5>4
        <5> QED
          BY <5>1, <5>2, <5>3, <5>4
      <4> QED
        BY <4>1
    <3>10. \A k \in 1 .. n : b[k] = vs[step(k)]
      BY <3>7
    <3>11. \A i \in 1 .. (n + 1) : i # j => \E k \in 1 .. n : step(k) = i
      <4>1. ASSUME NEW i \in 1 .. (n + 1), i # j
            PROVE  \E k \in 1 .. n : step(k) = i
        <5>1. CASE i < j
          <6>1. i \in 1 .. n /\ step(i) = i
            BY <5>1
          <6> QED
            BY <6>1
        <5>2. CASE i > j
          <6>1. i - 1 \in 1 .. n /\ ~(i - 1 < j) /\ (i - 1) + 1 = i
            BY <5>2
          <6>2. step(i - 1) = i
            BY <6>1
          <6> QED
            BY <6>1, <6>2
        <5> QED
          BY <4>1, <5>1, <5>2
      <4> QED
        BY <4>1
    <3> HIDE DEF step
    <3>12. \A k \in 1 .. n : r[k] \in 1 .. n /\ r[k] = q[step(k)]
      <4>1. ASSUME NEW k \in 1 .. n
            PROVE  q[step(k)] \in 1 .. n
        <5>1. step(k) \in 1 .. (n + 1) /\ step(k) # j
          BY <3>8
        <5>2. q[step(k)] \in 1 .. (n + 1) /\ q[step(k)] # n + 1
          BY <3>1, <3>3, <5>1
        <5>3. PICK m : m = q[step(k)]
          OBVIOUS
        <5>4. m \in 1 .. (n + 1) /\ m # n + 1
          BY <5>2, <5>3
        <5>5. m \in 1 .. n
          BY <5>4
        <5> QED
          BY <5>3, <5>5
      <4> QED
        BY <4>1
    <3>13. r \in [1 .. n -> 1 .. n]
      BY <3>12
    <3> HIDE DEF r
    <3>14. \A k, l \in 1 .. n : r[k] = r[l] => k = l
      <4>1. ASSUME NEW k \in 1 .. n, NEW l \in 1 .. n, r[k] = r[l]
            PROVE  k = l
        <5>1. q[step(k)] = q[step(l)]
          BY <3>12, <4>1
        <5>2. step(k) = step(l)
          BY <3>1, <3>8, <5>1
        <5> QED
          BY <3>9, <5>2
      <4> QED
        BY <4>1
    <3>15. \A m \in 1 .. n : \E k \in 1 .. n : r[k] = m
      <4>1. ASSUME NEW m \in 1 .. n
            PROVE  \E k \in 1 .. n : r[k] = m
        <5>1. m \in 1 .. (n + 1) /\ m # n + 1
          OBVIOUS
        <5>2. PICK i \in 1 .. (n + 1) : q[i] = m
          BY <3>1, <5>1
        <5>3. i # j
          BY <3>3, <5>1, <5>2
        <5>4. PICK k \in 1 .. n : step(k) = i
          BY <3>11, <5>3
        <5> QED
          BY <3>12, <5>2, <5>4
      <4> QED
        BY <4>1
    <3>16. \A k \in 1 .. n : b[k] = a[r[k]]
      <4>1. ASSUME NEW k \in 1 .. n
            PROVE  b[k] = a[r[k]]
        <5>1. b[k] = us[q[step(k)]]
          BY <3>1, <3>8, <3>10
        <5>2. r[k] \in 1 .. n /\ r[k] = q[step(k)]
          BY <3>12
        <5> QED
          BY <3>5, <5>1, <5>2
      <4> QED
        BY <4>1
    <3>17. Shuffled(b, a, r)
      BY <3>5, <3>7, <3>13, <3>14, <3>15, <3>16 DEF Shuffled, Order
    <3>18. Sum(b) = Sum(a)
      BY <1>2, <3>5, <3>17
    <3>19. Sum(us) = Sum(a) + us[n + 1]
      BY <2>1, <3>2, <3>4, SumWithout
    <3>20. Sum(vs) = Sum(b) + vs[j]
      BY <3>1, <3>6, SumWithout
    <3>21. vs[j] = us[n + 1]
      BY <3>1, <3>3
    <3> QED
      BY <3>18, <3>19, <3>20, <3>21
  <2> QED
    BY <2>1
<1> HIDE DEF T
<1>3. Nat \subseteq T
  BY <1>1, <1>2, Induction
<1>4. Len(xs) \in T
  BY <1>3
<1> QED
  BY <1>4 DEF T

\* x is a value of the sequence
Has(seq, x) == \E i \in 1 .. Len(seq) : seq[i] = x

LEMMA ConcatHas ==
    ASSUME NEW X, NEW xs \in Seq(X), NEW ys \in Seq(X), NEW x
    PROVE  Has(xs \o ys, x) <=> Has(xs, x) \/ Has(ys, x)
<1>1. PICK m \in Nat : m = Len(xs)
  OBVIOUS
<1>2. PICK n \in Nat : n = Len(ys)
  OBVIOUS
<1>3. PICK u \in Seq(X) : u = xs \o ys
  BY ConcatProperties
<1>4. Len(u) = m + n /\ \A i \in 1 .. (m + n) : u[i] = IF i <= m THEN xs[i] ELSE ys[i - m]
  BY <1>1, <1>2, <1>3, ConcatProperties
<1>5. ASSUME Has(u, x)
      PROVE  Has(xs, x) \/ Has(ys, x)
  <2>1. PICK i \in 1 .. (m + n) : u[i] = x
    BY <1>4, <1>5 DEF Has
  <2>2. CASE i <= m
    <3>1. i \in 1 .. m /\ xs[i] = x
      BY <1>4, <2>1, <2>2
    <3> QED
      BY <1>1, <3>1 DEF Has
  <2>3. CASE ~(i <= m)
    <3>1. i - m \in 1 .. n
      BY <2>3
    <3>2. ys[i - m] = x
      BY <1>4, <2>1, <2>3
    <3> QED
      BY <1>2, <3>1, <3>2 DEF Has
  <2> QED
    BY <2>2, <2>3
<1>6. ASSUME Has(xs, x)
      PROVE  Has(u, x)
  <2>1. PICK i \in 1 .. m : xs[i] = x
    BY <1>1, <1>6 DEF Has
  <2>2. i \in 1 .. (m + n) /\ i <= m
    OBVIOUS
  <2> QED
    BY <1>4, <2>1, <2>2 DEF Has
<1>7. ASSUME Has(ys, x)
      PROVE  Has(u, x)
  <2>1. PICK i \in 1 .. n : ys[i] = x
    BY <1>2, <1>7 DEF Has
  <2>2. i + m \in 1 .. (m + n) /\ ~(i + m <= m) /\ (i + m) - m = i
    OBVIOUS
  <2>3. u[i + m] = x
    BY <1>4, <2>1, <2>2
  <2> QED
    BY <1>4, <2>2, <2>3 DEF Has
<1> QED
  BY <1>3, <1>5, <1>6, <1>7

\* the flat sequence holds what its parts hold
LEMMA FlatHas ==
    ASSUME NEW X, NEW ss \in Seq(Seq(X)), NEW x
    PROVE  Has(FlattenSeq(ss), x) <=> \E k \in 1 .. Len(ss) : Has(ss[k], x)
<1> DEFINE P(e) == Has(FlattenSeq(e), x) <=> \E k \in 1 .. Len(e) : Has(e[k], x)
           T == {e \in Seq(Seq(X)) : P(e)}
<1>1. <<>> \in T
  <2>1. <<>> \in Seq(Seq(X)) /\ Len(<<>>) = 0
    OBVIOUS
  <2>2. ~Has(<<>>, x)
    BY DEF Has
  <2> QED
    BY <2>1, <2>2, FlatNone
<1>2. ASSUME NEW e \in Seq(Seq(X)), NEW y \in Seq(X), e \in T
      PROVE  Append(e, y) \in T
  <2>1. PICK n \in Nat : n = Len(e)
    OBVIOUS
  <2>2. PICK f \in Seq(Seq(X)) : f = Append(e, y)
    BY AppendIs
  <2>3. Len(f) = n + 1 /\ f[n + 1] = y /\ \A k \in 1 .. n : f[k] = e[k]
    BY <2>1, <2>2
  <2>4. PICK flat \in Seq(X) : flat = FlattenSeq(e)
    BY FlatIs
  <2>5. FlattenSeq(f) = flat \o y
    BY <2>2, <2>4, FlatOneMore
  <2>6. Has(flat \o y, x) <=> Has(flat, x) \/ Has(y, x)
    BY ConcatHas
  <2>7. Has(flat, x) <=> \E k \in 1 .. n : Has(e[k], x)
    BY <1>2, <2>1, <2>4
  <2>8. (\E k \in 1 .. (n + 1) : Has(f[k], x)) <=> (\E k \in 1 .. n : Has(e[k], x)) \/ Has(y, x)
    <3>1. \A k \in 1 .. (n + 1) : k \in 1 .. n \/ k = n + 1
      OBVIOUS
    <3>2. n + 1 \in 1 .. (n + 1) /\ \A k \in 1 .. n : k \in 1 .. (n + 1)
      OBVIOUS
    <3> QED
      BY <2>3, <3>1, <3>2
  <2>9. P(f)
    BY <2>3, <2>5, <2>6, <2>7, <2>8
  <2> QED
    BY <2>2, <2>9
<1> HIDE DEF T
<1>3. Seq(Seq(X)) \subseteq T
  BY <1>1, <1>2, SeqInduction
<1> QED
  BY <1>3 DEF T

\* the same parts in another order hold the same values
LEMMA FlatShuffled ==
    ASSUME NEW X, NEW ss \in Seq(Seq(X)), NEW ts \in Seq(Seq(X)), NEW p, Shuffled(ts, ss, p)
    PROVE  /\ Within(FlattenSeq(ts), FlattenSeq(ss))
           /\ Within(FlattenSeq(ss), FlattenSeq(ts))
<1>1. PICK n \in Nat : n = Len(ss)
  OBVIOUS
<1>2. /\ Len(ts) = n /\ \A k \in 1 .. n : p[k] \in 1 .. n /\ ts[k] = ss[p[k]]
      /\ \A k \in 1 .. n : \E i \in 1 .. n : p[i] = k
  BY <1>1 DEF Shuffled, Order
<1>3. \A x : (\E k \in 1 .. n : Has(ss[k], x)) <=> (\E k \in 1 .. n : Has(ts[k], x))
  <2>1. ASSUME NEW x, NEW k \in 1 .. n, Has(ss[k], x)
        PROVE  \E l \in 1 .. n : Has(ts[l], x)
    <3>1. PICK l \in 1 .. n : p[l] = k
      BY <1>2
    <3> QED
      BY <1>2, <2>1, <3>1
  <2>2. ASSUME NEW x, NEW k \in 1 .. n, Has(ts[k], x)
        PROVE  \E l \in 1 .. n : Has(ss[l], x)
    BY <1>2, <2>2
  <2> QED
    BY <2>1, <2>2
<1>4. \A x : Has(FlattenSeq(ss), x) <=> Has(FlattenSeq(ts), x)
  BY <1>1, <1>2, <1>3, FlatHas
<1>5. PICK a \in Seq(X) : a = FlattenSeq(ss)
  BY FlatIs
<1>6. PICK b \in Seq(X) : b = FlattenSeq(ts)
  BY FlatIs
<1>7. \A x : Has(a, x) <=> Has(b, x)
  BY <1>4, <1>5, <1>6
<1>8. \A i \in 1 .. Len(a) : Has(a, a[i])
  BY DEF Has
<1>9. \A i \in 1 .. Len(b) : Has(b, b[i])
  BY DEF Has
<1>10. Within(a, b) /\ Within(b, a)
  BY <1>7, <1>8, <1>9 DEF Within, Has
<1> QED
  BY <1>5, <1>6, <1>10

LEMMA AddedDistinct ==
    ASSUME NEW X, NEW xs \in Seq(X), NEW limit \in Nat
    PROVE  Distinct(AddSamples(<<>>, limit, xs))
<1>1. PICK none \in Seq(X) : none = <<>> /\ Len(none) = 0
  <2>1. <<>> \in Seq(X) /\ Len(<<>>) = 0
    OBVIOUS
  <2> QED
    BY <2>1
<1>2. Distinct(none)
  BY <1>1 DEF Distinct
<1> QED
  BY <1>1, <1>2, AddCut

\* of a sequence of values that another one holds too, no more samples are taken
LEMMA NoMoreSamples ==
    ASSUME NEW X, NEW xs \in Seq(X), NEW ys \in Seq(X), NEW limit \in Nat,
           Within(xs, ys), Within(ys, xs)
    PROVE  Len(AddSamples(<<>>, limit, ys)) <= Len(AddSamples(<<>>, limit, xs))
<1>1. <<>> \in Seq(X)
  OBVIOUS
<1>2. PICK s \in Seq(X) : s = AddSamples(<<>>, limit, xs)
  BY <1>1, AddSamplesType
<1>3. PICK t \in Seq(X) : t = AddSamples(<<>>, limit, ys)
  BY <1>1, AddSamplesType
<1>4. IsFirst(s, limit, xs) /\ IsFirst(t, limit, ys) /\ Distinct(t)
  BY <1>2, <1>3, AddedAreFirst, AddedDistinct
<1>5. PICK m \in Nat : m = Len(s)
  OBVIOUS
<1>6. PICK n \in Nat : n = Len(t)
  OBVIOUS
<1>7. n <= limit /\ Within(t, ys)
  BY <1>4, <1>6 DEF IsFirst
<1>8. m = limit \/ \A k \in 1 .. Len(xs) : \E i \in 1 .. m : s[i] = xs[k]
  BY <1>4, <1>5 DEF IsFirst
<1>9. CASE m = limit
  BY <1>2, <1>3, <1>5, <1>6, <1>7, <1>9
<1>10. CASE \A k \in 1 .. Len(xs) : \E i \in 1 .. m : s[i] = xs[k]
  <2>1. Within(t, s)
    <3>1. ASSUME NEW i \in 1 .. Len(t)
          PROVE  \E j \in 1 .. Len(s) : t[i] = s[j]
      <4>1. PICK k \in 1 .. Len(ys) : t[i] = ys[k]
        BY <1>7 DEF Within
      <4>2. PICK l \in 1 .. Len(xs) : ys[k] = xs[l]
        BY DEF Within
      <4>3. PICK j \in 1 .. m : s[j] = xs[l]
        BY <1>10
      <4> QED
        BY <1>5, <4>1, <4>2, <4>3
    <3> QED
      BY <3>1 DEF Within
  <2> QED
    BY <1>2, <1>3, <1>4, <2>1, Pigeons
<1> QED
  BY <1>8, <1>9, <1>10

\* as many samples, whatever the order of the parts
LEMMA SamplesShuffled ==
    ASSUME NEW X, NEW ss \in Seq(Seq(X)), NEW ts \in Seq(Seq(X)), NEW p, Shuffled(ts, ss, p),
           NEW limit \in Nat
    PROVE  Len(AddSamples(<<>>, limit, FlattenSeq(ts)))
             = Len(AddSamples(<<>>, limit, FlattenSeq(ss)))
<1>1. PICK a \in Seq(X) : a = FlattenSeq(ss)
  BY FlatIs
<1>2. PICK b \in Seq(X) : b = FlattenSeq(ts)
  BY FlatIs
<1>3. Within(a, b) /\ Within(b, a)
  BY <1>1, <1>2, FlatShuffled
<1>4. <<>> \in Seq(X)
  OBVIOUS
<1>5. PICK m \in Nat : m = Len(AddSamples(<<>>, limit, a))
  BY <1>4, AddSamplesType
<1>6. PICK n \in Nat : n = Len(AddSamples(<<>>, limit, b))
  BY <1>4, AddSamplesType
<1>7. n <= m
  BY <1>3, <1>5, <1>6, NoMoreSamples
<1>8. m <= n
  BY <1>3, <1>5, <1>6, NoMoreSamples
<1> QED
  BY <1>1, <1>2, <1>5, <1>6, <1>7, <1>8

\* how many values of the sequence are in V
Count(s, V) == Cardinality({i \in DOMAIN s : s[i] \in V})

LEMMA CountShuffled ==
    ASSUME NEW xs \in Seq(Int), NEW ys \in Seq(Int), NEW p, Shuffled(ys, xs, p), NEW V
    PROVE  Count(ys, V) = Count(xs, V)
<1>1. PICK n \in Nat : n = Len(xs)
  OBVIOUS
<1>2. /\ DOMAIN xs = 1 .. n /\ DOMAIN ys = 1 .. n
      /\ \A k \in 1 .. n : p[k] \in 1 .. n /\ ys[k] = xs[p[k]]
      /\ \A i, j \in 1 .. n : p[i] = p[j] => i = j
      /\ \A k \in 1 .. n : \E i \in 1 .. n : p[i] = k
  <2>1. Len(ys) = n
    BY <1>1 DEF Shuffled
  <2>2. DOMAIN xs = 1 .. n /\ DOMAIN ys = 1 .. n
    BY <1>1, <2>1
  <2> QED
    BY <1>1, <2>2 DEF Shuffled, Order
<1> DEFINE A == {i \in 1 .. n : ys[i] \in V}
           B == {i \in 1 .. n : xs[i] \in V}
           f == [i \in A |-> p[i]]
<1>3. f \in [A -> B]
  BY <1>2
<1>4. \A i, j \in A : f[i] = f[j] => i = j
  BY <1>2
<1>5. \A k \in B : \E i \in A : f[i] = k
  <2>1. ASSUME NEW k \in B
        PROVE  \E i \in A : f[i] = k
    <3>1. PICK i \in 1 .. n : p[i] = k
      BY <1>2
    <3>2. i \in A
      BY <1>2, <3>1
    <3>3. f[i] = k
      BY <3>1, <3>2
    <3> QED
      BY <3>2, <3>3
  <2> QED
    BY <2>1
<1>6. IsFiniteSet(1 .. n) /\ A \in SUBSET (1 .. n)
  BY FS_Interval
<1> HIDE DEF f, A, B
<1>7. IsFiniteSet(A)
  BY <1>6, FS_Subset
<1>8. f \in Bijection(A, B)
  BY <1>3, <1>4, <1>5 DEF Bijection, Injection, Surjection, IsInjective
<1>9. ExistsBijection(A, B)
  BY <1>8 DEF ExistsBijection
<1>10. Cardinality(B) = Cardinality(A)
  BY <1>7, <1>9, FS_Bijection
<1> QED
  BY <1>2, <1>10 DEF A, B, Count

\* sorting forgets the order
LEMMA SortedShuffled ==
    ASSUME NEW xs \in Seq(Int), NEW ys \in Seq(Int), NEW p, Shuffled(ys, xs, p)
    PROVE  Sorted(ys) = Sorted(xs)
<1>1. DOMAIN ys = DOMAIN xs
  BY DEF Shuffled
<1>2. Range(ys) = Range(xs)
  <2>1. PICK n \in Nat : n = Len(xs)
    OBVIOUS
  <2>2. DOMAIN xs = 1 .. n /\ DOMAIN ys = 1 .. n
    BY <1>1, <2>1
  <2>3. /\ \A k \in 1 .. n : p[k] \in 1 .. n /\ ys[k] = xs[p[k]]
        /\ \A k \in 1 .. n : \E i \in 1 .. n : p[i] = k
    BY <2>1 DEF Shuffled, Order
  <2>4. \A k \in 1 .. n : \E i \in 1 .. n : ys[i] = xs[k]
    BY <2>3
  <2>5. \A k \in 1 .. n : \E i \in 1 .. n : xs[i] = ys[k]
    BY <2>3
  <2>6. Range(ys) \subseteq Range(xs)
    BY <2>2, <2>5 DEF Range
  <2>7. Range(xs) \subseteq Range(ys)
    BY <2>2, <2>4 DEF Range
  <2> QED
    BY <2>6, <2>7
<1>3. ASSUME NEW d \in Int
      PROVE  /\ Cardinality({i \in DOMAIN ys : ys[i] < d})
                  = Cardinality({i \in DOMAIN xs : xs[i] < d})
             /\ Cardinality({i \in DOMAIN ys : ys[i] <= d})
                  = Cardinality({i \in DOMAIN xs : xs[i] <= d})
  <2> DEFINE Below == {v \in Int : v < d}
             NotAbove == {v \in Int : v <= d}
  <2>1. (\A i \in DOMAIN xs : xs[i] \in Int) /\ \A i \in DOMAIN ys : ys[i] \in Int
    OBVIOUS
  <2>2. /\ {i \in DOMAIN ys : ys[i] < d} = {i \in DOMAIN ys : ys[i] \in Below}
        /\ {i \in DOMAIN xs : xs[i] < d} = {i \in DOMAIN xs : xs[i] \in Below}
        /\ {i \in DOMAIN ys : ys[i] <= d} = {i \in DOMAIN ys : ys[i] \in NotAbove}
        /\ {i \in DOMAIN xs : xs[i] <= d} = {i \in DOMAIN xs : xs[i] \in NotAbove}
    BY <2>1
  <2> HIDE DEF Below, NotAbove
  <2>3. Count(ys, Below) = Count(xs, Below) /\ Count(ys, NotAbove) = Count(xs, NotAbove)
    BY CountShuffled
  <2> QED
    BY <2>2, <2>3 DEF Count
<1>4. Range(xs) \subseteq Int
  BY DEF Range
<1> DEFINE Kth(s, k) == {d \in Range(s) :
                            /\ Cardinality({i \in DOMAIN s : s[i] < d}) < k
                            /\ Cardinality({i \in DOMAIN s : s[i] <= d}) >= k}
           Chosen(S) == CHOOSE d : d \in S
<1>5. \A k : Kth(ys, k) = Kth(xs, k)
  BY <1>2, <1>3, <1>4
<1>6. \A s : Sorted(s) = [k \in DOMAIN s |-> Chosen(Kth(s, k))]
  BY DEF Sorted
<1> HIDE DEF Kth, Chosen
<1> QED
  BY <1>1, <1>5, <1>6

\* the figures of a summary, spelled out
LEMMA FiguresAre ==
    ASSUME NEW u
    PROVE  Figures(Summary(u)) =
             [total |-> Len(u.durations), successes |-> u.successes, failures |-> u.failures,
              avg |-> Avg(u.durations), p95 |-> P95(u.durations), breakdown |-> u.breakdown,
              failureSamples |-> [c \in Classes |-> Len(u.failureSamples[c])],
              traceIDSamples |-> Len(u.traceIDSamples),
              failedTraceIDSamples |-> Len(u.failedTraceIDSamples)]
<1>1. PICK a, b, c, d, e, f : /\ a = Len(u.durations) /\ b = u.successes /\ c = u.failures
                              /\ d = Avg(u.durations) /\ e = P95(u.durations)
                              /\ f = u.breakdown
  OBVIOUS
<1>2. PICK g, h, i : g = u.failureSamples /\ h = u.traceIDSamples /\ i = u.failedTraceIDSamples
  OBVIOUS
<1>3. PICK x, y, z : /\ x = [class \in Classes |-> Len(g[class])] /\ y = Len(h) /\ z = Len(i)
  OBVIOUS
<1> DEFINE R(p, q, r) ==
        [total |-> a, successes |-> b, failures |-> c, avg |-> d, p95 |-> e, breakdown |-> f,
         failureSamples |-> p, traceIDSamples |-> q, failedTraceIDSamples |-> r]
<1>4. PICK s : s = Summary(u)
  OBVIOUS
<1>5. s = R(g, h, i)
  BY <1>1, <1>2, <1>4 DEF Summary
<1>6. s.failureSamples = g /\ s.traceIDSamples = h /\ s.failedTraceIDSamples = i
  BY <1>5
<1>7. Figures(s) = [s EXCEPT !.failureSamples = x, !.traceIDSamples = y,
                             !.failedTraceIDSamples = z]
  BY <1>3, <1>6 DEF Figures
<1>8. [R(g, h, i) EXCEPT !.failureSamples = x] = R(x, h, i)
  OBVIOUS
<1>9. [R(x, h, i) EXCEPT !.traceIDSamples = y] = R(x, y, i)
  OBVIOUS
<1>10. [R(x, y, i) EXCEPT !.failedTraceIDSamples = z] = R(x, y, z)
  OBVIOUS
<1>11. R(x, y, z)
         = [total |-> Len(u.durations), successes |-> u.successes, failures |-> u.failures,
            avg |-> Avg(u.durations), p95 |-> P95(u.durations), breakdown |-> u.breakdown,
            failureSamples |-> [class \in Classes |-> Len(u.failureSamples[class])],
            traceIDSamples |-> Len(u.traceIDSamples),
            failedTraceIDSamples |-> Len(u.failedTraceIDSamples)]
  BY <1>1, <1>2, <1>3
<1> HIDE DEF R
<1> QED
  BY <1>4, <1>5, <1>7, <1>8, <1>9, <1>10, <1>11

\* the figures of the Stats of some results in another order
LEMMA FiguresShuffled ==
    ASSUME NEW rs \in Seq(Results), NEW ts \in Seq(Results), NEW p, Shuffled(ts, rs, p)
    PROVE  Figures(Summary(Replay(ts))) = Figures(Summary(Replay(rs)))
<1>1. PICK n \in Nat : n = Len(rs)
  OBVIOUS
<1>2. /\ DOMAIN rs = 1 .. n /\ DOMAIN ts = 1 .. n /\ Len(ts) = n
      /\ \A k \in 1 .. n : p[k] \in 1 .. n /\ ts[k] = rs[p[k]]
  <2>1. Len(ts) = n
    BY <1>1 DEF Shuffled
  <2>2. DOMAIN rs = 1 .. n /\ DOMAIN ts = 1 .. n
    BY <1>1, <2>1
  <2> QED
    BY <1>1, <2>1, <2>2 DEF Shuffled, Order
<1>3. Order(p, n)
  BY <1>1 DEF Shuffled
<1>4. PICK s \in StatsSet : s = Replay(rs)
  BY ReplayIs
<1>5. PICK t \in StatsSet : t = Replay(ts)
  BY ReplayIs
<1>6. Portrait(s, rs) /\ Portrait(t, ts)
  BY <1>4, <1>5, ReplayPortrait
<1>7. Shuffled(Durations(ts), Durations(rs), p)
  BY <1>2, <1>3 DEF Shuffled, Durations
<1>8. Shuffled(Successes(ts), Successes(rs), p) /\ Shuffled(Failures(ts), Failures(rs), p)
  BY <1>2, <1>3 DEF Shuffled, Successes, Failures
<1>9. \A c \in Classes : Shuffled(InClass(ts, c), InClass(rs, c), p)
  BY <1>2, <1>3 DEF Shuffled, InClass
<1>10. Shuffled(Batches(ts), Batches(rs), p) /\ Shuffled(FailedBatches(ts), FailedBatches(rs), p)
  BY <1>2, <1>3 DEF Shuffled, Batches, FailedBatches
<1>11. \A c \in Classes : Shuffled(Texted(ts, c), Texted(rs, c), p)
  BY <1>2, <1>3 DEF Shuffled, Texted
<1>12. Len(t.durations) = Len(s.durations)
  BY <1>6, <1>7 DEF Portrait, Shuffled
<1>13. t.durations = <<>> <=> s.durations = <<>>
  BY <1>12, StatsParts, EmptySeq
<1>14. Sum(t.durations) = Sum(s.durations)
  BY <1>6, <1>7, MappedIs, SumShuffled DEF Portrait
<1>15. Sorted(t.durations) = Sorted(s.durations)
  BY <1>6, <1>7, MappedIs, SortedShuffled DEF Portrait
<1>16. Avg(t.durations) = Avg(s.durations)
  BY <1>12, <1>13, <1>14 DEF Avg
<1>17. P95(t.durations) = P95(s.durations)
  BY <1>12, <1>13, <1>15 DEF P95
<1>18. t.successes = s.successes /\ t.failures = s.failures
  BY <1>6, <1>8, MappedIs, SumShuffled DEF Portrait
<1>19. t.breakdown = s.breakdown
  <2>1. \A c \in Classes : t.breakdown[c] = s.breakdown[c]
    BY <1>6, <1>9, MappedIs, SumShuffled DEF Portrait
  <2> QED
    BY <2>1, StatsParts
<1>20. PICK limit \in Nat : limit = TraceIDSampleLimit
  BY LimitsAreNumbers
<1>21. PICK most \in Nat : most = MaxFailureSamplesPerClass
  BY LimitsAreNumbers
<1>22. \A c \in Classes : Len(t.failureSamples[c]) = Len(s.failureSamples[c])
  <2>1. ASSUME NEW c \in Classes
        PROVE  Len(AddSamples(<<>>, most, FlattenSeq(Texted(ts, c))))
                 = Len(AddSamples(<<>>, most, FlattenSeq(Texted(rs, c))))
    BY <1>11, MappedIs, SamplesShuffled
  <2> QED
    BY <1>6, <1>21, <2>1, MappedIs DEF Portrait
<1>23. Len(t.traceIDSamples) = Len(s.traceIDSamples)
  <2>1. Len(AddSamples(<<>>, limit, FlattenSeq(Batches(ts))))
          = Len(AddSamples(<<>>, limit, FlattenSeq(Batches(rs))))
    BY <1>10, MappedIs, SamplesShuffled
  <2> QED
    BY <1>6, <1>20, <2>1, MappedIs DEF Portrait
<1>24. Len(t.failedTraceIDSamples) = Len(s.failedTraceIDSamples)
  <2>1. Len(AddSamples(<<>>, limit, FlattenSeq(FailedBatches(ts))))
          = Len(AddSamples(<<>>, limit, FlattenSeq(FailedBatches(rs))))
    BY <1>10, MappedIs, SamplesShuffled
  <2> QED
    BY <1>6, <1>20, <2>1, MappedIs DEF Portrait
<1> DEFINE Shown(u) ==
        [total |-> Len(u.durations), successes |-> u.successes, failures |-> u.failures,
         avg |-> Avg(u.durations), p95 |-> P95(u.durations), breakdown |-> u.breakdown,
         failureSamples |-> [c \in Classes |-> Len(u.failureSamples[c])],
         traceIDSamples |-> Len(u.traceIDSamples),
         failedTraceIDSamples |-> Len(u.failedTraceIDSamples)]
<1>25. Figures(Summary(t)) = Shown(t) /\ Figures(Summary(s)) = Shown(s)
  BY FiguresAre
<1>26. Shown(t) = Shown(s)
  BY <1>12, <1>16, <1>17, <1>18, <1>19, <1>22, <1>23, <1>24
<1> HIDE DEF Shown
<1> QED
  BY <1>4, <1>5, <1>25, <1>26

\* the orders of OrderOnlyPicksSamples
LEMMA OrderIs ==
    ASSUME NEW n \in Nat, NEW p \in SetToSeqs(1 .. n)
    PROVE  Order(p, n)
<1>1. IsFiniteSet(1 .. n) /\ Cardinality(1 .. n) = n
  <2>1. \A k \in Nat : IsFiniteSet(1 .. k) /\ Cardinality(1 .. k) = IF 1 > k THEN 0 ELSE k - 1 + 1
    BY FS_Interval
  <2> QED
    BY <2>1
<1>2. p \in [1 .. n -> 1 .. n] /\ \A i, j \in 1 .. n : i # j => p[i] # p[j]
  BY <1>1 DEF SetToSeqs
<1>3. p \in Injection(1 .. n, 1 .. n)
  BY <1>2 DEF Injection, IsInjective
<1>4. p \in Surjection(1 .. n, 1 .. n)
  BY <1>1, <1>3, FS_Injection
<1>5. \A k \in 1 .. n : \E i \in 1 .. n : p[i] = k
  BY <1>4 DEF Surjection
<1> QED
  BY <1>2, <1>5 DEF Order

\* The order in which the exporters got their results through chooses samples, and nothing
\* else: not their number, no count, no average and no percentile.
THEOREM OrderChoosesOnlySamples == Spec => []OrderOnlyPicksSamples
<1>1. Replayed => OrderOnlyPicksSamples
  <2> SUFFICES ASSUME Replayed, NEW i \in 1 .. Shards, NEW order \in SetToSeqs(DOMAIN log[i])
               PROVE  Figures(Summary(stats[i]))
                        = Figures(Summary(Replay([k \in DOMAIN order |-> log[i][order[k]]])))
    BY DEF OrderOnlyPicksSamples
  <2>1. PICK rs \in Seq(Results) : rs = log[i]
    BY DEF Replayed
  <2>2. PICK n \in Nat : n = Len(rs) /\ DOMAIN rs = 1 .. n
    OBVIOUS
  <2>3. Order(order, n)
    BY <2>1, <2>2, OrderIs
  <2>4. order \in [1 .. n -> 1 .. n]
    BY <2>3 DEF Order
  <2>5. PICK ts : ts = [k \in 1 .. n |-> rs[order[k]]]
    OBVIOUS
  <2>6. \A k \in 1 .. n : rs[order[k]] \in Results
    BY <2>2, <2>4
  <2>7. ts \in [1 .. n -> Results]
    BY <2>5, <2>6
  <2>8. ts \in Seq(Results) /\ Len(ts) = n
    BY <2>7
  <2>9. Shuffled(ts, rs, order)
    BY <2>2, <2>3, <2>5, <2>8 DEF Shuffled
  <2>10. Figures(Summary(Replay(ts))) = Figures(Summary(Replay(rs)))
    BY <2>8, <2>9, FiguresShuffled
  <2>11. stats[i] = Replay(rs)
    BY <2>1 DEF Replayed
  <2>12. [k \in DOMAIN order |-> log[i][order[k]]] = ts
    BY <2>1, <2>4, <2>5
  <2> QED
    BY <2>10, <2>11, <2>12
<1> QED
  BY <1>1, StatsAreReplayed, PTL
=============================================================================
