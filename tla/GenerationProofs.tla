-------------------------- MODULE GenerationProofs --------------------------
(***************************************************************************)
(* The two generators of traces.  Of a random trace, for every --max-depth *)
(* and --max-spans and whatever is drawn: how many spans it has, that a    *)
(* span lies within its parent, that links never close a cycle, and that   *)
(* no trace is cut short or grows for ever; what is said about depths      *)
(* (MaxDepthKept) does not hold of the code.  Of a scenario: validateDAG   *)
(* accepts exactly the graphs without a cycle, for every graph and every   *)
(* order of its nodes; what the walk of an accepted graph emits; and that  *)
(* both end.                                                               *)
(***************************************************************************)
EXTENDS TraceGen, ScenarioTrace, NumberInduction, FiniteSetTheorems, SequenceTheorems

-----------------------------------------------------------------------------
(* TraceGen. *)

\* the edges E among the vertices V have no cycle: every set has a member without a
\* predecessor in it
NoCycleAmong(E, V) == \A S \in (SUBSET V) \ {{}} : \E s \in S : \A r \in S : <<r, s>> \notin E

LEMMA NewLeaf ==
    ASSUME NEW E, NEW V, NEW p \in V, NEW n, n \notin V, E \subseteq V \X V, NoCycleAmong(E, V)
    PROVE  NoCycleAmong(E \cup {<<p, n>>}, V \cup {n})
<1> SUFFICES ASSUME NEW S \in SUBSET (V \cup {n}), S # {}
             PROVE  \E s \in S : \A r \in S : <<r, s>> \notin E \cup {<<p, n>>}
  BY DEF NoCycleAmong
<1>1. CASE S \cap V = {}
  <2>1. S = {n}
    BY <1>1
  <2> QED
    BY <2>1
<1>2. CASE S \cap V # {}
  <2>1. PICK s \in S \cap V : \A r \in S \cap V : <<r, s>> \notin E
    BY <1>2 DEF NoCycleAmong
  <2> QED
    BY <2>1
<1> QED
  BY <1>1, <1>2

\* An edge from p to c closes no cycle when c is outside a set that holds p and all
\* that precedes its members.
LEMMA NewEdge ==
    ASSUME NEW E, NEW V, NEW A \in SUBSET V, NEW p \in A, NEW c, c \notin A,
           \A a \in A : \A r \in V : <<r, a>> \in E => r \in A, NoCycleAmong(E, V)
    PROVE  NoCycleAmong(E \cup {<<p, c>>}, V)
<1> SUFFICES ASSUME NEW S \in SUBSET V, S # {}
             PROVE  \E s \in S : \A r \in S : <<r, s>> \notin E \cup {<<p, c>>}
  BY DEF NoCycleAmong
<1>1. CASE S \cap A = {}
  <2>1. PICK s \in S : \A r \in S : <<r, s>> \notin E
    BY DEF NoCycleAmong
  <2> QED
    BY <1>1, <2>1
<1>2. CASE S \cap A # {}
  <2>1. PICK s \in S \cap A : \A r \in S \cap A : <<r, s>> \notin E
    BY <1>2 DEF NoCycleAmong
  <2> QED
    BY <2>1
<1> QED
  BY <1>1, <1>2
-----------------------------------------------------------------------------
(* A forest of spans: what they were started under, their depths, their windows and *)
(* the links between them.                                                          *)

\* every span takes some time
Windows == {w \in [start : Nat, end : Nat] : w.start < w.end}

Within(w, v) == v.start <= w.start /\ w.end <= v.end

\* Edges, of any such forest
EdgesOf(under, between) ==
    {<<under[c], c>> : c \in {s \in DOMAIN under : under[s] # 0}} \cup between

\* every span was started under an earlier one, within its time
Rooted(under, deep, times) ==
    /\ under \in Seq(Nat) /\ deep \in Seq(Nat) /\ times \in Seq(Windows)
    /\ Len(deep) = Len(under) /\ Len(times) = Len(under)
    /\ \A s \in DOMAIN under :
          under[s] < s /\ (under[s] # 0 => Within(times[s], times[under[s]]))

Forest(under, deep, times, between) ==
    /\ Rooted(under, deep, times)
    /\ between \subseteq (DOMAIN under) \X (DOMAIN under)
    /\ NoCycleAmong(EdgesOf(under, between), DOMAIN under)

LEMMA AppendFacts ==
    ASSUME NEW S, NEW q \in Seq(S), NEW x \in S
    PROVE  /\ Append(q, x) \in Seq(S) /\ Len(Append(q, x)) = Len(q) + 1
           /\ Append(q, x)[Len(q) + 1] = x
           /\ \A i \in DOMAIN q : Append(q, x)[i] = q[i]
           /\ Len(q) + 1 \notin DOMAIN q
           /\ DOMAIN Append(q, x) = DOMAIN q \cup {Len(q) + 1}
  OBVIOUS

LEMMA TwoAppends ==
    ASSUME NEW S, NEW q \in Seq(S), NEW x \in S, NEW y \in S
    PROVE  q \o <<x, y>> = Append(Append(q, x), y)
  OBVIOUS

LEMMA EdgesArePairs ==
    ASSUME NEW under, NEW deep, NEW times, NEW between, Rooted(under, deep, times),
           between \subseteq (DOMAIN under) \X (DOMAIN under)
    PROVE  EdgesOf(under, between) \subseteq (DOMAIN under) \X (DOMAIN under)
<1> SUFFICES ASSUME NEW c \in DOMAIN under, under[c] # 0
             PROVE  under[c] \in DOMAIN under
  BY DEF EdgesOf
<1>1. under \in Seq(Nat) /\ under[c] < c
  BY DEF Rooted
<1> QED
  BY <1>1

\* A child started under any span of a forest, within its time, leaves a forest.
LEMMA ForestGrows ==
    ASSUME NEW under, NEW deep, NEW times, NEW between,
           Forest(under, deep, times, between), NEW p \in DOMAIN under, NEW d \in Nat,
           NEW w \in Windows, Within(w, times[p])
    PROVE  Forest(Append(under, p), Append(deep, d), Append(times, w), between)
<1> DEFINE V == DOMAIN under
           n == Len(under) + 1
           u == Append(under, p)
           t == Append(times, w)
<1>0. Rooted(under, deep, times) /\ between \subseteq V \X V
  BY DEF Forest
<1>1. under \in Seq(Nat) /\ p \in Nat /\ p # 0 /\ p < n /\ n \in Nat /\ n # 0
  BY <1>0 DEF Rooted
<1>2. /\ u \in Seq(Nat) /\ Len(u) = n /\ DOMAIN u = V \cup {n} /\ u[n] = p
      /\ n \notin V /\ \A s \in V : u[s] = under[s]
  BY <1>1, AppendFacts
<1>3. /\ deep \in Seq(Nat) /\ times \in Seq(Windows)
      /\ Len(deep) = Len(under) /\ Len(times) = Len(under)
  BY <1>0 DEF Rooted
<1>4. Append(deep, d) \in Seq(Nat) /\ Len(Append(deep, d)) = n
  BY <1>3, AppendFacts
<1>5. DOMAIN times = V
  BY <1>1, <1>3
<1>6. t \in Seq(Windows) /\ Len(t) = n /\ t[n] = w /\ \A s \in V : t[s] = times[s]
  BY <1>3, <1>5, AppendFacts
<1>7. Rooted(u, Append(deep, d), t)
  <2>1. ASSUME NEW s \in DOMAIN u
        PROVE  u[s] < s /\ (u[s] # 0 => Within(t[s], t[u[s]]))
    <3>1. CASE s = n
      BY <1>1, <1>2, <1>6, <3>1
    <3>2. CASE s # n
      <4>1. s \in V /\ u[s] = under[s] /\ t[s] = times[s]
        BY <1>2, <1>6, <3>2
      <4>2. under[s] < s /\ (under[s] # 0 => Within(times[s], times[under[s]]))
        BY <1>0, <4>1 DEF Rooted
      <4>3. under[s] # 0 => under[s] \in V
        BY <1>1, <4>1, <4>2
      <4> QED
        BY <1>6, <4>1, <4>2, <4>3
    <3> QED
      BY <3>1, <3>2
  <2> QED
    BY <1>2, <1>4, <1>6, <2>1 DEF Rooted
<1>8. between \subseteq (DOMAIN u) \X (DOMAIN u)
  BY <1>0, <1>2
<1>9. EdgesOf(u, between) = EdgesOf(under, between) \cup {<<p, n>>}
  <2>1. {s \in DOMAIN u : u[s] # 0} = {s \in V : under[s] # 0} \cup {n}
    BY <1>1, <1>2
  <2>2. \A s \in {r \in V : under[r] # 0} : <<u[s], s>> = <<under[s], s>>
    BY <1>2
  <2> HIDE DEF u, n
  <2> QED
    BY <1>2, <2>1, <2>2 DEF EdgesOf
<1>10. NoCycleAmong(EdgesOf(u, between), DOMAIN u)
  <2>1. EdgesOf(under, between) \subseteq V \X V
    BY <1>0, EdgesArePairs
  <2>2. NoCycleAmong(EdgesOf(under, between), V)
    BY DEF Forest
  <2> HIDE DEF u, n, V
  <2>3. NoCycleAmong(EdgesOf(under, between) \cup {<<p, n>>}, V \cup {n})
    BY <1>2, <2>1, <2>2, NewLeaf DEF V
  <2> QED
    BY <1>2, <1>9, <2>3
<1> QED
  BY <1>7, <1>8, <1>10 DEF Forest
-----------------------------------------------------------------------------
TypeOK ==
    /\ links \subseteq Builders \X Builders
    /\ spanCount \in 1 .. MaxSpans /\ remaining \in Nat /\ ended \in BOOLEAN

\* spans are only drawn where there is room for them
GrowthInv ==
    /\ Len(started) + remaining = spanCount
    /\ MaxDepth = 1 => Len(started) = 1
    /\ ended => remaining = 0 \/ MaxDepth = 1

TraceInv == TypeOK /\ GrowthInv /\ Forest(started, depth, window, links)

\* A duration that is no longer than the parent's is placed within the parent, wherever
\* the start falls.
LEMMA WindowWithin ==
    ASSUME NEW v \in Windows, NEW d \in Nat \ {0}, d <= v.end - v.start,
           NEW w \in RandomWindows(v, d)
    PROVE  w \in Windows /\ Within(w, v)
<1>1. PICK b \in Nat, e \in Nat : v.start = b /\ v.end = e /\ b < e /\ d <= e - b
  BY DEF Windows
<1>2. ~(d <= 0) /\ ~(e < b) /\ ~(e - d < b)
  BY <1>1
<1>3. w \in {[start |-> b + offset, end |-> b + offset + d] : offset \in 0 .. ((e - d) - b)}
  BY <1>1, <1>2 DEF RandomWindows
<1>4. PICK o \in 0 .. ((e - d) - b) : w = [start |-> b + o, end |-> b + o + d]
  BY <1>3
<1>5. /\ b + o \in Nat /\ b + o + d \in Nat /\ b + o < b + o + d
      /\ b <= b + o /\ b + o + d <= e
  BY <1>1, <1>4
<1> QED
  BY <1>1, <1>4, <1>5 DEF Windows, Within

\* emitChildSpan cuts the duration so that it fits, and leaves a child some time: what the
\* parent has, it has too
LEMMA ChildWithin ==
    ASSUME NEW v \in Windows, NEW w \in ChildWindows(v)
    PROVE  w \in Windows /\ Within(w, v)
<1>1. PICK d \in 1 .. Ticks :
         w \in RandomWindows(v, IF d > v.end - v.start THEN v.end - v.start ELSE d)
  BY DEF ChildWindows
<1>2. PICK c : c = IF d > v.end - v.start THEN v.end - v.start ELSE d
  OBVIOUS
<1>3. c \in Nat \ {0} /\ c <= v.end - v.start
  BY <1>1, <1>2, TraceGenAssumption DEF Windows
<1> QED
  BY <1>1, <1>2, <1>3, WindowWithin

\* The set that pickLinkCandidate sees is the one NewEdge needs.
LEMMA LinkKeepsForest ==
    ASSUME Forest(started, depth, window, links), NEW p \in Builders, NEW c \in Builders,
           c # p, ~HasAncestor(p, c)
    PROVE  NoCycleAmong(EdgesOf(started, links \cup {<<p, c>>}), Builders)
<1>1. Edges = EdgesOf(started, links) /\ Edges \subseteq Builders \X Builders
  BY EdgesArePairs DEF Forest, Edges, EdgesOf, Builders
<1>2. \A s, r : <<r, s>> \in Edges => r \in Parents(s)
  BY DEF Parents
<1>3. PICK A \in SUBSET Builders :
         /\ Parents(p) \subseteq A /\ \A a \in A : Parents(a) \subseteq A
         /\ c \notin A
  BY DEF HasAncestor
<1> DEFINE B == A \cup {p}
<1>4. \A b \in B : \A r \in Builders : <<r, b>> \in Edges => r \in B
  BY <1>2, <1>3
<1>5. NoCycleAmong(Edges \cup {<<p, c>>}, Builders)
  <2>1. B \in SUBSET Builders /\ p \in B /\ c \notin B
    BY <1>3
  <2>2. NoCycleAmong(Edges, Builders)
    BY <1>1 DEF Forest, Builders
  <2> HIDE DEF B
  <2> QED
    BY <1>4, <2>1, <2>2, NewEdge
<1>6. EdgesOf(started, links \cup {<<p, c>>}) = Edges \cup {<<p, c>>}
  BY DEF Edges, EdgesOf, Builders
<1> QED
  BY <1>5, <1>6
-----------------------------------------------------------------------------
LEMMA InitTraceInv == TraceInit => TraceInv
<1> SUFFICES ASSUME TraceInit PROVE TraceInv
  OBVIOUS
<1>1. PICK e \in 1 .. Ticks : window = <<[start |-> 0, end |-> e]>>
  BY DEF TraceInit
<1>2. /\ started = <<0>> /\ depth = <<1>> /\ links = {} /\ ended = FALSE
      /\ spanCount \in 1 .. MaxSpans /\ remaining = spanCount - 1
  BY DEF TraceInit
<1>3. DOMAIN started = {1} /\ started[1] = 0 /\ Len(started) = 1
  BY <1>2
<1>4. TypeOK /\ GrowthInv
  <2>1. spanCount \in 1 .. MaxSpans /\ remaining \in Nat /\ Len(started) + remaining = spanCount
    BY <1>2, <1>3, TraceGenAssumption
  <2>2. links \subseteq Builders \X Builders /\ ended \in BOOLEAN /\ ~ended
    BY <1>2, Zenon
  <2> QED
    BY <1>3, <2>1, <2>2, Zenon DEF TypeOK, GrowthInv
<1>5. Rooted(started, depth, window)
  <2>1. [start |-> 0, end |-> e] \in Windows
    BY TraceGenAssumption DEF Windows
  <2>2. window \in Seq(Windows) /\ Len(window) = 1
    BY <1>1, <2>1
  <2> QED
    BY <1>2, <1>3, <2>2 DEF Rooted
<1>6. EdgesOf(started, links) = {}
  BY <1>2, <1>3 DEF EdgesOf
<1>7. NoCycleAmong({}, DOMAIN started)
  BY <1>3 DEF NoCycleAmong
<1> QED
  BY <1>2, <1>4, <1>5, <1>6, <1>7 DEF TraceInv, Forest

\* Choices 0 and 1 and choice 2 add children one at a time.
LEMMA ChildKeeps ==
    ASSUME TraceInv, NEW p \in Eligible, EmitChild(p)
    PROVE  TraceInv'
<1>1. PICK w \in ChildWindows(window[p]) : AddChildSpan(p, w)
  BY DEF EmitChild
<1>2. /\ p \in DOMAIN started /\ CanGrow /\ remaining' = remaining - 1
      /\ UNCHANGED <<links, spanCount, ended>>
  BY DEF EmitChild, Eligible, Builders
<1>3. /\ started \in Seq(Nat) /\ depth \in Seq(Nat) /\ window \in Seq(Windows)
      /\ Len(depth) = Len(started) /\ Len(window) = Len(started)
  BY DEF TraceInv, Forest, Rooted
<1>4. window[p] \in Windows /\ depth[p] + 1 \in Nat /\ p \in Nat
  BY <1>2, <1>3
<1>5. w \in Windows /\ Within(w, window[p])
  BY <1>4, ChildWithin
<1>6. Forest(started', depth', window', links')
  BY <1>1, <1>2, <1>4, <1>5, ForestGrows DEF AddChildSpan, TraceInv
<1>7. Len(started') = Len(started) + 1 /\ Builders \subseteq Builders'
  BY <1>1, <1>2, <1>3, <1>4 DEF AddChildSpan, Builders
<1>8. TypeOK' /\ GrowthInv'
  <2>1. /\ remaining \in Nat /\ spanCount \in 1 .. MaxSpans
        /\ Len(started) + remaining = spanCount /\ links \subseteq Builders \X Builders
        /\ ended \in BOOLEAN
    BY DEF TraceInv, TypeOK, GrowthInv
  <2>2. remaining > 0 /\ ~ended /\ MaxDepth # 1
    BY <1>2, TraceGenAssumption DEF CanGrow
  <2>3. /\ remaining' \in Nat /\ spanCount' \in 1 .. MaxSpans
        /\ Len(started') + remaining' = spanCount'
    <3>1. remaining' = remaining - 1 /\ spanCount' = spanCount /\ remaining >= 1
      BY <1>2, <2>1, <2>2
    <3>2. Len(started) \in Nat
      BY <1>3
    <3> QED
      BY <1>7, <2>1, <3>1, <3>2
  <2>4. links' \subseteq Builders' \X Builders' /\ ended' \in BOOLEAN /\ ~ended'
    <3>1. links' \subseteq Builders' \X Builders'
      BY <1>2, <1>7, <2>1
    <3> QED
      BY <1>2, <2>1, <2>2, <3>1, Zenon
  <2> QED
    BY <2>2, <2>3, <2>4, Zenon DEF TypeOK, GrowthInv
<1> QED
  BY <1>6, <1>8 DEF TraceInv

LEMMA PairKeeps ==
    ASSUME TraceInv, NEW p \in Eligible, EmitPair(p)
    PROVE  TraceInv'
<1> DEFINE n == Len(started) + 1
<1>0. PICK w1 \in ChildWindows(window[p]) : \E w2 \in ChildWindows(w1) :
         /\ started' = started \o <<p, n>>
         /\ depth' = depth \o <<depth[p] + 1, depth[p] + 2>>
         /\ window' = window \o <<w1, w2>>
  BY DEF EmitPair
<1>1. PICK w2 \in ChildWindows(w1) :
         /\ started' = started \o <<p, n>>
         /\ depth' = depth \o <<depth[p] + 1, depth[p] + 2>>
         /\ window' = window \o <<w1, w2>>
  BY <1>0
<1>2. /\ p \in DOMAIN started /\ CanGrow /\ remaining >= 2 /\ remaining' = remaining - 2
      /\ UNCHANGED <<links, spanCount, ended>>
  BY DEF EmitPair, Eligible, Builders
<1>3. /\ started \in Seq(Nat) /\ depth \in Seq(Nat) /\ window \in Seq(Windows)
      /\ Len(depth) = Len(started) /\ Len(window) = Len(started)
  BY DEF TraceInv, Forest, Rooted
<1>4. /\ window[p] \in Windows /\ depth[p] + 1 \in Nat /\ depth[p] + 2 \in Nat
      /\ p \in Nat /\ n \in Nat
  BY <1>2, <1>3
<1>5. /\ w1 \in Windows /\ Within(w1, window[p])
      /\ w2 \in Windows /\ Within(w2, w1)
  BY <1>4, ChildWithin
<1> DEFINE s1 == Append(started, p)
           d1 == Append(depth, depth[p] + 1)
           t1 == Append(window, w1)
<1>6. Forest(s1, d1, t1, links)
  BY <1>2, <1>4, <1>5, ForestGrows DEF TraceInv
<1>7. n \in DOMAIN s1 /\ t1[n] = w1
  BY <1>3, <1>4, <1>5, AppendFacts
<1>8. /\ started' = Append(s1, n) /\ depth' = Append(d1, depth[p] + 2)
      /\ window' = Append(t1, w2)
  <2>0. \A q \in Seq(Nat) : \A x, y \in Nat : q \o <<x, y>> = Append(Append(q, x), y)
    OBVIOUS
  <2>1. started \o <<p, n>> = Append(s1, n)
    BY <1>3, <1>4, <2>0, Zenon
  <2>2. depth \o <<depth[p] + 1, depth[p] + 2>> = Append(d1, depth[p] + 2)
    BY <1>3, <1>4, <2>0, Zenon
  <2>3. window \o <<w1, w2>> = Append(t1, w2)
    BY <1>3, <1>5, TwoAppends
  <2> QED
    BY <1>1, <2>1, <2>2, <2>3
<1>9. Forest(started', depth', window', links')
  <2> HIDE DEF s1, d1, t1, n
  <2> QED
    BY <1>2, <1>4, <1>5, <1>6, <1>7, <1>8, ForestGrows
<1>10. Len(started') = Len(started) + 2 /\ Builders \subseteq Builders'
  BY <1>1, <1>2, <1>3, <1>4 DEF Builders
<1>11. TypeOK' /\ GrowthInv'
  <2>1. /\ remaining \in Nat /\ spanCount \in 1 .. MaxSpans
        /\ Len(started) + remaining = spanCount /\ links \subseteq Builders \X Builders
        /\ ended \in BOOLEAN
    BY DEF TraceInv, TypeOK, GrowthInv
  <2>2. remaining > 0 /\ ~ended /\ MaxDepth # 1
    BY <1>2, TraceGenAssumption DEF CanGrow
  <2>3. /\ remaining' \in Nat /\ spanCount' \in 1 .. MaxSpans
        /\ Len(started') + remaining' = spanCount'
    <3>1. remaining' = remaining - 2 /\ spanCount' = spanCount /\ remaining >= 2
      BY <1>2, <2>1, <2>2
    <3>2. Len(started) \in Nat
      BY <1>3
    <3> QED
      BY <1>10, <2>1, <3>1, <3>2
  <2>4. links' \subseteq Builders' \X Builders' /\ ended' \in BOOLEAN /\ ~ended'
    <3>1. links' \subseteq Builders' \X Builders'
      BY <1>2, <1>10, <2>1
    <3> QED
      BY <1>2, <2>1, <2>2, <3>1, Zenon
  <2> QED
    BY <2>2, <2>3, <2>4, Zenon DEF TypeOK, GrowthInv
<1> QED
  BY <1>9, <1>11 DEF TraceInv

LEMMA LinkKeeps ==
    ASSUME TraceInv, NEW p \in Eligible, NEW c \in Builders, Link(p, c)
    PROVE  TraceInv'
<1>1. /\ c # p /\ ~HasAncestor(p, c) /\ p \in Builders
      /\ links' = links \cup {<<p, c>>} /\ depth' = [depth EXCEPT ![c] = depth[p] + 1]
      /\ UNCHANGED <<started, window, spanCount, remaining, ended>>
  BY DEF Link, Eligible
<1>2. Rooted(started, depth, window) /\ links \subseteq Builders \X Builders
  BY DEF TraceInv, Forest, Builders
<1>3. depth' \in Seq(Nat) /\ Len(depth') = Len(depth)
  <2>1. depth \in Seq(Nat) /\ Len(depth) = Len(started) /\ started \in Seq(Nat)
    BY <1>2 DEF Rooted
  <2>2. depth[p] + 1 \in Nat
    BY <1>1, <2>1 DEF Builders
  <2>3. c \in 1 .. Len(depth)
    BY <2>1 DEF Builders
  <2> QED
    BY <1>1, <2>1, <2>2, <2>3, ExceptSeq
<1>4. Rooted(started', depth', window')
  BY <1>1, <1>2, <1>3 DEF Rooted
<1>5. links' \subseteq Builders' \X Builders'
  BY <1>1, <1>2 DEF Builders
<1>6. NoCycleAmong(EdgesOf(started', links'), Builders')
  BY <1>1, LinkKeepsForest DEF TraceInv, Builders
<1>7. TypeOK' /\ GrowthInv'
  BY <1>1, <1>5 DEF TraceInv, TypeOK, GrowthInv
<1> QED
  BY <1>4, <1>5, <1>6, <1>7 DEF TraceInv, Forest, Builders

\* The spans of a trace are always a forest within their parents' times, and there are
\* no more of them than were drawn.
THEOREM TraceInvariance == TraceSpec => []TraceInv
<1>1. TraceInv /\ [TraceNext]_traceVars => TraceInv'
  <2> SUFFICES ASSUME TraceInv, [TraceNext]_traceVars PROVE TraceInv'
    OBVIOUS
  <2>1. ASSUME NEW p \in Eligible, EmitPair(p) PROVE TraceInv'
    BY <2>1, PairKeeps
  <2>2. ASSUME NEW p \in Eligible, EmitChild(p) PROVE TraceInv'
    BY <2>2, ChildKeeps
  <2>3. ASSUME NEW p \in Eligible, NEW c \in Builders, Link(p, c) PROVE TraceInv'
    BY <2>3, LinkKeeps
  <2>4. CASE EndAll
    <3>1. TypeOK' /\ GrowthInv'
      BY <2>4, TraceGenAssumption DEF EndAll, TraceInv, TypeOK, GrowthInv, Builders
    <3> QED
      BY <2>4, <3>1 DEF EndAll, TraceInv
  <2>5. CASE UNCHANGED traceVars
    <3>1. TypeOK' /\ GrowthInv'
      BY <2>5 DEF traceVars, TraceInv, TypeOK, GrowthInv, Builders
    <3> QED
      BY <2>5, <3>1 DEF traceVars, TraceInv
  <2> QED
    BY <2>1, <2>2, <2>3, <2>4, <2>5 DEF TraceNext, TraceFinished
<1> QED
  BY <1>1, InitTraceInv, PTL DEF TraceSpec

\* AddChild never closes a cycle: what hasAncestor and hasChild refuse is enough, in
\* whatever order links and spans are added.
THEOREM LinksCloseNoCycle == TraceSpec => []Acyclic
<1>1. ASSUME TraceInv PROVE Acyclic
  <2> SUFFICES ASSUME NEW S \in SUBSET Builders, S # {}
               PROVE  \E s \in S : Parents(s) \cap S = {}
    BY DEF Acyclic
  <2>1. Edges = EdgesOf(started, links) /\ Edges \subseteq Builders \X Builders
    BY <1>1, EdgesArePairs DEF TraceInv, Forest, Edges, EdgesOf, Builders
  <2>2. PICK s \in S : \A r \in S : <<r, s>> \notin Edges
    BY <1>1, <2>1 DEF TraceInv, Forest, NoCycleAmong, Builders
  <2>3. \A r \in Parents(s) : <<r, s>> \in Edges
    BY <2>1 DEF Parents
  <2> QED
    BY <2>2, <2>3
<1> QED
  BY <1>1, TraceInvariance, PTL

\* A span takes some time and lies within the time of the span it was started under,
\* whatever durations and offsets are drawn.
THEOREM SpansWithinParents == TraceSpec => []Nested
<1>1. ASSUME TraceInv PROVE Nested
  <2> SUFFICES ASSUME NEW s \in Builders
               PROVE  /\ window[s].start < window[s].end
                      /\ started[s] # 0 => Within(window[s], window[started[s]])
    BY DEF Nested, Within
  <2>1. window \in Seq(Windows) /\ Len(window) = Len(started) /\ started \in Seq(Nat)
    BY <1>1 DEF TraceInv, Forest, Rooted
  <2>2. window[s] \in Windows
    BY <2>1 DEF Builders
  <2>3. started[s] # 0 => Within(window[s], window[started[s]])
    BY <1>1 DEF TraceInv, Forest, Rooted, Builders
  <2> QED
    BY <2>2, <2>3 DEF Windows
<1> QED
  BY <1>1, TraceInvariance, PTL

\* A trace ends with as many spans as were drawn for it; a pair is never started for the
\* last one.
THEOREM SpansAsDrawn == TraceSpec => []SpanCount
<1>1. ASSUME TraceInv PROVE SpanCount
  BY <1>1, TraceGenAssumption DEF TraceInv, Forest, Rooted, TypeOK, GrowthInv, SpanCount
<1> QED
  BY <1>1, TraceInvariance, PTL

\* The root stays at depth 1, since a link goes only to a span deeper than its new parent.
Roomy(deep) ==
    /\ Len(deep) >= 1 /\ deep[1] = 1
    /\ \A s \in DOMAIN deep : deep[s] >= 1
RoomInv == Roomy(depth)

\* there is time below a span for a child, and below that child for one of its own
Fits(v) == \E w \in ChildWindows(v) : ChildWindows(w) # {}

LEMMA ChildFits ==
    ASSUME NEW v \in Windows
    PROVE  Fits(v)
<1>1. PICK b \in Nat, e \in Nat : v.start = b /\ v.end = e /\ b < e
  BY DEF Windows
<1>2. 1 \in 1 .. Ticks
  BY TraceGenAssumption
<1> DEFINE w == [start |-> b, end |-> b + 1]
<1>3. w \in RandomWindows(v, 1)
  <2>1. ~(1 <= 0) /\ ~(e < b) /\ ~(e - 1 < b) /\ 0 \in 0 .. ((e - 1) - b)
    BY <1>1
  <2>2. w = [start |-> b + 0, end |-> b + 0 + 1]
    BY <1>1
  <2> QED
    BY <1>1, <2>1, <2>2 DEF RandomWindows
<1>4. w \in ChildWindows(v)
  <2>1. ~(1 > v.end - v.start)
    BY <1>1
  <2> QED
    BY <1>2, <1>3, <2>1 DEF ChildWindows
<1>5. w \in RandomWindows(w, 1)
  <2>1. w.start = b /\ w.end = b + 1
    OBVIOUS
  <2>2. ~(1 <= 0) /\ ~(b + 1 < b) /\ ~((b + 1) - 1 < b) /\ 0 \in 0 .. (((b + 1) - 1) - b)
    BY <1>1
  <2>3. w = [start |-> b + 0, end |-> b + 0 + 1]
    BY <1>1
  <2> QED
    BY <2>1, <2>2, <2>3 DEF RandomWindows
<1>6. w \in ChildWindows(w)
  <2>1. ~(1 > w.end - w.start)
    BY <1>1
  <2> QED
    BY <1>2, <1>5, <2>1 DEF ChildWindows
<1> QED
  BY <1>4, <1>6 DEF Fits

LEMMA RoomGrows ==
    ASSUME NEW deep \in Seq(Nat), Roomy(deep), NEW d \in Nat, d >= 1
    PROVE  Roomy(Append(deep, d))
<1> DEFINE a == Append(deep, d)
<1>1. PICK n \in Nat : n = Len(deep)
  OBVIOUS
<1>2. /\ Len(a) = n + 1 /\ a[n + 1] = d /\ DOMAIN a = 1 .. (n + 1) /\ DOMAIN deep = 1 .. n
      /\ \A i \in 1 .. n : a[i] = deep[i]
  BY <1>1
<1> HIDE DEF a
<1>3. n >= 1 /\ deep[1] = 1
  BY <1>1 DEF Roomy
<1>4. a[1] = 1 /\ Len(a) >= 1
  BY <1>2, <1>3
<1>5. ASSUME NEW s \in DOMAIN a
      PROVE  a[s] >= 1
  <2>1. CASE s = n + 1
    BY <1>2, <2>1
  <2>2. CASE s # n + 1
    <3>1. s \in 1 .. n
      BY <1>2, <2>2
    <3> QED
      BY <1>2, <3>1 DEF Roomy
  <2> QED
    BY <2>1, <2>2
<1>6. Roomy(a)
  BY <1>4, <1>5 DEF Roomy
<1> QED
  BY <1>6 DEF a

LEMMA RoomKept ==
    ASSUME TraceInv, RoomInv, [TraceNext]_traceVars
    PROVE  RoomInv'
<1>1. depth \in Seq(Nat) /\ Len(depth) = Len(started) /\ started \in Seq(Nat)
  BY DEF TraceInv, Forest, Rooted
<1>2. ASSUME NEW p \in Builders
      PROVE  depth[p] \in Nat
  BY <1>1 DEF Builders
<1>3. \A p \in Eligible : p \in Builders
  BY DEF Eligible
<1>4. ASSUME NEW p \in Eligible, EmitPair(p)
      PROVE  RoomInv'
  <2>1. depth' = depth \o <<depth[p] + 1, depth[p] + 2>>
    BY <1>4 DEF EmitPair
  <2>2. PICK d \in Nat : d = depth[p]
    BY <1>2, <1>3
  <2>3. d + 1 \in Nat /\ d + 2 \in Nat /\ d + 1 >= 1 /\ d + 2 >= 1
    OBVIOUS
  <2>4. PICK a \in Seq(Nat) : a = Append(depth, d + 1)
    <3>1. depth \in Seq(Nat) /\ d + 1 \in Nat
      BY <1>1, <2>3
    <3> QED
      BY ONLY <3>1, AppendFacts
  <2>5. Roomy(a)
    BY <1>1, <2>3, <2>4, RoomGrows DEF RoomInv
  <2>6. Roomy(Append(a, d + 2))
    BY <2>3, <2>5, RoomGrows
  <2>7. depth' = Append(a, d + 2)
    <3>1. depth' = depth \o <<d + 1, d + 2>>
      BY <2>1, <2>2
    <3>2. \A q \in Seq(Nat) : \A x, y \in Nat : q \o <<x, y>> = Append(Append(q, x), y)
      OBVIOUS
    <3> QED
      BY <1>1, <2>3, <2>4, <3>1, <3>2, Zenon
  <2> QED
    BY <2>6, <2>7 DEF RoomInv
<1>5. ASSUME NEW p \in Eligible, EmitChild(p)
      PROVE  RoomInv'
  <2>1. depth' = Append(depth, depth[p] + 1)
    BY <1>5 DEF EmitChild, AddChildSpan
  <2>2. depth[p] + 1 \in Nat /\ depth[p] + 1 >= 1
    BY <1>2, <1>3
  <2> QED
    BY <1>1, <2>1, <2>2, RoomGrows DEF RoomInv
<1>6. ASSUME NEW p \in Eligible, NEW c \in Builders, Link(p, c)
      PROVE  RoomInv'
  <2>1. depth' = [depth EXCEPT ![c] = depth[p] + 1] /\ depth[p] + 1 <= depth[c]
    BY <1>6 DEF Link
  <2>2. PICK n \in Nat : n = Len(depth)
    BY <1>1
  <2>3. p \in 1 .. n /\ c \in 1 .. n /\ DOMAIN depth = 1 .. n
    BY <1>1, <1>3, <2>2 DEF Builders
  <2>4. depth[p] >= 1 /\ depth[p] \in Nat /\ depth[c] \in Nat /\ depth[1] = 1 /\ n >= 1
    <3>1. depth[p] \in Nat /\ depth[c] \in Nat
      BY <1>1, <2>2, <2>3
    <3>2. depth[p] >= 1 /\ depth[1] = 1 /\ n >= 1
      BY <2>2, <2>3 DEF RoomInv, Roomy
    <3> QED
      BY <3>1, <3>2
  <2>5. c # 1
    BY <2>1, <2>4
  <2>6. depth' \in Seq(Nat) /\ Len(depth') = n
    BY <1>1, <2>1, <2>2, <2>3, <2>4, ExceptSeq
  <2>7. DOMAIN depth' = 1 .. n /\ depth'[1] = 1
    BY <2>1, <2>3, <2>4, <2>5
  <2>8. ASSUME NEW s \in 1 .. n
        PROVE  depth'[s] >= 1
    <3>1. depth[s] >= 1
      BY <2>3 DEF RoomInv, Roomy
    <3> QED
      BY <2>1, <2>3, <2>4, <3>1
  <2>9. Roomy(depth')
    BY <2>4, <2>6, <2>7, <2>8 DEF Roomy
  <2> QED
    BY <2>9 DEF RoomInv
<1>7. CASE UNCHANGED depth
  BY <1>7 DEF RoomInv
<1> QED
  BY <1>4, <1>5, <1>6, <1>7 DEF TraceNext, EndAll, TraceFinished, traceVars

\* A trace is never cut short: with --max-depth above 1 the root can always be picked as a
\* parent, so that emitTrace leaves its loop only when no span is left, and below every
\* span there is time for a pair.
RoomForSpans ==
    /\ MaxDepth > 1 => 1 \in Eligible
    /\ \A p \in Builders : Fits(window[p])

THEOREM TraceHasRoom == TraceSpec => []RoomForSpans
<1>1. TraceInit => RoomInv
  <2> SUFFICES ASSUME TraceInit PROVE RoomInv
    OBVIOUS
  <2>1. DOMAIN depth = {1} /\ depth[1] = 1 /\ Len(depth) = 1
    BY DEF TraceInit
  <2> QED
    BY <2>1 DEF RoomInv, Roomy
<1>2. TraceInv /\ RoomInv => RoomForSpans
  <2> SUFFICES ASSUME TraceInv, RoomInv PROVE RoomForSpans
    OBVIOUS
  <2>1. /\ started \in Seq(Nat) /\ depth \in Seq(Nat) /\ window \in Seq(Windows)
        /\ Len(depth) = Len(started) /\ Len(window) = Len(started)
    BY DEF TraceInv, Forest, Rooted
  <2>2. \A p \in Builders : window[p] \in Windows
    BY <2>1 DEF Builders
  <2>3. 1 \in Builders /\ depth[1] = 1
    BY <2>1 DEF RoomInv, Roomy, Builders
  <2>4. MaxDepth > 1 => 1 \in Eligible
    BY <2>3 DEF Eligible
  <2>5. \A p \in Builders : Fits(window[p])
    BY <2>2, ChildFits
  <2> QED
    BY <2>4, <2>5 DEF RoomForSpans
<1> QED
  BY <1>1, <1>2, RoomKept, TraceInvariance, PTL DEF TraceSpec

\* the spans left to start, and the links that are not there
TraceRank ==
    <<remaining + (IF ended THEN 0 ELSE 1), Cardinality((Builders \X Builders) \ links), 0, 0>>

LEMMA LinksLeft ==
    ASSUME TraceInv
    PROVE  /\ IsFiniteSet((Builders \X Builders) \ links)
           /\ Cardinality((Builders \X Builders) \ links) \in Nat
<1>1. PICK n \in Nat : Builders = 1 .. n
  <2>1. started \in Seq(Nat)
    BY DEF TraceInv, Forest, Rooted
  <2> QED
    BY <2>1 DEF Builders
<1>2. IsFiniteSet(Builders)
  BY <1>1, FS_Interval
<1>3. IsFiniteSet(Builders \X Builders)
  BY <1>2, FS_Product
<1> QED
  BY <1>3, FS_Subset, FS_CardinalityType

\* A trace is done after finitely many spans and links, whatever is drawn: links do not go
\* back and forth for ever, although they lower depths and so make room for others.  A pass
\* of the loop that finds no span to link changes nothing, and is no step.
THEOREM TraceEnds ==
    TraceSpec => [](TraceRank \in Ranks) /\ [][Lower(TraceRank', TraceRank)]_traceVars
<1>1. TraceInv => TraceRank \in Ranks
  <2> SUFFICES ASSUME TraceInv PROVE TraceRank \in Ranks
    OBVIOUS
  <2>1. remaining + (IF ended THEN 0 ELSE 1) \in Nat
    BY DEF TraceInv, TypeOK
  <2> QED
    BY <2>1, LinksLeft DEF TraceRank, Ranks
<1>2. ASSUME TraceInv, TraceInv', [TraceNext]_traceVars
      PROVE  [Lower(TraceRank', TraceRank)]_traceVars
  <2>1. remaining \in Nat /\ remaining' \in Nat
    BY <1>2 DEF TraceInv, TypeOK
  <2>2. /\ TraceRank[1] = remaining + (IF ended THEN 0 ELSE 1)
        /\ TraceRank'[1] = remaining' + (IF ended' THEN 0 ELSE 1)
        /\ TraceRank[2] = Cardinality((Builders \X Builders) \ links)
        /\ TraceRank'[2] = Cardinality((Builders' \X Builders') \ links')
    BY DEF TraceRank
  <2>3. CASE \E p \in Eligible : EmitPair(p) \/ EmitChild(p)
    <3>1. ended' = ended /\ (remaining' = remaining - 1 \/ remaining' = remaining - 2)
      BY <2>3 DEF EmitPair, EmitChild
    <3>2. PICK e \in Nat : /\ e = (IF ended THEN 0 ELSE 1)
                          /\ e = (IF ended' THEN 0 ELSE 1)
      BY <3>1
    <3>3. PICK m, n \in Nat : m = remaining /\ n = remaining'
      BY <2>1
    <3>4. n + e < m + e
      <4>1. n = m - 1 \/ n = m - 2
        BY <3>1, <3>3
      <4>2. m \in Int /\ n \in Int /\ e \in Int
        OBVIOUS
      <4> QED
        BY ONLY <4>1, <4>2
    <3>5. TraceRank'[1] < TraceRank[1]
      BY <2>2, <3>2, <3>3, <3>4
    <3> QED
      BY <3>5 DEF Lower
  <2>4. CASE \E p \in Eligible, c \in Builders : Link(p, c)
    <3>1. PICK p \in Eligible, c \in Builders : Link(p, c)
      BY <2>4
    <3>2. /\ UNCHANGED <<started, remaining, ended>> /\ links' = links \cup {<<p, c>>}
          /\ <<p, c>> \notin Edges /\ p \in Builders
      BY <3>1 DEF Link, Eligible
    <3>3. Builders' = Builders /\ <<p, c>> \notin links
      BY <3>2 DEF Builders, Edges
    <3> DEFINE S == (Builders \X Builders) \ links
               T == (Builders' \X Builders') \ links'
    <3>4. T \in SUBSET S /\ T # S
      <4>1. <<p, c>> \in S /\ <<p, c>> \notin T
        BY <3>2, <3>3
      <4>2. T \in SUBSET S
        BY <3>2, <3>3
      <4> QED
        BY <4>1, <4>2
    <3>5. /\ IsFiniteSet(S) /\ Cardinality(S) \in Nat
      BY <1>2, LinksLeft
    <3> HIDE DEF S, T
    <3>6. Cardinality(T) <= Cardinality(S) /\ Cardinality(T) # Cardinality(S)
          /\ Cardinality(T) \in Nat
      BY <3>4, <3>5, FS_Subset, FS_CardinalityType
    <3>7. TraceRank'[1] = TraceRank[1]
      BY <2>2, <3>2
    <3>8. TraceRank'[2] < TraceRank[2]
      BY <2>2, <3>5, <3>6 DEF S, T
    <3> QED
      BY <3>7, <3>8 DEF Lower
  <2>5. CASE EndAll
    <3>1. ~ended /\ ended' /\ remaining' = remaining
      BY <2>5 DEF EndAll
    <3>2. TraceRank'[1] < TraceRank[1]
      BY <2>1, <2>2, <3>1
    <3> QED
      BY <3>2 DEF Lower
  <2>6. CASE UNCHANGED traceVars
    BY <2>6
  <2> QED
    BY <1>2, <2>3, <2>4, <2>5, <2>6 DEF TraceNext, TraceFinished
<1> QED
  BY <1>1, <1>2, TraceInvariance, PTL DEF TraceSpec

-----------------------------------------------------------------------------
(* ScenarioTrace: the graph. *)

\* what Init leaves of the file
Graph ==
    /\ Len(edges) \in Nat /\ DOMAIN edges = 1 .. Len(edges)
    /\ edges \in [1 .. Len(edges) -> EdgeSet]

LEMMA EdgeType ==
    ASSUME NEW e \in EdgeSet
    PROVE  /\ e.from \in Nodes /\ e.to \in Nodes
           /\ e.repeat \in Nat \ {0} /\ e.duration \in Nat \ {0} /\ e.size \in {1, 2}
<1>1. PICK f \in Nodes, t \in Nodes, s \in Shapes :
          e = [from |-> f, to |-> t, repeat |-> s[1], duration |-> s[2], size |-> s[3]]
  BY DEF EdgeSet
<1>2. s[1] \in Nat \ {0} /\ s[2] \in Nat \ {0} /\ s[3] \in {1, 2}
  BY ScenarioAssumption
<1> QED
  BY <1>1, <1>2

LEMMA EdgesType ==
    ASSUME Graph, NEW i \in DOMAIN edges
    PROVE  /\ edges[i].from \in Nodes /\ edges[i].to \in Nodes
           /\ edges[i].repeat \in Nat \ {0} /\ edges[i].duration \in Nat \ {0}
           /\ edges[i].size \in {1, 2}
<1>1. edges[i] \in EdgeSet
  BY DEF Graph
<1> QED
  BY <1>1, EdgeType

\* Outgoing gives the next edge of a node in the file
LEMMA OutgoingIs ==
    ASSUME Graph, NEW n, NEW i \in Nat
    PROVE  LET o == Outgoing(n, i)
           IN  /\ o \in 1 .. (Len(edges) + 1)
               /\ o <= Len(edges) => o > i /\ edges[o].from = n
               /\ \A j \in DOMAIN edges : j > i /\ edges[j].from = n => o <= j
<1> DEFINE later == {j \in DOMAIN edges : j > i /\ edges[j].from = n}
           o == Outgoing(n, i)
<1>1. later \in SUBSET Nat /\ later \subseteq 1 .. Len(edges) /\ Len(edges) \in Nat
  BY DEF Graph
<1>2. CASE later = {}
  <2>1. o = Len(edges) + 1
    BY <1>2 DEF Outgoing
  <2> QED
    BY <1>1, <1>2, <2>1
<1>3. CASE later # {}
  <2>1. \E j \in later : \A k \in later : j <= k
    BY <1>1, <1>3, LeastNat
  <2>2. o = CHOOSE j \in later : \A k \in later : j <= k
    BY <1>3 DEF Outgoing
  <2>3. o \in later /\ \A k \in later : o <= k
    BY <2>1, <2>2
  <2> HIDE DEF o, later
  <2>4. o \in 1 .. Len(edges) /\ o > i /\ edges[o].from = n
    BY <1>1, <2>3 DEF later
  <2>5. \A j \in DOMAIN edges : j > i /\ edges[j].from = n => o <= j
    BY <2>3 DEF later
  <2> QED
    BY <1>1, <2>4, <2>5 DEF o
<1> QED
  BY <1>2, <1>3

LEMMA TargetsType ==
    ASSUME Graph, NEW S
    PROVE  Targets(S) \in SUBSET Nodes
BY EdgesType DEF Targets

\* the nodes reached from n over at most k + 1 edges, as Reach computes them
Steps(n) ==
    CHOOSE step : step = [k \in 0 .. Cardinality(Nodes) |->
                             IF k = 0 THEN Targets({n})
                             ELSE step[k - 1] \cup Targets(step[k - 1])]

LEMMA ReachIs == \A n : Reach(n) = Steps(n)[Cardinality(Nodes)]
BY DEF Reach, Steps

LEMMA NodesCount == Cardinality(Nodes) \in Nat /\ Root \in Nodes /\ IsFiniteSet(Nodes)
BY ScenarioAssumption, FS_CardinalityType

LEMMA StepsIs ==
    ASSUME Graph, NEW n
    PROVE  /\ \A k \in 0 .. Cardinality(Nodes) : Steps(n)[k] \in SUBSET Nodes
           /\ Steps(n)[0] = Targets({n})
           /\ \A k \in 1 .. Cardinality(Nodes) :
                 Steps(n)[k] = Steps(n)[k - 1] \cup Targets(Steps(n)[k - 1])
<1>1. PICK N \in Nat : N = Cardinality(Nodes)
  BY NodesCount
<1> DEFINE F == [p \in (SUBSET Nodes) \X (1 .. N) |-> p[1] \cup Targets(p[1])]
           first == Targets({n})
           Is(g) == g = [k \in 0 .. N |-> IF k = 0 THEN first ELSE g[k - 1] \cup Targets(g[k - 1])]
<1>2. first \in SUBSET Nodes
  BY TargetsType
<1>3. Rule(F, SUBSET Nodes, N)
  <2>1. \A S \in SUBSET Nodes : S \cup Targets(S) \in SUBSET Nodes
    BY TargetsType
  <2> QED
    BY <2>1 DEF Rule
<1> HIDE DEF F, first
<1>4. PICK g : Follows(g, F, SUBSET Nodes, N, first)
  BY <1>2, <1>3, Recursion
<1>5. /\ g \in [0 .. N -> SUBSET Nodes] /\ g[0] = first
      /\ \A k \in 1 .. N : g[k] = F[<<g[k - 1], k>>]
  BY <1>4 DEF Follows
<1>6. ASSUME NEW k \in 1 .. N
      PROVE  g[k] = g[k - 1] \cup Targets(g[k - 1])
  <2>1. k - 1 \in 0 .. N /\ g[k - 1] \in SUBSET Nodes
    BY <1>5
  <2>2. F[<<g[k - 1], k>>] = g[k - 1] \cup Targets(g[k - 1])
    BY <2>1 DEF F
  <2> QED
    BY <1>5, <2>2
<1>7. Is(g)
  <2>1. g = [k \in 0 .. N |-> g[k]]
    BY <1>5
  <2>2. \A k \in 0 .. N : k = 0 \/ k \in 1 .. N
    OBVIOUS
  <2> QED
    BY <1>5, <1>6, <2>1, <2>2
<1>8. Steps(n) = CHOOSE h : Is(h)
  BY <1>1 DEF Steps, first
<1> HIDE DEF Is
<1>9. Is(Steps(n))
  BY <1>7, <1>8
<1> DEFINE v == Steps(n)
<1> HIDE DEF v
<1>10. v = [k \in 0 .. N |-> IF k = 0 THEN first ELSE v[k - 1] \cup Targets(v[k - 1])]
  BY <1>9 DEF Is, v
<1>11. v[0] = first /\ \A k \in 1 .. N : v[k] = v[k - 1] \cup Targets(v[k - 1])
  <2>1. v[0] = first
    BY <1>10
  <2>2. ASSUME NEW k \in 1 .. N
        PROVE  v[k] = v[k - 1] \cup Targets(v[k - 1])
    <3>1. k \in 0 .. N /\ k # 0
      OBVIOUS
    <3> QED
      BY <1>10, <3>1, Zenon
  <2> QED
    BY <2>1, <2>2
<1> DEFINE S == {k \in 0 .. N : v[k] \in SUBSET Nodes}
<1>12. 0 \in S
  BY <1>2, <1>11
<1>13. ASSUME NEW k \in 1 .. N, k - 1 \in S
       PROVE  k \in S
  <2>1. Targets(v[k - 1]) \in SUBSET Nodes
    BY TargetsType
  <2> QED
    BY <1>11, <1>13, <2>1
<1> HIDE DEF S
<1>14. 0 .. N \subseteq S
  BY <1>12, <1>13, InductionTo
<1> QED
  BY <1>1, <1>11, <1>14 DEF S, v, first

\* the steps of Reach do reach all there is: it is the least set that holds the targets
\* of n and the targets of what it holds
LEMMA ReachClosed ==
    ASSUME Graph, NEW n
    PROVE  /\ Reach(n) \in SUBSET Nodes
           /\ Targets({n}) \subseteq Reach(n)
           /\ Targets(Reach(n)) \subseteq Reach(n)
<1>1. PICK N \in Nat : N = Cardinality(Nodes)
  BY NodesCount
<1> DEFINE s == Steps(n)
           Closed(k) == Targets(s[k]) \subseteq s[k]
           T == {k \in 0 .. N : /\ Targets({n}) \subseteq s[k]
                                /\ Closed(k) \/ Cardinality(s[k]) >= k}
<1>2. /\ \A k \in 0 .. N : s[k] \in SUBSET Nodes
      /\ s[0] = Targets({n})
      /\ \A k \in 1 .. N : s[k] = s[k - 1] \cup Targets(s[k - 1])
  BY <1>1, StepsIs
<1>3. Reach(n) = s[N]
  BY <1>1, ReachIs
<1> HIDE DEF s
<1>4. \A k \in 0 .. N : IsFiniteSet(s[k]) /\ Cardinality(s[k]) \in Nat
  BY <1>2, NodesCount, FS_Subset, FS_CardinalityType
<1>5. 0 \in T
  BY <1>2, <1>4
<1>6. ASSUME NEW k \in 1 .. N, k - 1 \in T
      PROVE  k \in T
  <2>1. k - 1 \in 0 .. N /\ s[k] = s[k - 1] \cup Targets(s[k - 1])
    BY <1>2
  <2>2. Targets({n}) \subseteq s[k]
    BY <1>6, <2>1
  <2>3. CASE Closed(k - 1)
    <3>1. s[k] = s[k - 1]
      BY <2>1, <2>3
    <3> QED
      BY <2>2, <2>3, <3>1
  <2>4. CASE ~Closed(k - 1)
    <3>1. Cardinality(s[k - 1]) >= k - 1
      BY <1>6, <2>4
    <3>2. s[k - 1] \in SUBSET s[k] /\ s[k - 1] # s[k]
      BY <2>1, <2>4
    <3>3. Cardinality(s[k - 1]) <= Cardinality(s[k]) /\ Cardinality(s[k - 1]) # Cardinality(s[k])
      BY <1>4, <3>2, FS_Subset
    <3>4. Cardinality(s[k]) >= k
      BY <1>4, <2>1, <3>1, <3>3
    <3> QED
      BY <2>2, <3>4
  <2> QED
    BY <2>3, <2>4
<1> HIDE DEF T
<1>7. 0 .. N \subseteq T
  BY <1>5, <1>6, InductionTo
<1>8. Targets({n}) \subseteq s[N] /\ (Closed(N) \/ Cardinality(s[N]) >= N)
  BY <1>7 DEF T
<1>9. Closed(N)
  <2>1. CASE Cardinality(s[N]) >= N
    <3>1. s[N] \in SUBSET Nodes /\ Cardinality(s[N]) <= Cardinality(Nodes)
      BY <1>2, NodesCount, FS_Subset
    <3>2. s[N] = Nodes
      BY <1>1, <1>4, <2>1, <3>1, NodesCount, FS_Subset
    <3> QED
      BY <3>2, TargetsType
  <2> QED
    BY <1>8, <2>1
<1>10. PICK R : R = Reach(n) /\ R = s[N]
  BY <1>3
<1>11. R \in SUBSET Nodes /\ Targets({n}) \subseteq R
  <2>1. N \in 0 .. N
    BY <1>1
  <2>2. s[N] \in SUBSET Nodes
    BY <1>2, <2>1
  <2> QED
    BY <1>8, <1>10, <2>2
<1>12. Targets(R) \subseteq R
  BY <1>9, <1>10
<1> QED
  BY <1>10, <1>11, <1>12

LEMMA ReachLeast ==
    ASSUME Graph, NEW n, NEW C, Targets({n}) \subseteq C, Targets(C) \subseteq C
    PROVE  Reach(n) \subseteq C
<1>1. PICK N \in Nat : N = Cardinality(Nodes)
  BY NodesCount
<1> DEFINE s == Steps(n)
           T == {k \in 0 .. N : s[k] \subseteq C}
<1>2. /\ s[0] = Targets({n})
      /\ \A k \in 1 .. N : s[k] = s[k - 1] \cup Targets(s[k - 1])
  BY <1>1, StepsIs
<1>3. Reach(n) = s[N]
  BY <1>1, ReachIs
<1> HIDE DEF s
<1>4. 0 \in T
  BY <1>2
<1>5. ASSUME NEW k \in 1 .. N, k - 1 \in T
      PROVE  k \in T
  <2>1. s[k - 1] \subseteq C /\ s[k] = s[k - 1] \cup Targets(s[k - 1])
    BY <1>2, <1>5
  <2>2. Targets(s[k - 1]) \subseteq Targets(C)
    BY <2>1 DEF Targets
  <2> QED
    BY <2>1, <2>2
<1> HIDE DEF T
<1>6. 0 .. N \subseteq T
  BY <1>4, <1>5, InductionTo
<1> QED
  BY <1>3, <1>6 DEF T

\* a node all of whose predecessors are in a set without it, which holds its own
\* predecessors, is on no cycle
LEMMA OnNoCycle ==
    ASSUME Graph, NEW D, NEW n, n \notin D,
           \A i \in DOMAIN edges : edges[i].to \in D \cup {n} => edges[i].from \in D
    PROVE  n \notin Reach(n)
<1> DEFINE C == Nodes \ (D \cup {n})
<1>1. Targets({n}) \subseteq C
  BY EdgesType DEF Targets
<1>2. Targets(C) \subseteq C
  BY EdgesType DEF Targets
<1> HIDE DEF C
<1>3. Reach(n) \subseteq C
  BY <1>1, <1>2, ReachLeast
<1> QED
  BY <1>3 DEF C

NoCycle == \A n \in Nodes : n \notin Reach(n)

Height(n) == Cardinality(Reach(n))

\* without a cycle an edge leads to a node that reaches less
LEMMA EdgesGoDown ==
    ASSUME Graph, NoCycle
    PROVE  /\ \A n \in Nodes : Height(n) \in 0 .. Cardinality(Nodes)
           /\ \A i \in DOMAIN edges : Height(edges[i].to) < Height(edges[i].from)
<1>1. \A n \in Nodes : /\ IsFiniteSet(Reach(n)) /\ Height(n) \in Nat
                       /\ Height(n) <= Cardinality(Nodes)
  BY ReachClosed, NodesCount, FS_Subset, FS_CardinalityType DEF Height
<1>2. ASSUME NEW i \in DOMAIN edges
      PROVE  Height(edges[i].to) < Height(edges[i].from)
  <2>1. PICK p \in Nodes, n \in Nodes : p = edges[i].from /\ n = edges[i].to
    BY EdgesType
  <2>2. n \in Targets({p})
    BY <2>1 DEF Targets
  <2>3. n \in Reach(p)
    BY <2>2, ReachClosed
  <2>4. Targets({n}) \subseteq Reach(p)
    <3>1. Targets({n}) \subseteq Targets(Reach(p))
      BY <2>3 DEF Targets
    <3> QED
      BY <3>1, ReachClosed
  <2>5. Reach(n) \subseteq Reach(p)
    <3>1. PICK C : C = Reach(p)
      OBVIOUS
    <3>2. Targets({n}) \subseteq C /\ Targets(C) \subseteq C
      BY <2>4, <3>1, ReachClosed
    <3>3. Reach(n) \subseteq C
      BY <3>2, ReachLeast
    <3> QED
      BY <3>1, <3>3
  <2>6. Reach(n) # Reach(p)
    BY <2>3 DEF NoCycle
  <2>7. Height(n) <= Height(p) /\ Height(n) # Height(p)
    BY <1>1, <2>5, <2>6, FS_Subset DEF Height
  <2> QED
    BY <1>1, <2>1, <2>7
<1> QED
  BY <1>1, <1>2, NodesCount

\* nodes each of which has a predecessor among them have a cycle above them
LEMMA CycleAbove ==
    ASSUME Graph, NEW U \in SUBSET Nodes, U # {},
           \A n \in U : \E i \in DOMAIN edges : edges[i].to = n /\ edges[i].from \in U
    PROVE  \E n \in Nodes : n \in Reach(n)
<1> SUFFICES ASSUME NoCycle
             PROVE  FALSE
  BY DEF NoCycle
<1>1. PICK N \in Nat : N = Cardinality(Nodes)
  BY NodesCount
<1>2. \A n \in Nodes : Height(n) \in 0 .. N
  BY <1>1, EdgesGoDown
<1> DEFINE T == {N - Height(n) : n \in U}
<1>3. T \in SUBSET Nat /\ T # {}
  BY <1>2
<1> HIDE DEF T
<1>4. PICK x \in T : \A y \in T : x <= y
  BY <1>3, LeastNat
<1>5. PICK n \in U : x = N - Height(n)
  BY <1>4 DEF T
<1>6. PICK i \in DOMAIN edges : edges[i].to = n /\ edges[i].from \in U
  OBVIOUS
<1>7. PICK p \in U : p = edges[i].from
  BY <1>6
<1>8. Height(n) < Height(p)
  BY <1>6, <1>7, EdgesGoDown
<1>9. N - Height(p) \in T
  BY DEF T
<1>10. N - Height(n) <= N - Height(p)
  BY <1>4, <1>5, <1>9
<1> QED
  BY <1>2, <1>8, <1>10

-----------------------------------------------------------------------------
(* validateDAG. *)

\* the nodes that have left the queue, and the edges into n not yet taken away
Finished == IF phase = "count" THEN {} ELSE Sources \ Range(queue)
Counted(n) ==
    {i \in DOMAIN edges :
        /\ edges[i].to = n
        /\ \/ edges[i].from \notin Finished
           \/ child <= Len(edges) /\ edges[i].from = edges[child].from /\ i >= child}

ValidationTypes ==
    /\ Graph
    /\ indegree \in [Nodes -> Nat] /\ queue \in Seq(Nodes)
    /\ visited \in Nat /\ child \in 1 .. (Len(edges) + 1)
    /\ phase \in {"count", "validate", "rejected", "emit", "done"}

QueueInv ==
    /\ \A k \in DOMAIN queue : indegree[queue[k]] = 0
    /\ \A j, k \in DOMAIN queue : queue[j] = queue[k] => j = k
    /\ phase = "count" => queue = <<>>
    /\ child <= Len(edges) => phase = "validate" /\ edges[child].from \in Finished

\* The invariant of Kahn's algorithm: a node is in the queue or finished exactly if no
\* edge into it is left, and no finished node is on a cycle.
ValidationInv ==
    /\ ValidationTypes
    /\ QueueInv
    /\ \A n \in Nodes : indegree[n] = Cardinality(Counted(n))
    /\ visited = Cardinality(Finished)
    /\ \A n \in Finished : n \notin Reach(n)
    /\ AcceptsExactlyDAGs

LEMMA FileStays ==
    ASSUME UNCHANGED edges
    PROVE  /\ Graph => Graph'
           /\ \A n : Reach(n)' = Reach(n)
<1>1. Graph => Graph'
  BY DEF Graph, EdgeSet
<1>2. \A n : Reach(n)' = Reach(n)
  BY DEF Reach, Targets
<1> QED
  BY <1>1, <1>2

LEMMA CountedIsFinite ==
    ASSUME Graph, NEW n
    PROVE  /\ IsFiniteSet(Counted(n)) /\ Cardinality(Counted(n)) \in Nat
           /\ Cardinality(Counted(n)) = 0 <=> Counted(n) = {}
<1>1. IsFiniteSet(1 .. Len(edges))
  BY FS_Interval DEF Graph
<1>2. Counted(n) \in SUBSET (1 .. Len(edges))
  BY DEF Counted, Graph
<1> QED
  BY <1>1, <1>2, FS_Subset, FS_CardinalityType, FS_EmptySet

LEMMA FinishedIsFinite ==
    Finished \in SUBSET Nodes /\ IsFiniteSet(Finished) /\ Cardinality(Finished) \in Nat
<1>1. Finished \in SUBSET Nodes
  BY DEF Finished, Sources
<1> QED
  BY <1>1, NodesCount, FS_Subset, FS_CardinalityType

\* all edges into a node without counted edges come from finished nodes
LEMMA NoneCounted ==
    ASSUME ValidationInv, NEW n \in Nodes, indegree[n] = 0, NEW i \in DOMAIN edges,
           edges[i].to = n
    PROVE  edges[i].from \in Finished
<1>1. Cardinality(Counted(n)) = 0
  BY DEF ValidationInv
<1>2. Counted(n) = {}
  BY <1>1, CountedIsFinite DEF ValidationInv, ValidationTypes
<1> QED
  BY <1>2 DEF Counted

LEMMA InitValidation == Init => ValidationInv
<1> SUFFICES ASSUME Init PROVE ValidationInv
  OBVIOUS
<1>1. PICK k \in 1 .. MaxEdges : edges \in [1 .. k -> EdgeSet]
  BY DEF Init
<1>2. Graph
  <2>1. k \in Nat
    BY ScenarioAssumption
  <2>2. edges \in Seq(EdgeSet) /\ Len(edges) = k
    BY <1>1, <2>1
  <2> QED
    BY <1>1, <2>1, <2>2 DEF Graph
<1>3. Finished = {}
  BY DEF Finished, Init
<1>4. ASSUME NEW n \in Nodes
      PROVE  indegree[n] = Cardinality(Counted(n)) /\ indegree[n] \in Nat
  <2>1. Counted(n) = {i \in DOMAIN edges : edges[i].to = n}
    BY <1>3 DEF Counted
  <2> QED
    BY <1>2, <2>1, CountedIsFinite DEF Init
<1>5. ValidationTypes
  <2>1. indegree \in [Nodes -> Nat]
    BY <1>4 DEF Init
  <2> QED
    BY <1>2, <2>1 DEF ValidationTypes, Init, Graph
<1>6. QueueInv
  BY <1>2 DEF QueueInv, Init, Graph
<1>7. visited = Cardinality(Finished)
  BY <1>3, FS_EmptySet DEF Init
<1>8. AcceptsExactlyDAGs
  BY DEF AcceptsExactlyDAGs, Init
<1> QED
  BY <1>3, <1>4, <1>5, <1>6, <1>7, <1>8 DEF ValidationInv

LEMMA QueueSourcesValidation ==
    ASSUME ValidationInv, QueueSources
    PROVE  ValidationInv'
<1>1. /\ UNCHANGED <<edges, indegree, visited, child>>
      /\ phase = "count" /\ phase' = "validate" /\ queue = <<>>
      /\ child = Len(edges) + 1
  BY DEF QueueSources, ValidationInv, QueueInv, ValidationTypes, Graph
<1>2. PICK m \in Nat : m = Cardinality(Sources)
  BY NodesCount, FS_Subset, FS_CardinalityType DEF Sources
<1>3. /\ queue' \in [1 .. m -> Sources]
      /\ \A j, k \in DOMAIN queue' : queue'[j] = queue'[k] => j = k
      /\ Range(queue') = Sources
  BY <1>2 DEF QueueSources, Bijection, Injection, Surjection, IsInjective, Range
<1>4. queue' \in Seq(Nodes)
  BY <1>2, <1>3 DEF Sources
<1>5. Sources' = Sources
  BY <1>1 DEF Sources
<1>6. Finished' = {} /\ Finished = {}
  BY <1>1, <1>3, <1>5 DEF Finished
<1>7. \A n \in Nodes : Counted(n)' = Counted(n)
  BY <1>1, <1>6 DEF Counted
<1>8. ValidationTypes'
  BY <1>1, <1>4, FileStays DEF ValidationTypes, ValidationInv
<1>9. QueueInv'
  BY <1>1, <1>3 DEF QueueInv, Sources, ValidationInv, ValidationTypes, Graph
<1>10. AcceptsExactlyDAGs'
  BY <1>1 DEF AcceptsExactlyDAGs
<1> QED
  BY <1>1, <1>6, <1>7, <1>8, <1>9, <1>10 DEF ValidationInv

LEMMA VisitValidation ==
    ASSUME ValidationInv, Visit
    PROVE  ValidationInv'
<1> DEFINE h == Head(queue)
<1>1. /\ UNCHANGED <<edges, phase, indegree>>
      /\ phase = "validate" /\ child > Len(edges) /\ queue # <<>>
      /\ queue' = Tail(queue) /\ visited' = visited + 1 /\ child' = Outgoing(h, 0)
  BY DEF Visit, NodeDone
<1>2. queue \in Seq(Nodes) /\ Graph /\ Len(edges) \in Nat
  BY DEF ValidationInv, ValidationTypes, Graph
<1>3. /\ Len(queue) \in Nat \ {0} /\ DOMAIN queue = 1 .. Len(queue)
      /\ h = queue[1] /\ h \in Nodes
      /\ queue' \in Seq(Nodes) /\ DOMAIN queue' = 1 .. (Len(queue) - 1)
      /\ \A k \in DOMAIN queue' : queue'[k] = queue[k + 1]
  BY <1>1, <1>2
<1>4. h \in Sources /\ h \notin Finished
  BY <1>1, <1>3 DEF ValidationInv, QueueInv, Sources, Finished, Range
<1>5. Range(queue) = Range(queue') \cup {h} /\ h \notin Range(queue')
  <2>1. ASSUME NEW n \in Range(queue)
        PROVE  n \in Range(queue') \cup {h}
    <3>1. PICK k \in 1 .. Len(queue) : n = queue[k]
      BY <1>3 DEF Range
    <3>2. k = 1 \/ (k - 1 \in DOMAIN queue' /\ queue'[k - 1] = queue[(k - 1) + 1])
      BY <1>3
    <3>3. (k - 1) + 1 = k
      OBVIOUS
    <3> QED
      BY <1>3, <3>1, <3>2, <3>3 DEF Range
  <2>2. ASSUME NEW n \in Range(queue')
        PROVE  n \in Range(queue) /\ n # h
    <3>1. PICK k \in DOMAIN queue' : n = queue'[k]
      BY DEF Range
    <3>2. k + 1 \in DOMAIN queue /\ n = queue[k + 1] /\ k + 1 # 1 /\ 1 \in DOMAIN queue
      BY <1>3, <3>1
    <3>3. n # h
      BY <1>3, <3>2 DEF ValidationInv, QueueInv
    <3> QED
      BY <3>2, <3>3 DEF Range
  <2>3. h \in Range(queue)
    BY <1>3 DEF Range
  <2> QED
    BY <2>1, <2>2, <2>3
<1>6. Sources' = Sources
  BY <1>1 DEF Sources
<1>7. Finished' = Finished \cup {h}
  BY <1>1, <1>4, <1>5, <1>6 DEF Finished
<1>8. /\ child' \in 1 .. (Len(edges) + 1)
      /\ child' <= Len(edges) => edges[child'].from = h
      /\ \A j \in DOMAIN edges : edges[j].from = h => child' <= j
  <2>1. \A j \in DOMAIN edges : j > 0
    BY <1>2 DEF Graph
  <2> QED
    BY <1>1, <1>2, <2>1, OutgoingIs
<1>9. ASSUME NEW n \in Nodes
      PROVE  Counted(n)' = Counted(n)
  <2>1. ASSUME NEW i \in DOMAIN edges
        PROVE  \/ edges[i].from \notin Finished'
               \/ child' <= Len(edges) /\ edges[i].from = edges[child'].from /\ i >= child'
               <=> edges[i].from \notin Finished
    <3>1. i <= Len(edges)
      BY <1>2 DEF Graph
    <3>2. CASE edges[i].from = h
      BY <1>2, <1>4, <1>8, <3>1, <3>2
    <3>3. CASE edges[i].from # h
      BY <1>7, <1>8, <3>3
    <3> QED
      BY <3>2, <3>3
  <2>2. Counted(n)' = {i \in DOMAIN edges : edges[i].to = n /\
            (edges[i].from \notin Finished'
             \/ (child' <= Len(edges) /\ edges[i].from = edges[child'].from /\ i >= child'))}
    BY <1>1 DEF Counted
  <2>3. Counted(n) = {i \in DOMAIN edges : edges[i].to = n /\ edges[i].from \notin Finished}
    <3>1. ~(child <= Len(edges))
      BY <1>1, <1>2 DEF ValidationInv, ValidationTypes
    <3> QED
      BY <3>1 DEF Counted
  <2> QED
    BY <2>1, <2>2, <2>3
<1>10. h \notin Reach(h)
  <2>1. ASSUME NEW i \in DOMAIN edges, edges[i].to \in Finished \cup {h}
        PROVE  edges[i].from \in Finished
    <3>1. edges[i].to \in Nodes /\ indegree[edges[i].to] = 0
      BY <1>1, <1>4, <2>1 DEF Finished, Sources
    <3> QED
      BY <3>1, NoneCounted
  <2> QED
    BY <1>2, <1>4, <2>1, OnNoCycle
<1>11. ValidationTypes'
  BY <1>1, <1>2, <1>3, <1>8, FileStays DEF ValidationTypes, ValidationInv
<1>12. QueueInv'
  <2>1. \A k \in DOMAIN queue' : k + 1 \in DOMAIN queue /\ queue'[k] = queue[k + 1]
    BY <1>3
  <2>2. \A k \in DOMAIN queue' : indegree'[queue'[k]] = 0
    BY <1>1, <2>1 DEF ValidationInv, QueueInv
  <2>3. ASSUME NEW j \in DOMAIN queue', NEW k \in DOMAIN queue', queue'[j] = queue'[k]
        PROVE  j = k
    <3>1. j + 1 = k + 1
      BY <2>1, <2>3 DEF ValidationInv, QueueInv
    <3> QED
      BY <1>3, <3>1
  <2>4. child' <= Len(edges)' => phase' = "validate" /\ (edges[child].from)' \in Finished'
    BY <1>1, <1>7, <1>8
  <2> QED
    BY <1>1, <2>2, <2>3, <2>4 DEF QueueInv
<1>13. visited' = Cardinality(Finished')
  BY <1>1, <1>4, <1>7, FinishedIsFinite, FS_AddElement DEF ValidationInv
<1>14. \A n \in Finished' : n \notin Reach(n)'
  BY <1>1, <1>7, <1>10, FileStays DEF ValidationInv
<1>15. AcceptsExactlyDAGs'
  BY <1>1 DEF AcceptsExactlyDAGs
<1> QED
  BY <1>1, <1>9, <1>11, <1>12, <1>13, <1>14, <1>15 DEF ValidationInv

LEMMA TakeChildValidation ==
    ASSUME ValidationInv, TakeChild
    PROVE  ValidationInv'
<1>1. Graph /\ Len(edges) \in Nat /\ child \in DOMAIN edges /\ child \in 1 .. Len(edges)
  BY DEF ValidationInv, ValidationTypes, Graph, TakeChild
<1>2. PICK n \in Nodes, f \in Nodes : n = edges[child].to /\ f = edges[child].from
  BY <1>1, EdgesType
<1>3. /\ UNCHANGED <<edges, phase, visited>> /\ phase = "validate"
      /\ indegree' = [indegree EXCEPT ![n] = @ - 1]
      /\ queue' = IF indegree'[n] = 0 THEN Append(queue, n) ELSE queue
      /\ child' = Outgoing(f, child)
  BY <1>2 DEF TakeChild
<1>4. /\ indegree \in [Nodes -> Nat] /\ queue \in Seq(Nodes)
      /\ f \in Finished
  BY <1>1, <1>2 DEF ValidationInv, ValidationTypes, QueueInv
<1>5. /\ child' \in 1 .. (Len(edges) + 1)
      /\ child' <= Len(edges) => child' > child /\ edges[child'].from = f
      /\ \A j \in DOMAIN edges : j > child /\ edges[j].from = f => child' <= j
  BY <1>1, <1>3, OutgoingIs
<1>6. child \in Counted(n)
  BY <1>1, <1>2 DEF Counted
<1>7. indegree[n] # 0
  <2>1. Cardinality(Counted(n)) # 0
    BY <1>1, <1>6, CountedIsFinite
  <2> QED
    BY <2>1 DEF ValidationInv
<1>8. indegree' \in [Nodes -> Nat] /\ indegree'[n] = indegree[n] - 1
  BY <1>2, <1>3, <1>4, <1>7
<1>9. \A m \in Nodes : m # n => indegree'[m] = indegree[m]
  BY <1>3, <1>4
<1>10. n \notin Range(queue)
  BY <1>7 DEF ValidationInv, QueueInv, Range
<1>11. /\ Len(queue) \in Nat /\ DOMAIN queue = 1 .. Len(queue)
       /\ queue' \in Seq(Nodes)
       /\ indegree'[n] # 0 => queue' = queue
       /\ indegree'[n] = 0 => /\ DOMAIN queue' = 1 .. (Len(queue) + 1)
                              /\ queue'[Len(queue) + 1] = n
                              /\ \A k \in 1 .. Len(queue) : queue'[k] = queue[k]
  BY <1>2, <1>3, <1>4
<1>12. Sources' \ Range(queue') = Sources \ Range(queue)
  <2>1. CASE indegree'[n] # 0
    <3>1. Sources' = Sources
      BY <1>7, <1>9, <2>1 DEF Sources
    <3> QED
      BY <1>11, <2>1, <3>1
  <2>2. CASE indegree'[n] = 0
    <3>1. Sources' = Sources \cup {n}
      BY <1>2, <1>9, <2>2 DEF Sources
    <3>2. Range(queue') = Range(queue) \cup {n}
      <4>1. ASSUME NEW x \in Range(queue')
            PROVE  x \in Range(queue) \cup {n}
        <5>1. PICK k \in 1 .. (Len(queue) + 1) : x = queue'[k]
          BY <1>11, <2>2 DEF Range
        <5>2. k = Len(queue) + 1 \/ k \in 1 .. Len(queue)
          BY <1>11
        <5> QED
          BY <1>11, <2>2, <5>1, <5>2 DEF Range
      <4>2. ASSUME NEW x \in Range(queue)
            PROVE  x \in Range(queue')
        <5>1. PICK k \in 1 .. Len(queue) : x = queue[k]
          BY <1>11 DEF Range
        <5>2. k \in DOMAIN queue' /\ queue'[k] = x
          BY <1>11, <2>2, <5>1
        <5> QED
          BY <5>2 DEF Range
      <4>3. n \in Range(queue')
        <5>1. Len(queue) + 1 \in DOMAIN queue'
          BY <1>11, <2>2
        <5> QED
          BY <1>11, <2>2, <5>1 DEF Range
      <4> QED
        BY <4>1, <4>2, <4>3
    <3> QED
      BY <1>7, <3>1, <3>2 DEF Sources
  <2> QED
    BY <2>1, <2>2
<1>13. Finished' = Finished
  BY <1>3, <1>12 DEF Finished
<1>14. ASSUME NEW i \in DOMAIN edges
       PROVE  (child' <= Len(edges) /\ edges[i].from = f /\ i >= child')
              <=> (edges[i].from = f /\ i >= child /\ i # child)
  <2>1. i \in Nat /\ i <= Len(edges)
    BY <1>1 DEF Graph
  <2> QED
    BY <1>1, <1>5, <2>1
<1>15. ASSUME NEW m \in Nodes
       PROVE  Counted(m)' = Counted(m) \ {child}
  <2>1. Counted(m)' = {i \in DOMAIN edges : edges[i].to = m /\
            (edges[i].from \notin Finished
             \/ (child' <= Len(edges) /\ edges[i].from = f /\ i >= child'))}
    <3>1. Counted(m)' = {i \in DOMAIN edges : edges[i].to = m /\
            (edges[i].from \notin Finished
             \/ (child' <= Len(edges) /\ edges[i].from = edges[child'].from /\ i >= child'))}
      BY <1>3, <1>13 DEF Counted
    <3> QED
      BY <1>5, <3>1
  <2>2. Counted(m) = {i \in DOMAIN edges : edges[i].to = m /\
            (edges[i].from \notin Finished \/ (edges[i].from = f /\ i >= child))}
    BY <1>1, <1>2 DEF Counted
  <2>3. ASSUME NEW i \in DOMAIN edges
        PROVE  (edges[i].from \notin Finished
                \/ (child' <= Len(edges) /\ edges[i].from = f /\ i >= child'))
               <=> ((edges[i].from \notin Finished \/ (edges[i].from = f /\ i >= child))
                    /\ i # child)
    BY <1>2, <1>4, <1>14
  <2> QED
    BY <2>1, <2>2, <2>3
<1>16. ASSUME NEW m \in Nodes
       PROVE  indegree'[m] = Cardinality(Counted(m)')
  <2>1. /\ IsFiniteSet(Counted(m)) /\ indegree[m] = Cardinality(Counted(m))
    BY <1>1, CountedIsFinite DEF ValidationInv
  <2>2. CASE m = n
    BY <1>6, <1>8, <1>15, <2>1, <2>2, FS_RemoveElement
  <2>3. CASE m # n
    <3>1. child \notin Counted(m)
      BY <1>2, <2>3 DEF Counted
    <3>2. Counted(m)' = Counted(m)
      BY <1>15, <3>1
    <3> QED
      BY <1>9, <2>1, <2>3, <3>2
  <2> QED
    BY <2>2, <2>3
<1>17. ValidationTypes'
  BY <1>1, <1>3, <1>5, <1>8, <1>11, FileStays DEF ValidationTypes, ValidationInv
<1>18. QueueInv'
  <2>1. \A k \in DOMAIN queue : queue[k] \in Nodes /\ queue[k] # n /\ indegree[queue[k]] = 0
    BY <1>4, <1>10, <1>11 DEF Range, ValidationInv, QueueInv
  <2>2. \A k \in DOMAIN queue' : indegree'[queue'[k]] = 0
    <3>1. CASE indegree'[n] # 0
      BY <1>9, <1>11, <2>1, <3>1
    <3>2. CASE indegree'[n] = 0
      <4>1. \A k \in DOMAIN queue' : k = Len(queue) + 1 \/ k \in 1 .. Len(queue)
        BY <1>11, <3>2
      <4> QED
        BY <1>9, <1>11, <2>1, <3>2, <4>1
    <3> QED
      BY <3>1, <3>2
  <2>3. ASSUME NEW j \in DOMAIN queue', NEW k \in DOMAIN queue', queue'[j] = queue'[k]
        PROVE  j = k
    <3>1. CASE indegree'[n] # 0
      BY <1>11, <2>3, <3>1 DEF ValidationInv, QueueInv
    <3>2. CASE indegree'[n] = 0
      <4>1. \A x \in {j, k} : \/ x = Len(queue) + 1 /\ queue'[x] = n
                              \/ /\ x \in DOMAIN queue /\ queue'[x] = queue[x]
                                 /\ queue'[x] # n
        BY <1>11, <2>1, <3>2
      <4> QED
        BY <2>3, <4>1 DEF ValidationInv, QueueInv
    <3> QED
      BY <3>1, <3>2
  <2>4. child' <= Len(edges)' => phase' = "validate" /\ (edges[child].from)' \in Finished'
    BY <1>3, <1>4, <1>5, <1>13
  <2> QED
    BY <1>3, <2>2, <2>3, <2>4 DEF QueueInv
<1>19. visited' = Cardinality(Finished') /\ \A m \in Finished' : m \notin Reach(m)'
  BY <1>3, <1>13, FileStays DEF ValidationInv
<1>20. AcceptsExactlyDAGs'
  BY <1>3 DEF AcceptsExactlyDAGs
<1> QED
  BY <1>3, <1>16, <1>17, <1>18, <1>19, <1>20 DEF ValidationInv

\* after the loop, the validation is left alone
LEMMA ValidationStays ==
    ASSUME ValidationInv, UNCHANGED <<edges, validation>>, phase # "count",
           phase' \in {"rejected", "emit", "done"}, child > Len(edges),
           AcceptsExactlyDAGs'
    PROVE  ValidationInv'
<1>1. UNCHANGED <<edges, indegree, queue, visited, child>>
  BY DEF validation
<1>2. Finished' = Finished
  BY <1>1 DEF Finished, Sources
<1>3. \A n \in Nodes : Counted(n)' = Counted(n)
  BY <1>1, <1>2 DEF Counted
<1>4. ValidationTypes'
  BY <1>1, FileStays DEF ValidationTypes, ValidationInv
<1>5. ~(child <= Len(edges))
  BY DEF ValidationInv, ValidationTypes, Graph
<1>6. QueueInv'
  BY <1>1, <1>5 DEF QueueInv, ValidationInv
<1> QED
  BY <1>1, <1>2, <1>3, <1>4, <1>6, FileStays DEF ValidationInv

LEMMA RejectValidation ==
    ASSUME ValidationInv, Reject
    PROVE  ValidationInv'
<1>1. /\ UNCHANGED <<edges, validation>> /\ phase = "validate" /\ phase' = "rejected"
      /\ child > Len(edges) /\ queue = <<>> /\ visited # Cardinality(Nodes)
  BY DEF Reject, NodeDone
<1>2. Graph /\ ~(child <= Len(edges))
  BY <1>1 DEF ValidationInv, ValidationTypes, Graph
<1>3. Finished = Sources
  BY <1>1 DEF Finished, Range
<1> DEFINE U == Nodes \ Finished
<1>4. U # {}
  <2>1. Finished # Nodes
    BY <1>1 DEF ValidationInv
  <2> QED
    BY <2>1, FinishedIsFinite
<1>5. ASSUME NEW n \in U
      PROVE  \E i \in DOMAIN edges : edges[i].to = n /\ edges[i].from \in U
  <2>1. Cardinality(Counted(n)) # 0
    BY <1>3 DEF Sources, ValidationInv
  <2>2. PICK i : i \in Counted(n)
    BY <1>2, <2>1, CountedIsFinite
  <2>3. i \in DOMAIN edges /\ edges[i].to = n /\ edges[i].from \notin Finished
    BY <1>2, <2>2 DEF Counted
  <2> QED
    BY <1>2, <2>3, EdgesType
<1> HIDE DEF U
<1>6. U \in SUBSET Nodes
  BY DEF U
<1>7. \E n \in Nodes : n \in Reach(n)
  BY <1>2, <1>4, <1>5, <1>6, CycleAbove
<1>8. AcceptsExactlyDAGs'
  BY <1>1, <1>7, FileStays DEF AcceptsExactlyDAGs
<1> QED
  BY <1>1, <1>8, ValidationStays

LEMMA AcceptValidation ==
    ASSUME ValidationInv, Accept
    PROVE  ValidationInv' /\ NoCycle
<1>1. /\ UNCHANGED <<edges, validation>> /\ phase = "validate" /\ phase' = "emit"
      /\ child > Len(edges) /\ visited = Cardinality(Nodes)
  BY DEF Accept, NodeDone
<1>2. Finished = Nodes
  BY <1>1, FinishedIsFinite, NodesCount, FS_Subset DEF ValidationInv
<1>3. NoCycle
  BY <1>2 DEF NoCycle, ValidationInv
<1>4. AcceptsExactlyDAGs'
  BY <1>1, <1>3, FileStays DEF AcceptsExactlyDAGs, NoCycle
<1> QED
  BY <1>1, <1>3, <1>4, ValidationStays

LEMMA EmissionValidation ==
    ASSUME ValidationInv, EmitEdge \/ NextEdge \/ Return
    PROVE  ValidationInv'
<1>1. /\ UNCHANGED <<edges, validation>> /\ phase = "emit" /\ phase' \in {"emit", "done"}
  BY DEF EmitEdge, NextEdge, Return
<1>2. child > Len(edges)
  BY <1>1 DEF ValidationInv, ValidationTypes, QueueInv, Graph
<1>3. AcceptsExactlyDAGs'
  BY <1>1, FileStays DEF AcceptsExactlyDAGs, ValidationInv
<1> QED
  BY <1>1, <1>2, <1>3, ValidationStays

LEMMA StutterValidation ==
    ASSUME ValidationInv, UNCHANGED vars
    PROVE  ValidationInv'
<1>1. UNCHANGED <<edges, phase, indegree, queue, visited, child>>
  BY DEF vars
<1>2. Finished' = Finished
  BY <1>1 DEF Finished, Sources
<1>3. \A n \in Nodes : Counted(n)' = Counted(n)
  BY <1>1, <1>2 DEF Counted
<1>4. ValidationTypes'
  BY <1>1, FileStays DEF ValidationTypes, ValidationInv
<1>5. QueueInv'
  BY <1>1, <1>2 DEF QueueInv, ValidationInv
<1>6. AcceptsExactlyDAGs'
  BY <1>1, FileStays DEF AcceptsExactlyDAGs, ValidationInv
<1> QED
  BY <1>1, <1>2, <1>3, <1>4, <1>5, <1>6, FileStays DEF ValidationInv

\* The invariant of Kahn's algorithm holds in every state, for every graph.
THEOREM ValidationInvariance == Spec => []ValidationInv
<1>1. ValidationInv /\ [Next]_vars => ValidationInv'
  BY QueueSourcesValidation, VisitValidation, TakeChildValidation, RejectValidation,
     AcceptValidation, EmissionValidation, StutterValidation DEF Next, Ended
<1> QED
  BY InitValidation, <1>1, PTL DEF Spec

\* validateDAG accepts the graphs without a cycle and no others, in every order in which
\* the map may yield the nodes.
THEOREM ValidationIsExact == Spec => []AcceptsExactlyDAGs
<1>1. ValidationInv => AcceptsExactlyDAGs
  BY DEF ValidationInv
<1> QED
  BY ValidationInvariance, <1>1, PTL

-----------------------------------------------------------------------------
(* The sums over the edges of a node, and the walk. *)

\* below is known for what the edges of n lead to
Known(n, below) ==
    \A i \in DOMAIN edges : edges[i].from = n => below[edges[i].to] \in Nat

Term(n, cost, below, k) ==
    IF edges[k].from = n THEN edges[k].repeat * (cost[k] + below[edges[k].to]) ELSE 0

LEMMA ProductsAreNat == \A x, y \in Nat : x * y \in Nat
OBVIOUS

LEMMA TermType ==
    ASSUME Graph, NEW n, NEW cost \in [DOMAIN edges -> Nat], NEW below, Known(n, below),
           NEW k \in DOMAIN edges
    PROVE  Term(n, cost, below, k) \in Nat
<1>1. CASE edges[k].from = n
  <2>1. edges[k].repeat \in Nat /\ cost[k] + below[edges[k].to] \in Nat
    BY <1>1, EdgesType DEF Known
  <2> QED
    BY <1>1, <2>1, ProductsAreNat DEF Term
<1> QED
  BY <1>1 DEF Term

LEMMA SumsIs ==
    ASSUME Graph, NEW n, NEW cost \in [DOMAIN edges -> Nat], NEW below, Known(n, below)
    PROVE  /\ \A k \in 0 .. Len(edges) : Sums(n, cost, below)[k] \in Nat
           /\ Sums(n, cost, below)[0] = 0
           /\ \A k \in 1 .. Len(edges) :
                 Sums(n, cost, below)[k] = Sums(n, cost, below)[k - 1] + Term(n, cost, below, k)
<1>1. PICK N \in Nat : N = Len(edges) /\ DOMAIN edges = 1 .. N
  BY DEF Graph
<1> DEFINE F == [p \in Nat \X (1 .. N) |-> p[1] + Term(n, cost, below, p[2])]
           Is(g) == g = [k \in 0 .. N |-> IF k = 0 THEN 0
                                           ELSE g[k - 1] + Term(n, cost, below, k)]
<1>2. Rule(F, Nat, N)
  <2>1. \A x \in Nat, k \in 1 .. N : x + Term(n, cost, below, k) \in Nat
    BY <1>1, TermType
  <2> QED
    BY <2>1 DEF Rule
<1> HIDE DEF F
<1>3. PICK g : Follows(g, F, Nat, N, 0)
  <2>1. 0 \in Nat
    OBVIOUS
  <2> QED
    BY <1>2, <2>1, Recursion
<1>4. /\ g \in [0 .. N -> Nat] /\ g[0] = 0
      /\ \A k \in 1 .. N : g[k] = F[<<g[k - 1], k>>]
  BY <1>3 DEF Follows
<1>5. ASSUME NEW k \in 1 .. N
      PROVE  g[k] = g[k - 1] + Term(n, cost, below, k)
  <2>1. k - 1 \in 0 .. N /\ g[k - 1] \in Nat
    BY <1>4
  <2>2. F[<<g[k - 1], k>>] = g[k - 1] + Term(n, cost, below, k)
    BY <2>1 DEF F
  <2> QED
    BY <1>4, <2>2
<1>6. Is(g)
  <2>1. g = [k \in 0 .. N |-> g[k]]
    BY <1>4
  <2>2. \A k \in 0 .. N : k = 0 \/ k \in 1 .. N
    OBVIOUS
  <2> QED
    BY <1>4, <1>5, <2>1, <2>2
<1>7. Sums(n, cost, below) = CHOOSE h : Is(h)
  BY <1>1 DEF Sums, Term
<1> HIDE DEF Is
<1>8. Is(Sums(n, cost, below))
  BY <1>6, <1>7
<1> DEFINE v == Sums(n, cost, below)
<1> HIDE DEF v
<1>9. v = [k \in 0 .. N |-> IF k = 0 THEN 0 ELSE v[k - 1] + Term(n, cost, below, k)]
  BY <1>8 DEF Is, v
<1>10. v[0] = 0
  BY <1>1, <1>9
<1>11. ASSUME NEW k \in 1 .. N
       PROVE  v[k] = v[k - 1] + Term(n, cost, below, k)
  <2>1. k \in 0 .. N /\ k # 0
    OBVIOUS
  <2> QED
    BY <1>9, <2>1, Zenon
<1> DEFINE S == {k \in 0 .. N : v[k] \in Nat}
<1>12. 0 \in S
  BY <1>10
<1>13. ASSUME NEW k \in 1 .. N, k - 1 \in S
       PROVE  k \in S
  BY <1>1, <1>11, <1>13, TermType
<1> HIDE DEF S
<1>14. 0 .. N \subseteq S
  BY <1>12, <1>13, InductionTo
<1> QED
  BY <1>1, <1>10, <1>11, <1>14 DEF S, v

\* only what is below the edges of n matters
LEMMA SumsAgree ==
    ASSUME Graph, NEW n, NEW cost \in [DOMAIN edges -> Nat], NEW v, NEW w, Known(n, v),
           \A i \in DOMAIN edges : edges[i].from = n => w[edges[i].to] = v[edges[i].to]
    PROVE  Sums(n, cost, w)[Len(edges)] = Sums(n, cost, v)[Len(edges)]
<1>1. PICK N \in Nat : N = Len(edges) /\ DOMAIN edges = 1 .. N
  BY DEF Graph
<1>2. Known(n, w)
  BY DEF Known
<1> DEFINE a == Sums(n, cost, v)
           b == Sums(n, cost, w)
           S == {k \in 0 .. N : a[k] = b[k]}
<1>3. a[0] = 0 /\ \A k \in 1 .. N : a[k] = a[k - 1] + Term(n, cost, v, k)
  BY <1>1, SumsIs
<1>4. b[0] = 0 /\ \A k \in 1 .. N : b[k] = b[k - 1] + Term(n, cost, w, k)
  BY <1>1, <1>2, SumsIs
<1> HIDE DEF a, b
<1>5. 0 \in S
  BY <1>3, <1>4
<1>6. ASSUME NEW k \in 1 .. N, k - 1 \in S
      PROVE  k \in S
  <2>1. Term(n, cost, v, k) = Term(n, cost, w, k)
    BY <1>1 DEF Term
  <2> QED
    BY <1>3, <1>4, <1>6, <2>1
<1> HIDE DEF S
<1>7. 0 .. N \subseteq S
  BY <1>5, <1>6, InductionTo
<1> QED
  BY <1>1, <1>7 DEF S, a, b

\* up to the next edge of n, nothing is added
LEMMA SumsSkip ==
    ASSUME Graph, NEW n, NEW cost \in [DOMAIN edges -> Nat], NEW w, Known(n, w),
           NEW i \in 0 .. Len(edges)
    PROVE  Sums(n, cost, w)[Outgoing(n, i) - 1] = Sums(n, cost, w)[i]
<1>1. PICK N \in Nat : N = Len(edges) /\ DOMAIN edges = 1 .. N
  BY DEF Graph
<1> DEFINE a == Sums(n, cost, w)
           o == Outgoing(n, i)
           S == {k \in 0 .. N : i <= k /\ k < o => a[k] = a[i]}
<1>2. \A k \in 0 .. N : a[k] \in Nat
  BY <1>1, SumsIs
<1>3. \A k \in 1 .. N : a[k] = a[k - 1] + Term(n, cost, w, k)
  BY <1>1, SumsIs
<1>4. i \in Nat /\ i <= N
  BY <1>1
<1>5. /\ o \in 1 .. (N + 1) /\ (o <= N => o > i)
      /\ \A j \in 1 .. N : j > i /\ edges[j].from = n => o <= j
  BY <1>1, <1>4, OutgoingIs
<1> HIDE DEF a, o
<1>6. 0 \in S
  BY <1>4
<1>7. ASSUME NEW k \in 1 .. N, k - 1 \in S
      PROVE  k \in S
  <2> SUFFICES ASSUME i <= k, k < o
               PROVE  a[k] = a[i]
    OBVIOUS
  <2>1. CASE i = k
    BY <2>1
  <2>2. CASE i # k
    <3>1. i <= k - 1 /\ k - 1 < o
      BY <1>4, <1>5, <2>2
    <3>2. a[k - 1] = a[i]
      BY <1>7, <3>1
    <3>3. edges[k].from # n
      BY <1>4, <1>5, <2>2
    <3>4. a[k] = a[k - 1] + 0
      BY <1>3, <3>3 DEF Term
    <3>5. k - 1 \in 0 .. N
      OBVIOUS
    <3> QED
      BY <1>2, <3>2, <3>4, <3>5
  <2> QED
    BY <2>1, <2>2
<1> HIDE DEF S
<1>8. 0 .. N \subseteq S
  BY <1>6, <1>7, InductionTo
<1>9. o - 1 \in 0 .. N /\ i <= o - 1 /\ o - 1 < o
  BY <1>4, <1>5
<1> QED
  BY <1>8, <1>9 DEF S, a, o

\* Without a cycle the walk is the function its definition asks for.
LEMMA WalkIs ==
    ASSUME Graph, NoCycle, NEW cost \in [DOMAIN edges -> Nat]
    PROVE  /\ Walk(cost) \in [Nodes -> Nat]
           /\ \A n \in Nodes : Walk(cost)[n] = Sums(n, cost, Walk(cost))[Len(edges)]
<1>1. PICK N \in Nat : N = Cardinality(Nodes)
  BY NodesCount
<1>2. /\ \A n \in Nodes : Height(n) \in 0 .. N
      /\ \A i \in DOMAIN edges : Height(edges[i].to) < Height(edges[i].from)
  BY <1>1, EdgesGoDown
<1>3. Len(edges) \in 0 .. Len(edges)
  BY DEF Graph
<1>4. N + 1 \in Nat
  OBVIOUS
<1> DEFINE All(n, w) == Sums(n, cost, w)[Len(edges)]
           Good(k, w) == \A n \in Nodes : Height(n) < k => w[n] = All(n, w)
           T == {k \in 0 .. (N + 1) : \E w \in [Nodes -> Nat] : Good(k, w)}
<1>5. \A w \in [Nodes -> Nat], n \in Nodes : Known(n, w) /\ All(n, w) \in Nat
  <2>1. \A w \in [Nodes -> Nat], n \in Nodes : Known(n, w)
    BY EdgesType DEF Known
  <2> QED
    BY <1>3, <2>1, SumsIs
<1>6. 0 \in T
  <2> DEFINE w == [n \in Nodes |-> 0]
  <2>1. w \in [Nodes -> Nat]
    OBVIOUS
  <2>2. Good(0, w)
    BY <1>2
  <2> HIDE DEF w
  <2> QED
    BY <1>4, <2>1, <2>2
<1>7. ASSUME NEW k \in 1 .. (N + 1), k - 1 \in T
      PROVE  k \in T
  <2>1. PICK w \in [Nodes -> Nat] : Good(k - 1, w)
    BY <1>7
  <2> DEFINE v == [n \in Nodes |-> IF Height(n) = k - 1 THEN All(n, w) ELSE w[n]]
  <2>2. v \in [Nodes -> Nat]
    BY <1>5
  <2>3. \A n \in Nodes : v[n] = IF Height(n) = k - 1 THEN All(n, w) ELSE w[n]
    OBVIOUS
  <2> HIDE DEF v
  <2>4. ASSUME NEW n \in Nodes, Height(n) < k
        PROVE  v[n] = All(n, v)
    <3>1. ASSUME NEW i \in DOMAIN edges, edges[i].from = n
          PROVE  v[edges[i].to] = w[edges[i].to]
      <4>1. edges[i].to \in Nodes /\ Height(edges[i].to) < Height(n)
        BY <1>2, <3>1, EdgesType
      <4>2. Height(edges[i].to) # k - 1
        BY <1>2, <2>4, <4>1
      <4> QED
        BY <2>3, <4>1, <4>2
    <3>2. All(n, v) = All(n, w)
      BY <1>5, <3>1, SumsAgree
    <3>3. Height(n) # k - 1 => Height(n) < k - 1
      BY <1>2, <2>4
    <3> HIDE DEF All
    <3> QED
      BY <2>1, <2>3, <3>2, <3>3
  <2>5. Good(k, v)
    BY <2>4
  <2> HIDE DEF Good
  <2> QED
    BY <2>2, <2>5
<1> HIDE DEF T
<1>8. 0 .. (N + 1) \subseteq T
  BY <1>4, <1>6, <1>7, InductionTo
<1>9. PICK g \in [Nodes -> Nat] : \A n \in Nodes : g[n] = All(n, g)
  <2>1. N + 1 \in T
    BY <1>4, <1>8
  <2> QED
    BY <1>2, <2>1 DEF T
<1> DEFINE Is(h) == h = [n \in Nodes |-> All(n, h)]
           W == Walk(cost)
<1>10. Is(g)
  BY <1>9
<1>11. W = CHOOSE h : Is(h)
  BY DEF Walk
<1>12. Is(W)
  <2> HIDE DEF Is, W
  <2> QED
    BY <1>10, <1>11
<1> HIDE DEF W, All
<1>13. DOMAIN W = Nodes /\ W = [n \in Nodes |-> W[n]] /\ \A n \in Nodes : W[n] = All(n, W)
  BY <1>12
<1> DEFINE S == {k \in 0 .. (N + 1) : \A n \in Nodes : Height(n) < k => W[n] \in Nat}
<1>14. 0 \in S
  BY <1>2, <1>4
<1>15. ASSUME NEW k \in 1 .. (N + 1), k - 1 \in S
       PROVE  k \in S
  <2>1. ASSUME NEW n \in Nodes, Height(n) < k
        PROVE  W[n] \in Nat
    <3>1. ASSUME NEW i \in DOMAIN edges, edges[i].from = n
          PROVE  W[edges[i].to] \in Nat
      <4>1. edges[i].to \in Nodes /\ Height(edges[i].to) < Height(n)
        BY <1>2, <3>1, EdgesType
      <4>2. Height(edges[i].to) < k - 1
        BY <1>2, <2>1, <4>1
      <4> QED
        BY <1>15, <4>1, <4>2
    <3>2. Known(n, W)
      BY <3>1 DEF Known
    <3>3. All(n, W) \in Nat
      BY <1>3, <3>2, SumsIs DEF All
    <3> QED
      BY <1>13, <3>3
  <2> QED
    BY <2>1
<1> HIDE DEF S
<1>16. 0 .. (N + 1) \subseteq S
  BY <1>4, <1>14, <1>15, InductionTo
<1>17. \A n \in Nodes : W[n] \in Nat
  <2>1. N + 1 \in S
    BY <1>4, <1>16
  <2> QED
    BY <1>2, <2>1 DEF S
<1>18. W \in [Nodes -> Nat]
  BY <1>13, <1>17
<1> QED
  BY <1>13, <1>18 DEF W, All

-----------------------------------------------------------------------------
(* What is left of the walk. *)

\* what the call f adds before it returns, if a span of edge i adds cost[i]
Left(cost, f) ==
    IF f.edge > Len(edges) THEN 0
    ELSE Walk(cost)[f.node] - Sums(f.node, cost, Walk(cost))[f.edge]
         + (edges[f.edge].repeat - f.done) * (cost[f.edge] + Walk(cost)[edges[f.edge].to])

\* What is now when the calls of st are under way, and 1 at first, ends as 1 and the
\* whole walk from the root: due[k] is what it is when the k-th call returns.
OnCourse(cost, st, now) ==
    \E due \in [1 .. (Len(st) + 1) -> Int] :
        /\ due[1] = 1 + Walk(cost)[Root]
        /\ due[Len(st) + 1] = now
        /\ \A k \in 1 .. Len(st) : due[k] = due[k + 1] + Left(cost, st[k])

Frames == {f \in [node : Nodes, parent : Nat, edge : 1 .. (Len(edges) + 1), done : Nat] :
              f.edge <= Len(edges) => /\ edges[f.edge].from = f.node
                                      /\ f.done <= edges[f.edge].repeat}
Kinds  == {"internal", "client", "server"}
Spans  == [parent : Nat, edge : Nat, kind : Kinds, start : Nat, end : Nat]

\* the spans each edge makes
Size == [i \in DOMAIN edges |-> edges[i].size]

StackInv == stack \in Seq(Frames) /\ (phase = "emit" <=> stack # <<>>)

SpansInv ==
    /\ spans \in Seq(Spans) /\ spans # <<>> /\ cursor \in Nat \ {0}
    /\ spans[1] = Span(0, 0, "internal", 0, Estimate(Root))
    /\ \A i \in 2 .. Len(spans) :
          1 <= spans[i].start /\ spans[i].start < spans[i].end /\ spans[i].end < cursor
    /\ Len(spans) > 1 => spans[Len(spans)].end = cursor - 1
    /\ CallsDoNotOverlap

\* While an accepted graph is walked, the clock and the number of spans are where the
\* calls under way leave as much to add as the estimate and the paths still ask for.
EmitInv ==
    IF phase \in {"emit", "done"}
    THEN /\ StackInv /\ SpansInv
         /\ OnCourse(Length, stack, cursor) /\ OnCourse(Size, stack, Len(spans))
    ELSE spans = <<>>

LEMMA CostTypes ==
    ASSUME Graph
    PROVE  Length \in [DOMAIN edges -> Nat] /\ Size \in [DOMAIN edges -> Nat]
<1>1. \A i \in DOMAIN edges : edges[i].duration + 1 \in Nat /\ edges[i].size \in Nat
  BY EdgesType
<1> QED
  BY <1>1 DEF Length, Size

LEMMA Less == \A r, d, c \in Int : (r - d) * c = c + (r - (d + 1)) * c
OBVIOUS

LEMMA Whole == \A r, c \in Int : (r - 0) * c = r * c /\ (r - r) * c = 0
OBVIOUS

\* a call that has come to edge Outgoing(n, i), and has not begun with it, has left what
\* the edges after i add
LEMMA LeftAfter ==
    ASSUME Graph, NoCycle, NEW cost \in [DOMAIN edges -> Nat], NEW n \in Nodes,
           NEW i \in 0 .. Len(edges), NEW f, f.node = n, f.edge = Outgoing(n, i), f.done = 0
    PROVE  Left(cost, f) = Walk(cost)[n] - Sums(n, cost, Walk(cost))[i]
<1>1. PICK N \in Nat : N = Len(edges) /\ DOMAIN edges = 1 .. N
  BY DEF Graph
<1> DEFINE W == Walk(cost)
           a == Sums(n, cost, W)
           o == Outgoing(n, i)
<1>2. W \in [Nodes -> Nat] /\ W[n] = a[N]
  BY <1>1, WalkIs
<1>3. Known(n, W)
  BY <1>2, EdgesType DEF Known
<1>4. /\ \A k \in 0 .. N : a[k] \in Nat
      /\ \A k \in 1 .. N : a[k] = a[k - 1] + Term(n, cost, W, k)
      /\ a[o - 1] = a[i]
  <2>1. \A k \in 0 .. N : a[k] \in Nat
    BY <1>1, <1>3, SumsIs
  <2>2. \A k \in 1 .. N : a[k] = a[k - 1] + Term(n, cost, W, k)
    BY <1>1, <1>3, SumsIs
  <2>3. a[o - 1] = a[i]
    BY <1>3, SumsSkip
  <2> HIDE DEF a, o
  <2> QED
    BY <2>1, <2>2, <2>3
<1>5. o \in 1 .. (N + 1) /\ (o <= N => edges[o].from = n)
  BY <1>1, OutgoingIs
<1>6. Left(cost, f) = IF o > N THEN 0
                      ELSE W[n] - a[o] + (edges[o].repeat - 0) * (cost[o] + W[edges[o].to])
  BY <1>1 DEF Left
<1> HIDE DEF W, a, o
<1>7. CASE o > N
  <2>1. o - 1 = N
    BY <1>5, <1>7
  <2>2. W[n] = a[i] /\ W[n] \in Nat
    BY <1>2, <1>4, <2>1
  <2> QED
    BY <1>6, <1>7, <2>2 DEF W, a
<1>8. CASE ~(o > N)
  <2>1. o \in 1 .. N /\ o \in 0 .. N /\ i \in 0 .. N
    BY <1>1, <1>5, <1>8
  <2>2. PICK r, c : r = edges[o].repeat /\ c = cost[o] + W[edges[o].to]
    OBVIOUS
  <2>3. r \in Nat /\ c \in Nat
    BY <1>1, <1>2, <2>1, <2>2, EdgesType
  <2>4. a[o] = a[i] + r * c
    BY <1>4, <1>5, <2>1, <2>2 DEF Term
  <2>5. Left(cost, f) = W[n] - a[o] + (r - 0) * c
    BY <1>6, <1>8, <2>2
  <2>6. (r - 0) * c = r * c /\ r * c \in Nat
    BY <2>3, Whole, ProductsAreNat
  <2>7. a[i] \in Nat /\ W[n] \in Nat
    BY <1>2, <1>4, <2>1
  <2>8. PICK p \in Nat : p = r * c
    BY <2>6
  <2>9. Left(cost, f) = W[n] - (a[i] + p) + p
    BY <2>4, <2>5, <2>6, <2>8
  <2>10. Left(cost, f) = W[n] - a[i]
    BY <2>7, <2>9
  <2> QED
    BY <2>10 DEF W, a
<1> QED
  BY <1>7, <1>8

LEMMA FrameIs ==
    ASSUME Graph, NEW n \in Nodes, NEW p \in Nat
    PROVE  Frame(n, p) \in Frames
<1>1. /\ Outgoing(n, 0) \in 1 .. (Len(edges) + 1)
      /\ Outgoing(n, 0) <= Len(edges) => edges[Outgoing(n, 0)].from = n
  BY OutgoingIs
<1>2. Outgoing(n, 0) <= Len(edges) => 0 <= edges[Outgoing(n, 0)].repeat
  <2> SUFFICES ASSUME Outgoing(n, 0) <= Len(edges)
               PROVE  0 <= edges[Outgoing(n, 0)].repeat
    OBVIOUS
  <2>1. Outgoing(n, 0) \in DOMAIN edges
    BY <1>1 DEF Graph
  <2> QED
    BY <2>1, EdgesType
<1> QED
  BY <1>1, <1>2 DEF Frame, Frames

\* a call that has just begun has its whole walk left
LEMMA LeftAtStart ==
    ASSUME Graph, NoCycle, NEW cost \in [DOMAIN edges -> Nat], NEW n \in Nodes, NEW p
    PROVE  Left(cost, Frame(n, p)) = Walk(cost)[n]
<1>1. PICK f : f = Frame(n, p)
  OBVIOUS
<1>2. f.node = n /\ f.edge = Outgoing(n, 0) /\ f.done = 0
  BY <1>1 DEF Frame
<1>3. Walk(cost) \in [Nodes -> Nat]
  BY WalkIs
<1>4. Known(n, Walk(cost))
  BY <1>3, EdgesType DEF Known
<1>5. Sums(n, cost, Walk(cost))[0] = 0
  BY <1>4, SumsIs
<1>6. 0 \in 0 .. Len(edges)
  BY DEF Graph
<1>7. Left(cost, f) = Walk(cost)[n] - Sums(n, cost, Walk(cost))[0]
  BY <1>2, <1>6, LeftAfter
<1> QED
  BY <1>1, <1>3, <1>5, <1>7

\* with a repetition, a call gives away the cost of its edge and the walk of the target
LEMMA LeftLess ==
    ASSUME Graph, NoCycle, NEW cost \in [DOMAIN edges -> Nat], NEW f \in Frames,
           f.edge <= Len(edges), NEW g, g.node = f.node, g.edge = f.edge, g.done = f.done + 1
    PROVE  /\ Left(cost, f) \in Int /\ Left(cost, g) \in Int
           /\ Left(cost, f) = cost[f.edge] + Walk(cost)[edges[f.edge].to] + Left(cost, g)
<1> DEFINE W == Walk(cost)
           a == Sums(f.node, cost, W)
           e == f.edge
<1>1. PICK N \in Nat : N = Len(edges) /\ DOMAIN edges = 1 .. N
  BY DEF Graph
<1>2. f.node \in Nodes /\ e \in 1 .. N /\ e \in 0 .. N /\ f.done \in Nat
  BY <1>1 DEF Frames
<1>3. W \in [Nodes -> Nat]
  BY WalkIs
<1>4. Known(f.node, W)
  BY <1>3, EdgesType DEF Known
<1>5. a[e] \in Nat
  BY <1>1, <1>2, <1>4, SumsIs
<1>6. PICK r, c : r = edges[e].repeat /\ c = cost[e] + W[edges[e].to]
  OBVIOUS
<1>7. r \in Nat /\ c \in Nat /\ cost[e] \in Nat /\ W[edges[e].to] \in Nat
  BY <1>1, <1>2, <1>3, <1>6, EdgesType
<1>8. PICK x \in Int : x = W[f.node] - a[e]
  BY <1>2, <1>3, <1>5
<1>9. ~(e > Len(edges))
  BY <1>1, <1>2
<1>10. Left(cost, f) = x + (r - f.done) * c
  BY <1>6, <1>8, <1>9 DEF Left
<1>11. Left(cost, g) = x + (r - (f.done + 1)) * c
  BY <1>6, <1>8, <1>9 DEF Left
<1> HIDE DEF W, a, e
<1>12. (r - f.done) * c = c + (r - (f.done + 1)) * c
  BY <1>2, <1>7, Less
<1>13. PICK d \in Int : d = r - (f.done + 1)
  BY <1>2, <1>7
<1>14. PICK y \in Int : y = d * c
  BY <1>7, <1>13
<1>15. Left(cost, f) = x + (c + y) /\ Left(cost, g) = x + y
  BY <1>10, <1>11, <1>12, <1>13, <1>14
<1> QED
  BY <1>6, <1>7, <1>15 DEF W, e

\* after its last repetition, an edge leaves what the next edges add
LEMMA LeftNext ==
    ASSUME Graph, NoCycle, NEW cost \in [DOMAIN edges -> Nat], NEW f \in Frames,
           f.edge <= Len(edges), f.done >= edges[f.edge].repeat,
           NEW g, g.node = f.node, g.edge = Outgoing(f.node, f.edge), g.done = 0
    PROVE  Left(cost, f) = Left(cost, g)
<1> DEFINE W == Walk(cost)
           a == Sums(f.node, cost, W)
           e == f.edge
<1>1. PICK N \in Nat : N = Len(edges) /\ DOMAIN edges = 1 .. N
  BY DEF Graph
<1>2. f.node \in Nodes /\ e \in 1 .. N /\ e \in 0 .. Len(edges) /\ f.done \in Nat
  BY <1>1 DEF Frames
<1>3. W \in [Nodes -> Nat]
  BY WalkIs
<1>4. Known(f.node, W)
  BY <1>3, EdgesType DEF Known
<1>5. a[e] \in Nat
  BY <1>1, <1>2, <1>4, SumsIs
<1>6. PICK r, c : r = edges[e].repeat /\ c = cost[e] + W[edges[e].to]
  OBVIOUS
<1>7. r \in Nat /\ c \in Nat /\ f.done = r
  BY <1>1, <1>2, <1>3, <1>6, EdgesType DEF Frames
<1>8. ~(e > Len(edges))
  BY <1>1, <1>2
<1>9. Left(cost, f) = W[f.node] - a[e] + (r - r) * c
  BY <1>6, <1>7, <1>8 DEF Left
<1>10. (r - r) * c = 0
  BY <1>7, Whole
<1>11. Left(cost, f) = W[f.node] - a[e]
  BY <1>2, <1>3, <1>5, <1>9, <1>10
<1>12. Left(cost, g) = W[f.node] - a[e]
  BY <1>2, LeftAfter
<1> QED
  BY <1>11, <1>12

-----------------------------------------------------------------------------
(* The course of the walk. *)

LEMMA CourseStarts ==
    ASSUME Graph, NoCycle, NEW cost \in [DOMAIN edges -> Nat], NEW p
    PROVE  OnCourse(cost, <<Frame(Root, p)>>, 1)
<1>1. PICK f, w : f = Frame(Root, p) /\ w = Walk(cost)[Root]
  OBVIOUS
<1>2. w \in Nat /\ Left(cost, f) = w
  BY <1>1, LeftAtStart, WalkIs, NodesCount
<1> DEFINE due == [k \in 1 .. 2 |-> IF k = 1 THEN 1 + w ELSE 1]
           st == <<f>>
<1>3. Len(st) = 1 /\ st[1] = f
  OBVIOUS
<1>4. due \in [1 .. 2 -> Int] /\ due[1] = 1 + w /\ due[2] = 1
  BY <1>2
<1> HIDE DEF due, st
<1>5. due \in [1 .. (Len(st) + 1) -> Int] /\ due[Len(st) + 1] = 1
  BY <1>3, <1>4
<1>6. \A k \in 1 .. Len(st) : due[k] = due[k + 1] + Left(cost, st[k])
  <2>1. due[1] = due[2] + Left(cost, st[1])
    BY <1>2, <1>3, <1>4
  <2>2. \A k \in 1 .. Len(st) : k = 1 /\ k + 1 = 2
    BY <1>3
  <2> QED
    BY <2>1, <2>2
<1>7. OnCourse(cost, st, 1)
  BY <1>1, <1>4, <1>5, <1>6 DEF OnCourse
<1> QED
  BY <1>1, <1>7 DEF st

\* the innermost call is replaced by one with as much left
LEMMA CourseReplaced ==
    ASSUME NEW cost, NEW now, NEW st, NEW t, Len(st) \in Nat, Len(t) = Len(st),
           \A k \in 1 .. Len(st) : Left(cost, t[k]) = Left(cost, st[k]),
           OnCourse(cost, st, now)
    PROVE  OnCourse(cost, t, now)
<1>1. PICK due \in [1 .. (Len(st) + 1) -> Int] :
          /\ due[1] = 1 + Walk(cost)[Root]
          /\ due[Len(st) + 1] = now
          /\ \A k \in 1 .. Len(st) : due[k] = due[k + 1] + Left(cost, st[k])
  BY DEF OnCourse
<1>2. \A k \in 1 .. Len(t) : due[k] = due[k + 1] + Left(cost, t[k])
  BY <1>1
<1> QED
  BY <1>1, <1>2 DEF OnCourse

SameBelow(n, st, t) == \A k \in 1 .. (n - 1) : t[k] = st[k]

\* a repetition moves on by what it adds itself
LEMMA CoursePushed ==
    ASSUME Graph, NoCycle, NEW cost \in [DOMAIN edges -> Nat], NEW now \in Int,
           NEW st \in Seq(Frames), NEW n \in Nat \ {0}, n = Len(st),
           NEW g \in Frames, NEW e \in 1 .. Len(edges), NEW p, NEW t \in Seq(Frames),
           st[n].edge = e, g.node = st[n].node, g.edge = e, g.done = st[n].done + 1,
           Len(t) = n + 1, t[n] = g, t[n + 1] = Frame(edges[e].to, p),
           SameBelow(n, st, t), OnCourse(cost, st, now)
    PROVE  OnCourse(cost, t, now + cost[e])
<1>1. PICK due \in [1 .. (n + 1) -> Int] :
          /\ due[1] = 1 + Walk(cost)[Root]
          /\ due[n + 1] = now
          /\ \A k \in 1 .. n : due[k] = due[k + 1] + Left(cost, st[k])
  BY DEF OnCourse
<1>2. st[n] \in Frames /\ st[n].edge <= Len(edges) /\ e \in DOMAIN edges /\ cost[e] \in Nat
  BY DEF Graph
<1>3. edges[e].to \in Nodes
  BY <1>2, EdgesType
<1>4. PICK w \in Nat : w = Walk(cost)[edges[e].to]
  BY <1>3, WalkIs
<1>5. /\ Left(cost, st[n]) \in Int /\ Left(cost, t[n]) \in Int
      /\ Left(cost, st[n]) = cost[e] + w + Left(cost, t[n])
  <2>1. PICK f \in Frames : f = st[n]
    BY <1>2
  <2>2. f.edge <= Len(edges) /\ g.node = f.node /\ g.edge = f.edge /\ g.done = f.done + 1
    BY <1>2, <2>1
  <2>3. /\ Left(cost, f) \in Int /\ Left(cost, g) \in Int
        /\ Left(cost, f) = cost[f.edge] + Walk(cost)[edges[f.edge].to] + Left(cost, g)
    BY <2>2, LeftLess
  <2> QED
    BY <1>4, <2>1, <2>3
<1>6. Left(cost, t[n + 1]) = w
  <2>1. PICK m \in Nodes : m = edges[e].to
    BY <1>3
  <2>2. Left(cost, Frame(m, p)) = Walk(cost)[m]
    BY LeftAtStart
  <2> QED
    BY <1>4, <2>1, <2>2
<1> DEFINE next == now + cost[e] + w
           d == [k \in 1 .. (n + 2) |-> IF k <= n THEN due[k]
                                        ELSE IF k = n + 1 THEN next ELSE now + cost[e]]
<1>7. d \in [1 .. (n + 2) -> Int]
  BY <1>2
<1>8. /\ \A k \in 1 .. n : d[k] = due[k]
      /\ d[n + 1] = next /\ d[n + 2] = now + cost[e]
  BY <1>1
<1> HIDE DEF d
<1>9. d[1] = 1 + Walk(cost)[Root]
  BY <1>1, <1>8
<1>10. ASSUME NEW k \in 1 .. (n + 1)
       PROVE  d[k] = d[k + 1] + Left(cost, t[k])
  <2>1. CASE k = n + 1
    <3>1. k + 1 = n + 2
      BY <2>1
    <3> QED
      BY <1>6, <1>8, <2>1, <3>1
  <2>2. CASE k = n
    <3>1. due[n] = now + Left(cost, st[n])
      BY <1>1
    <3>2. d[n] = due[n] /\ d[n + 1] = now + cost[e] + w
      BY <1>8
    <3>3. PICK x, y : x = Left(cost, st[n]) /\ y = Left(cost, t[n])
      OBVIOUS
    <3>4. x = cost[e] + w + y /\ y \in Int /\ d[n] = now + x
      BY <1>5, <3>1, <3>2, <3>3
    <3>5. d[n] = d[n + 1] + y
      BY <1>2, <3>2, <3>4
    <3> QED
      BY <2>2, <3>3, <3>5
  <2>3. CASE k \in 1 .. (n - 1)
    <3>1. k \in 1 .. n /\ k + 1 \in 1 .. n /\ t[k] = st[k]
      BY <2>3 DEF SameBelow
    <3>2. due[k] = due[k + 1] + Left(cost, st[k])
      BY <1>1, <3>1
    <3> QED
      BY <1>8, <3>1, <3>2
  <2> QED
    BY <2>1, <2>2, <2>3
<1>11. Len(t) + 1 = n + 2
  OBVIOUS
<1>12. /\ d \in [1 .. (Len(t) + 1) -> Int] /\ d[Len(t) + 1] = now + cost[e]
       /\ \A k \in 1 .. Len(t) : d[k] = d[k + 1] + Left(cost, t[k])
  BY <1>7, <1>8, <1>10, <1>11
<1> QED
  BY <1>9, <1>12 DEF OnCourse

\* a call that has nothing left returns
LEMMA CoursePopped ==
    ASSUME NEW cost, NEW now \in Int, NEW st, NEW n \in Nat \ {0}, n = Len(st),
           NEW t, Len(t) = n - 1, \A k \in 1 .. (n - 1) : t[k] = st[k],
           Left(cost, st[n]) = 0, OnCourse(cost, st, now)
    PROVE  OnCourse(cost, t, now)
<1>1. PICK due \in [1 .. (n + 1) -> Int] :
          /\ due[1] = 1 + Walk(cost)[Root]
          /\ due[n + 1] = now
          /\ \A k \in 1 .. n : due[k] = due[k + 1] + Left(cost, st[k])
  BY DEF OnCourse
<1> DEFINE d == [k \in 1 .. n |-> due[k]]
<1>2. d \in [1 .. n -> Int] /\ \A k \in 1 .. n : d[k] = due[k]
  BY <1>1
<1> HIDE DEF d
<1>3. due[n] = now
  BY <1>1
<1>4. d[1] = 1 + Walk(cost)[Root] /\ d[n] = now
  BY <1>1, <1>2, <1>3
<1>5. \A k \in 1 .. (n - 1) : d[k] = d[k + 1] + Left(cost, t[k])
  <2>1. \A k \in 1 .. (n - 1) : k \in 1 .. n /\ k + 1 \in 1 .. n
    OBVIOUS
  <2> QED
    BY <1>1, <1>2, <2>1
<1>6. Len(t) + 1 = n
  OBVIOUS
<1>7. /\ d \in [1 .. (Len(t) + 1) -> Int] /\ d[Len(t) + 1] = now
      /\ \A k \in 1 .. Len(t) : d[k] = d[k + 1] + Left(cost, t[k])
  BY <1>2, <1>4, <1>5, <1>6
<1> QED
  BY <1>4, <1>7 DEF OnCourse

-----------------------------------------------------------------------------
(* GenerateBatch. *)

LEMMA WalkStays ==
    ASSUME UNCHANGED edges
    PROVE  /\ Length' = Length /\ Size' = Size /\ Frames' = Frames
           /\ OnCourse(Length, stack', cursor') => OnCourse(Length, stack, cursor)'
           /\ OnCourse(Size, stack', Len(spans')) => OnCourse(Size, stack, Len(spans))'
           /\ Estimate(Root)' = Estimate(Root)
<1>1. Length' = Length /\ Size' = Size /\ Frames' = Frames
  BY DEF Length, Size, Frames
<1>2. \A cost : Walk(cost)' = Walk(cost)
  BY DEF Walk, Sums
<1>3. \A cost, n, below : Sums(n, cost, below)' = Sums(n, cost, below)
  BY DEF Sums
<1>4. \A cost, f : Left(cost, f)' = Left(cost, f)
  BY <1>2, <1>3 DEF Left
<1>5. OnCourse(Length, stack', cursor') => OnCourse(Length, stack, cursor)'
  BY <1>1, <1>2, <1>4 DEF OnCourse
<1>6. OnCourse(Size, stack', Len(spans')) => OnCourse(Size, stack, Len(spans))'
  BY <1>1, <1>2, <1>4 DEF OnCourse
<1>7. Estimate(Root)' = Estimate(Root)
  BY DEF Estimate, Walk, Sums, Length
<1> QED
  BY <1>1, <1>5, <1>7, <1>6

LEMMA EstimateIs ==
    ASSUME Graph, NoCycle
    PROVE  /\ Walk(Length)[Root] \in Nat /\ Estimate(Root) \in Nat \ {0}
           /\ Estimate(Root) = IF Walk(Length)[Root] = 0 THEN 1 ELSE Walk(Length)[Root]
<1>1. PICK w : w = Walk(Length)[Root]
  OBVIOUS
<1>2. w \in Nat
  BY <1>1, CostTypes, WalkIs, NodesCount
<1>3. Estimate(Root) = IF w <= 0 THEN 1 ELSE w
  BY <1>1 DEF Estimate
<1> QED
  BY <1>1, <1>2, <1>3

\* the emission has begun: the graph has no cycle, and all is typed
LEMMA EmitFacts ==
    ASSUME ValidationInv, EmitInv, phase = "emit"
    PROVE  /\ Graph /\ NoCycle /\ StackInv /\ SpansInv
           /\ OnCourse(Length, stack, cursor) /\ OnCourse(Size, stack, Len(spans))
           /\ stack \in Seq(Frames) /\ Len(stack) \in Nat \ {0}
           /\ DOMAIN stack = 1 .. Len(stack) /\ Call \in Frames
<1>1. stack \in Seq(Frames) /\ stack # <<>>
  BY DEF EmitInv, StackInv
<1>2. Len(stack) \in Nat \ {0} /\ DOMAIN stack = 1 .. Len(stack)
  BY <1>1
<1>3. Call \in Frames
  BY <1>1, <1>2 DEF Call
<1> QED
  BY <1>1, <1>2, <1>3
     DEF EmitInv, ValidationInv, ValidationTypes, AcceptsExactlyDAGs, NoCycle

LEMMA AcceptEmits ==
    ASSUME ValidationInv, Accept
    PROVE  EmitInv'
<1>1. /\ UNCHANGED edges /\ phase' = "emit" /\ cursor' = 1
      /\ spans' = <<Span(0, 0, "internal", 0, Estimate(Root))>> /\ stack' = <<Frame(Root, 1)>>
  BY DEF Accept, validation
<1>2. Graph /\ NoCycle
  BY AcceptValidation DEF ValidationInv, ValidationTypes
<1>3. StackInv'
  <2>1. Frame(Root, 1) \in Frames
    BY <1>2, FrameIs, NodesCount
  <2> QED
    BY <1>1, <2>1, WalkStays DEF StackInv
<1>4. Estimate(Root) \in Nat
  BY <1>2, EstimateIs
<1>5. SpansInv'
  <2>1. PICK s : s = Span(0, 0, "internal", 0, Estimate(Root))
    OBVIOUS
  <2>2. s \in Spans
    BY <1>4, <2>1 DEF Spans, Span, Kinds
  <2>3. spans' \in Seq(Spans) /\ Len(spans') = 1 /\ spans'[1] = s /\ spans' # <<>>
    BY <1>1, <2>1, <2>2
  <2>4. CallsDoNotOverlap'
    BY <2>3 DEF CallsDoNotOverlap
  <2>5. spans'[1] = Span(0, 0, "internal", 0, Estimate(Root))'
    BY <1>1, <2>1, <2>3, WalkStays DEF Span
  <2> QED
    BY <1>1, <2>3, <2>4, <2>5 DEF SpansInv, Spans, Kinds
<1>6. Len(spans') = 1
  BY <1>1
<1>7. OnCourse(Length, stack', cursor') /\ OnCourse(Size, stack', Len(spans'))
  BY <1>1, <1>2, <1>6, CostTypes, CourseStarts
<1> QED
  BY <1>1, <1>3, <1>5, <1>7, WalkStays DEF EmitInv

\* an edge's span, or its pair, is added at the cursor
Grows(p, e, k, d, size, L, first, second) ==
    /\ first = Span(p, e, k, cursor, d) /\ second = Span(L + 1, e, "server", cursor, d)
    /\ spans' = spans \o (IF size = 2 THEN <<first, second>> ELSE <<first>>)
    /\ cursor' = cursor + d + 1 /\ UNCHANGED edges

LEMMA SpansGrow ==
    ASSUME SpansInv, NEW p \in Nat, NEW d \in Nat \ {0}, NEW size \in {1, 2},
           NEW L \in Nat, L = Len(spans), NEW e \in Nat, NEW k \in Kinds, NEW first, NEW second,
           Grows(p, e, k, d, size, L, first, second)
    PROVE  SpansInv' /\ Len(spans') = L + size
<1> USE DEF Grows
<1>1. /\ spans \in Seq(Spans) /\ L \in Nat \ {0} /\ cursor \in Nat \ {0}
      /\ cursor + d \in Nat /\ cursor' \in Nat \ {0}
  BY DEF SpansInv
<1>2. /\ first = [parent |-> p, edge |-> e, kind |-> k, start |-> cursor, end |-> cursor + d]
      /\ second = [parent |-> L + 1, edge |-> e, kind |-> "server", start |-> cursor,
                   end |-> cursor + d]
  BY DEF Span
<1>3. first \in Spans /\ second \in Spans
  <2>1. L + 1 \in Nat /\ cursor \in Nat /\ cursor + d \in Nat /\ "server" \in Kinds
    BY <1>1 DEF Kinds
  <2>2. first \in Spans
    BY ONLY <1>2, <2>1, p \in Nat, e \in Nat, k \in Kinds DEF Spans
  <2>3. second \in Spans
    BY ONLY <1>2, <2>1, e \in Nat DEF Spans
  <2> QED
    BY <2>2, <2>3
<1> DEFINE new == IF size = 2 THEN <<first, second>> ELSE <<first>>
<1>4. /\ new \in Seq(Spans) /\ Len(new) = size /\ new[1] = first
      /\ size = 2 => new[2] = second
  BY <1>3
<1> HIDE DEF new
<1>5. spans' = spans \o new
  BY DEF new
<1>6. /\ spans' \in Seq(Spans) /\ Len(spans') = L + size
      /\ \A i \in 1 .. L : spans'[i] = spans[i]
      /\ \A i \in (L + 1) .. (L + size) : spans'[i] = new[i - L]
  <2>1. PICK t : t = spans'
    OBVIOUS
  <2>3. t = spans \o new
    BY <1>5, <2>1
  <2>4. t \in Seq(Spans)
    BY <1>1, <1>4, <2>3, ConcatProperties
  <2>5. Len(t) = L + size
    BY <1>1, <1>4, <2>3, ConcatProperties
  <2>6. \A i \in 1 .. L : t[i] = spans[i]
    BY <1>1, <1>4, <2>3
  <2>7. \A i \in (L + 1) .. (L + size) : t[i] = new[i - L]
    BY <1>1, <1>4, <2>3
  <2> QED
    BY <2>1, <2>4, <2>5, <2>6, <2>7
<1>7. /\ spans'[L + 1] = first
      /\ size = 2 => spans'[L + 2] = second
  <2>1. L + 1 \in (L + 1) .. (L + size) /\ (L + 1) - L = 1
    BY <1>1
  <2>2. size = 2 => L + 2 \in (L + 1) .. (L + size) /\ (L + 2) - L = 2
    BY <1>1
  <2> QED
    BY <1>4, <1>6, <2>1, <2>2
<1>8. \A i \in 1 .. (L + size) : i \in 1 .. L \/ i = L + 1 \/ (i = L + 2 /\ size = 2)
  BY <1>1
<1>9. \A i \in 2 .. L : /\ spans'[i] = spans[i] /\ spans[i] \in Spans
                        /\ 1 <= spans[i].start /\ spans[i].start < spans[i].end
                        /\ spans[i].end < cursor
  BY <1>1, <1>6 DEF SpansInv
<1>10. \A i \in {L + 1, L + size} :
           /\ spans'[i].start = cursor /\ spans'[i].end = cursor + d
           /\ spans'[i].parent = IF i = L + 1 THEN p ELSE L + 1
  BY <1>1, <1>2, <1>7
<1>11. \A i \in 2 .. Len(spans') :
           /\ 1 <= spans'[i].start /\ spans'[i].start < spans'[i].end
           /\ spans'[i].end < cursor'
  <2>1. ASSUME NEW i \in 2 .. (L + size)
        PROVE  /\ 1 <= spans'[i].start /\ spans'[i].start < spans'[i].end
               /\ spans'[i].end < cursor'
    <3>1. i \in 2 .. L \/ i \in {L + 1, L + size}
      BY <1>1, <1>8
    <3>2. CASE i \in 2 .. L
      <4>1. spans[i].end \in Nat
        BY <1>9, <3>2 DEF Spans
      <4> QED
        BY <1>1, <1>9, <3>2, <4>1
    <3>3. CASE i \in {L + 1, L + size}
      BY <1>1, <1>10, <3>3
    <3> QED
      BY <3>1, <3>2, <3>3
  <2> QED
    BY <1>6, <2>1
<1>12. spans'[Len(spans')].end = cursor' - 1
  BY <1>1, <1>6, <1>10
<1>13. CallsDoNotOverlap'
  <2> SUFFICES ASSUME NEW i \in 2 .. Len(spans'), NEW j \in 2 .. Len(spans'), i < j
               PROVE  \/ spans'[i].end < spans'[j].start
                      \/ spans'[j].parent = i /\ spans'[j].start = spans'[i].start
                                              /\ spans'[j].end = spans'[i].end
    BY DEF CallsDoNotOverlap
  <2>1. i \in 2 .. (L + size) /\ j \in 2 .. (L + size) /\ i < j
    BY <1>6
  <2>2. CASE j \in 2 .. L
    <3>1. i \in 2 .. L
      BY <2>1, <2>2
    <3> QED
      BY <1>1, <1>9, <2>1, <2>2, <3>1 DEF SpansInv, CallsDoNotOverlap
  <2>3. CASE j \in {L + 1, L + size} /\ i \in 2 .. L
    BY <1>9, <1>10, <2>3
  <2>4. CASE j = L + size /\ i = L + 1 /\ j # i
    BY <1>1, <1>10, <2>4
  <2>5. j \in 2 .. L \/ j \in {L + 1, L + size}
    <3>1. j \in 1 .. (L + size) /\ j \in Nat /\ 2 <= j
      BY <1>1, <2>1
    <3> QED
      BY <1>1, <1>8, <3>1
  <2>6. j \in {L + 1, L + size} => i \in 2 .. L \/ (j = L + size /\ i = L + 1 /\ j # i)
    BY <1>1, <1>8, <2>1
  <2> QED
    BY <2>2, <2>3, <2>4, <2>5, <2>6
<1>14. spans'[1] = Span(0, 0, "internal", 0, Estimate(Root))'
  <2>1. spans'[1] = spans[1]
    BY <1>1, <1>6
  <2> QED
    BY <2>1, WalkStays DEF SpansInv, Span
<1>15. spans' # <<>>
  BY <1>1, <1>6
<1>16. SpansInv'
  BY <1>1, <1>6, <1>11, <1>12, <1>13, <1>14, <1>15 DEF SpansInv, Spans, Kinds
<1> QED
  BY <1>6, <1>16

LEMMA EmitEdgeEmits ==
    ASSUME ValidationInv, EmitInv, EmitEdge
    PROVE  EmitInv'
<1>1. PICK n, f, e, L : n = Len(stack) /\ f = Call /\ e = Call.edge /\ L = Len(spans)
  OBVIOUS
<1>2. /\ phase = "emit" /\ phase' = "emit" /\ UNCHANGED edges
      /\ e <= Len(edges) /\ f.done < edges[e].repeat
  BY <1>1 DEF EmitEdge, HasEdge, CallEdge
<1>3. /\ Graph /\ NoCycle /\ SpansInv
      /\ OnCourse(Length, stack, cursor) /\ OnCourse(Size, stack, Len(spans))
      /\ stack \in Seq(Frames) /\ n \in Nat \ {0} /\ DOMAIN stack = 1 .. n
      /\ f \in Frames /\ f = stack[n]
  BY <1>1, <1>2, EmitFacts DEF Call
<1>4. /\ f \in [node : Nodes, parent : Nat, edge : 1 .. (Len(edges) + 1), done : Nat]
      /\ f.edge = e /\ edges[e].from = f.node /\ f.done + 1 <= edges[e].repeat
      /\ e \in 1 .. Len(edges) /\ e \in DOMAIN edges
  <2>1. f.edge = e /\ f \in Frames
    BY <1>1, <1>3
  <2>2. /\ f \in [node : Nodes, parent : Nat, edge : 1 .. (Len(edges) + 1), done : Nat]
        /\ edges[e].from = f.node
    BY <1>2, <2>1 DEF Frames
  <2>3. e \in 1 .. Len(edges) /\ e \in DOMAIN edges
    BY <1>2, <1>3, <2>1, <2>2 DEF Graph
  <2>4. f.done + 1 <= edges[e].repeat
    BY <1>2, <1>3, <2>2, <2>3, EdgesType
  <2> QED
    BY <2>1, <2>2, <2>3, <2>4
<1>5. /\ edges[e].to \in Nodes /\ edges[e].duration \in Nat \ {0} /\ edges[e].size \in {1, 2}
  BY <1>3, <1>4, EdgesType
<1>6. PICK d, size, to : d = edges[e].duration /\ size = edges[e].size /\ to = edges[e].to
  OBVIOUS
<1>7. L \in Nat
  BY <1>1, <1>3 DEF SpansInv
<1>8. /\ cursor' = cursor + d + 1
      /\ stack' = Append([stack EXCEPT ![n].done = @ + 1], Frame(to, L + size))
  BY <1>1, <1>6 DEF EmitEdge, CallEdge, Target
<1>9. SpansInv' /\ Len(spans') = L + size
  <2>1. PICK p, k, first, second :
           /\ p = f.parent /\ k = (IF size = 2 THEN "client" ELSE "internal")
           /\ first = Span(p, e, k, cursor, d)
           /\ second = Span(L + 1, e, "server", cursor, d)
    OBVIOUS
  <2>2. p \in Nat /\ e \in Nat /\ k \in Kinds /\ d \in Nat \ {0} /\ size \in {1, 2}
    BY <1>4, <1>5, <1>6, <2>1 DEF Kinds
  <2>3. spans' = spans \o (IF size = 2 THEN <<first, second>> ELSE <<first>>)
    <3>1. spans' = spans \o EdgeSpans
      BY DEF EmitEdge
    <3>2. EdgeSpans = IF size = 2 THEN <<first, second>> ELSE <<first>>
      BY <1>1, <1>6, <2>1, <2>2 DEF EdgeSpans, CallEdge
    <3> QED
      BY <3>1, <3>2
  <2>4. SpansInv /\ L = Len(spans) /\ cursor' = cursor + d + 1 /\ UNCHANGED edges
    BY <1>1, <1>2, <1>3, <1>8
  <2>5. /\ p \in Nat /\ e \in Nat /\ k \in Kinds /\ d \in Nat \ {0} /\ size \in {1, 2}
        /\ Grows(p, e, k, d, size, L, first, second)
    BY ONLY <1>7, <2>1, <2>2, <2>3, <2>4 DEF Grows
  <2> QED
    BY ONLY <1>7, <2>4, <2>5, SpansGrow
<1>10. PICK g, h : g = [f EXCEPT !.done = @ + 1] /\ h = Frame(to, Len(spans'))
  OBVIOUS
<1>11. /\ g \in Frames /\ h \in Frames
       /\ g.node = f.node /\ g.edge = e /\ g.done = f.done + 1
  <2>1. h \in Frames
    BY <1>3, <1>5, <1>6, <1>7, <1>9, <1>10, FrameIs
  <2>2. /\ g \in [node : Nodes, parent : Nat, edge : 1 .. (Len(edges) + 1), done : Nat]
        /\ g.node = f.node /\ g.edge = e /\ g.done = f.done + 1
    BY <1>4, <1>10
  <2> QED
    BY <1>4, <2>1, <2>2 DEF Frames
<1>12. PICK moved : moved = [stack EXCEPT ![n].done = @ + 1]
  OBVIOUS
<1>13. /\ moved \in Seq(Frames) /\ Len(moved) = n /\ moved[n] = g
       /\ \A k \in 1 .. (n - 1) : moved[k] = stack[k]
  <2>1. moved = [stack EXCEPT ![n] = g]
    BY <1>3, <1>10, <1>12
  <2>2. n \in 1 .. Len(stack)
    BY <1>1, <1>3
  <2> QED
    BY <1>1, <1>3, <1>11, <2>1, <2>2
<1>14. /\ stack' \in Seq(Frames) /\ Len(stack') = n + 1 /\ stack'[n] = g
       /\ stack'[n + 1] = h /\ stack' # <<>>
       /\ \A k \in 1 .. (n - 1) : stack'[k] = stack[k]
  <2>1. stack' = Append(moved, h)
    BY <1>8, <1>9, <1>10, <1>12
  <2> QED
    BY <1>3, <1>11, <1>13, <2>1
<1>15. ASSUME NEW cost \in [DOMAIN edges -> Nat], NEW now \in Int, OnCourse(cost, stack, now)
       PROVE  OnCourse(cost, stack', now + cost[e])
  <2>1. PICK t, p : t \in Seq(Frames) /\ t = stack' /\ p = Len(spans')
    BY <1>14
  <2>2. /\ Len(t) = n + 1 /\ t[n] = g /\ t[n + 1] = Frame(edges[e].to, p)
        /\ \A k \in 1 .. (n - 1) : t[k] = stack[k]
    BY <1>6, <1>10, <1>14, <2>1
  <2>3. /\ stack[n].edge = e /\ g.node = stack[n].node /\ g.edge = e
        /\ g.done = stack[n].done + 1
    BY <1>3, <1>4, <1>11
  <2>4. PICK st \in Seq(Frames) : st = stack
    BY <1>3
  <2>5. /\ n = Len(st) /\ st[n].edge = e /\ g.node = st[n].node /\ g.edge = e
        /\ g.done = st[n].done + 1 /\ SameBelow(n, st, t) /\ OnCourse(cost, st, now)
    BY <1>1, <1>15, <2>2, <2>3, <2>4 DEF SameBelow
  <2>6. Graph /\ NoCycle /\ n \in Nat \ {0} /\ g \in Frames /\ e \in 1 .. Len(edges)
    BY <1>3, <1>4, <1>11
  <2>7. OnCourse(cost, t, now + cost[e])
    <3>1. cost \in [DOMAIN edges -> Nat] /\ now \in Int /\ t \in Seq(Frames)
      BY <1>15, <2>1
    <3> QED
      BY ONLY <2>2, <2>4, <2>5, <2>6, <3>1, CoursePushed
  <2> QED
    BY <2>1, <2>7
<1>16. OnCourse(Length, stack', cursor')
  <2>1. Length[e] = d + 1 /\ cursor \in Nat
    BY <1>3, <1>4, <1>6 DEF Length, SpansInv
  <2>2. cursor' = cursor + Length[e]
    BY <1>5, <1>6, <1>8, <2>1
  <2> QED
    BY <1>3, <1>15, <2>1, <2>2, CostTypes
<1>17. OnCourse(Size, stack', Len(spans'))
  <2>1. Size[e] = size
    BY <1>4, <1>6 DEF Size
  <2> QED
    <3>1. L \in Int /\ OnCourse(Size, stack, L)
      BY <1>1, <1>3, <1>7
    <3>2. OnCourse(Size, stack', L + Size[e])
      BY <1>3, <1>15, <3>1, CostTypes
    <3> QED
      BY <1>9, <2>1, <3>2
<1>18. StackInv'
  BY <1>2, <1>14, WalkStays DEF StackInv
<1> QED
  BY <1>2, <1>9, <1>16, <1>17, <1>18, WalkStays DEF EmitInv

LEMMA NextEdgeEmits ==
    ASSUME ValidationInv, EmitInv, NextEdge
    PROVE  EmitInv'
<1>1. PICK n, f, o : n = Len(stack) /\ f = Call /\ o = Outgoing(f.node, f.edge)
  OBVIOUS
<1>2. /\ phase = "emit" /\ phase' = "emit" /\ UNCHANGED <<edges, spans, cursor>>
      /\ f.edge <= Len(edges) /\ f.done >= edges[f.edge].repeat
      /\ stack' = [stack EXCEPT ![n].edge = o, ![n].done = 0]
  BY <1>1 DEF NextEdge, HasEdge, CallEdge, Call
<1>3. /\ Graph /\ NoCycle /\ SpansInv
      /\ OnCourse(Length, stack, cursor) /\ OnCourse(Size, stack, Len(spans))
      /\ stack \in Seq(Frames) /\ n \in Nat \ {0} /\ DOMAIN stack = 1 .. n
      /\ f \in Frames /\ f = stack[n]
  BY <1>1, <1>2, EmitFacts DEF Call
<1>4. f \in [node : Nodes, parent : Nat, edge : 1 .. (Len(edges) + 1), done : Nat]
  BY <1>3 DEF Frames
<1>5. /\ o \in 1 .. (Len(edges) + 1)
      /\ o <= Len(edges) => edges[o].from = f.node /\ 0 <= edges[o].repeat
  <2>1. o \in 1 .. (Len(edges) + 1) /\ (o <= Len(edges) => edges[o].from = f.node)
    BY <1>1, <1>3, <1>4, OutgoingIs
  <2>2. o <= Len(edges) => o \in DOMAIN edges
    BY <1>3, <2>1 DEF Graph
  <2> QED
    BY <1>3, <2>1, <2>2, EdgesType
<1>6. PICK g : g = [node |-> f.node, parent |-> f.parent, edge |-> o, done |-> 0]
  OBVIOUS
<1>7. g \in Frames /\ g.node = f.node /\ g.edge = o /\ g.done = 0
  BY <1>4, <1>5, <1>6 DEF Frames
<1>8. stack' = [stack EXCEPT ![n] = g]
  <2>1. PICK m : m = [stack EXCEPT ![n].edge = o]
    OBVIOUS
  <2>2. PICK h : h = [f EXCEPT !.edge = o]
    OBVIOUS
  <2>3. m = [stack EXCEPT ![n] = h]
    BY <1>3, <2>1, <2>2
  <2>4. m[n] = h
    BY <1>3, <2>3
  <2>5. stack' = [m EXCEPT ![n].done = 0]
    BY <1>2, <2>1
  <2>6. stack' = [m EXCEPT ![n] = [h EXCEPT !.done = 0]]
    BY <2>4, <2>5
  <2>7. g = [h EXCEPT !.done = 0]
    <3>1. h = [node |-> f.node, parent |-> f.parent, edge |-> o, done |-> f.done]
      BY <1>4, <2>2
    <3> QED
      BY <1>6, <3>1
  <2> QED
    BY <1>3, <2>3, <2>6, <2>7
<1>9. /\ stack' \in Seq(Frames) /\ Len(stack') = n /\ stack' # <<>>
      /\ stack'[n] = g /\ \A k \in 1 .. n : k # n => stack'[k] = stack[k]
  <2>1. n \in 1 .. Len(stack)
    BY <1>1, <1>3
  <2> QED
    BY <1>1, <1>3, <1>7, <1>8, <2>1
<1>10. ASSUME NEW cost \in [DOMAIN edges -> Nat], NEW now, OnCourse(cost, stack, now)
       PROVE  OnCourse(cost, stack', now)
  <2>1. Left(cost, f) = Left(cost, g)
    BY <1>1, <1>2, <1>3, <1>7, LeftNext
  <2>2. PICK t : t = stack'
    OBVIOUS
  <2>3. \A k \in 1 .. n : Left(cost, t[k]) = Left(cost, stack[k])
    BY <1>3, <1>9, <2>1, <2>2
  <2>4. Len(t) = n
    BY <1>9, <2>2
  <2>5. OnCourse(cost, t, now)
    BY <1>1, <1>3, <1>10, <2>3, <2>4, CourseReplaced
  <2> QED
    BY <2>2, <2>5
<1>11. OnCourse(Length, stack', cursor') /\ OnCourse(Size, stack', Len(spans'))
  BY <1>2, <1>3, <1>10, CostTypes
<1>12. SpansInv'
  BY <1>2, <1>3, WalkStays DEF SpansInv, CallsDoNotOverlap, Spans, Span, Kinds
<1>13. StackInv'
  BY <1>2, <1>9, WalkStays DEF StackInv
<1> QED
  BY <1>2, <1>11, <1>12, <1>13, WalkStays DEF EmitInv

LEMMA ReturnEmits ==
    ASSUME ValidationInv, EmitInv, Return
    PROVE  EmitInv'
<1>1. PICK n, f : n = Len(stack) /\ f = Call
  OBVIOUS
<1>2. /\ phase = "emit" /\ UNCHANGED <<edges, spans, cursor>> /\ stack # <<>>
      /\ f.edge > Len(edges) \/ ~(f.edge <= Len(edges))
      /\ stack' = SubSeq(stack, 1, n - 1)
      /\ phase' = IF n = 1 THEN "done" ELSE "emit"
  BY <1>1 DEF Return, HasEdge
<1>3. /\ Graph /\ NoCycle /\ SpansInv
      /\ OnCourse(Length, stack, cursor) /\ OnCourse(Size, stack, Len(spans))
      /\ stack \in Seq(Frames) /\ n \in Nat \ {0} /\ DOMAIN stack = 1 .. n
      /\ f \in Frames /\ f = stack[n]
  BY <1>1, <1>2, EmitFacts DEF Call
<1>4. f.edge > Len(edges)
  BY <1>2, <1>3 DEF Frames, Graph
<1>5. /\ stack' \in Seq(Frames) /\ Len(stack') = n - 1
      /\ \A k \in 1 .. (n - 1) : stack'[k] = stack[k]
  BY <1>1, <1>2, <1>3
<1>6. stack' = <<>> <=> n = 1
  BY <1>3, <1>5
<1>7. ASSUME NEW cost \in [DOMAIN edges -> Nat], NEW now \in Int, OnCourse(cost, stack, now)
      PROVE  OnCourse(cost, stack', now)
  <2>1. Left(cost, f) = 0
    BY <1>4 DEF Left
  <2>2. PICK t : t = stack'
    OBVIOUS
  <2>3. Len(t) = n - 1 /\ \A k \in 1 .. (n - 1) : t[k] = stack[k]
    BY <1>5, <2>2
  <2>4. OnCourse(cost, t, now)
    BY <1>1, <1>3, <1>7, <2>1, <2>3, CoursePopped
  <2> QED
    BY <2>2, <2>4
<1>8. cursor \in Int /\ Len(spans) \in Int
  BY <1>3 DEF SpansInv
<1>9. OnCourse(Length, stack', cursor') /\ OnCourse(Size, stack', Len(spans'))
  BY <1>2, <1>3, <1>7, <1>8, CostTypes
<1>10. SpansInv'
  BY <1>2, <1>3, WalkStays DEF SpansInv, CallsDoNotOverlap, Spans, Span, Kinds
<1>11. StackInv'
  BY <1>2, <1>5, <1>6, WalkStays DEF StackInv
<1> QED
  BY <1>2, <1>9, <1>10, <1>11, WalkStays DEF EmitInv

LEMMA StutterEmits ==
    ASSUME EmitInv, UNCHANGED vars
    PROVE  EmitInv'
<1>1. UNCHANGED <<edges, phase, spans, cursor, stack>>
  BY DEF vars
<1>2. CASE phase \in {"emit", "done"}
  <2>1. /\ StackInv /\ SpansInv
        /\ OnCourse(Length, stack, cursor) /\ OnCourse(Size, stack, Len(spans))
    BY <1>2 DEF EmitInv
  <2>2. OnCourse(Length, stack', cursor') /\ OnCourse(Size, stack', Len(spans'))
    BY <1>1, <2>1
  <2>3. SpansInv'
    BY <1>1, <2>1, WalkStays DEF SpansInv, CallsDoNotOverlap, Spans, Span, Kinds
  <2>4. StackInv'
    BY <1>1, <2>1, WalkStays DEF StackInv
  <2> QED
    BY <1>1, <1>2, <2>2, <2>3, <2>4, WalkStays DEF EmitInv
<1>3. CASE phase \notin {"emit", "done"}
  BY <1>1, <1>3 DEF EmitInv
<1> QED
  BY <1>2, <1>3

\* Both invariants hold in every state, for every graph.
THEOREM EmitInvariance == Spec => [](ValidationInv /\ EmitInv)
<1>1. Init => EmitInv
  BY DEF Init, EmitInv
<1>2. ValidationInv /\ EmitInv /\ [Next]_vars => EmitInv'
  <2> SUFFICES ASSUME ValidationInv, EmitInv, [Next]_vars
               PROVE  EmitInv'
    OBVIOUS
  <2>1. CASE QueueSources \/ Visit \/ TakeChild \/ Reject
    <3>1. /\ phase \notin {"emit", "done"} /\ phase' \notin {"emit", "done"}
          /\ UNCHANGED spans
      BY <2>1 DEF QueueSources, Visit, TakeChild, Reject, NodeDone, emission
    <3> QED
      BY <3>1 DEF EmitInv
  <2>2. CASE Accept
    BY <2>2, AcceptEmits
  <2>3. CASE EmitEdge
    BY <2>3, EmitEdgeEmits
  <2>4. CASE NextEdge
    BY <2>4, NextEdgeEmits
  <2>5. CASE Return
    BY <2>5, ReturnEmits
  <2>6. CASE UNCHANGED vars
    BY <2>6, StutterEmits
  <2> QED
    BY <2>1, <2>2, <2>3, <2>4, <2>5, <2>6 DEF Next, Ended
<1> QED
  BY ValidationInvariance, <1>1, <1>2, PTL DEF Spec

\* when no call is under way any more, all there was to add has been added
LEMMA CourseEnds ==
    ASSUME NEW cost, NEW now, OnCourse(cost, <<>>, now)
    PROVE  now = 1 + Walk(cost)[Root]
<1>1. Len(<<>>) + 1 = 1
  OBVIOUS
<1> QED
  BY <1>1 DEF OnCourse

LEMMA DoneFacts ==
    ASSUME ValidationInv, EmitInv, phase = "done"
    PROVE  /\ Graph /\ NoCycle /\ SpansInv
           /\ cursor = 1 + Walk(Length)[Root] /\ Len(spans) = 1 + Walk(Size)[Root]
<1>1. /\ StackInv /\ SpansInv
      /\ OnCourse(Length, stack, cursor) /\ OnCourse(Size, stack, Len(spans))
  BY DEF EmitInv
<1>2. stack = <<>>
  BY <1>1 DEF StackInv
<1>3. cursor = 1 + Walk(Length)[Root] /\ Len(spans) = 1 + Walk(Size)[Root]
  BY <1>1, <1>2, CourseEnds
<1> QED
  BY <1>1, <1>3 DEF ValidationInv, ValidationTypes, AcceptsExactlyDAGs, NoCycle

\* The root span starts before all others and ends with the last, though emitFromNode
\* and estimateDuration walk the graph separately.
THEOREM RootSpan == Spec => []RootCoversTrace
<1>1. ValidationInv /\ EmitInv => RootCoversTrace
  <2> SUFFICES ASSUME ValidationInv, EmitInv, phase = "done", Len(spans) > 1
               PROVE  /\ \A i \in 2 .. Len(spans) : spans[1].start < spans[i].start
                                                    /\ spans[i].end <= spans[1].end
                      /\ \E i \in 2 .. Len(spans) : spans[i].end = spans[1].end
    BY DEF RootCoversTrace
  <2>1. Graph /\ NoCycle /\ SpansInv /\ cursor = 1 + Walk(Length)[Root]
    BY DoneFacts
  <2>2. PICK L \in Nat : L = Len(spans) /\ L > 1 /\ spans \in Seq(Spans)
    BY <2>1 DEF SpansInv
  <2>3. PICK w : w = Walk(Length)[Root]
    OBVIOUS
  <2>4. w \in Nat /\ Estimate(Root) = (IF w = 0 THEN 1 ELSE w) /\ cursor = 1 + w
    BY <2>1, <2>3, EstimateIs
  <2>5. /\ \A i \in 2 .. L : /\ spans[i] \in Spans /\ 1 <= spans[i].start
                             /\ spans[i].start < spans[i].end /\ spans[i].end < cursor
        /\ spans[L].end = cursor - 1
        /\ spans[1] = Span(0, 0, "internal", 0, Estimate(Root))
    BY <2>1, <2>2 DEF SpansInv
  <2>6. L \in 2 .. L
    BY <2>2
  <2>7. w # 0
    BY <2>4, <2>5, <2>6 DEF Spans
  <2>8. spans[1].start = 0 /\ spans[1].end = w
    BY <2>4, <2>5, <2>7 DEF Span
  <2>9. spans[L].end = spans[1].end
    BY <2>4, <2>5, <2>8
  <2>10. ASSUME NEW i \in 2 .. L
         PROVE  spans[1].start < spans[i].start /\ spans[i].end <= spans[1].end
    <3>1. spans[i].start \in Nat /\ spans[i].end \in Nat
      BY <2>5 DEF Spans
    <3> QED
      BY <2>4, <2>5, <2>8, <3>1
  <2> QED
    BY <2>2, <2>6, <2>9, <2>10
<1> QED
  BY EmitInvariance, <1>1, PTL

-----------------------------------------------------------------------------
(* The tree of spans is the graph unfolded. *)

\* Made, of any sequence of spans
MadeIn(sp, i, e) == {j \in DOMAIN sp : sp[j].parent = i /\ sp[j].edge = e}

HasMade(sp, i, e, n) == Cardinality(MadeIn(sp, i, e)) = n

\* how many spans of edge e the call f has made so far
SoFar(f, e) ==
    IF edges[e].from # f.node \/ e > f.edge THEN 0
    ELSE IF e = f.edge THEN f.done ELSE edges[e].repeat

\* the call f adds to the span of its node
Adds(sp, f) ==
    /\ f.parent \in DOMAIN sp
    /\ sp[f.parent].kind # "client" /\ NodeOf(sp[f.parent]) = f.node
    /\ \A e \in DOMAIN edges : HasMade(sp, f.parent, e, SoFar(f, e))

Unfolded(sp, i) == \A e \in DOMAIN edges : HasMade(sp, i, e, Wanted(sp[i], e))

\* every span but the root hangs below an earlier one
Hung(sp) ==
    /\ sp[1].parent = 0 /\ sp[1].edge = 0 /\ sp[1].kind = "internal"
    /\ \A j \in 2 .. Len(sp) :
          /\ sp[j].parent \in 1 .. (j - 1) /\ sp[j].edge \in DOMAIN edges
          /\ sp[j].kind = KindUnder(sp[sp[j].parent], sp[j].edge)

\* Every call under way adds to a span of its own, and below all other spans everything is
\* there.
Tree(sp, st) ==
    /\ Hung(sp)
    /\ \A k \in DOMAIN st : Adds(sp, st[k])
    /\ \A k, m \in DOMAIN st : k # m => st[k].parent # st[m].parent
    /\ \A i \in DOMAIN sp : (\A k \in DOMAIN st : st[k].parent # i) => Unfolded(sp, i)

TreeInv == phase \in {"emit", "done"} => Tree(spans, stack)

LEMMA TreeStays ==
    ASSUME UNCHANGED edges, NEW sp, NEW st
    PROVE  Tree(sp, st) => Tree(sp, st)'
BY DEF Tree, Hung, Adds, Unfolded, SoFar, Wanted, NodeOf, KindUnder, HasMade, MadeIn

\* nothing hangs below a span that is not there yet
LEMMA NothingBelow ==
    ASSUME NEW sp \in Seq(Spans), Hung(sp), NEW i \in Nat, i > Len(sp), NEW e
    PROVE  MadeIn(sp, i, e) = {}
<1>1. PICK L \in Nat : L = Len(sp) /\ DOMAIN sp = 1 .. L
  OBVIOUS
<1>2. ASSUME NEW j \in 1 .. L
      PROVE  sp[j].parent # i
  <2>1. CASE j = 1
    BY <1>1, <2>1 DEF Hung
  <2>2. CASE j # 1
    <3>1. j \in 2 .. L
      BY <1>2, <2>2
    <3>2. sp[j].parent \in 1 .. (j - 1)
      BY <1>1, <3>1 DEF Hung
    <3> QED
      BY <1>1, <3>1, <3>2
  <2> QED
    BY <2>1, <2>2
<1> QED
  BY <1>1, <1>2 DEF MadeIn

LEMMA MadeIsFinite ==
    ASSUME NEW sp \in Seq(Spans), NEW i, NEW e
    PROVE  /\ IsFiniteSet(MadeIn(sp, i, e)) /\ Cardinality(MadeIn(sp, i, e)) \in Nat
           /\ MadeIn(sp, i, e) \subseteq 1 .. Len(sp)
<1>1. PICK L \in Nat : L = Len(sp) /\ DOMAIN sp = 1 .. L
  OBVIOUS
<1>2. MadeIn(sp, i, e) \subseteq 1 .. L
  BY <1>1 DEF MadeIn
<1>3. IsFiniteSet(1 .. L)
  BY FS_Interval
<1> QED
  BY <1>1, <1>2, <1>3, FS_Subset, FS_CardinalityType

\* The batch begins with the root span, and the call of the root node has made nothing.
LEMMA TreeStarts ==
    ASSUME Graph, NEW d \in Nat
    PROVE  Tree(<<Span(0, 0, "internal", 0, d)>>, <<Frame(Root, 1)>>)
<1>1. PICK s, f : s = Span(0, 0, "internal", 0, d) /\ f = Frame(Root, 1)
  OBVIOUS
<1>2. /\ s = [parent |-> 0, edge |-> 0, kind |-> "internal", start |-> 0, end |-> d]
      /\ f = [node |-> Root, parent |-> 1, edge |-> Outgoing(Root, 0), done |-> 0]
  <2>1. 0 + d = d
    OBVIOUS
  <2> QED
    BY <1>1, <2>1 DEF Span, Frame
<1>3. PICK sp, st : sp = <<s>> /\ st = <<f>>
  OBVIOUS
<1>4. /\ DOMAIN sp = {1} /\ Len(sp) = 1 /\ sp[1] = s
      /\ DOMAIN st = {1} /\ st[1] = f
  BY <1>3
<1>5. Hung(sp)
  BY <1>2, <1>4 DEF Hung
<1>6. \A e : MadeIn(sp, 1, e) = {}
  BY <1>2, <1>4 DEF MadeIn
<1>7. \A e \in DOMAIN edges : SoFar(f, e) = 0
  <2> SUFFICES ASSUME NEW e \in DOMAIN edges, edges[e].from = Root, ~(e > f.edge)
               PROVE  e = f.edge
    BY <1>2 DEF SoFar
  <2>1. PICK N \in Nat : N = Len(edges) /\ DOMAIN edges = 1 .. N
    BY DEF Graph
  <2>2. f.edge \in 1 .. (N + 1) /\ f.edge <= e
    BY <1>2, <2>1, OutgoingIs
  <2> QED
    BY <2>1, <2>2
<1>8. Adds(sp, f)
  <2>1. NodeOf(s) = Root
    BY <1>2 DEF NodeOf
  <2>2. \A e \in DOMAIN edges : HasMade(sp, 1, e, SoFar(f, e))
    BY <1>6, <1>7, FS_EmptySet DEF HasMade
  <2> QED
    BY <1>2, <1>4, <2>1, <2>2 DEF Adds
<1>9. Tree(sp, st)
  BY <1>2, <1>4, <1>5, <1>8 DEF Tree
<1> QED
  BY <1>1, <1>3, <1>9

\* new is sp with the span that edge e makes below span p, or with the two
Extends(new, sp, L, p, e, size) ==
    /\ L = Len(sp) /\ Len(new) = L + size /\ \A i \in 1 .. L : new[i] = sp[i]
    /\ new[L + 1].parent = p /\ new[L + 1].edge = e
    /\ new[L + 1].kind = (IF size = 1 THEN "internal" ELSE "client")
    /\ size = 2 => /\ new[L + 2].parent = L + 1 /\ new[L + 2].edge = e
                   /\ new[L + 2].kind = "server"

\* then e has made one span more below p, one below its client, and none anywhere else
Grown(new, sp, L, p, e, size) ==
    /\ \A i \in Nat : \A d : (d # e \/ (i # p /\ (size = 2 => i # L + 1))) =>
          MadeIn(new, i, d) = MadeIn(sp, i, d)
    /\ \A n \in Nat : HasMade(sp, p, e, n) => HasMade(new, p, e, n + 1)
    /\ size = 2 => HasMade(new, L + 1, e, 1)

LEMMA MadeGrows ==
    ASSUME NEW sp \in Seq(Spans), Hung(sp), NEW new \in Seq(Spans), NEW L \in Nat,
           NEW size \in {1, 2}, NEW p \in 1 .. L, NEW e, Extends(new, sp, L, p, e, size)
    PROVE  Grown(new, sp, L, p, e, size)
<1>0. /\ L = Len(sp) /\ Len(new) = L + size /\ \A i \in 1 .. L : new[i] = sp[i]
      /\ new[L + 1].parent = p /\ new[L + 1].edge = e
      /\ size = 2 => new[L + 2].parent = L + 1 /\ new[L + 2].edge = e
  BY DEF Extends
<1>1. DOMAIN new = 1 .. (L + size) /\ DOMAIN sp = 1 .. L
  BY <1>0
<1>2. \A j \in 1 .. (L + size) : j \in 1 .. L \/ j = L + 1 \/ (size = 2 /\ j = L + 2)
  OBVIOUS
<1>3. ASSUME NEW i \in Nat, NEW d, d # e \/ (i # p /\ (size = 2 => i # L + 1))
      PROVE  MadeIn(new, i, d) = MadeIn(sp, i, d)
  <2>1. ASSUME NEW j \in 1 .. (L + size), new[j].parent = i, new[j].edge = d
        PROVE  j \in 1 .. L
    BY <1>0, <1>2, <1>3, <2>1
  <2>2. \A j \in 1 .. L : j \in 1 .. (L + size)
    OBVIOUS
  <2> QED
    BY <1>0, <1>1, <2>1, <2>2 DEF MadeIn
<1>4. ASSUME NEW n \in Nat, HasMade(sp, p, e, n)
      PROVE  HasMade(new, p, e, n + 1)
  <2>1. MadeIn(new, p, e) = MadeIn(sp, p, e) \cup {L + 1}
    <3>1. \A j \in 1 .. L : j \in 1 .. (L + size)
      OBVIOUS
    <3>2. L + 1 \in 1 .. (L + size) /\ p # L + 1
      OBVIOUS
    <3> QED
      BY <1>0, <1>1, <1>2, <3>1, <3>2 DEF MadeIn
  <2>2. IsFiniteSet(MadeIn(sp, p, e)) /\ L + 1 \notin MadeIn(sp, p, e)
    <3>1. L + 1 \notin 1 .. L
      OBVIOUS
    <3> QED
      BY <1>0, <3>1, MadeIsFinite
  <2>3. Cardinality(MadeIn(sp, p, e) \cup {L + 1}) = Cardinality(MadeIn(sp, p, e)) + 1
    BY <2>2, FS_AddElement
  <2> QED
    BY <1>4, <2>1, <2>3 DEF HasMade
<1>5. ASSUME size = 2
      PROVE  HasMade(new, L + 1, e, 1)
  <2>1. MadeIn(sp, L + 1, e) = {}
    <3>1. L + 1 \in Nat /\ L + 1 > Len(sp)
      BY <1>0
    <3> QED
      BY <3>1, NothingBelow
  <2>2. \A j \in 1 .. L : ~(new[j].parent = L + 1 /\ new[j].edge = e)
    BY <1>0, <1>1, <2>1 DEF MadeIn
  <2>3. L + 2 \in 1 .. (L + size) /\ p # L + 1
    BY <1>5
  <2>4. MadeIn(new, L + 1, e) = {L + 2}
    BY <1>0, <1>1, <1>2, <1>5, <2>2, <2>3 DEF MadeIn
  <2> QED
    BY <2>4, FS_Singleton DEF HasMade
<1> QED
  BY <1>3, <1>4, <1>5 DEF Grown

LEMMA NothingSoFar ==
    ASSUME Graph, NEW n, NEW p, NEW e \in DOMAIN edges
    PROVE  SoFar(Frame(n, p), e) = 0
<1>1. PICK f : f = Frame(n, p)
  OBVIOUS
<1>2. f.node = n /\ f.edge = Outgoing(n, 0) /\ f.done = 0
  BY <1>1 DEF Frame
<1>3. PICK N \in Nat : N = Len(edges) /\ DOMAIN edges = 1 .. N
  BY DEF Graph
<1>4. f.edge \in 1 .. (N + 1) /\ (edges[e].from = n => f.edge <= e)
  BY <1>2, <1>3, OutgoingIs
<1>5. edges[e].from = n /\ ~(e > f.edge) => e = f.edge
  BY <1>3, <1>4
<1> QED
  BY <1>1, <1>2, <1>5 DEF SoFar

\* moved is st with the call f at its end, which makes e once more, turned into g, and the
\* call of the target of e on top
Pushed(st, n, f, e, L, size, g, moved) ==
    /\ n = Len(st) /\ f = st[n] /\ f.edge = e /\ size = edges[e].size
    /\ g.node = f.node /\ g.parent = f.parent /\ g.edge = e /\ g.done = f.done + 1
    /\ Len(moved) = n + 1 /\ moved[n] = g /\ moved[n + 1] = Frame(edges[e].to, L + size)
    /\ \A k \in 1 .. (n - 1) : moved[k] = st[k]

\* A repetition of an edge: the call that makes it has made one more, the call of the target
\* has made nothing, and a client has its server.
LEMMA TreeGrows ==
    ASSUME Graph, NEW sp \in Seq(Spans), NEW st \in Seq(Frames), Tree(sp, st),
           NEW n \in Nat \ {0}, NEW f \in Frames, NEW e \in DOMAIN edges,
           NEW L \in Nat, NEW size \in {1, 2},
           NEW new \in Seq(Spans), Extends(new, sp, L, f.parent, e, size),
           NEW g, NEW moved \in Seq(Frames), Pushed(st, n, f, e, L, size, g, moved)
    PROVE  Tree(new, moved)
<1>a. /\ n = Len(st) /\ f = st[n] /\ f.edge = e /\ size = edges[e].size
      /\ g.node = f.node /\ g.parent = f.parent /\ g.edge = e /\ g.done = f.done + 1
      /\ Len(moved) = n + 1 /\ moved[n] = g /\ moved[n + 1] = Frame(edges[e].to, L + size)
      /\ \A k \in 1 .. (n - 1) : moved[k] = st[k]
  BY DEF Pushed
<1>0. /\ L = Len(sp) /\ Len(new) = L + size /\ \A i \in 1 .. L : new[i] = sp[i]
      /\ new[L + 1].parent = f.parent /\ new[L + 1].edge = e
      /\ new[L + 1].kind = (IF size = 1 THEN "internal" ELSE "client")
      /\ size = 2 => /\ new[L + 2].parent = L + 1 /\ new[L + 2].edge = e
                     /\ new[L + 2].kind = "server"
  BY DEF Extends
<1>1. /\ DOMAIN sp = 1 .. L /\ DOMAIN new = 1 .. (L + size)
      /\ DOMAIN st = 1 .. n /\ DOMAIN moved = 1 .. (n + 1)
      /\ n \in 1 .. n /\ \A k \in 1 .. (n - 1) : k \in 1 .. n /\ k # n
  BY <1>a, <1>0
<1>2. PICK p : p = f.parent
  OBVIOUS
<1>3. /\ p \in 1 .. L /\ sp[p].kind # "client" /\ NodeOf(sp[p]) = f.node
      /\ \A d \in DOMAIN edges : HasMade(sp, p, d, SoFar(f, d))
  BY <1>a, <1>1, <1>2 DEF Tree, Adds
<1>4. Hung(sp)
  BY DEF Tree
<1>5. PICK N \in Nat : N = Len(edges) /\ DOMAIN edges = 1 .. N
  BY DEF Graph
<1>6. /\ \A i \in Nat : \A d : (d # e \/ (i # p /\ (size = 2 => i # L + 1))) =>
            MadeIn(new, i, d) = MadeIn(sp, i, d)
      /\ \A k \in Nat : HasMade(sp, p, e, k) => HasMade(new, p, e, k + 1)
      /\ size = 2 => HasMade(new, L + 1, e, 1)
  <2>1. Extends(new, sp, L, p, e, size) /\ p \in 1 .. L
    BY <1>2, <1>3
  <2>2. Grown(new, sp, L, p, e, size)
    BY ONLY <1>4, <2>1, sp \in Seq(Spans), new \in Seq(Spans), L \in Nat, size \in {1, 2},
            MadeGrows
  <2> QED
    BY <2>2 DEF Grown
<1>7. ASSUME NEW i \in Nat, NEW d, d # e \/ (i # p /\ (size = 2 => i # L + 1)), NEW k,
             HasMade(sp, i, d, k)
      PROVE  HasMade(new, i, d, k)
  BY <1>6, <1>7 DEF HasMade
<1>8. ASSUME NEW i \in Nat, i > L, NEW d, d # e \/ (size = 2 => i # L + 1)
      PROVE  HasMade(new, i, d, 0)
  <2>1. HasMade(sp, i, d, 0)
    BY <1>0, <1>4, <1>8, NothingBelow, FS_EmptySet DEF HasMade
  <2>2. i # p
    BY <1>3, <1>8
  <2> QED
    BY <1>7, <1>8, <2>1, <2>2
<1>9. Hung(new)
  <2>1. 1 \in 1 .. L /\ new[1] = sp[1]
    BY <1>0, <1>3
  <2>2. ASSUME NEW j \in 2 .. (L + size)
        PROVE  /\ new[j].parent \in 1 .. (j - 1) /\ new[j].edge \in DOMAIN edges
               /\ new[j].kind = KindUnder(new[new[j].parent], new[j].edge)
    <3>1. CASE j \in 2 .. L
      <4>1. /\ sp[j].parent \in 1 .. (j - 1) /\ sp[j].edge \in DOMAIN edges
            /\ sp[j].kind = KindUnder(sp[sp[j].parent], sp[j].edge)
        BY <1>0, <1>4, <3>1 DEF Hung
      <4>2. j \in 1 .. L /\ sp[j].parent \in 1 .. L
        BY <3>1, <4>1
      <4> QED
        BY <1>0, <4>1, <4>2
    <3>2. CASE j = L + 1
      <4>1. new[j].parent = p /\ p \in 1 .. (j - 1) /\ new[p] = sp[p] /\ new[j].edge = e
        BY <1>0, <1>2, <1>3, <3>2
      <4>2. KindUnder(new[p], e) = IF size = 1 THEN "internal" ELSE "client"
        BY <1>a, <1>3, <4>1 DEF KindUnder
      <4> QED
        BY <1>0, <3>2, <4>1, <4>2
    <3>3. CASE size = 2 /\ j = L + 2
      <4>1. new[j].parent = L + 1 /\ L + 1 \in 1 .. (j - 1) /\ new[j].edge = e
        BY <1>0, <3>3
      <4>2. KindUnder(new[L + 1], e) = "server"
        BY <1>a, <1>0, <3>3 DEF KindUnder
      <4> QED
        BY <1>0, <3>3, <4>1, <4>2
    <3> QED
      BY <3>1, <3>2, <3>3
  <2> QED
    BY <1>0, <1>4, <2>1, <2>2 DEF Hung
<1>10. ASSUME NEW k \in 1 .. (n - 1)
       PROVE  Adds(new, moved[k]) /\ moved[k].parent \in 1 .. L /\ moved[k].parent # p
  <2>1. k \in 1 .. n /\ k # n /\ moved[k] = st[k]
    BY <1>a, <1>1
  <2>2. PICK q : q = st[k].parent
    OBVIOUS
  <2>3. /\ q \in 1 .. L /\ sp[q].kind # "client" /\ NodeOf(sp[q]) = st[k].node /\ q # p
        /\ \A d \in DOMAIN edges : HasMade(sp, q, d, SoFar(st[k], d))
    BY <1>a, <1>1, <1>2, <2>1, <2>2 DEF Tree, Adds
  <2>4. q \in Nat /\ q # L + 1 /\ q \in 1 .. (L + size) /\ new[q] = sp[q]
    <3>1. q \in Nat /\ q # L + 1 /\ q \in 1 .. (L + size)
      BY <2>3
    <3> QED
      BY <1>0, <2>3, <3>1
  <2>5. \A d \in DOMAIN edges : HasMade(new, q, d, SoFar(st[k], d))
    BY <1>7, <2>3, <2>4
  <2> QED
    BY <1>1, <2>1, <2>2, <2>3, <2>4, <2>5 DEF Adds
<1>11. Adds(new, g)
  <2>1. p \in 1 .. (L + size) /\ new[p] = sp[p] /\ p \in Nat /\ p # L + 1
    BY <1>0, <1>3
  <2>2. edges[e].from = f.node /\ f.done \in Nat
    <3>1. f.edge <= Len(edges)
      BY <1>a, <1>5
    <3> QED
      BY <1>a, <3>1 DEF Frames
  <2>3. ASSUME NEW d \in DOMAIN edges
        PROVE  HasMade(new, p, d, SoFar(g, d))
    <3>1. HasMade(sp, p, d, SoFar(f, d))
      BY <1>3
    <3>2. CASE d = e
      <4>1. ~(e > e)
        BY <1>5
      <4>2. SoFar(f, d) = f.done /\ SoFar(g, d) = f.done + 1
        BY <1>a, <2>2, <3>2, <4>1 DEF SoFar
      <4> QED
        BY <1>6, <2>2, <3>1, <3>2, <4>2
    <3>3. CASE d # e
      <4>1. SoFar(f, d) = SoFar(g, d)
        BY <1>a, <3>3 DEF SoFar
      <4> QED
        BY <1>7, <2>1, <3>1, <3>3, <4>1
    <3> QED
      BY <3>2, <3>3
  <2> QED
    BY <1>a, <1>1, <1>2, <1>3, <2>1, <2>3 DEF Adds
<1>12. PICK h : h = Frame(edges[e].to, L + size)
  OBVIOUS
<1>13. Adds(new, h) /\ h.parent = L + size
  <2>1. h.parent = L + size /\ h.node = edges[e].to
    BY <1>12 DEF Frame
  <2>2. L + size \in 1 .. (L + size) /\ L + size \in Nat /\ L + size > L
    OBVIOUS
  <2>3. new[L + size].kind # "client" /\ new[L + size].edge = e
    BY <1>0
  <2>4. e # 0
    BY <1>5
  <2>5. NodeOf(new[L + size]) = edges[e].to
    BY <2>3, <2>4 DEF NodeOf
  <2>6. \A d \in DOMAIN edges : HasMade(new, L + size, d, SoFar(h, d))
    <3>1. size = 2 => L + size # L + 1
      OBVIOUS
    <3> QED
      BY <1>8, <1>12, <2>2, <3>1, NothingSoFar
  <2> QED
    BY <1>1, <2>1, <2>2, <2>3, <2>5, <2>6 DEF Adds
<1>14. \A k \in 1 .. (n + 1) : k \in 1 .. (n - 1) \/ k = n \/ k = n + 1
  OBVIOUS
<1>15. \A k \in 1 .. (n + 1) : Adds(new, moved[k])
  BY <1>a, <1>10, <1>11, <1>12, <1>13, <1>14
<1>16. ASSUME NEW k \in 1 .. (n + 1), NEW m \in 1 .. (n + 1), k # m
       PROVE  moved[k].parent # moved[m].parent
  <2>1. CASE k \in 1 .. (n - 1) /\ m \in 1 .. (n - 1)
    <3>1. moved[k] = st[k] /\ moved[m] = st[m] /\ k \in DOMAIN st /\ m \in DOMAIN st
      BY <1>a, <1>1, <2>1
    <3>2. st[k].parent # st[m].parent
      BY <1>16, <3>1 DEF Tree
    <3> QED
      BY <3>1, <3>2
  <2>2. \A i \in 1 .. L : i # L + size
    OBVIOUS
  <2>3. moved[n].parent = p /\ moved[n + 1].parent = L + size /\ p # L + size
    BY <1>a, <1>2, <1>3, <1>12, <1>13, <2>2
  <2>4. \A i \in 1 .. (n - 1) : moved[i].parent # p /\ moved[i].parent # L + size
    BY <1>10, <2>2
  <2>5. CASE k \in 1 .. (n - 1) /\ m \notin 1 .. (n - 1)
    BY <1>14, <2>3, <2>4, <2>5
  <2>6. CASE k \notin 1 .. (n - 1) /\ m \in 1 .. (n - 1)
    BY <1>14, <2>3, <2>4, <2>6
  <2>7. CASE k \notin 1 .. (n - 1) /\ m \notin 1 .. (n - 1)
    BY <1>14, <1>16, <2>3, <2>7
  <2> QED
    BY <2>1, <2>5, <2>6, <2>7
<1>17. ASSUME NEW i \in 1 .. (L + size), \A k \in 1 .. (n + 1) : moved[k].parent # i
       PROVE  Unfolded(new, i)
  <2>1. n \in 1 .. (n + 1) /\ n + 1 \in 1 .. (n + 1)
    OBVIOUS
  <2>2. i # p /\ i # L + size
    BY <1>a, <1>2, <1>12, <1>13, <1>17, <2>1
  <2>3. CASE i \in 1 .. L
    <3>1. ASSUME NEW k \in 1 .. n
          PROVE  st[k].parent # i
      <4>1. CASE k = n
        BY <1>a, <1>2, <2>2, <4>1
      <4>2. CASE k # n
        <5>1. k \in 1 .. (n - 1) /\ k \in 1 .. (n + 1)
          BY <3>1, <4>2
        <5> QED
          BY <1>a, <1>17, <5>1
      <4> QED
        BY <4>1, <4>2
    <3>2. Unfolded(sp, i)
      BY <1>a, <1>1, <2>3, <3>1 DEF Tree
    <3>3. new[i] = sp[i] /\ i \in Nat /\ i # L + 1
      BY <1>0, <2>3
    <3> QED
      BY <1>7, <2>2, <3>2, <3>3 DEF Unfolded
  <2>4. CASE i = L + 1 /\ size = 2
    <3>1. new[i].kind = "client" /\ new[i].edge = e
      BY <1>0, <2>4
    <3>2. ASSUME NEW d \in DOMAIN edges
          PROVE  HasMade(new, i, d, Wanted(new[i], d))
      <4>1. CASE d = e
        <5>1. Wanted(new[i], d) = 1
          BY <3>1, <4>1 DEF Wanted
        <5> QED
          BY <1>6, <2>4, <4>1, <5>1
      <4>2. CASE d # e
        <5>1. Wanted(new[i], d) = 0
          BY <3>1, <4>2 DEF Wanted
        <5>2. i \in Nat /\ i > L
          BY <2>4
        <5> QED
          BY <1>8, <4>2, <5>1, <5>2
      <4> QED
        BY <4>1, <4>2
    <3> QED
      BY <3>2 DEF Unfolded
  <2>5. i \in 1 .. L \/ (i = L + 1 /\ size = 2)
    BY <2>2
  <2> QED
    BY <2>3, <2>4, <2>5
<1> QED
  BY <1>a, <1>1, <1>9, <1>15, <1>16, <1>17 DEF Tree

\* The call that is the last turns from f into g, and g has made as much as f.
LEMMA TreeTurns ==
    ASSUME NEW sp, NEW st \in Seq(Frames), Tree(sp, st), NEW n \in Nat \ {0}, n = Len(st),
           NEW g, g.node = st[n].node, g.parent = st[n].parent,
           \A e \in DOMAIN edges : SoFar(g, e) = SoFar(st[n], e),
           NEW moved \in Seq(Frames), Len(moved) = n, moved[n] = g,
           \A k \in 1 .. n : k # n => moved[k] = st[k]
    PROVE  Tree(sp, moved)
<1>1. DOMAIN st = 1 .. n /\ DOMAIN moved = 1 .. n /\ n \in 1 .. n
  OBVIOUS
<1>2. \A k \in 1 .. n : moved[k].parent = st[k].parent
  OBVIOUS
<1>3. Adds(sp, g)
  BY <1>1 DEF Tree, Adds
<1>4. \A k \in 1 .. n : Adds(sp, moved[k])
  BY <1>1, <1>3 DEF Tree
<1> QED
  BY <1>1, <1>2, <1>4 DEF Tree

\* A call that has come to the end of its edges returns: its span has all it should have.
LEMMA TreeReturns ==
    ASSUME Graph, NEW sp, NEW st \in Seq(Frames), Tree(sp, st), NEW n \in Nat \ {0},
           n = Len(st), st[n].edge > Len(edges),
           NEW left \in Seq(Frames), Len(left) = n - 1, \A k \in 1 .. (n - 1) : left[k] = st[k]
    PROVE  Tree(sp, left)
<1>1. DOMAIN st = 1 .. n /\ DOMAIN left = 1 .. (n - 1) /\ n \in 1 .. n
      /\ \A k \in 1 .. (n - 1) : k \in 1 .. n
  OBVIOUS
<1>2. PICK N \in Nat : N = Len(edges) /\ DOMAIN edges = 1 .. N
  BY DEF Graph
<1>3. PICK f, p : f = st[n] /\ p = st[n].parent
  OBVIOUS
<1>4. /\ sp[p].kind # "client" /\ NodeOf(sp[p]) = f.node
      /\ \A e \in DOMAIN edges : HasMade(sp, p, e, SoFar(f, e))
  BY <1>1, <1>3 DEF Tree, Adds
<1>5. ASSUME NEW e \in DOMAIN edges
      PROVE  SoFar(f, e) = Wanted(sp[p], e)
  <2>1. f.edge \in Nat /\ f.edge > N
    BY <1>1, <1>2, <1>3 DEF Frames
  <2>2. ~(e > f.edge) /\ e # f.edge
    BY <1>2, <2>1
  <2> QED
    BY <1>4, <2>2 DEF SoFar, Wanted
<1>6. Unfolded(sp, p)
  BY <1>4, <1>5 DEF Unfolded
<1>7. ASSUME NEW i \in DOMAIN sp, \A k \in 1 .. (n - 1) : left[k].parent # i
      PROVE  Unfolded(sp, i)
  <2>1. CASE i = p
    BY <1>6, <2>1
  <2>2. CASE i # p
    <3>1. ASSUME NEW k \in 1 .. n
          PROVE  st[k].parent # i
      <4>1. CASE k = n
        BY <1>3, <2>2, <4>1
      <4>2. CASE k # n
        <5>1. k \in 1 .. (n - 1)
          BY <4>2
        <5> QED
          BY <1>7, <5>1
      <4> QED
        BY <4>1, <4>2
    <3> QED
      BY <1>1, <3>1 DEF Tree
  <2> QED
    BY <2>1, <2>2
<1> QED
  BY <1>1, <1>7 DEF Tree

LEMMA EmitEdgeTree ==
    ASSUME ValidationInv, EmitInv, EmitInv', Tree(spans, stack), EmitEdge
    PROVE  Tree(spans', stack')
<1>1. PICK n, f, e, L : n = Len(stack) /\ f = Call /\ e = Call.edge /\ L = Len(spans)
  OBVIOUS
<1>2. phase = "emit" /\ phase' = "emit" /\ e <= Len(edges)
  BY <1>1 DEF EmitEdge, HasEdge
<1>3. /\ Graph /\ SpansInv /\ stack \in Seq(Frames) /\ n \in Nat \ {0} /\ DOMAIN stack = 1 .. n
      /\ f \in Frames /\ f = stack[n]
  BY <1>1, <1>2, EmitFacts DEF Call
<1>4. /\ f \in [node : Nodes, parent : Nat, edge : 1 .. (Len(edges) + 1), done : Nat]
      /\ f.edge = e /\ e \in DOMAIN edges
  BY <1>1, <1>2, <1>3 DEF Frames, Graph
<1>5. PICK d, size, to : d = edges[e].duration /\ size = edges[e].size /\ to = edges[e].to
  OBVIOUS
<1>6. size \in {1, 2} /\ to \in Nodes
  BY <1>3, <1>4, <1>5, EdgesType
<1>7. spans \in Seq(Spans) /\ L \in Nat
  BY <1>1, <1>3 DEF SpansInv
<1>8. SpansInv' /\ StackInv' /\ Spans' = Spans /\ Frames' = Frames
  <2>1. SpansInv' /\ StackInv'
    BY <1>2 DEF EmitInv
  <2>2. Spans' = Spans /\ Frames' = Frames
    BY WalkStays DEF EmitEdge, Spans, Kinds
  <2> QED
    BY <2>1, <2>2
<1>9. PICK new \in Seq(Spans) : new = spans'
  BY <1>8 DEF SpansInv
<1>10. PICK first, second :
         /\ first = Span(f.parent, e, IF size = 2 THEN "client" ELSE "internal", cursor, d)
         /\ second = Span(L + 1, e, "server", cursor, d)
  OBVIOUS
<1>11. /\ first.parent = f.parent /\ first.edge = e
       /\ first.kind = (IF size = 2 THEN "client" ELSE "internal")
       /\ second.parent = L + 1 /\ second.edge = e /\ second.kind = "server"
  BY <1>10 DEF Span
<1>12. PICK more : more = IF size = 2 THEN <<first, second>> ELSE <<first>>
  OBVIOUS
<1>13. new = spans \o more
  <2>1. spans' = spans \o EdgeSpans
    BY DEF EmitEdge
  <2>2. EdgeSpans = more
    BY <1>1, <1>5, <1>6, <1>10, <1>12 DEF EdgeSpans, CallEdge
  <2> QED
    BY <1>9, <2>1, <2>2
<1>14. /\ Len(new) = L + size /\ \A i \in 1 .. L : new[i] = spans[i]
       /\ new[L + 1] = first /\ (size = 2 => new[L + 2] = second)
  <2>1. PICK T : T = {first, second} \cup Spans
    OBVIOUS
  <2>2. more \in Seq(T) /\ Len(more) = size /\ more[1] = first /\ (size = 2 => more[2] = second)
    <3>1. first \in T /\ second \in T
      BY <2>1
    <3>2. CASE size = 2
      BY <1>12, <3>1, <3>2
    <3>3. CASE size # 2
      BY <1>6, <1>12, <3>1, <3>3
    <3> QED
      BY <3>2, <3>3
  <2>3. spans \in Seq(T)
    BY <1>7, <2>1
  <2>4. Len(spans \o more) = L + size
    BY <1>1, <1>7, <2>2, <2>3
  <2>5. \A i \in 1 .. L : (spans \o more)[i] = spans[i]
    BY <1>1, <1>7, <2>2, <2>3
  <2>6. \A i \in (L + 1) .. (L + size) : (spans \o more)[i] = more[i - L]
    BY <1>1, <1>7, <2>2, <2>3
  <2>7. L + 1 \in (L + 1) .. (L + size) /\ (L + 1) - L = 1
    BY <1>6, <1>7
  <2>8. size = 2 => L + 2 \in (L + 1) .. (L + size) /\ (L + 2) - L = 2
    BY <1>6, <1>7
  <2> QED
    BY <1>13, <2>2, <2>4, <2>5, <2>6, <2>7, <2>8
<1>15. PICK g : g = [f EXCEPT !.done = @ + 1]
  OBVIOUS
<1>16. g.node = f.node /\ g.parent = f.parent /\ g.edge = e /\ g.done = f.done + 1
  BY <1>4, <1>15
<1>17. PICK moved \in Seq(Frames) : moved = stack'
  BY <1>8 DEF StackInv
<1>18. /\ Len(moved) = n + 1 /\ moved[n] = g /\ moved[n + 1] = Frame(to, L + size)
       /\ \A k \in 1 .. (n - 1) : moved[k] = stack[k]
  <2>1. PICK h, m : h = Frame(to, L + size) /\ m = [stack EXCEPT ![n] = g]
    OBVIOUS
  <2>2. moved = Append(m, h)
    BY <1>1, <1>3, <1>5, <1>15, <1>17, <2>1 DEF EmitEdge, CallEdge, Target, Call
  <2>3. PICK T : T = Frames \cup {g, h}
    OBVIOUS
  <2>4. m \in Seq(T) /\ Len(m) = n /\ m[n] = g /\ \A k \in 1 .. (n - 1) : m[k] = stack[k]
    <3>1. stack \in Seq(T) /\ g \in T /\ n \in 1 .. Len(stack)
      BY <1>1, <1>3, <2>3
    <3> QED
      BY <1>1, <1>3, <2>1, <3>1
  <2> QED
    BY <1>3, <2>1, <2>2, <2>3, <2>4
<1>19. /\ new[L + 1].parent = f.parent /\ new[L + 1].edge = e
       /\ new[L + 1].kind = (IF size = 1 THEN "internal" ELSE "client")
       /\ size = 2 => /\ new[L + 2].parent = L + 1 /\ new[L + 2].edge = e
                      /\ new[L + 2].kind = "server"
  BY <1>6, <1>11, <1>14
<1>20. PICK sp \in Seq(Spans), st \in Seq(Frames) : sp = spans /\ st = stack
  BY <1>3, <1>7
<1>21. Tree(new, moved)
  <2>1. Graph /\ Tree(sp, st) /\ n = Len(st) /\ f = st[n] /\ size = edges[e].size
    BY <1>1, <1>3, <1>5, <1>20
  <2>2. /\ Extends(new, sp, L, f.parent, e, size)
        /\ \A k \in 1 .. (n - 1) : moved[k] = st[k]
        /\ moved[n + 1] = Frame(edges[e].to, L + size)
    BY <1>1, <1>5, <1>14, <1>18, <1>19, <1>20 DEF Extends
  <2>3. n \in Nat \ {0} /\ f \in Frames /\ e \in DOMAIN edges /\ f.edge = e
    BY <1>3, <1>4
  <2>4. Len(moved) = n + 1 /\ moved[n] = g
    BY <1>18
  <2>5. Pushed(st, n, f, e, L, size, g, moved)
    BY <1>16, <2>1, <2>2, <2>3, <2>4 DEF Pushed
  <2> QED
    BY ONLY <1>6, <1>7, <1>9, <1>17, <1>20, <2>1, <2>2, <2>3, <2>5, TreeGrows
<1> QED
  BY <1>9, <1>17, <1>21

LEMMA NextEdgeTree ==
    ASSUME ValidationInv, EmitInv, EmitInv', Tree(spans, stack), NextEdge
    PROVE  Tree(spans', stack')
<1>1. PICK n, f, o : n = Len(stack) /\ f = Call /\ o = Outgoing(f.node, f.edge)
  OBVIOUS
<1>2. /\ phase = "emit" /\ phase' = "emit" /\ UNCHANGED <<edges, spans>>
      /\ f.edge <= Len(edges) /\ f.done >= edges[f.edge].repeat
      /\ stack' = [stack EXCEPT ![n].edge = o, ![n].done = 0]
  BY <1>1 DEF NextEdge, HasEdge, CallEdge, Call
<1>3. /\ Graph /\ stack \in Seq(Frames) /\ n \in Nat \ {0} /\ DOMAIN stack = 1 .. n
      /\ f \in Frames /\ f = stack[n]
  BY <1>1, <1>2, EmitFacts DEF Call
<1>4. f \in [node : Nodes, parent : Nat, edge : 1 .. (Len(edges) + 1), done : Nat]
  BY <1>3 DEF Frames
<1>5. PICK g : g = [node |-> f.node, parent |-> f.parent, edge |-> o, done |-> 0]
  OBVIOUS
<1>6. /\ stack' \in Seq(Frames) /\ Len(stack') = n
      /\ stack'[n] = g /\ \A k \in 1 .. n : k # n => stack'[k] = stack[k]
  <2>1. StackInv' /\ Frames' = Frames
    BY <1>2, WalkStays DEF EmitInv
  <2>2. stack' \in Seq(Frames)
    BY <2>1 DEF StackInv
  <2>3. Len(stack') = n /\ \A k \in 1 .. n : k # n => stack'[k] = stack[k]
    BY <1>1, <1>2, <1>3
  <2>4. stack'[n] = g
    <3>1. PICK m : m = [stack EXCEPT ![n].edge = o]
      OBVIOUS
    <3>2. m[n] = [f EXCEPT !.edge = o]
      BY <1>3, <3>1
    <3>3. m[n] = [node |-> f.node, parent |-> f.parent, edge |-> o, done |-> f.done]
      BY <1>4, <3>2
    <3>4. stack' = [m EXCEPT ![n].done = 0] /\ n \in DOMAIN m
      BY <1>2, <1>3, <3>1
    <3>5. stack'[n] = [m[n] EXCEPT !.done = 0]
      BY <3>4
    <3> QED
      BY <1>5, <3>3, <3>5
  <2> QED
    BY <2>2, <2>3, <2>4
<1>7. ASSUME NEW e \in DOMAIN edges
      PROVE  SoFar(g, e) = SoFar(f, e)
  <2>1. PICK N \in Nat : N = Len(edges) /\ DOMAIN edges = 1 .. N
    BY <1>3 DEF Graph
  <2>2. /\ o \in 1 .. (N + 1) /\ (o <= N => o > f.edge)
        /\ (e > f.edge /\ edges[e].from = f.node => o <= e)
    BY <1>1, <1>3, <1>4, <2>1, OutgoingIs
  <2>3. f.edge \in 1 .. N /\ f.done = edges[f.edge].repeat
    <3>1. f.edge \in 1 .. N
      BY <1>2, <1>4, <2>1
    <3>2. f.done <= edges[f.edge].repeat /\ f.done \in Nat
      BY <1>2, <1>3, <1>4 DEF Frames
    <3>3. edges[f.edge].repeat \in Nat
      BY <1>3, <2>1, <3>1, EdgesType
    <3> QED
      BY <1>2, <3>1, <3>2, <3>3
  <2>4. g.node = f.node /\ g.edge = o /\ g.done = 0
    BY <1>5
  <2>5. CASE edges[e].from # f.node
    BY <2>4, <2>5 DEF SoFar
  <2>6. CASE edges[e].from = f.node /\ e > f.edge
    <3>1. SoFar(f, e) = 0
      BY <2>6 DEF SoFar
    <3>2. e > o \/ e = o
      BY <2>1, <2>2, <2>6
    <3>3. SoFar(g, e) = 0
      BY <2>4, <2>6, <3>2 DEF SoFar
    <3> QED
      BY <3>1, <3>3
  <2>7. CASE edges[e].from = f.node /\ ~(e > f.edge)
    <3>1. ~(e > o) /\ e # o
      BY <2>1, <2>2, <2>3, <2>7
    <3>2. SoFar(g, e) = edges[e].repeat
      BY <2>4, <2>7, <3>1 DEF SoFar
    <3>3. SoFar(f, e) = edges[e].repeat
      BY <2>3, <2>7 DEF SoFar
    <3> QED
      BY <3>2, <3>3
  <2> QED
    BY <2>5, <2>6, <2>7
<1>8. PICK sp, st, moved : sp = spans /\ st = stack /\ moved = stack'
  OBVIOUS
<1>9. g.node = st[n].node /\ g.parent = st[n].parent
  BY <1>3, <1>5, <1>8
<1>10. Tree(sp, moved)
  BY <1>1, <1>3, <1>6, <1>7, <1>8, <1>9, TreeTurns
<1> QED
  BY <1>2, <1>8, <1>10

LEMMA ReturnTree ==
    ASSUME ValidationInv, EmitInv, Tree(spans, stack), Return
    PROVE  Tree(spans', stack')
<1>1. PICK n, f : n = Len(stack) /\ f = Call
  OBVIOUS
<1>2. /\ phase = "emit" /\ UNCHANGED <<edges, spans>> /\ stack # <<>>
      /\ ~(f.edge <= Len(edges)) /\ stack' = SubSeq(stack, 1, n - 1)
  BY <1>1 DEF Return, HasEdge
<1>3. /\ Graph /\ stack \in Seq(Frames) /\ n \in Nat \ {0}
      /\ f \in Frames /\ f = stack[n]
  BY <1>1, <1>2, EmitFacts DEF Call
<1>4. f.edge > Len(edges)
  BY <1>2, <1>3 DEF Frames, Graph
<1>5. /\ stack' \in Seq(Frames) /\ Len(stack') = n - 1
      /\ \A k \in 1 .. (n - 1) : stack'[k] = stack[k]
  BY <1>1, <1>2, <1>3
<1>6. PICK sp, left : sp = spans /\ left = stack'
  OBVIOUS
<1>7. Tree(sp, left)
  BY <1>1, <1>3, <1>4, <1>5, <1>6, TreeReturns
<1> QED
  BY <1>2, <1>6, <1>7

\* While the graph is walked, every span that no call adds to any more has below it what
\* the edges of its node ask for, and a call has made exactly the repetitions of the edges
\* it has come past.
THEOREM TreeInvariance == Spec => []TreeInv
<1>1. Init => TreeInv
  BY DEF Init, TreeInv
<1>2. ValidationInv /\ EmitInv /\ EmitInv' /\ TreeInv /\ [Next]_vars => TreeInv'
  <2> SUFFICES ASSUME ValidationInv, EmitInv, EmitInv', TreeInv, [Next]_vars
               PROVE  TreeInv'
    OBVIOUS
  <2>0. UNCHANGED edges
    BY DEF Next, QueueSources, Visit, TakeChild, Reject, Accept, EmitEdge, NextEdge, Return,
           Ended, vars
  <2>1. CASE QueueSources \/ Visit \/ TakeChild \/ Reject
    <3>1. phase' \notin {"emit", "done"}
      BY <2>1 DEF QueueSources, Visit, TakeChild, Reject, NodeDone
    <3> QED
      BY <3>1 DEF TreeInv
  <2>2. CASE Accept
    <3>1. /\ spans' = <<Span(0, 0, "internal", 0, Estimate(Root))>>
          /\ stack' = <<Frame(Root, 1)>>
      BY <2>2 DEF Accept
    <3>2. Graph /\ NoCycle
      BY <2>2, AcceptValidation DEF ValidationInv, ValidationTypes
    <3>3. PICK d \in Nat : d = Estimate(Root)
      BY <3>2, EstimateIs
    <3>4. Tree(spans', stack')
      BY <3>1, <3>2, <3>3, TreeStarts
    <3> QED
      BY <2>0, <3>4, TreeStays DEF TreeInv
  <2>3. CASE EmitEdge
    <3>1. Tree(spans, stack)
      BY <2>3 DEF EmitEdge, TreeInv
    <3> QED
      BY <2>0, <2>3, <3>1, EmitEdgeTree, TreeStays DEF TreeInv
  <2>4. CASE NextEdge
    <3>1. Tree(spans, stack)
      BY <2>4 DEF NextEdge, TreeInv
    <3> QED
      BY <2>0, <2>4, <3>1, NextEdgeTree, TreeStays DEF TreeInv
  <2>5. CASE Return
    <3>1. Tree(spans, stack)
      BY <2>5 DEF Return, TreeInv
    <3> QED
      BY <2>0, <2>5, <3>1, ReturnTree, TreeStays DEF TreeInv
  <2>6. CASE UNCHANGED vars
    <3>1. spans' = spans /\ stack' = stack /\ phase' = phase
      BY <2>6 DEF vars
    <3>2. CASE phase \in {"emit", "done"}
      BY <2>0, <3>1, <3>2, TreeStays DEF TreeInv
    <3>3. CASE phase \notin {"emit", "done"}
      BY <3>1, <3>3 DEF TreeInv
    <3> QED
      BY <3>2, <3>3
  <2> QED
    BY <2>1, <2>2, <2>3, <2>4, <2>5, <2>6 DEF Next, Ended
<1> QED
  BY EmitInvariance, <1>1, <1>2, PTL DEF Spec

\* Each path of the graph from the root, with each combination of its repetitions, is there
\* exactly once in a finished batch: the spans form the graph's unfolding.
THEOREM PathsOnce == Spec => []EveryPathOnce
<1>1. ValidationInv /\ EmitInv /\ TreeInv => EveryPathOnce
  <2> SUFFICES ASSUME EmitInv, TreeInv, phase = "done"
               PROVE  /\ Hung(spans)
                      /\ \A i \in DOMAIN spans, e \in DOMAIN edges :
                            Cardinality(Made(i, e)) = Wanted(spans[i], e)
    BY DEF EveryPathOnce, Hung
  <2>1. stack = <<>> /\ Tree(spans, stack)
    BY DEF EmitInv, StackInv, TreeInv
  <2>2. DOMAIN stack = {}
    BY <2>1
  <2>3. \A i \in DOMAIN spans : Unfolded(spans, i)
    BY <2>1, <2>2 DEF Tree
  <2>4. \A i, e : Made(i, e) = MadeIn(spans, i, e)
    BY DEF Made, MadeIn
  <2> QED
    BY <2>1, <2>3, <2>4 DEF Tree, Unfolded, HasMade
<1> QED
  BY EmitInvariance, TreeInvariance, <1>1, PTL

\* Two calls of a trace never overlap.
THEOREM CallsInSequence == Spec => []CallsDoNotOverlap
<1>1. EmitInv => CallsDoNotOverlap
  <2>1. CASE phase \in {"emit", "done"}
    BY <2>1 DEF EmitInv, SpansInv
  <2>2. CASE phase \notin {"emit", "done"}
    BY <2>2 DEF EmitInv, CallsDoNotOverlap
  <2> QED
    BY <2>1, <2>2
<1> QED
  BY EmitInvariance, <1>1, PTL

-----------------------------------------------------------------------------
(* Termination. *)

\* all the spans there will be
Total == 1 + Walk(Size)[Root]

\* what is still to do: nodes to visit, each with edges to take away; then spans to add,
\* calls to return from, each with edges to come to
Rank ==
    CASE phase = "count"    -> <<3, 0, 0, 0>>
      [] phase = "validate" -> <<2, Cardinality(Nodes) - visited, 0, Len(edges) + 1 - child>>
      [] phase = "emit"     -> <<1, Total - Len(spans), Len(stack), Len(edges) + 1 - Call.edge>>
      [] phase \in {"rejected", "done"} -> <<0, 0, 0, 0>>

LEMMA SumsNeverFall ==
    ASSUME Graph, NEW n, NEW cost \in [DOMAIN edges -> Nat], NEW below, Known(n, below),
           NEW i \in 0 .. Len(edges)
    PROVE  Sums(n, cost, below)[i] <= Sums(n, cost, below)[Len(edges)]
<1>1. PICK N \in Nat : N = Len(edges) /\ DOMAIN edges = 1 .. N
  BY DEF Graph
<1> DEFINE a == Sums(n, cost, below)
           S == {k \in 0 .. N : a[N - k] <= a[N]}
<1>2. \A k \in 0 .. N : a[k] \in Nat
  BY <1>1, SumsIs
<1>3. \A k \in 1 .. N : a[k] = a[k - 1] + Term(n, cost, below, k)
  BY <1>1, SumsIs
<1> HIDE DEF a
<1>4. 0 \in S
  <2>1. N - 0 = N /\ N \in 0 .. N /\ 0 \in 0 .. N
    OBVIOUS
  <2>2. a[N] <= a[N]
    BY <1>2, <2>1
  <2> QED
    BY <2>1, <2>2
<1>5. ASSUME NEW k \in 1 .. N, k - 1 \in S
      PROVE  k \in S
  <2>1. PICK m : m = N - (k - 1)
    OBVIOUS
  <2>2. m \in 1 .. N /\ m \in 0 .. N /\ m - 1 \in 0 .. N /\ m - 1 = N - k /\ k \in 0 .. N
    BY <2>1
  <2>3. a[m] <= a[N]
    BY <1>5, <2>1
  <2>4. Term(n, cost, below, m) \in Nat
    BY <1>1, <2>2, TermType
  <2>5. a[m] = a[m - 1] + Term(n, cost, below, m)
    BY <1>3, <2>2
  <2>6. a[m - 1] \in Nat /\ a[m] \in Nat /\ a[N] \in Nat
    BY <1>2, <2>2
  <2>7. a[m - 1] <= a[N]
    BY <2>3, <2>4, <2>5, <2>6
  <2> QED
    BY <2>2, <2>7
<1> HIDE DEF S
<1>6. 0 .. N \subseteq S
  BY <1>4, <1>5, InductionTo
<1>7. N - i \in S /\ N - (N - i) = i
  BY <1>1, <1>6
<1> QED
  BY <1>1, <1>7 DEF S, a

\* no call takes anything away
LEMMA LeftIsNat ==
    ASSUME Graph, NoCycle, NEW cost \in [DOMAIN edges -> Nat], NEW f \in Frames
    PROVE  Left(cost, f) \in Nat
<1>1. CASE f.edge > Len(edges)
  BY <1>1 DEF Left
<1>2. CASE ~(f.edge > Len(edges))
  <2> DEFINE W == Walk(cost)
             a == Sums(f.node, cost, W)
             e == f.edge
  <2>1. PICK N \in Nat : N = Len(edges) /\ DOMAIN edges = 1 .. N
    BY DEF Graph
  <2>2. f.node \in Nodes /\ e \in 1 .. N /\ e \in 0 .. N /\ f.done \in Nat
        /\ f.done <= edges[e].repeat
    BY <1>2, <2>1 DEF Frames
  <2>3. W \in [Nodes -> Nat] /\ W[f.node] = a[N]
    BY <2>1, <2>2, WalkIs
  <2>4. Known(f.node, W)
    BY <2>3, EdgesType DEF Known
  <2>5. a[e] \in Nat /\ a[N] \in Nat
    <3>1. N \in 0 .. N
      OBVIOUS
    <3> QED
      BY <2>1, <2>2, <2>4, <3>1, SumsIs
  <2>6. a[e] <= a[N]
    BY <2>1, <2>2, <2>4, SumsNeverFall
  <2>7. PICK r, c : r = edges[e].repeat /\ c = cost[e] + W[edges[e].to]
    OBVIOUS
  <2>8. r \in Nat /\ c \in Nat
    BY <2>1, <2>2, <2>3, <2>7, EdgesType
  <2>9. PICK x \in Nat : x = W[f.node] - a[e]
    BY <2>3, <2>5, <2>6
  <2>10. PICK d \in Nat : d = r - f.done
    BY <2>2, <2>7, <2>8
  <2>11. d * c \in Nat
    BY <2>8, ProductsAreNat
  <2>12. Left(cost, f) = x + d * c
    BY <1>2, <2>7, <2>9, <2>10 DEF Left
  <2> QED
    BY <2>11, <2>12
<1> QED
  BY <1>1, <1>2

\* so that no more is there than there will be
LEMMA CourseBounds ==
    ASSUME Graph, NoCycle, NEW cost \in [DOMAIN edges -> Nat], NEW st \in Seq(Frames),
           NEW now \in Int, OnCourse(cost, st, now)
    PROVE  1 + Walk(cost)[Root] \in Int /\ now <= 1 + Walk(cost)[Root]
<1>1. PICK n \in Nat : n = Len(st)
  OBVIOUS
<1>2. PICK due \in [1 .. (n + 1) -> Int] :
          /\ due[1] = 1 + Walk(cost)[Root]
          /\ due[n + 1] = now
          /\ \A k \in 1 .. n : due[k] = due[k + 1] + Left(cost, st[k])
  BY <1>1 DEF OnCourse
<1>3. \A k \in 1 .. n : Left(cost, st[k]) \in Nat
  <2>1. \A k \in 1 .. n : st[k] \in Frames
    BY <1>1
  <2> QED
    BY <2>1, LeftIsNat
<1> DEFINE S == {k \in 0 .. n : due[k + 1] <= due[1]}
<1>4. 0 \in S
  <2>1. due[1] \in Int
    BY <1>2
  <2> QED
    BY <2>1
<1>5. ASSUME NEW k \in 1 .. n, k - 1 \in S
      PROVE  k \in S
  <2>1. k \in 1 .. (n + 1) /\ k + 1 \in 1 .. (n + 1) /\ k \in 0 .. n /\ (k - 1) + 1 = k
        /\ 1 \in 1 .. (n + 1)
    OBVIOUS
  <2>2. due[k] <= due[1]
    BY <1>5, <2>1
  <2>3. due[k] = due[k + 1] + Left(cost, st[k]) /\ Left(cost, st[k]) \in Nat
    BY <1>2, <1>3
  <2>4. due[k] \in Int /\ due[k + 1] \in Int /\ due[1] \in Int
    BY <2>1
  <2>5. due[k + 1] <= due[1]
    BY <2>2, <2>3, <2>4
  <2> QED
    BY <2>1, <2>5
<1> HIDE DEF S
<1>6. 0 .. n \subseteq S
  BY <1>4, <1>5, InductionTo
<1>7. n \in S
  BY <1>6
<1>8. 1 \in 1 .. (n + 1)
  OBVIOUS
<1> QED
  BY <1>2, <1>7, <1>8 DEF S

LEMMA RankIs ==
    ASSUME ValidationInv, EmitInv
    PROVE  /\ Rank \in Ranks
           /\ Len(edges) \in Nat /\ child \in 1 .. (Len(edges) + 1)
           /\ visited \in 0 .. Cardinality(Nodes)
<1>1. PICK N \in Nat : N = Len(edges) /\ Graph /\ child \in 1 .. (N + 1)
  BY DEF ValidationInv, ValidationTypes, Graph
<1>2. PICK C \in Nat : C = Cardinality(Nodes) /\ visited \in 0 .. C
  <2>1. Cardinality(Finished) <= Cardinality(Nodes)
    BY FinishedIsFinite, NodesCount, FS_Subset
  <2> QED
    BY <2>1, NodesCount, FinishedIsFinite DEF ValidationInv
<1>3. CASE phase = "count"
  <2>1. Rank = <<3, 0, 0, 0>>
    BY <1>3 DEF Rank
  <2> QED
    BY <1>1, <1>2, <2>1 DEF Ranks
<1>4. CASE phase = "validate"
  <2>1. Rank = <<2, C - visited, 0, N + 1 - child>>
    BY <1>1, <1>2, <1>4 DEF Rank
  <2>2. C - visited \in Nat /\ N + 1 - child \in Nat
    BY <1>1, <1>2
  <2> QED
    BY <1>1, <1>2, <2>1, <2>2 DEF Ranks
<1>5. CASE phase = "emit"
  <2>1. /\ NoCycle /\ stack \in Seq(Frames) /\ Len(stack) \in Nat /\ Call \in Frames
        /\ OnCourse(Size, stack, Len(spans)) /\ SpansInv
    BY <1>5, EmitFacts
  <2>2. PICK L \in Nat : L = Len(spans)
    BY <2>1 DEF SpansInv
  <2>3. Total \in Int /\ L <= Total
    BY <1>1, <2>1, <2>2, CostTypes, CourseBounds DEF Total
  <2>4. PICK c : c = Call.edge
    OBVIOUS
  <2>5. c \in 1 .. (N + 1)
    BY <1>1, <2>1, <2>4 DEF Frames
  <2>6. Rank = <<1, Total - L, Len(stack), N + 1 - c>>
    BY <1>1, <1>5, <2>2, <2>4 DEF Rank
  <2>7. Total - L \in Nat /\ N + 1 - c \in Nat
    BY <2>3, <2>5
  <2> QED
    BY <1>1, <1>2, <2>1, <2>6, <2>7 DEF Ranks
<1>6. CASE phase \in {"rejected", "done"}
  <2>1. Rank = <<0, 0, 0, 0>>
    BY <1>6 DEF Rank
  <2> QED
    BY <1>1, <1>2, <2>1 DEF Ranks
<1>7. phase \in {"count", "validate", "rejected", "emit", "done"}
  BY DEF ValidationInv, ValidationTypes
<1> QED
  BY <1>3, <1>4, <1>5, <1>6, <1>7

LEMMA TotalStays ==
    ASSUME UNCHANGED edges
    PROVE  Total' = Total
<1>1. Size' = Size
  BY DEF Size
<1>2. \A cost : Walk(cost)' = Walk(cost)
  BY DEF Walk, Sums
<1> QED
  BY <1>1, <1>2 DEF Total

\* QueueSources, Reject and Accept end their phase
LEMMA PhasesDescend ==
    ASSUME QueueSources \/ Reject \/ Accept
    PROVE  Lower(Rank', Rank)
<1>1. CASE QueueSources
  <2>1. phase = "count" /\ phase' = "validate"
    BY <1>1 DEF QueueSources
  <2>2. Rank[1] = 3 /\ Rank'[1] = 2
    BY <2>1 DEF Rank
  <2> QED
    BY <2>2 DEF Lower
<1>2. CASE Reject
  <2>1. phase = "validate" /\ phase' = "rejected"
    BY <1>2 DEF Reject, NodeDone
  <2>2. Rank[1] = 2 /\ Rank'[1] = 0
    BY <2>1 DEF Rank
  <2> QED
    BY <2>2 DEF Lower
<1>3. CASE Accept
  <2>1. phase = "validate" /\ phase' = "emit"
    BY <1>3 DEF Accept, NodeDone
  <2>2. Rank[1] = 2 /\ Rank'[1] = 1
    BY <2>1 DEF Rank
  <2> QED
    BY <2>2 DEF Lower
<1> QED
  BY <1>1, <1>2, <1>3

LEMMA ValidationDescends ==
    ASSUME ValidationInv, EmitInv, Visit \/ TakeChild
    PROVE  Lower(Rank', Rank)
<1>1. PICK N \in Nat, C \in Nat : N = Len(edges) /\ C = Cardinality(Nodes)
  BY RankIs, NodesCount
<1>2. /\ phase = "validate" /\ phase' = "validate" /\ UNCHANGED edges
      /\ visited \in 0 .. C /\ child \in 1 .. (N + 1)
  BY <1>1, RankIs DEF Visit, TakeChild, NodeDone
<1>3. /\ Rank = <<2, C - visited, 0, N + 1 - child>>
      /\ Rank' = <<2, C - visited', 0, N + 1 - child'>>
  BY <1>1, <1>2 DEF Rank
<1>4. CASE Visit
  <2>1. visited' = visited + 1
    BY <1>4 DEF Visit
  <2>2. C - (visited + 1) < C - visited
    BY <1>2
  <2> QED
    BY <1>3, <2>1, <2>2 DEF Lower
<1>5. CASE TakeChild
  <2>1. child <= N /\ visited' = visited /\ child' = Outgoing(edges[child].from, child)
    BY <1>1, <1>5 DEF TakeChild
  <2>2. Graph /\ child \in Nat
    BY <1>2 DEF ValidationInv, ValidationTypes
  <2>3. child' \in 1 .. (N + 1) /\ (child' <= N => child' > child)
    BY <1>1, <2>1, <2>2, OutgoingIs
  <2>4. N + 1 - child' < N + 1 - child
    BY <1>2, <2>1, <2>3
  <2> QED
    BY <1>3, <2>1, <2>4 DEF Lower
<1> QED
  BY <1>4, <1>5

LEMMA EmissionDescends ==
    ASSUME ValidationInv, EmitInv, EmitEdge \/ NextEdge \/ Return
    PROVE  Lower(Rank', Rank)
<1>1. phase = "emit" /\ UNCHANGED edges
  BY DEF EmitEdge, NextEdge, Return
<1>2. PICK N \in Nat : N = Len(edges)
  BY RankIs
<1>3. PICK n, f, L : n = Len(stack) /\ f = Call /\ L = Len(spans)
  OBVIOUS
<1>4. /\ Graph /\ NoCycle /\ stack \in Seq(Frames) /\ n \in Nat \ {0} /\ f \in Frames
      /\ DOMAIN stack = 1 .. n /\ f = stack[n]
      /\ OnCourse(Size, stack, L) /\ SpansInv
  BY <1>1, <1>3, EmitFacts DEF Call
<1>5. L \in Nat
  BY <1>3, <1>4 DEF SpansInv
<1>6. Total \in Int /\ Total' = Total
  BY <1>1, <1>4, <1>5, CostTypes, CourseBounds, TotalStays DEF Total
<1>7. Rank = <<1, Total - L, n, N + 1 - f.edge>>
  BY <1>1, <1>2, <1>3 DEF Rank
<1>8. CASE EmitEdge
  <2>1. phase' = "emit"
    BY <1>1, <1>8 DEF EmitEdge
  <2>2. \E a, b : spans' = spans \o <<a, b>> \/ spans' = spans \o <<a>>
    <3>1. spans' = spans \o EdgeSpans
      BY <1>8 DEF EmitEdge
    <3>2. \E a, b : EdgeSpans = <<a, b>> \/ EdgeSpans = <<a>>
      BY DEF EdgeSpans
    <3> QED
      BY <3>1, <3>2
  <2>3. PICK M \in Nat : M = Len(spans') /\ M > L
    <3>1. spans \in Seq(Spans)
      BY <1>4 DEF SpansInv
    <3>2. PICK new : spans' = spans \o new /\ \E a, b : new = <<a, b>> \/ new = <<a>>
      BY <2>2
    <3>3. Len(new) \in {1, 2} /\ \E T : new \in Seq(T)
      <4>1. PICK a, b : new = <<a, b>> \/ new = <<a>>
        BY <3>2
      <4>2. PICK T : T = {a, b}
        OBVIOUS
      <4>3. a \in T /\ b \in T
        BY <4>2
      <4>4. CASE new = <<a, b>>
        <5>1. new \in Seq(T) /\ Len(new) = 2
          BY <4>3, <4>4
        <5> QED
          BY <5>1
      <4>5. CASE new = <<a>>
        <5>1. new \in Seq(T) /\ Len(new) = 1
          BY <4>3, <4>5
        <5> QED
          BY <5>1
      <4> QED
        BY <4>1, <4>4, <4>5
    <3>4. PICK T : new \in Seq(T)
      BY <3>3
    <3>5. Len(spans \o new) = L + Len(new)
      BY <1>3, <3>1, <3>4
    <3> QED
      BY <1>5, <3>2, <3>3, <3>5
  <2>4. Rank'[1] = 1 /\ Rank'[2] = Total - M
    BY <1>6, <2>1, <2>3 DEF Rank
  <2>5. Total - M < Total - L
    BY <1>5, <1>6, <2>3
  <2> QED
    BY <1>7, <2>4, <2>5 DEF Lower
<1>9. CASE NextEdge
  <2>1. /\ phase' = "emit" /\ spans' = spans /\ f.edge <= N
        /\ stack' = [stack EXCEPT ![n].edge = Outgoing(f.node, f.edge), ![n].done = 0]
    BY <1>1, <1>2, <1>3, <1>9 DEF NextEdge, HasEdge
  <2>2. PICK o : o = Outgoing(f.node, f.edge)
    OBVIOUS
  <2>3. f.edge \in 1 .. (N + 1) /\ f.edge \in Nat
    BY <1>2, <1>4 DEF Frames
  <2>4. o \in 1 .. (N + 1) /\ (o <= N => o > f.edge)
    BY <1>2, <1>4, <2>2, <2>3, OutgoingIs
  <2>5. PICK h, g : h = [f EXCEPT !.edge = o] /\ g = [h EXCEPT !.done = 0]
    OBVIOUS
  <2>6. g.edge = o
    BY <1>4, <2>5 DEF Frames
  <2>7. PICK t : t = stack'
    OBVIOUS
  <2>8. Len(t) = n /\ t[n] = g
    <3>1. PICK m : m = [stack EXCEPT ![n].edge = o]
      OBVIOUS
    <3>2. m = [stack EXCEPT ![n] = h]
      BY <1>4, <2>5, <3>1
    <3>3. m[n] = h /\ DOMAIN m = 1 .. n
      BY <1>4, <3>2
    <3>4. t = [m EXCEPT ![n].done = 0]
      BY <2>1, <2>2, <2>7, <3>1
    <3>5. t = [m EXCEPT ![n] = g]
      BY <2>5, <3>3, <3>4
    <3>6. t = [stack EXCEPT ![n] = g]
      BY <1>4, <3>2, <3>5
    <3>7. n \in 1 .. n /\ DOMAIN t = 1 .. n
      BY <1>4, <3>6
    <3>8. Len(t) = n
      BY <1>3, <1>4, <3>6
    <3> QED
      BY <1>4, <3>6, <3>7, <3>8
  <2>9. Call' = g
    BY <2>7, <2>8 DEF Call
  <2>10. Len(stack') = n
    BY <2>7, <2>8
  <2>11. Rank' = <<1, Total - L, n, N + 1 - o>>
    BY <1>1, <1>2, <1>3, <1>6, <2>1, <2>6, <2>9, <2>10 DEF Rank
  <2>12. N + 1 - o < N + 1 - f.edge
    BY <2>1, <2>3, <2>4
  <2> QED
    BY <1>7, <2>11, <2>12 DEF Lower
<1>10. CASE Return
  <2>1. /\ spans' = spans /\ stack' = SubSeq(stack, 1, n - 1)
        /\ phase' = IF n = 1 THEN "done" ELSE "emit"
    BY <1>3, <1>10 DEF Return
  <2>2. CASE n = 1
    <3>1. Rank'[1] = 0
      BY <2>1, <2>2 DEF Rank
    <3> QED
      BY <1>7, <3>1 DEF Lower
  <2>3. CASE n # 1
    <3>1. Len(stack') = n - 1
      BY <1>3, <1>4, <2>1
    <3>2. phase' = "emit"
      BY <2>1, <2>3
    <3>3. Rank'[1] = 1 /\ Rank'[2] = Total - L /\ Rank'[3] = n - 1
      BY <1>3, <1>6, <2>1, <3>1, <3>2 DEF Rank
    <3>4. n - 1 < n
      BY <1>4
    <3> QED
      BY <1>7, <3>3, <3>4 DEF Lower
  <2> QED
    BY <2>2, <2>3
<1> QED
  BY <1>8, <1>9, <1>10

\* validateDAG and GenerateBatch end on every graph, one with a cycle included: each of
\* their steps lowers the rank, which cannot go on for ever (NoEndlessDescent).
THEOREM ScenarioEnds == Spec => [](Rank \in Ranks) /\ [][Lower(Rank', Rank)]_vars
<1>1. ValidationInv /\ EmitInv => Rank \in Ranks
  BY RankIs
<1>2. ASSUME ValidationInv, EmitInv, [Next]_vars
      PROVE  [Lower(Rank', Rank)]_vars
  <2>1. CASE QueueSources \/ Reject \/ Accept
    BY <2>1, PhasesDescend
  <2>2. CASE Visit \/ TakeChild
    BY <1>2, <2>2, ValidationDescends
  <2>3. CASE EmitEdge \/ NextEdge \/ Return
    BY <1>2, <2>3, EmissionDescends
  <2>4. CASE UNCHANGED vars
    BY <2>4
  <2> QED
    BY <1>2, <2>1, <2>2, <2>3, <2>4 DEF Next, Ended
<1> QED
  BY <1>1, <1>2, EmitInvariance, PTL DEF Spec
=============================================================================
