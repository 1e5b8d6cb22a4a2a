-------------------------- MODULE SeededRunsProofs --------------------------
(***************************************************************************)
(* The numbering of batches in ScenarioSelect, what the seeds fix in       *)
(* SeededRuns, and the fairness of round robin, for every number of        *)
(* producers, scenarios and batches and every pair of schedules.           *)
(*                                                                         *)
(* Then what a fixed --chaos-seed gives: the number of applications where  *)
(* every policy is tried, with any number of exporters; and the very same  *)
(* applications with one exporter.                                         *)
(***************************************************************************)
EXTENDS SeededRuns, TLAPS, FiniteSetTheorems, SequenceTheorems

-----------------------------------------------------------------------------
(* ScenarioSelect: any number of calls. *)

\* the batches of a generator are those numbered up to its counter
Numbered ==
    /\ ~repeated
    /\ batches = {b \in Generators \X (Nat \ {0}) : b[2] <= sequence[b[1]]}

NumberInv == TypeOK /\ Numbered

LEMMA InitNumberInv == Init => NumberInv
<1> SUFFICES ASSUME Init PROVE NumberInv
  OBVIOUS
<1>1. TypeOK
  BY DEF Init, TypeOK
<1>2. Numbered
  <2>1. \A b \in Generators \X (Nat \ {0}) : ~(b[2] <= sequence[b[1]])
    BY DEF Init
  <2> QED
    BY <2>1 DEF Init, Numbered
<1> QED
  BY <1>1, <1>2 DEF NumberInv

\* The addition of one producer gives exactly the number after those already given.
LEMMA GenerateBatchNumbers ==
    ASSUME NumberInv, NEW p \in Producers, GenerateBatch(p)
    PROVE  NumberInv'
<1> DEFINE g == chosen[p]
           n == sequence[g] + 1
<1>0. TypeOK /\ Numbered
  BY DEF NumberInv
<1>1. g \in Generators /\ sequence[g] \in Nat /\ n \in Nat \ {0}
  BY <1>0 DEF TypeOK, GenerateBatch
<1>2. sequence' = [sequence EXCEPT ![g] = n] /\ sequence'[g] = n
  BY <1>0, <1>1 DEF TypeOK, GenerateBatch
<1>3. batches' = batches \cup {<<g, n>>} /\ repeated' = (repeated \/ <<g, n>> \in batches)
  BY <1>2 DEF GenerateBatch
<1>4. <<g, n>> \notin batches
  BY <1>0, <1>1 DEF Numbered
<1>5. \A b \in Generators \X (Nat \ {0}) :
         b[2] <= sequence'[b[1]] <=> b[2] <= sequence[b[1]] \/ b = <<g, n>>
  <2> SUFFICES ASSUME NEW h \in Generators, NEW m \in Nat \ {0}
               PROVE  m <= sequence'[h] <=> m <= sequence[h] \/ (h = g /\ m = n)
    OBVIOUS
  <2>1. sequence[h] \in Nat
    BY <1>0 DEF TypeOK
  <2>2. CASE h = g
    BY <1>1, <1>2, <2>1, <2>2
  <2>3. CASE h # g
    BY <1>0, <1>2, <2>3 DEF TypeOK
  <2> QED
    BY <2>2, <2>3
<1>6. TypeOK'
  <2>1. sequence' \in [Generators -> Nat]
    BY <1>0, <1>1, <1>2 DEF TypeOK
  <2>2. batches' \subseteq Generators \X (Nat \ {0})
    BY <1>0, <1>1, <1>3 DEF TypeOK
  <2>3. repeated' \in BOOLEAN
    BY <1>3
  <2> QED
    BY <1>0, <2>1, <2>2, <2>3 DEF TypeOK, GenerateBatch
<1>7. Numbered'
  <2>1. batches' = {b \in Generators \X (Nat \ {0}) : b[2] <= sequence'[b[1]]}
    BY <1>0, <1>1, <1>3, <1>5 DEF Numbered
  <2> QED
    BY <1>0, <1>3, <1>4, <2>1 DEF Numbered
<1> QED
  BY <1>6, <1>7 DEF NumberInv

LEMMA NumberInvInductive == NumberInv /\ [Next]_vars => NumberInv'
<1> SUFFICES ASSUME NumberInv, [Next]_vars PROVE NumberInv'
  OBVIOUS
<1>1. ASSUME NEW p \in Producers, NextIndex(p) PROVE NumberInv'
  <2>1. ticket' \in Nat
    BY <1>1 DEF NumberInv, TypeOK, NextIndex
  <2>2. chosen' \in [Producers -> Generators \cup {None}]
    BY <1>1 DEF NumberInv, TypeOK, NextIndex
  <2> QED
    BY <1>1, <2>1, <2>2 DEF NumberInv, TypeOK, Numbered, NextIndex
<1>2. CASE UNCHANGED vars
  BY <1>2 DEF NumberInv, TypeOK, Numbered, vars
<1> QED
  BY <1>1, <1>2, GenerateBatchNumbers DEF Next, Quiet

LEMMA NumberInvariance == Spec => []NumberInv
  BY InitNumberInv, NumberInvInductive, PTL DEF Spec

LEMMA NumberedOnce == NumberInv => EveryNumberOnce
<1> SUFFICES ASSUME NumberInv PROVE EveryNumberOnce
  OBVIOUS
<1>1. TypeOK /\ Numbered
  BY DEF NumberInv
<1>2. ASSUME NEW g \in Generators
      PROVE  {b[2] : b \in {c \in batches : c[1] = g}} = 1 .. sequence[g]
  <2>1. sequence[g] \in Nat
    BY <1>1 DEF TypeOK
  <2>2. ASSUME NEW m \in 1 .. sequence[g] PROVE <<g, m>> \in batches
    BY <1>1, <2>1, <2>2 DEF Numbered
  <2>3. ASSUME NEW b \in batches, b[1] = g PROVE b[2] \in 1 .. sequence[g]
    BY <1>1, <2>1, <2>3 DEF Numbered
  <2> DEFINE numbers == {b[2] : b \in {c \in batches : c[1] = g}}
  <2>4. ASSUME NEW m \in 1 .. sequence[g] PROVE m \in numbers
    <3>1. <<g, m>>[1] = g /\ <<g, m>>[2] = m
      OBVIOUS
    <3>2. <<g, m>> \in {c \in batches : c[1] = g}
      BY <2>2, <3>1
    <3> QED
      BY <3>1, <3>2
  <2>5. numbers \subseteq 1 .. sequence[g]
    BY <2>3
  <2> QED
    BY <2>4, <2>5
<1> QED
  BY <1>1, <1>2 DEF EveryNumberOnce, Numbered

\* However many producers share the generators, and in whatever order they reach them,
\* every generator numbers its batches 1, 2, ... without a gap and without repeating one.
THEOREM NumbersAreUnique == Spec => []EveryNumberOnce
  BY NumberedOnce, NumberInvariance, PTL

-----------------------------------------------------------------------------
(* SeededRuns: two runs with the same seeds. *)

\* Two divisions of numbers that differ by one.
LEMMA NextRemainder ==
    ASSUME NEW c \in Nat \ {0}, NEW a \in Int, NEW b \in Int, NEW u \in 0 .. c - 1,
           NEW v \in 0 .. c - 1, (c * a) + u + 1 = (c * b) + v
    PROVE  v = IF u = c - 1 THEN 0 ELSE u + 1
<1>1. c * (b - a) = u + 1 - v
  BY SMTT(30)
<1>2. b - a \in {0, 1}
  <2>1. ASSUME b - a >= 2 PROVE FALSE
    <3>1. c * (b - a) >= c * 2
      BY <2>1, SMTT(30)
    <3> QED
      BY <3>1, <1>1
  <2>2. ASSUME b - a <= -1 PROVE FALSE
    <3>1. c * (b - a) <= c * (-1)
      BY <2>2, SMTT(30)
    <3> QED
      BY <3>1, <1>1
  <2> QED
    BY <2>1, <2>2
<1>3. CASE b - a = 0
  BY <1>1, <1>3
<1>4. CASE b - a = 1
  BY <1>1, <1>4
<1> QED
  BY <1>2, <1>3, <1>4

LEMMA ModStep ==
    ASSUME NEW t \in Nat, NEW c \in Nat \ {0}
    PROVE  /\ t % c \in 0 .. c - 1
           /\ (t + 1) % c = IF t % c = c - 1 THEN 0 ELSE (t % c) + 1
<1>1. t % c \in 0 .. c - 1 /\ t \div c \in Int /\ t = (c * (t \div c)) + (t % c)
  BY SMTT(30)
<1>2. /\ (t + 1) % c \in 0 .. c - 1 /\ (t + 1) \div c \in Int
      /\ t + 1 = (c * ((t + 1) \div c)) + ((t + 1) % c)
  BY SMTT(30)
<1>3. PICK a \in Int, b \in Int, u \in 0 .. c - 1, v \in 0 .. c - 1 :
         /\ a = t \div c /\ b = (t + 1) \div c /\ u = t % c /\ v = (t + 1) % c
  BY <1>1, <1>2, Zenon
<1>4. (c * a) + u + 1 = (c * b) + v
  <2>1. t = (c * a) + u /\ t + 1 = (c * b) + v
    BY <1>1, <1>2, <1>3, Zenon
  <2> QED
    BY <2>1, Zenon
<1>5. v = IF u = c - 1 THEN 0 ELSE u + 1
  BY <1>4, NextRemainder
<1> QED
  BY <1>1, <1>3, <1>5, Zenon
-----------------------------------------------------------------------------
\* the generator that batch i of a run goes to, counted from 0, when the strategy is rule
\* and the random choices are draws
Pick(rule, draws, i) ==
    IF Count = 1 THEN 0 ELSE IF rule = "round-robin" THEN i % Count ELSE draws[i + 1]

\* how many of the first n batches go to a generator
Share(rule, draws, g, n) == Cardinality({i \in 0 .. n - 1 : Pick(rule, draws, i) = g})

Drawn == strategy # "round-robin" /\ Count # 1

TypeInv ==
    /\ NumberInv /\ IsFiniteSet(batches)
    /\ setup \in Setups /\ run \in {1, 2} /\ picks \in Seq(Generators)
    /\ Calls <= setup.calls

\* tickets are taken one by one, and answered from picks
TicketInv ==
    /\ ticket = IF Count = 1 THEN 0 ELSE Calls
    /\ Drawn => Len(picks) = IF run = 1 THEN Calls ELSE setup.calls

\* every batch that was begun is the generator's that its ticket chose
ShareInv == \A g \in Generators : Assigned(g) = Share(strategy, picks, g, Calls)

\* round robin is at the generator of the next ticket, in some round
RoundInv ==
    strategy = "round-robin" =>
        \E round \in Nat : \A g \in Generators :
            Assigned(g) = round + IF g < Calls % Count THEN 1 ELSE 0

\* the first run ended with every generator's share of all batches
FirstInv ==
    run = 2 =>
        first.batches = {b \in Generators \X (Nat \ {0}) :
                            b[2] <= Share(strategy, picks, b[1], setup.calls)}

SeedInv == TypeInv /\ TicketInv /\ ShareInv /\ RoundInv /\ FirstInv

LEMMA CallsType ==
    ASSUME NumberInv, IsFiniteSet(batches)
    PROVE  /\ Calls \in Nat /\ IsFiniteSet(InCall)
           /\ \A g \in Generators : /\ IsFiniteSet({p \in Producers : chosen[p] = g})
                                    /\ Assigned(g) \in Nat
<1>1. IsFiniteSet(InCall) /\ IsFiniteSet(Producers)
  BY SelectAssumption, FS_Subset DEF InCall
<1>2. Calls \in Nat
  BY <1>1, FS_CardinalityType DEF Calls
<1>3. ASSUME NEW g \in Generators
      PROVE  IsFiniteSet({p \in Producers : chosen[p] = g}) /\ Assigned(g) \in Nat
  <2>1. IsFiniteSet({p \in Producers : chosen[p] = g})
    BY <1>1, FS_Subset
  <2>2. sequence[g] \in Nat
    BY DEF NumberInv, TypeOK
  <2> QED
    BY <2>1, <2>2, FS_CardinalityType DEF Assigned
<1> QED
  BY <1>1, <1>2, <1>3

\* A ticket begins one batch, of the generator it chose.
LEMMA TicketStep ==
    ASSUME NumberInv, IsFiniteSet(batches), NEW p \in Producers, NextIndex(p)
    PROVE  /\ Calls' = Calls + 1 /\ chosen'[p] \in Generators
           /\ \A g \in Generators :
                 Assigned(g)' = Assigned(g) + IF g = chosen'[p] THEN 1 ELSE 0
<1> DEFINE h == chosen'[p]
<1>1. /\ chosen \in [Producers -> Generators \cup {None}] /\ chosen[p] = None
      /\ h \in Generators /\ chosen' = [chosen EXCEPT ![p] = h]
      /\ UNCHANGED <<sequence, batches>>
  BY DEF NumberInv, TypeOK, NextIndex
<1>2. None \notin Generators
  BY DEF None, Generators
<1>3. InCall' = InCall \cup {p} /\ p \notin InCall
  BY <1>1, <1>2 DEF InCall
<1>4. Calls' = Calls + 1
  <2>1. IsFiniteSet(InCall) /\ Cardinality(batches) \in Nat
    BY CallsType, FS_CardinalityType
  <2>2. Cardinality(InCall)' = Cardinality(InCall) + 1
    BY <1>3, <2>1, FS_AddElement
  <2> QED
    BY <1>1, <2>1, <2>2, FS_CardinalityType DEF Calls
<1>5. ASSUME NEW g \in Generators
      PROVE  Assigned(g)' = Assigned(g) + IF g = h THEN 1 ELSE 0
  <2> DEFINE In == {q \in Producers : chosen[q] = g}
  <2>1. IsFiniteSet(In) /\ sequence[g] \in Nat
    BY CallsType DEF NumberInv, TypeOK
  <2>2. Cardinality(In) \in Nat /\ Cardinality(In \cup {p}) = IF p \in In THEN Cardinality(In)
                                                              ELSE Cardinality(In) + 1
    BY <2>1, FS_CardinalityType, FS_AddElement
  <2>3. CASE g = h
    <3>1. {q \in Producers : chosen'[q] = g} = In \cup {p} /\ p \notin In
      BY <1>1, <1>2, <2>3
    <3>2. Cardinality({q \in Producers : chosen'[q] = g}) = Cardinality(In) + 1
      BY <2>2, <3>1, Zenon
    <3>3. Assigned(g)' = sequence[g] + Cardinality({q \in Producers : chosen'[q] = g})
      BY <1>1, Zenon DEF Assigned
    <3>4. Assigned(g) = sequence[g] + Cardinality(In)
      BY DEF Assigned
    <3> HIDE DEF In
    <3> QED
      BY <2>1, <2>2, <2>3, <3>2, <3>3, <3>4
  <2>4. CASE g # h
    <3>1. {q \in Producers : chosen'[q] = g} = In
      BY <1>1, <1>2, <2>4
    <3> QED
      BY <1>1, <2>1, <2>2, <2>4, <3>1 DEF Assigned
  <2> QED
    BY <2>3, <2>4
<1> QED
  BY <1>1, <1>4, <1>5

\* Numbering a batch moves it from those begun to those numbered.
LEMMA NumberStep ==
    ASSUME NumberInv, IsFiniteSet(batches), NEW p \in Producers, GenerateBatch(p)
    PROVE  /\ Calls' = Calls /\ IsFiniteSet(batches')
           /\ \A g \in Generators : Assigned(g)' = Assigned(g)
<1> DEFINE h == chosen[p]
<1>1. /\ chosen \in [Producers -> Generators \cup {None}] /\ h \in Generators
      /\ sequence \in [Generators -> Nat] /\ chosen' = [chosen EXCEPT ![p] = None]
      /\ sequence' = [sequence EXCEPT ![h] = sequence[h] + 1]
      /\ batches' = batches \cup {<<h, sequence[h] + 1>>}
  BY DEF NumberInv, TypeOK, GenerateBatch
<1>2. <<h, sequence[h] + 1>> \notin batches
  BY <1>1 DEF NumberInv, Numbered
<1>3. None \notin Generators
  BY DEF None, Generators
<1>4. InCall' = InCall \ {p} /\ p \in InCall
  BY <1>1, <1>3 DEF InCall
<1>5. Cardinality(batches') = Cardinality(batches) + 1 /\ IsFiniteSet(batches')
  BY <1>1, <1>2, FS_AddElement
<1>6. Calls' = Calls
  <2>1. IsFiniteSet(InCall) /\ Cardinality(batches) \in Nat
    BY CallsType, FS_CardinalityType
  <2>2. Cardinality(InCall)' = Cardinality(InCall) - 1 /\ Cardinality(InCall) \in Nat
    BY <1>4, <2>1, FS_RemoveElement, FS_CardinalityType
  <2> QED
    BY <1>5, <2>1, <2>2 DEF Calls
<1>7. ASSUME NEW g \in Generators PROVE Assigned(g)' = Assigned(g)
  <2> DEFINE In == {q \in Producers : chosen[q] = g}
  <2>1. IsFiniteSet(In) /\ sequence[g] \in Nat
    BY <1>1, CallsType
  <2>2. Cardinality(In) \in Nat /\ Cardinality(In \ {p}) = IF p \in In THEN Cardinality(In) - 1
                                                           ELSE Cardinality(In)
    BY <2>1, FS_CardinalityType, FS_RemoveElement
  <2>3. {q \in Producers : chosen'[q] = g} = In \ {p}
    BY <1>1, <1>3
  <2>4. CASE g = h
    <3>1. p \in In /\ sequence'[g] = sequence[g] + 1
      BY <1>1, <2>4
    <3>2. Cardinality({q \in Producers : chosen'[q] = g}) = Cardinality(In) - 1
      BY <2>2, <2>3, <3>1, Zenon
    <3>3. Assigned(g)' = sequence'[g] + Cardinality({q \in Producers : chosen'[q] = g})
      BY Zenon DEF Assigned
    <3>4. Assigned(g) = sequence[g] + Cardinality(In)
      BY DEF Assigned
    <3> HIDE DEF In
    <3> QED
      BY <2>1, <2>2, <3>1, <3>2, <3>3, <3>4
  <2>5. CASE g # h
    BY <1>1, <2>1, <2>2, <2>3, <2>5 DEF Assigned
  <2> QED
    BY <2>4, <2>5
<1> QED
  BY <1>5, <1>6, <1>7

LEMMA NextShare ==
    ASSUME NEW rule, NEW old, NEW new, NEW n \in Nat, NEW h,
           \A i \in 0 .. n - 1 : Pick(rule, new, i) = Pick(rule, old, i),
           Pick(rule, new, n) = h
    PROVE  \A g \in Generators :
              Share(rule, new, g, n + 1) = Share(rule, old, g, n) + IF g = h THEN 1 ELSE 0
<1> SUFFICES ASSUME NEW g \in Generators
             PROVE  Share(rule, new, g, n + 1) = Share(rule, old, g, n) + IF g = h THEN 1 ELSE 0
  OBVIOUS
<1> DEFINE Old == {i \in 0 .. n - 1 : Pick(rule, old, i) = g}
           New == {i \in 0 .. n : Pick(rule, new, i) = g}
<1>1. 0 .. n = (0 .. n - 1) \cup {n} /\ n \notin 0 .. n - 1 /\ (n + 1) - 1 = n
  OBVIOUS
<1>2. IsFiniteSet(Old) /\ Cardinality(Old) \in Nat /\ n \notin Old
  <2>1. IsFiniteSet(0 .. n - 1)
    BY FS_Interval
  <2> QED
    BY <1>1, <2>1, FS_Subset, FS_CardinalityType
<1>3. Cardinality(Old \cup {n}) = Cardinality(Old) + 1
  BY <1>2, FS_AddElement
<1>4. New = IF g = h THEN Old \cup {n} ELSE Old
  BY <1>1
<1>5. Share(rule, old, g, n) = Cardinality(Old) /\ Share(rule, new, g, n + 1) = Cardinality(New)
  BY <1>1, Zenon DEF Share
<1> HIDE DEF Old, New
<1>6. CASE g = h
  BY <1>2, <1>3, <1>4, <1>5, <1>6
<1>7. CASE g # h
  BY <1>2, <1>4, <1>5, <1>7
<1> QED
  BY <1>6, <1>7

LEMMA NoShare == \A rule, draws, g : Share(rule, draws, g, 0) = 0
<1>1. 0 .. 0 - 1 = {}
  OBVIOUS
<1> QED
  BY <1>1, FS_EmptySet DEF Share

LEMMA NoRound == \A g \in Generators : 0 + (IF g < 0 % Count THEN 1 ELSE 0) = 0
<1>1. 0 % Count = 0
  BY SelectAssumption, SMTT(30)
<1> QED
  BY <1>1 DEF Generators

LEMMA InitSeedInv == SeededInit => SeedInv
<1> SUFFICES ASSUME SeededInit PROVE SeedInv
  OBVIOUS
<1>1. NumberInv /\ IsFiniteSet(batches) /\ picks \in Seq(Generators) /\ run \in {1, 2}
  BY InitNumberInv, FS_EmptySet DEF SeededInit, Init
<1>2. InCall = {} /\ Calls = 0
  <2>1. InCall = {} /\ batches = {}
    BY DEF SeededInit, Init, InCall
  <2>2. Cardinality(InCall) = 0 /\ Cardinality(batches) = 0
    BY <2>1, FS_EmptySet, Zenon
  <2>3. Calls = 0 + 0
    BY <2>2, Zenon DEF Calls
  <2> QED
    BY <2>1, <2>3
<1>3. \A g \in Generators : Assigned(g) = 0
  <2> SUFFICES ASSUME NEW g \in Generators PROVE Assigned(g) = 0
    OBVIOUS
  <2>1. {p \in Producers : chosen[p] = g} = {} /\ sequence[g] = 0
    BY DEF SeededInit, Init, None, Generators
  <2> QED
    BY <2>1, FS_EmptySet DEF Assigned
<1>4. \A g \in Generators : Share(strategy, picks, g, 0) = 0
  BY NoShare
<1>5. TypeInv
  BY <1>1, <1>2, SetupAssumption DEF TypeInv, SeededInit
<1>6. TicketInv
  BY <1>2 DEF TicketInv, SeededInit, Init
<1>7. ShareInv
  BY <1>2, <1>3, <1>4 DEF ShareInv
<1>8. RoundInv
  BY <1>2, <1>3, NoRound DEF RoundInv
<1>9. FirstInv
  BY DEF FirstInv, SeededInit
<1> QED
  BY <1>5, <1>6, <1>7, <1>8, <1>9 DEF SeedInv

\* What a ticket chooses is remembered, and changes no earlier choice.
LEMMA PickStep ==
    ASSUME SeedInv, NEW p \in Producers, Choose(p)
    PROVE  /\ \/ run = 2 /\ picks' = picks
              \/ ~Drawn /\ picks' = picks
              \/ run = 1 /\ Drawn /\ picks' = Append(picks, chosen'[p])
           /\ \A i \in 0 .. Calls - 1 : Pick(strategy, picks', i) = Pick(strategy, picks, i)
           /\ Pick(strategy, picks', Calls) = chosen'[p]
<1> DEFINE h == chosen'[p]
<1>0. TypeInv /\ TicketInv
  BY DEF SeedInv
<1>1. NextIndex(p) /\ Calls < setup.calls /\ UNCHANGED strategy
  BY DEF Choose, NextIndex
<1>2. Calls \in Nat /\ Calls' = Calls + 1 /\ h \in Generators
  BY <1>0, <1>1, CallsType, TicketStep DEF TypeInv
<1>3. setup.calls \in Nat
  BY <1>0, SetupAssumption DEF TypeInv
<1>4. \/ run = 2 /\ picks' = picks
      \/ ~Drawn /\ picks' = picks
      \/ run = 1 /\ Drawn /\ picks' = Append(picks, h)
  BY <1>0, <1>1, <1>2, <1>3 DEF Choose, TicketInv, TypeInv, Drawn
<1>5. \A i \in 0 .. Calls - 1 : Pick(strategy, picks', i) = Pick(strategy, picks, i)
  <2>1. CASE picks' = picks
    BY <2>1
  <2>2. CASE run = 1 /\ Drawn /\ picks' = Append(picks, h)
    <3> SUFFICES ASSUME NEW i \in 0 .. Calls - 1 PROVE picks'[i + 1] = picks[i + 1]
      BY DEF Pick
    <3>1. i + 1 \in 1 .. Len(picks)
      BY <1>0, <1>2, <2>2 DEF TicketInv
    <3> QED
      BY <1>0, <2>2, <3>1 DEF TypeInv
  <2> QED
    BY <1>4, <2>1, <2>2
<1>6. Pick(strategy, picks', Calls) = h
  <2>1. CASE Count = 1
    BY <1>2, <2>1 DEF Pick, Generators
  <2>2. CASE Count # 1 /\ strategy = "round-robin"
    BY <1>0, <1>1, <2>2, SelectAssumption DEF Pick, TicketInv, NextIndex, TypeInv, NumberInv, TypeOK
  <2>3. CASE Drawn
    BY <1>0, <1>1, <1>2, <1>3, <2>3 DEF Pick, TicketInv, Choose, TypeInv, Drawn
  <2> QED
    BY <2>1, <2>2, <2>3 DEF Drawn
<1> QED
  BY <1>4, <1>5, <1>6

LEMMA ChooseKeeps ==
    ASSUME SeedInv, NEW p \in Producers, Choose(p)
    PROVE  SeedInv'
<1> DEFINE h == chosen'[p]
<1>0. TypeInv /\ TicketInv /\ ShareInv /\ RoundInv /\ FirstInv
  BY DEF SeedInv
<1>1. /\ NextIndex(p) /\ Calls < setup.calls
      /\ UNCHANGED <<strategy, batches, setup, run, first>>
  BY DEF Choose, NextIndex, chaos
<1>2. NumberInv'
  BY <1>0, <1>1, NumberInvInductive DEF TypeInv, Next
<1>3. /\ Calls \in Nat /\ Calls' = Calls + 1 /\ h \in Generators
      /\ \A g \in Generators : Assigned(g) \in Nat
      /\ \A g \in Generators : Assigned(g)' = Assigned(g) + IF g = h THEN 1 ELSE 0
  BY <1>0, <1>1, CallsType, TicketStep DEF TypeInv
<1>4. setup.calls \in Nat
  BY <1>0, SetupAssumption DEF TypeInv
<1>5. ticket' = IF Count = 1 THEN 0 ELSE Calls'
  BY <1>0, <1>1, <1>3 DEF TicketInv, NextIndex
<1>6. \/ run = 2 /\ picks' = picks
      \/ ~Drawn /\ picks' = picks
      \/ run = 1 /\ Drawn /\ picks' = Append(picks, h)
  BY PickStep
<1>7. picks' \in Seq(Generators)
  BY <1>0, <1>3, <1>6 DEF TypeInv
<1>8. TypeInv'
  BY <1>0, <1>1, <1>2, <1>3, <1>4, <1>7 DEF TypeInv
<1>9. TicketInv'
  <2>1. Drawn' = Drawn
    BY <1>1 DEF Drawn
  <2>2. Drawn => Len(picks') = IF run = 1 THEN Calls + 1 ELSE setup.calls
    BY <1>0, <1>6 DEF TypeInv, TicketInv
  <2> QED
    BY <1>1, <1>3, <1>5, <2>1, <2>2 DEF TicketInv
<1>10. \A i \in 0 .. Calls - 1 : Pick(strategy, picks', i) = Pick(strategy, picks, i)
  BY PickStep
<1>11. Pick(strategy, picks', Calls) = h
  BY PickStep
<1>12. ShareInv'
  <2>1. \A g \in Generators : Share(strategy, picks', g, Calls + 1) =
           Share(strategy, picks, g, Calls) + IF g = h THEN 1 ELSE 0
    BY <1>3, <1>10, <1>11, NextShare
  <2> QED
    BY <1>0, <1>1, <1>3, <2>1 DEF ShareInv
<1>13. RoundInv'
  <2> SUFFICES ASSUME strategy = "round-robin"
               PROVE  \E round \in Nat : \A g \in Generators :
                         Assigned(g)' = round + IF g < (Calls + 1) % Count THEN 1 ELSE 0
    BY <1>1, <1>3 DEF RoundInv
  <2>1. PICK round \in Nat : \A g \in Generators :
           Assigned(g) = round + IF g < Calls % Count THEN 1 ELSE 0
    BY <1>0 DEF RoundInv
  <2>2. h = Calls % Count
    <3>1. CASE Count = 1
      BY <1>3, <3>1, ModStep DEF Generators
    <3>2. CASE Count # 1
      BY <1>11, <3>2 DEF Pick
    <3> QED
      BY <3>1, <3>2
  <2>3. (Calls + 1) % Count = IF h = Count - 1 THEN 0 ELSE h + 1
    BY <1>3, <2>2, ModStep, SelectAssumption
  <2>4. \A g \in Generators : g \in 0 .. Count - 1
    BY DEF Generators
  <2>5. CASE h = Count - 1
    <3>1. \A g \in Generators : Assigned(g)' = round + 1
      BY <1>3, <2>1, <2>2, <2>4, <2>5, SelectAssumption
    <3> QED
      BY <2>3, <2>4, <2>5, <3>1, SelectAssumption
  <2>6. CASE h # Count - 1
    <3>1. \A g \in Generators : Assigned(g)' = round + IF g < h + 1 THEN 1 ELSE 0
      BY <1>3, <2>1, <2>2, <2>4, SelectAssumption
    <3> QED
      BY <2>3, <2>6, <3>1
  <2> QED
    BY <2>5, <2>6
<1>14. FirstInv'
  <2>1. CASE run = 2
    <3>1. \A i \in 0 .. setup.calls - 1 : Pick(strategy, picks', i) = Pick(strategy, picks, i)
      BY <1>6, <2>1 DEF Pick, Drawn
    <3>2. \A g : Share(strategy, picks', g, setup.calls) = Share(strategy, picks, g, setup.calls)
      BY <3>1 DEF Share
    <3> QED
      BY <1>0, <1>1, <3>2 DEF FirstInv
  <2>2. CASE run # 2
    BY <1>1, <2>2 DEF FirstInv
  <2> QED
    BY <2>1, <2>2
<1> QED
  BY <1>8, <1>9, <1>12, <1>13, <1>14 DEF SeedInv

LEMMA GenerateKeeps ==
    ASSUME SeedInv, NEW p \in Producers, Generate(p)
    PROVE  SeedInv'
<1>0. TypeInv /\ TicketInv /\ ShareInv /\ RoundInv /\ FirstInv
  BY DEF SeedInv
<1>1. GenerateBatch(p) /\ UNCHANGED <<setup, picks, run, first>>
  BY DEF Generate, seeds
<1>2. NumberInv' /\ UNCHANGED <<strategy, ticket>>
  BY <1>0, <1>1, NumberInvInductive DEF TypeInv, Next, GenerateBatch
<1>3. /\ Calls' = Calls /\ IsFiniteSet(batches')
      /\ \A g \in Generators : Assigned(g)' = Assigned(g)
  BY <1>0, <1>1, NumberStep DEF TypeInv
<1>4. TypeInv'
  BY <1>0, <1>1, <1>2, <1>3 DEF TypeInv
<1>5. TicketInv'
  BY <1>0, <1>1, <1>2, <1>3 DEF TicketInv, Drawn
<1>6. ShareInv'
  BY <1>0, <1>1, <1>2, <1>3 DEF ShareInv
<1>7. RoundInv'
  BY <1>0, <1>2, <1>3 DEF RoundInv
<1>8. FirstInv'
  BY <1>0, <1>1, <1>2 DEF FirstInv
<1> QED
  BY <1>4, <1>5, <1>6, <1>7, <1>8 DEF SeedInv

\* When nobody is inside a call, what was numbered is what the tickets chose.
LEMMA SharesAtEnd ==
    ASSUME SeedInv, Ended
    PROVE  batches = {b \in Generators \X (Nat \ {0}) :
                          b[2] <= Share(strategy, picks, b[1], setup.calls)}
<1>1. \A g \in Generators : sequence[g] = Share(strategy, picks, g, setup.calls)
  <2> SUFFICES ASSUME NEW g \in Generators
               PROVE  sequence[g] = Share(strategy, picks, g, setup.calls)
    OBVIOUS
  <2>1. {p \in Producers : chosen[p] = g} = {}
    BY DEF Ended, InCall, None, Generators
  <2>2. Assigned(g) = sequence[g] + 0
    BY <2>1, FS_EmptySet, Zenon DEF Assigned
  <2>3. sequence[g] \in Nat /\ Assigned(g) = Share(strategy, picks, g, setup.calls)
    BY DEF SeedInv, TypeInv, NumberInv, TypeOK, ShareInv, Ended
  <2> QED
    BY <2>2, <2>3
<1> QED
  BY <1>1 DEF SeedInv, TypeInv, NumberInv, Numbered

LEMMA NewRunKeeps ==
    ASSUME SeedInv, NewRun
    PROVE  SeedInv'
<1>0. TypeInv /\ TicketInv /\ ShareInv /\ RoundInv /\ FirstInv
  BY DEF SeedInv
<1>1. /\ Ended /\ run = 1 /\ run' = 2 /\ first'.batches = batches
      /\ ticket' = 0 /\ sequence' = [g \in Generators |-> 0]
      /\ chosen' = [p \in Producers |-> None] /\ batches' = {} /\ repeated' = FALSE
      /\ UNCHANGED <<strategy, setup, picks>>
  BY DEF NewRun, seeds
<1>2. NumberInv'
  <2>1. TypeOK'
    BY <1>0, <1>1 DEF TypeInv, NumberInv, TypeOK
  <2>2. \A b \in Generators \X (Nat \ {0}) : ~(b[2] <= sequence'[b[1]])
    BY <1>1
  <2>3. Numbered'
    BY <1>1, <2>2 DEF Numbered
  <2> QED
    BY <2>1, <2>3 DEF NumberInv
<1>3. Calls' = 0 /\ Calls = setup.calls
  <2>1. InCall' = {}
    BY <1>1 DEF InCall
  <2>2. Calls' = 0 + 0
    BY <1>1, <2>1, FS_EmptySet, Zenon DEF Calls
  <2> QED
    BY <1>1, <2>2 DEF Ended
<1>4. \A g \in Generators : Assigned(g)' = 0
  <2> SUFFICES ASSUME NEW g \in Generators PROVE Assigned(g)' = 0
    OBVIOUS
  <2>1. {p \in Producers : chosen'[p] = g} = {} /\ sequence'[g] = 0
    BY <1>1 DEF None, Generators
  <2>2. Assigned(g)' = 0 + 0
    BY <2>1, FS_EmptySet, Zenon DEF Assigned
  <2> QED
    BY <2>2
<1>5. TypeInv'
  BY <1>0, <1>1, <1>2, <1>3, FS_EmptySet, SetupAssumption DEF TypeInv
<1>6. TicketInv'
  BY <1>0, <1>1, <1>3 DEF TicketInv, Drawn
<1>7. ShareInv'
  BY <1>1, <1>3, <1>4, NoShare DEF ShareInv
<1>8. RoundInv'
  BY <1>3, <1>4, NoRound DEF RoundInv
<1>9. FirstInv'
  BY <1>1, SharesAtEnd DEF FirstInv
<1> QED
  BY <1>5, <1>6, <1>7, <1>8, <1>9 DEF SeedInv

LEMMA UnseenKeeps ==
    ASSUME SeedInv, UNCHANGED <<vars, setup, picks, run, first>>
    PROVE  SeedInv'
<1>1. UNCHANGED <<strategy, ticket, sequence, chosen, batches, repeated>>
  BY DEF vars
<1>2. NumberInv'
  BY NumberInvInductive DEF SeedInv, TypeInv
<1>3. Calls' = Calls /\ \A g \in Generators : Assigned(g)' = Assigned(g)
  BY <1>1 DEF Calls, InCall, Assigned
<1>4. TypeInv'
  BY <1>1, <1>2, <1>3 DEF SeedInv, TypeInv
<1>5. TicketInv'
  BY <1>1, <1>3 DEF SeedInv, TicketInv, Drawn
<1>6. ShareInv' /\ RoundInv' /\ FirstInv'
  BY <1>1, <1>3 DEF SeedInv, ShareInv, RoundInv, FirstInv
<1> QED
  BY <1>4, <1>5, <1>6 DEF SeedInv

\* The seeds and the tickets alone decide how many batches of each scenario a run has,
\* in whatever order the producers take tickets and numbers.
THEOREM SeedInvariance == SeededSpec => []SeedInv
<1>1. SeedInv /\ [SeededNext]_seededVars => SeedInv'
  <2> SUFFICES ASSUME SeedInv, [SeededNext]_seededVars PROVE SeedInv'
    OBVIOUS
  <2>1. ASSUME NEW p \in Producers, Choose(p) PROVE SeedInv'
    BY <2>1, ChooseKeeps
  <2>2. ASSUME NEW p \in Producers, Generate(p) PROVE SeedInv'
    BY <2>2, GenerateKeeps
  <2>3. ASSUME NEW p \in Producers, ShouldApply(p) PROVE SeedInv'
    BY <2>3, UnseenKeeps DEF ShouldApply, seeds
  <2>4. CASE NewRun
    BY <2>4, NewRunKeeps
  <2>5. CASE UNCHANGED seededVars
    BY <2>5, UnseenKeeps DEF seededVars
  <2> QED
    BY <2>1, <2>2, <2>3, <2>4, <2>5 DEF SeededNext, Over
<1> QED
  BY <1>1, InitSeedInv, PTL DEF SeededSpec

\* Batch numbers neither repeat nor leave a gap, in either run.
THEOREM NumbersAreUniqueInRuns == SeededSpec => []EveryNumberOnce
<1>1. SeedInv => EveryNumberOnce
  BY NumberedOnce DEF SeedInv, TypeInv
<1> QED
  BY <1>1, SeedInvariance, PTL

\* At any moment the batches that were begun are spread over the scenarios evenly.
THEOREM RoundRobinFairness == SeededSpec => []RoundRobinIsFair
<1>1. ASSUME SeedInv PROVE RoundRobinIsFair
  <2> SUFFICES ASSUME strategy = "round-robin", NEW g \in Generators, NEW h \in Generators,
                      g < h
               PROVE  Assigned(g) - Assigned(h) \in {0, 1}
    BY DEF RoundRobinIsFair
  <2>1. PICK round \in Nat : \A k \in Generators :
           Assigned(k) = round + IF k < Calls % Count THEN 1 ELSE 0
    BY <1>1 DEF SeedInv, RoundInv
  <2>2. Calls % Count \in Int
    BY <1>1, CallsType, ModStep, SelectAssumption DEF SeedInv, TypeInv
  <2> QED
    BY <2>1, <2>2 DEF Generators
<1> QED
  BY <1>1, SeedInvariance, PTL

\* A second run with the seeds of the first ends with the same generators and numbers,
\* and so with the same traces.
THEOREM SeedsFixTraces == SeededSpec => []SameTraces
<1>1. ASSUME SeedInv PROVE SameTraces
  BY <1>1, SharesAtEnd DEF SameTraces, SeedInv, FirstInv
<1> QED
  BY <1>1, SeedInvariance, PTL

-----------------------------------------------------------------------------
(* The decisions of the chaos stage. *)

\* where an exporter may be in the stage with one of the batches bs
Stops(bs) == [of : bs, span : 1 .. setup.spans, policy : 1 .. setup.policies]

Places == [of : Int \X Nat, span : Nat, policy : Nat]

\* all decisions about the batches bs
AllOf(bs) == bs \X (1 .. setup.spans) \X (1 .. setup.policies)

\* the decision made at a stop, and those that are left from there on
Slot(at) == <<at.of, at.span, at.policy>>

Ahead(at) ==
    {t \in AllOf({at.of}) : t[2] > at.span \/ (t[2] = at.span /\ t[3] >= at.policy)}

Pending(p) == IF work[p] = Idle THEN {} ELSE Ahead(work[p])

Decided == {t \in AllOf(batches) : \A p \in Producers : t \notin Pending(p)}

\* the draws up to n that were below the probability
Hits(draws, n) == {i \in 1 .. n : draws[i] = TRUE}

\* exporters are inside the stage with different batches that were generated
StageInv ==
    /\ drawn \in Nat /\ luck \in Seq(BOOLEAN) /\ drawn <= Len(luck)
    /\ work \in [Producers -> Places]
    /\ \A p \in Producers : work[p] # Idle => work[p] \in Stops(batches) /\ chosen[p] = None
    /\ \A p, q \in Producers :
          p # q /\ work[p] # Idle /\ work[q] # Idle => work[p].of # work[q].of

\* every decision was one draw, whose luck says whether the policy was applied
DrawInv ==
    /\ IsFiniteSet(Decided) /\ Cardinality(Decided) = drawn
    /\ applied \subseteq Decided /\ Cardinality(applied) = Cardinality(Hits(luck, drawn))

\* so it was in the first run, whose draws are still known
FirstDrawInv ==
    run = 2 =>
        /\ Cardinality(AllOf(first.batches)) \in 0 .. Len(luck)
        /\ Cardinality(first.applied) =
              Cardinality(Hits(luck, Cardinality(AllOf(first.batches))))

NumberOfHitsInv == SeedInv /\ StageInv /\ (setup.mode = "all" => DrawInv /\ FirstDrawInv)

LEMMA SetupType ==
    ASSUME SeedInv
    PROVE  /\ setup.active \subseteq Producers /\ setup.calls \in Nat
           /\ setup.spans \in Nat \ {0} /\ setup.policies \in Nat
           /\ setup.policies # 0 => setup.policies \in Nat \ {0}
  BY SetupAssumption DEF SeedInv, TypeInv

\* the stop after a stop: the next policy, the next span, or out of the stage
NextPolicy(at) == [of |-> at.of, span |-> at.span, policy |-> at.policy + 1]
NextSpan(at)   == [of |-> at.of, span |-> at.span + 1, policy |-> 1]

LEMMA AfterIs ==
    ASSUME NEW bs, NEW at \in Stops(bs), NEW hit \in BOOLEAN
    PROVE  After(at, hit) =
              IF at.policy < setup.policies /\ ~(hit /\ setup.mode = "first_match")
              THEN NextPolicy(at)
              ELSE IF at.span < setup.spans THEN NextSpan(at) ELSE Idle
<1>1. /\ at.span \in 1 .. setup.spans /\ at.policy \in 1 .. setup.policies
      /\ at = [of |-> at.of, span |-> at.span, policy |-> at.policy]
  BY DEF Stops
<1>2. [at EXCEPT !.policy = @ + 1] = NextPolicy(at)
  BY <1>1 DEF NextPolicy
<1>3. [at EXCEPT !.span = @ + 1, !.policy = 1] = NextSpan(at)
  <2>1. PICK x : x = [at EXCEPT !.span = @ + 1, !.policy = 1]
    OBVIOUS
  <2>2. x = NextSpan(at)
    BY <1>1, <2>1 DEF NextSpan
  <2> QED
    BY <2>1, <2>2, Zenon
<1> QED
  BY <1>2, <1>3, Zenon DEF After

LEMMA AfterStop ==
    ASSUME SeedInv, NEW bs, NEW at \in Stops(bs), NEW hit \in BOOLEAN
    PROVE  \/ /\ at.policy < setup.policies /\ NextPolicy(at) \in Stops(bs)
              /\ After(at, hit) = NextPolicy(at)
           \/ /\ at.policy = setup.policies \/ setup.mode # "all"
              /\ at.span < setup.spans /\ NextSpan(at) \in Stops(bs)
              /\ After(at, hit) = NextSpan(at)
           \/ /\ at.policy = setup.policies \/ setup.mode # "all"
              /\ at.span = setup.spans /\ After(at, hit) = Idle
<1>1. setup.spans \in Nat \ {0} /\ setup.policies \in Nat
  BY SetupType
<1>2. /\ at.span \in 1 .. setup.spans /\ at.policy \in 1 .. setup.policies /\ at.of \in bs
  BY DEF Stops
<1>3. CASE at.policy < setup.policies /\ ~(hit /\ setup.mode = "first_match")
  <2>1. After(at, hit) = NextPolicy(at)
    BY <1>3, AfterIs, Zenon
  <2>2. NextPolicy(at) \in Stops(bs)
    BY <1>1, <1>2, <1>3 DEF NextPolicy, Stops
  <2> QED
    BY <1>3, <2>1, <2>2
<1>4. CASE ~(at.policy < setup.policies /\ ~(hit /\ setup.mode = "first_match"))
  <2>1. at.policy = setup.policies \/ setup.mode # "all"
    BY <1>1, <1>2, <1>4
  <2>2. CASE at.span < setup.spans
    <3>1. After(at, hit) = NextSpan(at)
      BY <1>4, <2>2, AfterIs, Zenon
    <3>2. NextSpan(at) \in Stops(bs)
      BY <1>1, <1>2, <2>2 DEF NextSpan, Stops
    <3> QED
      BY <2>1, <2>2, <3>1, <3>2
  <2>3. CASE ~(at.span < setup.spans)
    <3>1. After(at, hit) = Idle
      BY <1>4, <2>3, AfterIs, Zenon
    <3> QED
      BY <1>1, <1>2, <2>1, <2>3, <3>1
  <2> QED
    BY <2>2, <2>3
<1> QED
  BY <1>3, <1>4

LEMMA StopIsBusy ==
    ASSUME NEW bs, NEW at \in Stops(bs)
    PROVE  at # Idle
  BY DEF Stops, Idle

\* With every policy tried, a decision takes exactly its own slot from what is left.
LEMMA AheadStep ==
    ASSUME SeedInv, setup.mode = "all", NEW bs, NEW at \in Stops(bs), NEW hit \in BOOLEAN
    PROVE  /\ Slot(at) \in Ahead(at)
           /\ After(at, hit) # Idle => Ahead(After(at, hit)) = Ahead(at) \ {Slot(at)}
           /\ After(at, hit) = Idle => Ahead(at) = {Slot(at)}
<1>1. setup.spans \in Nat \ {0} /\ setup.policies \in Nat
  BY SetupType
<1> DEFINE S == 1 .. setup.spans
           P == 1 .. setup.policies
           b == at.of
           i == at.span
           k == at.policy
<1>2. i \in S /\ k \in P /\ at \in [of : bs, span : S, policy : P]
  BY DEF Stops
<1>3. \A x : /\ x.of = b => Ahead(x) =
                  {t \in {b} \X S \X P : t[2] > x.span \/ (t[2] = x.span /\ t[3] >= x.policy)}
  BY DEF Ahead, AllOf
<1>4. Ahead(at) = {t \in {b} \X S \X P : t[2] > i \/ (t[2] = i /\ t[3] >= k)}
  BY <1>3
<1>5. Slot(at) \in Ahead(at)
  BY <1>1, <1>2, <1>4 DEF Slot
<1>6. CASE k < setup.policies /\ After(at, hit) = NextPolicy(at)
  <2>1. Ahead(NextPolicy(at)) =
           {t \in {b} \X S \X P : t[2] > i \/ (t[2] = i /\ t[3] >= k + 1)}
    BY <1>3 DEF NextPolicy
  <2>2. \A t \in {b} \X S \X P :
           (t[2] > i \/ (t[2] = i /\ t[3] >= k + 1)) <=>
              (t[2] > i \/ (t[2] = i /\ t[3] >= k)) /\ t # <<b, i, k>>
    BY <1>1, <1>2
  <2>3. Ahead(NextPolicy(at)) = Ahead(at) \ {Slot(at)}
    BY <1>4, <2>1, <2>2 DEF Slot
  <2>4. NextPolicy(at) # Idle
    BY <1>1, <1>2 DEF NextPolicy, Idle
  <2> QED
    BY <1>5, <1>6, <2>3, <2>4
<1>7. CASE k = setup.policies /\ After(at, hit) = NextSpan(at)
  <2>1. Ahead(NextSpan(at)) =
           {t \in {b} \X S \X P : t[2] > i + 1 \/ (t[2] = i + 1 /\ t[3] >= 1)}
    BY <1>3 DEF NextSpan
  <2>2. \A t \in {b} \X S \X P :
           (t[2] > i + 1 \/ (t[2] = i + 1 /\ t[3] >= 1)) <=>
              (t[2] > i \/ (t[2] = i /\ t[3] >= k)) /\ t # <<b, i, k>>
    BY <1>1, <1>2, <1>7
  <2>3. Ahead(NextSpan(at)) = Ahead(at) \ {Slot(at)}
    BY <1>4, <2>1, <2>2 DEF Slot
  <2>4. NextSpan(at) # Idle
    BY <1>1, <1>2 DEF NextSpan, Idle
  <2> QED
    BY <1>5, <1>7, <2>3, <2>4
<1>8. CASE k = setup.policies /\ i = setup.spans /\ After(at, hit) = Idle
  <2>1. \A t \in {b} \X S \X P :
           t[2] > i \/ (t[2] = i /\ t[3] >= k) <=> t = <<b, i, k>>
    BY <1>1, <1>2, <1>8
  <2>2. Ahead(at) = {Slot(at)}
    BY <1>4, <1>5, <2>1 DEF Slot
  <2> QED
    BY <1>5, <1>8, <2>2
<1> QED
  BY <1>6, <1>7, <1>8, AfterStop
-----------------------------------------------------------------------------
\* A decision takes the next number, whose luck is known from then on.
LEMMA DrawStep ==
    ASSUME SeedInv, StageInv, NEW p \in Producers, ShouldApply(p)
    PROVE  /\ work[p] \in Stops(batches) /\ chosen[p] = None
           /\ drawn' = drawn + 1 /\ luck' \in Seq(BOOLEAN) /\ drawn + 1 <= Len(luck')
           /\ Len(luck) <= Len(luck') /\ \A i \in 1 .. Len(luck) : luck'[i] = luck[i]
           /\ run = 2 /\ drawn < Len(luck) => luck' = luck
           /\ drawn = Len(luck) => Len(luck') = drawn + 1
           /\ work' = [work EXCEPT ![p] = After(work[p], luck'[drawn + 1])]
           /\ applied' = applied \cup IF luck'[drawn + 1] THEN {Slot(work[p])} ELSE {}
           /\ UNCHANGED <<vars, setup, picks, run, first>>
<1> DEFINE n == drawn + 1
<1>1. /\ work[p] # Idle /\ drawn' = n /\ UNCHANGED <<vars, setup, picks, run, first>>
      /\ IF n <= Len(luck) THEN UNCHANGED luck
         ELSE \E below \in BOOLEAN : luck' = Append(luck, below)
      /\ LET hit == (n <= Len(luck) /\ Random(n)) \/ (n > Len(luck) /\ luck'[n])
         IN  /\ applied' = applied \cup IF ~hit THEN {} ELSE
                               {<<work[p].of, work[p].span, work[p].policy>>}
             /\ work' = [work EXCEPT ![p] = After(@, hit)]
  BY DEF ShouldApply, Numbers, seeds
<1>2. work[p] \in Stops(batches) /\ chosen[p] = None
  BY <1>1 DEF StageInv
<1>3. drawn \in Nat /\ luck \in Seq(BOOLEAN) /\ drawn <= Len(luck)
  BY DEF StageInv
<1>4. CASE n <= Len(luck)
  <2>1. luck' = luck
    BY <1>1, <1>4
  <2>2. ((n <= Len(luck) /\ Random(n)) \/ (n > Len(luck) /\ luck'[n])) = luck'[n]
    <3>1. luck[n] \in BOOLEAN /\ ~(n > Len(luck))
      BY <1>3, <1>4
    <3> QED
      BY <1>4, <2>1, <3>1, Zenon DEF Random
  <2>3. /\ applied' = applied \cup IF ~luck'[n] THEN {} ELSE {Slot(work[p])}
        /\ work' = [work EXCEPT ![p] = After(@, luck'[n])]
    BY <1>1, <2>2, Zenon DEF Slot
  <2>4. applied' = applied \cup IF luck'[n] THEN {Slot(work[p])} ELSE {}
    BY <2>3, Zenon
  <2>5. luck' \in Seq(BOOLEAN) /\ n <= Len(luck') /\ Len(luck) <= Len(luck')
    BY <1>3, <1>4, <2>1
  <2>6. drawn # Len(luck)
    BY <1>3, <1>4
  <2> QED
    BY <1>1, <1>2, <2>1, <2>3, <2>4, <2>5, <2>6, Zenon
<1>5. CASE ~(n <= Len(luck))
  <2>1. PICK below \in BOOLEAN : luck' = Append(luck, below)
    BY <1>1, <1>5
  <2>2. n = Len(luck) + 1 /\ n > Len(luck) /\ drawn = Len(luck) /\ ~(drawn < Len(luck))
    BY <1>3, <1>5
  <2>3. /\ luck' \in Seq(BOOLEAN) /\ Len(luck') = n /\ luck'[n] = below
        /\ \A i \in 1 .. Len(luck) : luck'[i] = luck[i]
    BY <1>3, <2>1, <2>2
  <2>4. ((n <= Len(luck) /\ Random(n)) \/ (n > Len(luck) /\ luck'[n])) = luck'[n]
    BY <1>5, <2>2, <2>3, Zenon
  <2>5. /\ applied' = applied \cup IF ~luck'[n] THEN {} ELSE {Slot(work[p])}
        /\ work' = [work EXCEPT ![p] = After(@, luck'[n])]
    BY <1>1, <2>4, Zenon DEF Slot
  <2>6. applied' = applied \cup IF luck'[n] THEN {Slot(work[p])} ELSE {}
    BY <2>5, Zenon
  <2>7. n <= Len(luck') /\ Len(luck) <= Len(luck')
    BY <1>3, <2>2, <2>3
  <2> QED
    BY <1>1, <1>2, <2>2, <2>3, <2>5, <2>6, <2>7, Zenon
<1> QED
  BY <1>4, <1>5

\* A batch is numbered once, so that it is new to the stage.
LEMMA BatchIsNew ==
    ASSUME SeedInv, NEW p \in Producers, Generate(p)
    PROVE  LET b == <<chosen[p], sequence[chosen[p]] + 1>>
           IN  /\ chosen[p] \in Generators /\ b \in Int \X Nat
               /\ b \notin batches /\ batches' = batches \cup {b}
               /\ chosen' = [chosen EXCEPT ![p] = None]
               /\ work' = IF setup.policies = 0 THEN work
                          ELSE [work EXCEPT ![p] = [of |-> b, span |-> 1, policy |-> 1]]
               /\ UNCHANGED <<strategy, ticket, setup, picks, run, luck, drawn, applied, first>>
<1> DEFINE g == chosen[p]
           n == sequence[g] + 1
<1>0. TypeOK /\ Numbered
  BY DEF SeedInv, TypeInv, NumberInv
<1>1. GenerateBatch(p) /\ UNCHANGED <<setup, picks, run, luck, drawn, applied, first>>
  BY DEF Generate, seeds
<1>2. g \in Generators /\ sequence[g] \in Nat /\ n \in Nat \ {0} /\ g \in Int
  BY <1>0, <1>1 DEF TypeOK, GenerateBatch, None, Generators
<1>3. sequence'[g] = n
  BY <1>0, <1>1, <1>2 DEF TypeOK, GenerateBatch
<1>4. /\ batches' = batches \cup {<<g, n>>} /\ chosen' = [chosen EXCEPT ![p] = None]
      /\ UNCHANGED <<strategy, ticket>>
  BY <1>1, <1>3 DEF GenerateBatch
<1>5. <<g, n>> \notin batches
  BY <1>0, <1>2 DEF Numbered
<1>6. work' = IF setup.policies = 0 THEN work
              ELSE [work EXCEPT ![p] = [of |-> <<g, n>>, span |-> 1, policy |-> 1]]
  BY <1>3 DEF Generate
<1> QED
  BY <1>1, <1>2, <1>4, <1>5, <1>6
-----------------------------------------------------------------------------
LEMMA StageDraws ==
    ASSUME SeedInv, StageInv, NEW p \in Producers, ShouldApply(p)
    PROVE  StageInv'
<1> DEFINE at == work[p]
           nx == After(at, luck'[drawn + 1])
<1>1. /\ at \in Stops(batches) /\ drawn' = drawn + 1
      /\ luck' \in Seq(BOOLEAN) /\ drawn + 1 <= Len(luck')
      /\ work' = [work EXCEPT ![p] = nx]
      /\ UNCHANGED <<chosen, batches, setup>>
  BY DrawStep DEF vars
<1>2. luck'[drawn + 1] \in BOOLEAN
  BY <1>1 DEF StageInv
<1>3. nx = Idle \/ (nx \in Stops(batches) /\ nx.of = at.of)
  <2>1. NextPolicy(at).of = at.of /\ NextSpan(at).of = at.of
    BY DEF NextPolicy, NextSpan
  <2> QED
    BY <1>1, <1>2, <2>1, AfterStop
<1>4. \A b : b \in Stops(batches) => b \in Places
  <2>1. batches \subseteq Int \X Nat
    BY DEF SeedInv, TypeInv, NumberInv, TypeOK, Generators
  <2>2. setup.spans \in Nat /\ setup.policies \in Nat
    BY SetupType
  <2> QED
    BY <2>1, <2>2 DEF Stops, Places
<1>5. Idle \in Places
  BY DEF Idle, Places, None
<1> HIDE DEF nx
<1>6. work' \in [Producers -> Places]
  BY <1>1, <1>3, <1>4, <1>5 DEF StageInv
<1>7. \A q \in Producers : work'[q] = IF q = p THEN nx ELSE work[q]
  BY <1>1 DEF StageInv
<1>8. Stops(batches)' = Stops(batches)
  BY <1>1 DEF Stops
<1>9. ASSUME NEW q \in Producers, work'[q] # Idle
      PROVE  work'[q] \in Stops(batches)' /\ chosen'[q] = None /\ work[q] # Idle
             /\ work'[q].of = work[q].of
  <2>1. CASE q = p
    BY <1>1, <1>3, <1>7, <1>8, <1>9, <2>1, StopIsBusy DEF StageInv
  <2>2. CASE q # p
    BY <1>1, <1>7, <1>8, <1>9, <2>2 DEF StageInv
  <2> QED
    BY <2>1, <2>2
<1>10. \A q, r \in Producers :
          q # r /\ work'[q] # Idle /\ work'[r] # Idle => work'[q].of # work'[r].of
  BY <1>9 DEF StageInv
<1>11. drawn' \in Nat /\ luck' \in Seq(BOOLEAN) /\ drawn' <= Len(luck')
  BY <1>1 DEF StageInv
<1> QED
  BY <1>6, <1>9, <1>10, <1>11 DEF StageInv

LEMMA StageGenerates ==
    ASSUME SeedInv, StageInv, NEW p \in Producers, Generate(p)
    PROVE  StageInv'
<1> DEFINE b == <<chosen[p], sequence[chosen[p]] + 1>>
           at == [of |-> b, span |-> 1, policy |-> 1]
<1>1. /\ chosen[p] \in Generators /\ b \in Int \X Nat /\ b \notin batches
      /\ batches' = batches \cup {b} /\ chosen' = [chosen EXCEPT ![p] = None]
      /\ work' = IF setup.policies = 0 THEN work ELSE [work EXCEPT ![p] = at]
      /\ UNCHANGED <<setup, luck, drawn>>
  BY BatchIsNew
<1>2. chosen \in [Producers -> Generators \cup {None}]
  BY DEF SeedInv, TypeInv, NumberInv, TypeOK
<1>3. at \in Places
  BY <1>1 DEF Places
<1>4. \A q \in Producers : chosen'[q] = IF q = p THEN None ELSE chosen[q]
  BY <1>1, <1>2
<1>5. \A x : x \in Stops(batches) => x \in Stops(batches)' /\ x.of # b
  BY <1>1 DEF Stops
<1>6. /\ drawn \in Nat /\ luck \in Seq(BOOLEAN) /\ drawn <= Len(luck)
      /\ work \in [Producers -> Places]
      /\ \A q \in Producers : work[q] # Idle => work[q] \in Stops(batches) /\ chosen[q] = None
      /\ \A q, r \in Producers :
            q # r /\ work[q] # Idle /\ work[r] # Idle => work[q].of # work[r].of
  BY DEF StageInv
<1>7. CASE setup.policies = 0
  <2>1. work' = work
    BY <1>1, <1>7
  <2>2. \A q \in Producers :
           work'[q] # Idle => work'[q] \in Stops(batches)' /\ chosen'[q] = None
    BY <1>4, <1>5, <1>6, <2>1
  <2> QED
    BY <1>1, <1>6, <2>1, <2>2 DEF StageInv
<1>8. CASE setup.policies # 0
  <2>0. at \in Stops(batches)' /\ at.of = b
    BY <1>1, <1>8, SetupType DEF Stops
  <2> HIDE DEF at, b
  <2>1. work' = [work EXCEPT ![p] = at]
    BY <1>1, <1>8
  <2>2. work' \in [Producers -> Places]
    BY <1>3, <1>6, <2>1
  <2>3. \A q \in Producers : work'[q] = IF q = p THEN at ELSE work[q]
    BY <1>6, <2>1
  <2>4. \A q \in Producers :
           work'[q] # Idle => work'[q] \in Stops(batches)' /\ chosen'[q] = None
    BY <1>4, <1>5, <1>6, <2>0, <2>3
  <2>5. \A q, r \in Producers :
           q # r /\ work'[q] # Idle /\ work'[r] # Idle => work'[q].of # work'[r].of
    BY <1>5, <1>6, <2>0, <2>3
  <2> QED
    BY <1>1, <1>6, <2>2, <2>4, <2>5 DEF StageInv
<1> QED
  BY <1>7, <1>8

\* Nobody who is in the stage takes a ticket.
LEMMA StageStays ==
    ASSUME SeedInv, StageInv, UNCHANGED <<setup, batches, luck, drawn, work>>,
           \A q \in Producers : work[q] # Idle => chosen'[q] = chosen[q]
    PROVE  StageInv'
<1>1. Stops(batches)' = Stops(batches)
  BY DEF Stops
<1> QED
  BY <1>1 DEF StageInv

LEMMA ChooseLeavesStage ==
    ASSUME SeedInv, NEW p \in Producers, Choose(p)
    PROVE  /\ UNCHANGED <<setup, batches, run, luck, drawn, work, applied, first>>
           /\ \A q \in Producers : work[q] # Idle => chosen'[q] = chosen[q]
<1>1. chosen \in [Producers -> Generators \cup {None}] /\ work[p] = Idle
  BY DEF SeedInv, TypeInv, NumberInv, TypeOK, Choose
<1>2. \E index : chosen' = [chosen EXCEPT ![p] = index]
  BY DEF Choose, NextIndex
<1>3. UNCHANGED <<setup, batches, run, luck, drawn, work, applied, first>>
  BY DEF Choose, NextIndex, chaos
<1> QED
  BY <1>1, <1>2, <1>3

LEMMA StageRestarts ==
    ASSUME StageInv, NewRun
    PROVE  StageInv'
<1>1. drawn' = 0 /\ work' = [p \in Producers |-> Idle] /\ luck' = luck
  BY DEF NewRun
<1>2. Idle \in Places
  BY DEF Idle, Places, None
<1> HIDE DEF Idle
<1>3. work' \in [Producers -> Places] /\ \A p \in Producers : work'[p] = Idle
  BY <1>1, <1>2
<1>4. luck \in Seq(BOOLEAN) => Len(luck) \in Nat
  OBVIOUS
<1> QED
  BY <1>1, <1>3, <1>4 DEF StageInv
-----------------------------------------------------------------------------
LEMMA HitsStep ==
    ASSUME NEW n \in Nat, NEW old, NEW new, \A i \in 1 .. n : new[i] = old[i],
           new[n + 1] \in BOOLEAN
    PROVE  /\ Hits(new, n) = Hits(old, n)
           /\ Cardinality(Hits(new, n + 1)) =
                 Cardinality(Hits(old, n)) + IF new[n + 1] THEN 1 ELSE 0
<1>1. Hits(new, n) = Hits(old, n)
  BY DEF Hits
<1>2. 1 .. n + 1 = (1 .. n) \cup {n + 1} /\ n + 1 \notin 1 .. n
  OBVIOUS
<1>3. IsFiniteSet(Hits(new, n)) /\ n + 1 \notin Hits(new, n)
  <2>1. IsFiniteSet(1 .. n)
    BY FS_Interval
  <2> QED
    BY <1>2, <2>1, FS_Subset DEF Hits
<1>4. Cardinality(Hits(new, n)) \in Nat
  BY <1>3, FS_CardinalityType
<1>5. CASE new[n + 1]
  <2>1. new[n + 1] = TRUE
    BY <1>5
  <2>2. Hits(new, n + 1) = Hits(new, n) \cup {n + 1}
    BY <1>2, <2>1, Zenon DEF Hits
  <2>3. Cardinality(Hits(new, n + 1)) = Cardinality(Hits(new, n)) + 1
    BY <1>3, <2>2, FS_AddElement
  <2> QED
    BY <1>1, <1>5, <2>3, Zenon
<1>6. CASE ~new[n + 1]
  <2>1. new[n + 1] # TRUE
    BY <1>6
  <2>2. Hits(new, n + 1) = Hits(new, n)
    BY <1>2, <2>1, Zenon DEF Hits
  <2>3. Cardinality(Hits(new, n + 1)) = Cardinality(Hits(new, n)) + 0
    BY <1>4, <2>2
  <2> QED
    BY <1>1, <1>6, <2>3, Zenon
<1> QED
  BY <1>5, <1>6

LEMMA DecidedGrows ==
    ASSUME SeedInv, StageInv, setup.mode = "all", NEW p \in Producers, ShouldApply(p)
    PROVE  Decided' = Decided \cup {Slot(work[p])} /\ Slot(work[p]) \notin Decided
<1> DEFINE at == work[p]
           t == Slot(at)
           nx == After(at, luck'[drawn + 1])
<1>1. /\ at \in Stops(batches) /\ at # Idle /\ work' = [work EXCEPT ![p] = nx]
      /\ luck' \in Seq(BOOLEAN) /\ drawn + 1 <= Len(luck') /\ drawn \in Nat
      /\ UNCHANGED <<batches, setup>>
  BY DrawStep, StopIsBusy DEF vars, StageInv
<1>2. luck'[drawn + 1] \in BOOLEAN
  BY <1>1
<1>3. t \in Pending(p) /\ (IF nx = Idle THEN {} ELSE Ahead(nx)) = Pending(p) \ {t}
  <2>1. t \in Ahead(at) /\ Pending(p) = Ahead(at)
    BY <1>1, <1>2, AheadStep DEF Pending
  <2>2. (IF nx = Idle THEN {} ELSE Ahead(nx)) = Ahead(at) \ {t}
    BY <1>1, <1>2, AheadStep
  <2> QED
    BY <2>1, <2>2
<1>4. \A b : AllOf(b)' = AllOf(b) /\ \A x : Ahead(x)' = Ahead(x)
  BY <1>1 DEF AllOf, Ahead
<1>5. t \in AllOf(batches)
  BY <1>1 DEF Stops, Slot, AllOf
<1>6. \A q \in Producers : q # p => Pending(q)' = Pending(q) /\ t \notin Pending(q)
  <2> SUFFICES ASSUME NEW q \in Producers, q # p
               PROVE  Pending(q)' = Pending(q) /\ t \notin Pending(q)
    OBVIOUS
  <2>1. work'[q] = work[q]
    BY <1>1 DEF StageInv
  <2>2. Pending(q)' = Pending(q)
    BY <1>4, <2>1 DEF Pending
  <2>3. work[q] # Idle => work[q].of # at.of
    BY <1>1 DEF StageInv
  <2>4. t \notin Pending(q)
    BY <2>3 DEF Pending, Ahead, AllOf, Slot
  <2> QED
    BY <2>2, <2>4
<1>7. Pending(p)' = Pending(p) \ {t}
  <2>1. work'[p] = nx
    BY <1>1 DEF StageInv
  <2>2. Pending(p)' = IF nx = Idle THEN {} ELSE Ahead(nx)
    BY <1>4, <2>1 DEF Pending
  <2> QED
    BY <1>3, <2>2
<1>8. AllOf(batches)' = AllOf(batches)
  BY <1>1 DEF AllOf
<1> HIDE DEF t, nx, at
<1>9. \A x \in AllOf(batches) :
         (\A q \in Producers : x \notin Pending(q)') <=>
            ((\A q \in Producers : x \notin Pending(q)) \/ x = t)
  BY <1>6, <1>7
<1>10. Decided' = Decided \cup {t} /\ t \notin Decided
  BY <1>3, <1>5, <1>8, <1>9 DEF Decided
<1> QED
  BY <1>10 DEF t, at

LEMMA CountDraws ==
    ASSUME NumberOfHitsInv, setup.mode = "all", NEW p \in Producers, ShouldApply(p)
    PROVE  DrawInv' /\ FirstDrawInv'
<1> DEFINE t == Slot(work[p])
           n == drawn + 1
<1>0. SeedInv /\ StageInv /\ DrawInv /\ FirstDrawInv
  BY DEF NumberOfHitsInv
<1>1. /\ drawn' = n /\ luck' \in Seq(BOOLEAN) /\ n <= Len(luck')
      /\ Len(luck) <= Len(luck') /\ \A i \in 1 .. Len(luck) : luck'[i] = luck[i]
      /\ applied' = applied \cup IF luck'[n] THEN {t} ELSE {}
      /\ UNCHANGED <<setup, run, first>>
  BY <1>0, DrawStep
<1>2. drawn \in Nat /\ drawn <= Len(luck) /\ luck \in Seq(BOOLEAN)
  BY <1>0 DEF StageInv
<1>3. Decided' = Decided \cup {t} /\ t \notin Decided
  BY <1>0, DecidedGrows
<1> HIDE DEF t
<1>4. luck'[n] \in BOOLEAN /\ Len(luck) \in Nat /\ Len(luck') \in Nat
  BY <1>1, <1>2
<1>5. IsFiniteSet(Decided') /\ Cardinality(Decided') = n
  <2>1. IsFiniteSet(Decided) /\ Cardinality(Decided) = drawn
    BY <1>0 DEF DrawInv
  <2> QED
    BY <1>3, <2>1, FS_AddElement
<1>6. applied' \subseteq Decided'
  BY <1>0, <1>1, <1>3 DEF DrawInv
<1>7. Cardinality(applied') = Cardinality(applied) + IF luck'[n] THEN 1 ELSE 0
  <2>1. IsFiniteSet(applied) /\ t \notin applied
    BY <1>0, <1>3, FS_Subset DEF DrawInv
  <2>2. Cardinality(applied) \in Nat /\ Cardinality(applied \cup {t}) = Cardinality(applied) + 1
    BY <2>1, FS_AddElement, FS_CardinalityType
  <2>3. CASE luck'[n]
    <3>1. applied' = applied \cup {t}
      BY <1>1, <2>3, Zenon
    <3> QED
      BY <2>2, <2>3, <3>1, Zenon
  <2>4. CASE ~luck'[n]
    <3>1. applied' = applied
      BY <1>1, <2>4
    <3>2. Cardinality(applied') = Cardinality(applied) + 0
      BY <2>2, <3>1
    <3> QED
      BY <2>4, <3>2, Zenon
  <2> QED
    BY <2>3, <2>4
<1>8. Cardinality(Hits(luck', n)) = Cardinality(Hits(luck, drawn)) + IF luck'[n] THEN 1 ELSE 0
  <2>1. \A i \in 1 .. drawn : luck'[i] = luck[i]
    BY <1>1, <1>2, <1>4
  <2> QED
    BY <1>2, <1>4, <2>1, HitsStep
<1>9. DrawInv'
  <2>1. Cardinality(applied') = Cardinality(Hits(luck', drawn'))
    BY <1>0, <1>1, <1>7, <1>8, Zenon DEF DrawInv
  <2> QED
    BY <1>1, <1>5, <1>6, <2>1, Zenon DEF DrawInv
<1>10. FirstDrawInv'
  <2> SUFFICES ASSUME run = 2 PROVE FirstDrawInv'
    BY <1>1 DEF FirstDrawInv
  <2>1. PICK m : m = Cardinality(AllOf(first.batches))
    OBVIOUS
  <2>2. Cardinality(AllOf(first.batches))' = m
    BY <1>1, <2>1 DEF AllOf
  <2>3. m \in 0 .. Len(luck) /\ Cardinality(first.applied) = Cardinality(Hits(luck, m))
    BY <1>0, <2>1 DEF FirstDrawInv
  <2>4. Hits(luck', m) = Hits(luck, m)
    BY <1>1, <1>4, <2>3 DEF Hits
  <2>5. m \in 0 .. Len(luck')
    BY <1>1, <1>4, <2>3
  <2> QED
    BY <1>1, <2>2, <2>3, <2>4, <2>5 DEF FirstDrawInv
<1> QED
  BY <1>9, <1>10

LEMMA CountStays ==
    ASSUME DrawInv, FirstDrawInv, Decided' = Decided,
           UNCHANGED <<setup, run, drawn, luck, applied, first>>
    PROVE  DrawInv' /\ FirstDrawInv'
<1>1. \A b : AllOf(b)' = AllOf(b)
  BY DEF AllOf
<1> QED
  BY <1>1 DEF DrawInv, FirstDrawInv

\* A batch that enters the stage has all its decisions ahead.
LEMMA CountGenerates ==
    ASSUME SeedInv, StageInv, NEW p \in Producers, Generate(p)
    PROVE  Decided' = Decided
<1> DEFINE b == <<chosen[p], sequence[chosen[p]] + 1>>
           at == [of |-> b, span |-> 1, policy |-> 1]
<1>1. /\ b \notin batches /\ batches' = batches \cup {b} /\ UNCHANGED setup
      /\ work' = IF setup.policies = 0 THEN work ELSE [work EXCEPT ![p] = at]
      /\ chosen[p] \in Generators
  BY BatchIsNew
<1>2. work[p] = Idle
  BY <1>1 DEF StageInv, None, Generators
<1>3. setup.spans \in Nat \ {0} /\ setup.policies \in Nat
  BY SetupType
<1> HIDE DEF b
<1>4. CASE setup.policies = 0
  <2>1. \A c : AllOf(c) = {} /\ AllOf(c)' = {}
    BY <1>1, <1>4 DEF AllOf
  <2> QED
    BY <2>1 DEF Decided
<1>5. CASE setup.policies # 0
  <2>1. \A q \in Producers : work'[q] = IF q = p THEN at ELSE work[q]
    BY <1>1, <1>5 DEF StageInv
  <2>2. \A x : AllOf(x)' = AllOf(x) /\ Ahead(x)' = Ahead(x)
    BY <1>1 DEF AllOf, Ahead
  <2>3. \A t : t \in AllOf(batches') <=> t \in AllOf(batches) \/ t \in AllOf({b})
    BY <1>1 DEF AllOf
  <2>4. Ahead(at) = AllOf({b})
    <3>1. at.of = b /\ at.span = 1 /\ at.policy = 1
      OBVIOUS
    <3>2. \A t \in AllOf({b}) : t[2] > 1 \/ (t[2] = 1 /\ t[3] >= 1)
      BY <1>3 DEF AllOf
    <3> QED
      BY <3>1, <3>2 DEF Ahead
  <2>5. at # Idle
    BY DEF Idle
  <2> HIDE DEF at
  <2>6. Pending(p)' = AllOf({b}) /\ Pending(p) = {}
    BY <1>2, <2>1, <2>2, <2>4, <2>5 DEF Pending
  <2>7. \A q \in Producers : q # p => Pending(q)' = Pending(q)
    BY <2>1, <2>2 DEF Pending
  <2>8. \A t \in AllOf(batches) : t \notin AllOf({b})
    BY <1>1 DEF AllOf
  <2>9. \A t : t \in Decided' <=> t \in Decided
    BY <2>2, <2>3, <2>6, <2>7, <2>8 DEF Decided
  <2> QED
    BY <2>9
<1> QED
  BY <1>4, <1>5

\* The first run ends with one draw for every decision there is.
LEMMA CountRestarts ==
    ASSUME SeedInv, StageInv, DrawInv, NewRun
    PROVE  DrawInv' /\ FirstDrawInv'
<1>1. /\ Busy = {} /\ drawn' = 0 /\ applied' = {} /\ batches' = {} /\ run' = 2
      /\ first' = [batches |-> batches, applied |-> applied]
      /\ UNCHANGED <<setup, luck>>
  BY DEF NewRun, Ended, seeds
<1>2. AllOf({}) = {} /\ \A x : AllOf(x)' = AllOf(x)
  BY <1>1 DEF AllOf
<1>3. Decided' = {}
  BY <1>1, <1>2 DEF Decided
<1>4. Hits(luck', 0) = {}
  BY DEF Hits
<1>5. IsFiniteSet({}) /\ Cardinality({}) = 0
  BY FS_EmptySet
<1>6. DrawInv'
  BY <1>1, <1>3, <1>4, <1>5 DEF DrawInv
<1>7. Decided = AllOf(batches)
  BY <1>1 DEF Decided, Busy, Pending
<1>8. Cardinality(AllOf(batches)) = drawn /\ drawn \in 0 .. Len(luck)
  BY <1>7 DEF DrawInv, StageInv
<1>9. first'.batches = batches /\ first'.applied = applied
  BY <1>1
<1>10. Cardinality(AllOf(first.batches))' = drawn
  BY <1>2, <1>8, <1>9
<1>11. FirstDrawInv'
  BY <1>1, <1>8, <1>9, <1>10 DEF FirstDrawInv, DrawInv
<1> QED
  BY <1>6, <1>11

LEMMA InitNumberOfHits == SeededInit => NumberOfHitsInv
<1> SUFFICES ASSUME SeededInit PROVE NumberOfHitsInv
  OBVIOUS
<1>1. /\ drawn = 0 /\ applied = {} /\ work = [p \in Producers |-> Idle]
      /\ luck = <<>> /\ batches = {} /\ run = 1
  BY DEF SeededInit, Init
<1>2. Idle \in Places
  BY DEF Idle, Places, None
<1>3. StageInv
  <2> HIDE DEF Idle
  <2> QED
    BY <1>1, <1>2 DEF StageInv
<1>4. Decided = {} /\ Hits(luck, 0) = {}
  BY <1>1 DEF Decided, AllOf, Hits
<1>5. DrawInv /\ FirstDrawInv
  BY <1>1, <1>4, FS_EmptySet DEF DrawInv, FirstDrawInv
<1> QED
  BY <1>3, <1>5, InitSeedInv DEF NumberOfHitsInv

\* Exporters are never in the stage with the same batch, every decision they make takes
\* one number of its own, and what was decided and applied can be counted by the draws.
THEOREM DrawInvariance == SeededSpec => []NumberOfHitsInv
<1>1. NumberOfHitsInv /\ SeedInv' /\ [SeededNext]_seededVars => NumberOfHitsInv'
  <2> SUFFICES ASSUME NumberOfHitsInv, SeedInv', [SeededNext]_seededVars
               PROVE  StageInv' /\ (setup'.mode = "all" => DrawInv' /\ FirstDrawInv')
    BY DEF NumberOfHitsInv
  <2>0. SeedInv /\ StageInv /\ (setup.mode = "all" => DrawInv /\ FirstDrawInv)
    BY DEF NumberOfHitsInv
  <2>1. ASSUME NEW p \in Producers, Choose(p)
        PROVE  StageInv' /\ (setup'.mode = "all" => DrawInv' /\ FirstDrawInv')
    <3>1. /\ UNCHANGED <<setup, batches, run, luck, drawn, work, applied, first>>
          /\ \A q \in Producers : work[q] # Idle => chosen'[q] = chosen[q]
      BY <2>0, <2>1, ChooseLeavesStage
    <3>2. Decided' = Decided
      BY <3>1 DEF Decided, AllOf, Pending, Ahead
    <3> QED
      BY <2>0, <3>1, <3>2, StageStays, CountStays
  <2>2. ASSUME NEW p \in Producers, Generate(p)
        PROVE  StageInv' /\ (setup'.mode = "all" => DrawInv' /\ FirstDrawInv')
    BY <2>0, <2>2, StageGenerates, CountGenerates, CountStays, BatchIsNew
  <2>3. ASSUME NEW p \in Producers, ShouldApply(p)
        PROVE  StageInv' /\ (setup'.mode = "all" => DrawInv' /\ FirstDrawInv')
    <3>1. setup' = setup
      BY <2>0, <2>3, DrawStep
    <3> QED
      BY <2>0, <2>3, <3>1, StageDraws, CountDraws
  <2>4. CASE NewRun
    <3>1. setup' = setup
      BY <2>4 DEF NewRun, seeds
    <3> QED
      BY <2>0, <2>4, <3>1, StageRestarts, CountRestarts
  <2>5. CASE UNCHANGED seededVars
    <3>1. /\ UNCHANGED <<setup, batches, run, luck, drawn, work, applied, first>>
          /\ \A q \in Producers : work[q] # Idle => chosen'[q] = chosen[q]
      BY <2>5 DEF seededVars, vars
    <3>2. Decided' = Decided
      BY <3>1 DEF Decided, AllOf, Pending, Ahead
    <3> QED
      BY <2>0, <3>1, <3>2, StageStays, CountStays
  <2> QED
    BY <2>1, <2>2, <2>3, <2>4, <2>5 DEF SeededNext, Over
<1>2. NumberOfHitsInv => SeedInv
  BY DEF NumberOfHitsInv
<1> QED
  BY <1>1, <1>2, InitNumberOfHits, SeedInvariance, PTL DEF SeededSpec

\* Where every policy is tried, a second run with the seeds of the first applies as many
\* policies, however many exporters share the counter and in whatever order they draw.
THEOREM SameNumber == SeededSpec => []SameNumberApplied
<1>1. ASSUME NumberOfHitsInv, Ended, run = 2, setup.mode = "all"
      PROVE  Cardinality(applied) = Cardinality(first.applied)
  <2>1. SeedInv /\ StageInv /\ DrawInv /\ FirstDrawInv
    BY <1>1 DEF NumberOfHitsInv
  <2>2. batches = first.batches
    BY <1>1, <2>1, SharesAtEnd DEF SeedInv, FirstInv
  <2>3. Decided = AllOf(batches)
    BY <1>1 DEF Ended, Decided, Busy, Pending
  <2>4. drawn = Cardinality(AllOf(first.batches))
    BY <2>1, <2>2, <2>3 DEF DrawInv
  <2> QED
    BY <1>1, <2>1, <2>4 DEF DrawInv, FirstDrawInv
<1>2. NumberOfHitsInv => SameNumberApplied
  BY <1>1 DEF SameNumberApplied
<1> QED
  BY <1>2, DrawInvariance, PTL
-----------------------------------------------------------------------------
(* One exporter: the stops it makes follow from the luck of the draws alone. *)

K == Cardinality(batches)

\* the k-th batch of a run with one exporter
BatchNo(k) ==
    LET g == Pick(strategy, picks, k - 1) IN <<g, Share(strategy, picks, g, k)>>

\* the stop at the entry of the stage, with the k-th batch
Entry(k) == [of |-> k, span |-> 1, policy |-> 1]

\* the stop after n decisions, when the i-th was made at walk[i], with its batch counted
Following(draws, walk, n) ==
    IF n = 0 THEN Entry(1)
    ELSE IF After(walk[n], draws[n]) = Idle THEN Entry(walk[n].of + 1)
    ELSE After(walk[n], draws[n])

\* what is applied in n decisions
Taken(draws, walk, n) ==
    {<<BatchNo(walk[i].of), walk[i].span, walk[i].policy>> : i \in Hits(draws, n)}

\* the stop an exporter is at, or will be at with the next batch
Spot(p) == IF work[p] = Idle THEN Entry(K + 1)
           ELSE [of |-> K, span |-> work[p].span, policy |-> work[p].policy]

\* exporter p is drawn decisions into the walk, of which the first run was the whole
WalkInv(p, walk) ==
    /\ Len(walk) = Len(luck)
    /\ \A n \in 1 .. Len(walk) : walk[n] = Following(luck, walk, n - 1)
    /\ \A n \in 1 .. drawn : walk[n].of <= K
    /\ Following(luck, walk, drawn) = Spot(p)
    /\ work[p] # Idle => work[p].of = BatchNo(K)
    /\ applied = Taken(luck, walk, drawn)
    /\ run = 1 => drawn = Len(luck)
    /\ run = 2 =>
          /\ Following(luck, walk, Len(walk)) = Entry(setup.calls + 1)
          /\ first.applied = Taken(luck, walk, Len(walk))

AloneInv(p) ==
    /\ \A r \in Producers : r # p => chosen[r] = None /\ work[r] = Idle
    /\ chosen[p] # None => chosen[p] = Pick(strategy, picks, K)
    /\ setup.policies = 0 => applied = {} /\ first.applied = {}
    /\ setup.policies # 0 => \E walk \in Seq(Stops(1 .. setup.calls)) : WalkInv(p, walk)

LEMMA AloneCalls ==
    ASSUME SeedInv, StageInv, NEW p \in Producers, AloneInv(p)
    PROVE  /\ K \in Nat /\ IsFiniteSet(batches) /\ Calls <= setup.calls
           /\ Calls = IF chosen[p] = None THEN K ELSE K + 1
           /\ work[p] # Idle => K # 0
<1>1. IsFiniteSet(batches) /\ Calls <= setup.calls
  BY DEF SeedInv, TypeInv
<1>2. K \in Nat
  BY <1>1, FS_CardinalityType DEF K
<1>3. InCall = IF chosen[p] = None THEN {} ELSE {p}
  BY DEF InCall, AloneInv
<1>4. Calls = K + Cardinality(InCall)
  BY DEF Calls, K
<1>5. Calls = IF chosen[p] = None THEN K ELSE K + 1
  <2>1. Cardinality({}) = 0 /\ Cardinality({p}) = 1
    BY FS_EmptySet, FS_Singleton
  <2>2. CASE chosen[p] = None
    <3>1. Calls = K + 0
      BY <1>3, <1>4, <2>1, <2>2, Zenon
    <3> QED
      BY <1>2, <2>2, <3>1
  <2>3. CASE chosen[p] # None
    BY <1>3, <1>4, <2>1, <2>3, Zenon
  <2> QED
    BY <2>2, <2>3
<1>6. work[p] # Idle => K # 0
  <2>1. work[p] # Idle => work[p].of \in batches
    BY DEF StageInv, Stops
  <2> QED
    BY <1>1, <2>1, FS_EmptySet DEF K
<1> QED
  BY <1>1, <1>2, <1>5, <1>6

\* Batches that were chosen keep their names.
LEMMA NamesStay ==
    ASSUME NEW n \in Nat, strategy' = strategy,
           \A i \in 0 .. n - 1 : Pick(strategy, picks', i) = Pick(strategy, picks, i)
    PROVE  \A k \in 1 .. n : BatchNo(k)' = BatchNo(k)
<1> SUFFICES ASSUME NEW k \in 1 .. n PROVE BatchNo(k)' = BatchNo(k)
  OBVIOUS
<1>1. k - 1 \in 0 .. n - 1 /\ \A i \in 0 .. k - 1 : i \in 0 .. n - 1
  OBVIOUS
<1>2. Pick(strategy, picks', k - 1) = Pick(strategy, picks, k - 1)
  BY <1>1
<1>3. \A g : {i \in 0 .. k - 1 : Pick(strategy, picks', i) = g} =
                {i \in 0 .. k - 1 : Pick(strategy, picks, i) = g}
  BY <1>1
<1>4. \A g : Share(strategy, picks', g, k) = Share(strategy, picks, g, k)
  BY <1>3, Zenon DEF Share
<1>5. BatchNo(k)' = <<Pick(strategy, picks', k - 1),
                      Share(strategy, picks', Pick(strategy, picks', k - 1), k)>>
  BY DEF BatchNo, Pick, Share
<1> QED
  BY <1>2, <1>4, <1>5 DEF BatchNo

LEMMA GenerateIsNext ==
    ASSUME SeedInv, StageInv, NEW p \in Producers, AloneInv(p), Generate(p)
    PROVE  <<chosen[p], sequence[chosen[p]] + 1>> = BatchNo(K + 1) /\ K' = K + 1
<1> DEFINE g == chosen[p]
<1>1. /\ g \in Generators /\ <<g, sequence[g] + 1>> \notin batches
      /\ batches' = batches \cup {<<g, sequence[g] + 1>>}
  BY BatchIsNew
<1>2. g # None
  BY <1>1 DEF None, Generators
<1>3. K \in Nat /\ Calls = K + 1 /\ IsFiniteSet(batches)
  BY <1>2, AloneCalls
<1>4. K' = K + 1
  BY <1>1, <1>3, FS_AddElement DEF K
<1>5. g = Pick(strategy, picks, K)
  BY <1>2 DEF AloneInv
<1>6. Assigned(g) = sequence[g] + 1
  <2>1. {q \in Producers : chosen[q] = g} = {p}
    BY <1>2 DEF AloneInv
  <2>2. Cardinality({p}) = 1
    BY FS_Singleton
  <2> QED
    BY <2>1, <2>2, Zenon DEF Assigned
<1>7. Assigned(g) = Share(strategy, picks, g, K + 1)
  BY <1>1, <1>3 DEF SeedInv, ShareInv
<1>8. (K + 1) - 1 = K
  BY <1>3
<1>9. BatchNo(K + 1) = <<g, sequence[g] + 1>>
  BY <1>5, <1>6, <1>7, <1>8, Zenon DEF BatchNo
<1> QED
  BY <1>4, <1>9

\* A decision moves an exporter and its spot alike.
LEMMA SpotMoves ==
    ASSUME NEW as, NEW at \in Stops(as), NEW bs, NEW s \in Stops(bs),
           s.span = at.span, s.policy = at.policy, NEW hit \in BOOLEAN
    PROVE  /\ After(s, hit) = Idle <=> After(at, hit) = Idle
           /\ After(at, hit) # Idle =>
                 After(s, hit) = [of |-> s.of, span |-> After(at, hit).span,
                                  policy |-> After(at, hit).policy]
<1>1. /\ at.span \in Nat /\ at.span + 1 # 0 /\ at.span # 0
      /\ NextPolicy(at).span = at.span /\ NextPolicy(s).span = at.span
      /\ NextSpan(at).span = at.span + 1 /\ NextSpan(s).span = at.span + 1
      /\ Idle.span = 0
  BY DEF Stops, NextPolicy, NextSpan, Idle
<1>2. /\ NextPolicy(at) # Idle /\ NextPolicy(s) # Idle
      /\ NextSpan(at) # Idle /\ NextSpan(s) # Idle
  BY <1>1, Zenon
<1>3. /\ NextPolicy(s) = [of |-> s.of, span |-> NextPolicy(at).span, policy |-> NextPolicy(at).policy]
      /\ NextSpan(s) = [of |-> s.of, span |-> NextSpan(at).span, policy |-> NextSpan(at).policy]
  BY DEF NextPolicy, NextSpan
<1>4. CASE at.policy < setup.policies /\ ~(hit /\ setup.mode = "first_match")
  <2>1. After(at, hit) = NextPolicy(at) /\ After(s, hit) = NextPolicy(s)
    BY <1>4, AfterIs, Zenon
  <2> QED
    BY <1>2, <1>3, <2>1, Zenon
<1>5. CASE ~(at.policy < setup.policies /\ ~(hit /\ setup.mode = "first_match"))
  <2>1. CASE at.span < setup.spans
    <3>1. After(at, hit) = NextSpan(at) /\ After(s, hit) = NextSpan(s)
      BY <1>5, <2>1, AfterIs, Zenon
    <3> QED
      BY <1>2, <1>3, <3>1, Zenon
  <2>2. CASE ~(at.span < setup.spans)
    <3>1. After(at, hit) = Idle /\ After(s, hit) = Idle
      BY <1>5, <2>2, AfterIs, Zenon
    <3> QED
      BY <3>1, Zenon
  <2> QED
    BY <2>1, <2>2
<1> QED
  BY <1>4, <1>5

\* The walk goes on from wherever the exporter is; in the second run it was there before.
LEMMA WalkGoesOn ==
    ASSUME SeedInv, StageInv, NEW p \in Producers, AloneInv(p), ShouldApply(p),
           NEW walk \in Seq(Stops(1 .. setup.calls)), WalkInv(p, walk)
    PROVE  /\ Spot(p) \in Stops(1 .. setup.calls) /\ Spot(p).of = K
           /\ \E next \in Seq(Stops(1 .. setup.calls)) :
                 /\ Len(next) = Len(luck') /\ drawn + 1 <= Len(next)
                 /\ next[drawn + 1] = Spot(p) /\ \A i \in 1 .. drawn : next[i] = walk[i]
                 /\ run = 1 => Len(luck') = drawn + 1
                 /\ run = 2 => next = walk /\ luck' = luck
<1> DEFINE at == work[p]
           s == Spot(p)
           B == Stops(1 .. setup.calls)
<1>1. /\ at \in Stops(batches) /\ luck' \in Seq(BOOLEAN)
      /\ run = 2 /\ drawn < Len(luck) => luck' = luck
      /\ drawn = Len(luck) => Len(luck') = drawn + 1
  BY DrawStep
<1>2. at # Idle
  BY <1>1, StopIsBusy
<1>3. K \in 1 .. setup.calls /\ setup.calls \in Nat
  <2>1. K \in Nat /\ K # 0 /\ K <= Calls /\ Calls <= setup.calls /\ Calls \in Nat
    BY <1>2, AloneCalls
  <2> QED
    BY <2>1, SetupType
<1>4. s \in B /\ s.of = K
  <2>1. s = [of |-> K, span |-> at.span, policy |-> at.policy]
    BY <1>2 DEF Spot
  <2> QED
    BY <1>1, <1>3, <2>1 DEF Stops
<1>5. /\ drawn \in Nat /\ drawn <= Len(luck) /\ Len(walk) = Len(luck) /\ Len(luck) \in Nat
      /\ run \in {1, 2} /\ (run = 1 => drawn = Len(luck))
  BY DEF StageInv, WalkInv, SeedInv, TypeInv
<1> HIDE DEF s, B
<1>6. CASE run = 1
  <2> DEFINE w == Append(walk, s)
  <2>1. /\ w \in Seq(B) /\ Len(w) = drawn + 1 /\ w[drawn + 1] = s
        /\ \A i \in 1 .. drawn : w[i] = walk[i]
    BY <1>4, <1>5, <1>6 DEF B
  <2>2. Len(luck') = drawn + 1 /\ run # 2
    BY <1>1, <1>5, <1>6
  <2> HIDE DEF w
  <2> QED
    BY <1>4, <1>5, <1>6, <2>1, <2>2 DEF s, B
<1>7. CASE run = 2
  <2>1. drawn # Len(walk)
    <3> SUFFICES ASSUME drawn = Len(walk) PROVE FALSE
      OBVIOUS
    <3>1. s = Entry(setup.calls + 1)
      BY <1>7 DEF WalkInv, s
    <3>2. s.of = setup.calls + 1
      BY <3>1 DEF Entry
    <3> QED
      BY <1>3, <1>4, <3>2
  <2>2. drawn < Len(luck) /\ drawn + 1 \in 1 .. Len(walk)
    BY <1>5, <2>1
  <2>3. luck' = luck
    BY <1>1, <1>7, <2>2
  <2>4. walk[drawn + 1] = Following(luck, walk, (drawn + 1) - 1)
    BY <2>2 DEF WalkInv
  <2>5. walk[drawn + 1] = s
    BY <1>5, <2>4 DEF WalkInv, s
  <2> QED
    BY <1>4, <1>5, <1>7, <2>2, <2>3, <2>5 DEF s, B
<1> QED
  BY <1>5, <1>6, <1>7

LEMMA FollowingStays ==
    ASSUME NEW draws, NEW more, NEW walk, NEW next, NEW n \in Nat,
           n # 0 => next[n] = walk[n] /\ more[n] = draws[n]
    PROVE  Following(more, next, n) = Following(draws, walk, n)
  BY DEF Following

LEMMA TakenGrows ==
    ASSUME NEW n \in Nat, NEW draws, NEW more, NEW walk, NEW next,
           \A i \in 1 .. n : more[i] = draws[i] /\ next[i] = walk[i],
           more[n + 1] \in BOOLEAN
    PROVE  Taken(more, next, n + 1) =
              Taken(draws, walk, n) \cup
              IF more[n + 1]
              THEN {<<BatchNo(next[n + 1].of), next[n + 1].span, next[n + 1].policy>>} ELSE {}
<1> DEFINE Name(i) == <<BatchNo(next[i].of), next[i].span, next[i].policy>>
<1>1. Taken(draws, walk, n) = {Name(i) : i \in Hits(more, n)}
  BY DEF Taken, Hits
<1>2. Taken(more, next, n + 1) = {Name(i) : i \in Hits(more, n + 1)}
  BY DEF Taken
<1>3. 1 .. n + 1 = (1 .. n) \cup {n + 1}
  OBVIOUS
<1> HIDE DEF Name
<1>4. CASE more[n + 1]
  <2>1. Hits(more, n + 1) = Hits(more, n) \cup {n + 1}
    <3>1. more[n + 1] = TRUE
      BY <1>4
    <3> QED
      BY <1>3, <3>1, Zenon DEF Hits
  <2>2. Taken(more, next, n + 1) = Taken(draws, walk, n) \cup {Name(n + 1)}
    BY <1>1, <1>2, <2>1
  <2> QED
    BY <1>4, <2>2, Zenon DEF Name
<1>5. CASE ~more[n + 1]
  <2>1. Hits(more, n + 1) = Hits(more, n)
    <3>1. more[n + 1] # TRUE
      BY <1>5
    <3> QED
      BY <1>3, <3>1, Zenon DEF Hits
  <2>2. Taken(more, next, n + 1) = Taken(draws, walk, n) \cup {}
    BY <1>1, <1>2, <2>1
  <2> QED
    BY <1>5, <2>2, Zenon
<1> QED
  BY <1>4, <1>5

LEMMA AloneDraws ==
    ASSUME SeedInv, StageInv, NEW p \in Producers, AloneInv(p), ShouldApply(p)
    PROVE  AloneInv(p)'
<1> DEFINE at == work[p]
           s == Spot(p)
           B == Stops(1 .. setup.calls)
           n == drawn + 1
           nx == After(at, luck'[n])
<1>1. /\ at \in Stops(batches) /\ drawn' = n /\ luck' \in Seq(BOOLEAN) /\ n <= Len(luck')
      /\ \A i \in 1 .. Len(luck) : luck'[i] = luck[i]
      /\ work' = [work EXCEPT ![p] = nx]
      /\ applied' = applied \cup IF luck'[n] THEN {Slot(at)} ELSE {}
      /\ UNCHANGED <<chosen, batches, strategy, setup, picks, run, first>>
  BY DrawStep DEF vars
<1>2. drawn \in Nat /\ drawn <= Len(luck) /\ Len(luck) \in Nat
  BY DEF StageInv
<1>3. luck'[n] \in BOOLEAN /\ \A i \in 1 .. drawn : luck'[i] = luck[i]
  BY <1>1, <1>2
<1>4. setup.policies # 0
  BY <1>1, SetupType DEF Stops
<1>5. PICK walk \in Seq(B) : WalkInv(p, walk)
  BY <1>4 DEF AloneInv
<1>6. s \in B /\ s.of = K
  BY <1>5, WalkGoesOn
<1>7. PICK next \in Seq(B) :
         /\ Len(next) = Len(luck') /\ n <= Len(next) /\ next[n] = s
         /\ \A i \in 1 .. drawn : next[i] = walk[i]
         /\ run = 1 => Len(luck') = n
         /\ run = 2 => next = walk /\ luck' = luck
  BY <1>5, WalkGoesOn
<1>8. at # Idle /\ s = [of |-> K, span |-> at.span, policy |-> at.policy]
  BY <1>1, StopIsBusy DEF Spot
<1>9. work'[p] = nx /\ \A r \in Producers : r # p => work'[r] = work[r]
  BY <1>1 DEF StageInv
<1>10. B' = B /\ K' = K /\ BatchNo(K)' = BatchNo(K)
  BY <1>1 DEF Stops, K, BatchNo, Pick, Share
<1>11. \A w, i : /\ Following(luck, w, i)' = Following(luck', w, i)
                 /\ Taken(luck, w, i)' = Taken(luck', w, i)
  BY <1>1 DEF Following, Taken, BatchNo, Pick, Share, After, Hits, Entry
<1>12. \A i \in 0 .. drawn : Following(luck', next, i) = Following(luck, walk, i)
  BY <1>2, <1>3, <1>7, FollowingStays
<1>13. Following(luck', next, n) = Spot(p)'
  <2>1. Following(luck', next, n) =
           IF After(s, luck'[n]) = Idle THEN Entry(K + 1) ELSE After(s, luck'[n])
    BY <1>2, <1>6, <1>7 DEF Following
  <2>2. Spot(p)' = IF nx = Idle THEN Entry(K + 1)
                   ELSE [of |-> K, span |-> nx.span, policy |-> nx.policy]
    BY <1>9, <1>10 DEF Spot, Entry
  <2>3. /\ After(s, luck'[n]) = Idle <=> nx = Idle
        /\ nx # Idle => After(s, luck'[n]) = [of |-> K, span |-> nx.span, policy |-> nx.policy]
    <3>1. s.span = at.span /\ s.policy = at.policy
      BY <1>8
    <3> HIDE DEF s, at
    <3>2. /\ After(s, luck'[n]) = Idle <=> After(at, luck'[n]) = Idle
          /\ After(at, luck'[n]) # Idle =>
                After(s, luck'[n]) = [of |-> s.of, span |-> After(at, luck'[n]).span,
                                      policy |-> After(at, luck'[n]).policy]
      BY <1>1, <1>3, <1>6, <3>1, SpotMoves DEF at
    <3> QED
      BY <1>6, <3>2 DEF at
  <2> HIDE DEF s, nx
  <2>4. CASE nx = Idle
    BY <2>1, <2>2, <2>3, <2>4
  <2>5. CASE nx # Idle
    BY <2>1, <2>2, <2>3, <2>5
  <2> QED
    BY <2>4, <2>5
<1>14. \A i \in 1 .. Len(next) : next[i] = Following(luck', next, i - 1)
  <2>1. \A i \in 1 .. n : next[i] = Following(luck', next, i - 1)
    <3>1. next[n] = Following(luck', next, n - 1)
      BY <1>2, <1>5, <1>7, <1>12 DEF WalkInv
    <3>2. ASSUME NEW i \in 1 .. drawn PROVE next[i] = Following(luck', next, i - 1)
      <4>1. i \in 1 .. Len(walk) /\ i - 1 \in 0 .. drawn
        BY <1>2, <1>5 DEF WalkInv
      <4> QED
        BY <1>5, <1>7, <1>12, <4>1 DEF WalkInv
    <3> QED
      BY <1>2, <3>1, <3>2
  <2>2. CASE run = 1
    BY <1>7, <2>1, <2>2
  <2>3. CASE run = 2
    BY <1>5, <1>7, <2>3 DEF WalkInv
  <2> QED
    BY <2>2, <2>3 DEF SeedInv, TypeInv
<1>15. applied' = Taken(luck', next, n)
  <2>1. Taken(luck', next, n) = Taken(luck, walk, drawn) \cup
           IF luck'[n] THEN {<<BatchNo(next[n].of), next[n].span, next[n].policy>>} ELSE {}
    <3>1. /\ drawn \in Nat /\ luck'[drawn + 1] \in BOOLEAN
          /\ \A i \in 1 .. drawn : luck'[i] = luck[i] /\ next[i] = walk[i]
      BY <1>2, <1>3, <1>7
    <3> QED
      BY <3>1, TakenGrows, Zenon
  <2>2. work[p].of = BatchNo(K) /\ applied = Taken(luck, walk, drawn)
    BY <1>5, <1>8 DEF WalkInv
  <2>3. Slot(at) = <<BatchNo(next[n].of), next[n].span, next[n].policy>>
    BY <1>6, <1>7, <1>8, <2>2 DEF Slot
  <2> QED
    BY <1>1, <2>1, <2>2, <2>3, Zenon
<1>16. work'[p] # Idle => work'[p].of = BatchNo(K)
  <2>1. NextPolicy(at).of = at.of /\ NextSpan(at).of = at.of
    BY DEF NextPolicy, NextSpan
  <2>2. nx = Idle \/ nx.of = at.of
    BY <1>1, <1>3, <2>1, AfterStop
  <2>3. at.of = BatchNo(K)
    BY <1>5, <1>8 DEF WalkInv
  <2> QED
    BY <1>9, <2>2, <2>3
<1>17. \A i \in 1 .. n : next[i].of <= K
  <2>1. \A i \in 1 .. drawn : next[i].of <= K
    BY <1>5, <1>7 DEF WalkInv
  <2>2. next[n].of <= K
    BY <1>6, <1>7, AloneCalls
  <2> QED
    BY <1>2, <2>1, <2>2
<1>18. run = 2 => /\ Following(luck', next, Len(next)) = Entry(setup.calls + 1)
                  /\ first.applied = Taken(luck', next, Len(next))
  BY <1>5, <1>7 DEF WalkInv
<1> HIDE DEF nx, n
<1>19. WalkInv(p, next)'
  <2>1. Entry(setup.calls + 1)' = Entry(setup.calls + 1)
    BY <1>1 DEF Entry
  <2> QED
    BY <1>1, <1>7, <1>10, <1>11, <1>13, <1>14, <1>15, <1>16, <1>17, <1>18, <2>1 DEF WalkInv
<1>20. Pick(strategy, picks, K)' = Pick(strategy, picks, K)
  BY <1>1, <1>10 DEF Pick
<1> QED
  BY <1>1, <1>4, <1>9, <1>10, <1>19, <1>20 DEF AloneInv

LEMMA StopsOfWalk ==
    ASSUME NEW bs, NEW walk \in Seq(Stops(bs))
    PROVE  \A i \in 1 .. Len(walk) : walk[i].of \in bs
<1>1. \A i \in 1 .. Len(walk) : walk[i] \in Stops(bs)
  OBVIOUS
<1>2. \A s \in Stops(bs) : s.of \in bs
  BY DEF Stops
<1> QED
  BY <1>1, <1>2

\* An exporter outside the stage keeps its walk, as long as the batches in it keep their
\* names.
LEMMA WalkStays ==
    ASSUME SeedInv, StageInv, NEW p \in Producers, K \in Nat,
           NEW walk \in Seq(Stops(1 .. setup.calls)), WalkInv(p, walk),
           UNCHANGED <<setup, batches, luck, drawn, work, applied, first, run>>,
           \A k \in 1 .. K : BatchNo(k)' = BatchNo(k), work[p] # Idle => K # 0,
           run = 2 => \A k : BatchNo(k)' = BatchNo(k)
    PROVE  WalkInv(p, walk)'
<1>1. K' = K /\ Spot(p)' = Spot(p)
  BY DEF K, Spot, Entry
<1>2. \A i : Following(luck, walk, i)' = Following(luck, walk, i)
  BY DEF Following, After, Entry
<1>3. /\ drawn \in Nat /\ Len(walk) = Len(luck) /\ drawn <= Len(luck) /\ Len(luck) \in Nat
      /\ \A n \in 1 .. drawn : walk[n].of <= K
  BY DEF StageInv, WalkInv
<1>4. \A i \in 1 .. Len(walk) : walk[i].of \in 1 .. setup.calls
  BY StopsOfWalk
<1>5. setup.calls \in Nat
  BY SetupType
<1>6. \A i \in 1 .. drawn : walk[i].of \in 1 .. K
  BY <1>3, <1>4, <1>5
<1>7. Taken(luck, walk, drawn)' = Taken(luck, walk, drawn)
  <2>1. \A i \in Hits(luck, drawn) : BatchNo(walk[i].of)' = BatchNo(walk[i].of)
    BY <1>6 DEF Hits
  <2>2. Hits(luck, drawn)' = Hits(luck, drawn)
    BY DEF Hits
  <2> QED
    BY <2>1, <2>2 DEF Taken
<1>8. run = 2 => Taken(luck, walk, Len(walk))' = Taken(luck, walk, Len(walk))
  <2>1. Hits(luck, Len(walk))' = Hits(luck, Len(walk))
    BY DEF Hits
  <2> QED
    BY <2>1 DEF Taken
<1>9. work[p] # Idle => BatchNo(K)' = BatchNo(K)
  BY <1>1
<1>10. Entry(setup.calls + 1)' = Entry(setup.calls + 1)
  BY DEF Entry
<1> QED
  BY <1>1, <1>2, <1>7, <1>8, <1>9, <1>10 DEF WalkInv

LEMMA AloneChooses ==
    ASSUME SeedInv, StageInv, NEW p \in Producers, AloneInv(p), Choose(p)
    PROVE  AloneInv(p)'
<1>1. /\ UNCHANGED <<setup, batches, run, luck, drawn, work, applied, first>>
      /\ strategy' = strategy
  BY ChooseLeavesStage DEF Choose, NextIndex
<1>2. chosen[p] = None /\ \A r \in Producers : r # p => chosen'[r] = chosen[r]
  <2>1. chosen \in [Producers -> Generators \cup {None}]
    BY DEF SeedInv, TypeInv, NumberInv, TypeOK
  <2>2. chosen[p] = None /\ \E index : chosen' = [chosen EXCEPT ![p] = index]
    BY DEF Choose, NextIndex
  <2> QED
    BY <2>1, <2>2
<1>3. Calls = K /\ K \in Nat /\ (work[p] # Idle => K # 0)
  BY <1>2, AloneCalls
<1>4. Pick(strategy, picks', K) = chosen'[p]
  BY <1>3, PickStep
<1>5. \A k \in 1 .. K : BatchNo(k)' = BatchNo(k)
  BY <1>1, <1>3, PickStep, NamesStay
<1>6. run = 2 => \A k : BatchNo(k)' = BatchNo(k)
  <2>1. run = 2 => picks' = picks
    BY PickStep
  <2> QED
    BY <1>1, <2>1 DEF BatchNo, Pick, Share
<1>7. K' = K /\ \A x : Stops(x)' = Stops(x)
  BY <1>1 DEF K, Stops
<1>8. setup.policies # 0 => \E walk \in Seq(Stops(1 .. setup.calls)) : WalkInv(p, walk)'
  <2> SUFFICES ASSUME setup.policies # 0
               PROVE  \E walk \in Seq(Stops(1 .. setup.calls)) : WalkInv(p, walk)'
    OBVIOUS
  <2>1. PICK walk \in Seq(Stops(1 .. setup.calls)) : WalkInv(p, walk)
    BY DEF AloneInv
  <2>2. WalkInv(p, walk)'
    BY <1>1, <1>3, <1>5, <1>6, <2>1, WalkStays
  <2> QED
    BY <2>2
<1>9. chosen'[p] = Pick(strategy, picks, K)'
  BY <1>1, <1>4, <1>7 DEF Pick
<1> QED
  BY <1>1, <1>2, <1>7, <1>8, <1>9 DEF AloneInv

LEMMA AloneStutters ==
    ASSUME SeedInv, StageInv, NEW p \in Producers, AloneInv(p), UNCHANGED seededVars
    PROVE  AloneInv(p)'
<1>1. /\ UNCHANGED <<setup, batches, run, luck, drawn, work, applied, first>>
      /\ UNCHANGED <<strategy, chosen, picks>>
  BY DEF seededVars, vars
<1>2. \A k : BatchNo(k)' = BatchNo(k)
  BY <1>1 DEF BatchNo, Pick, Share
<1>3. K' = K /\ \A x : Stops(x)' = Stops(x)
  BY <1>1 DEF K, Stops
<1>4. K \in Nat /\ (work[p] # Idle => K # 0)
  BY AloneCalls
<1>5. setup.policies # 0 => \E walk \in Seq(Stops(1 .. setup.calls)) : WalkInv(p, walk)'
  <2> SUFFICES ASSUME setup.policies # 0
               PROVE  \E walk \in Seq(Stops(1 .. setup.calls)) : WalkInv(p, walk)'
    OBVIOUS
  <2>1. PICK walk \in Seq(Stops(1 .. setup.calls)) : WalkInv(p, walk)
    BY DEF AloneInv
  <2>2. WalkInv(p, walk)'
    BY <1>1, <1>2, <1>4, <2>1, WalkStays
  <2> QED
    BY <2>2
<1>6. Pick(strategy, picks, K)' = Pick(strategy, picks, K)
  BY <1>1, <1>3 DEF Pick
<1> QED
  BY <1>1, <1>3, <1>5, <1>6 DEF AloneInv

\* The batch an exporter enters the stage with is the next one, in both runs.
LEMMA AloneGenerates ==
    ASSUME SeedInv, StageInv, NEW p \in Producers, AloneInv(p), Generate(p)
    PROVE  AloneInv(p)'
<1> DEFINE b == <<chosen[p], sequence[chosen[p]] + 1>>
           at == [of |-> b, span |-> 1, policy |-> 1]
<1>1. /\ chosen[p] \in Generators /\ chosen' = [chosen EXCEPT ![p] = None]
      /\ work' = IF setup.policies = 0 THEN work ELSE [work EXCEPT ![p] = at]
      /\ UNCHANGED <<strategy, setup, picks, run, luck, drawn, applied, first>>
  BY BatchIsNew
<1>2. b = BatchNo(K + 1) /\ K' = K + 1
  BY GenerateIsNext
<1>3. K \in Nat
  BY AloneCalls
<1>4. work[p] = Idle
  BY <1>1 DEF StageInv, None, Generators
<1>5. chosen'[p] = None /\ \A r \in Producers : r # p => chosen'[r] = chosen[r]
  <2>1. chosen \in [Producers -> Generators \cup {None}]
    BY DEF SeedInv, TypeInv, NumberInv, TypeOK
  <2> QED
    BY <1>1, <2>1
<1>6. at # Idle
  BY DEF Idle
<1> HIDE DEF b
<1>7. \A k : BatchNo(k)' = BatchNo(k)
  BY <1>1 DEF BatchNo, Pick, Share
<1>8. \A w, i : /\ Following(luck, w, i)' = Following(luck, w, i)
                /\ Taken(luck, w, i)' = Taken(luck, w, i)
  BY <1>1 DEF Following, Taken, BatchNo, Pick, Share, After, Hits, Entry
<1>9. CASE setup.policies = 0
  BY <1>1, <1>5, <1>9 DEF AloneInv
<1>10. CASE setup.policies # 0
  <2>1. work'[p] = at /\ \A r \in Producers : r # p => work'[r] = work[r]
    BY <1>1, <1>10 DEF StageInv
  <2>2. Spot(p)' = Entry(K + 1) /\ Spot(p) = Entry(K + 1)
    <3>1. at.span = 1 /\ at.policy = 1
      OBVIOUS
    <3>2. Spot(p)' = [of |-> K', span |-> work'[p].span, policy |-> work'[p].policy]
      BY <1>6, <2>1 DEF Spot
    <3>3. Spot(p)' = [of |-> K + 1, span |-> 1, policy |-> 1]
      BY <1>2, <2>1, <3>1, <3>2
    <3> QED
      BY <1>4, <3>3 DEF Spot, Entry
  <2>3. work'[p].of = BatchNo(K)'
    <3>1. BatchNo(K)' = BatchNo(K + 1)
      BY <1>1, <1>2 DEF BatchNo, Pick, Share
    <3>2. at.of = b
      OBVIOUS
    <3> QED
      BY <1>2, <2>1, <3>1, <3>2
  <2>4. PICK walk \in Seq(Stops(1 .. setup.calls)) : WalkInv(p, walk)
    BY <1>10 DEF AloneInv
  <2>5. \A i \in 1 .. drawn : walk[i].of <= K'
    <3>1. drawn \in Nat /\ drawn <= Len(walk) /\ Len(walk) \in Nat
      BY <2>4 DEF WalkInv, StageInv
    <3>2. \A i \in 1 .. drawn : walk[i].of <= K /\ walk[i].of \in 1 .. setup.calls
      <4>1. \A i \in 1 .. Len(walk) : walk[i].of \in 1 .. setup.calls
        BY StopsOfWalk
      <4>2. \A i \in 1 .. drawn : walk[i].of <= K
        BY <2>4 DEF WalkInv
      <4> QED
        BY <3>1, <4>1, <4>2
    <3>3. setup.calls \in Nat
      BY SetupType
    <3> QED
      BY <1>2, <1>3, <3>2, <3>3
  <2>6. Entry(setup.calls + 1)' = Entry(setup.calls + 1)
    BY <1>1 DEF Entry
  <2>7. WalkInv(p, walk)'
    BY <1>1, <1>8, <2>2, <2>3, <2>4, <2>5, <2>6 DEF WalkInv
  <2>8. Stops(1 .. setup.calls)' = Stops(1 .. setup.calls)
    BY <1>1 DEF Stops
  <2> HIDE DEF at
  <2> QED
    BY <1>1, <1>5, <1>10, <2>1, <2>7, <2>8 DEF AloneInv
<1> QED
  BY <1>9, <1>10

\* The walk of the first run is whole when it ends.
LEMMA AloneRestarts ==
    ASSUME SeedInv, StageInv, NEW p \in Producers, AloneInv(p), NewRun
    PROVE  AloneInv(p)'
<1>1. /\ Ended /\ run = 1 /\ run' = 2 /\ drawn' = 0 /\ applied' = {} /\ batches' = {}
      /\ first'.applied = applied /\ chosen' = [q \in Producers |-> None]
      /\ work' = [q \in Producers |-> Idle]
      /\ UNCHANGED <<strategy, setup, picks, luck>>
  BY DEF NewRun, seeds
<1>2. K' = 0
  BY <1>1, FS_EmptySet, Zenon DEF K
<1>3. K = setup.calls /\ K \in Nat
  <2>1. chosen[p] = None
    BY <1>1 DEF Ended, InCall
  <2> QED
    BY <1>1, <2>1, AloneCalls DEF Ended
<1>4. work[p] = Idle
  BY <1>1 DEF Ended, Busy
<1> HIDE DEF Idle
<1>5. \A q \in Producers : chosen'[q] = None /\ work'[q] = Idle
  BY <1>1
<1>6. \A w, i : /\ Following(luck, w, i)' = Following(luck, w, i)
                /\ Taken(luck, w, i)' = Taken(luck, w, i)
  BY <1>1 DEF Following, Taken, BatchNo, Pick, Share, After, Hits, Entry
<1>7. CASE setup.policies = 0
  BY <1>1, <1>5, <1>7 DEF AloneInv
<1>8. CASE setup.policies # 0
  <2>1. PICK walk \in Seq(Stops(1 .. setup.calls)) : WalkInv(p, walk)
    BY <1>8 DEF AloneInv
  <2>2. Spot(p)' = Entry(1) /\ Spot(p) = Entry(setup.calls + 1)
    BY <1>2, <1>3, <1>4, <1>5 DEF Spot, Entry
  <2>3. Following(luck, walk, 0) = Entry(1)
    BY DEF Following
  <2>4. Taken(luck, walk, 0) = {}
    BY DEF Taken, Hits
  <2>5. Len(walk) = drawn
    BY <1>1, <2>1 DEF WalkInv
  <2>6. Entry(setup.calls + 1)' = Entry(setup.calls + 1)
    BY <1>1 DEF Entry
  <2>7. WalkInv(p, walk)'
    BY <1>1, <1>5, <1>6, <2>1, <2>2, <2>3, <2>4, <2>5, <2>6 DEF WalkInv
  <2>8. Stops(1 .. setup.calls)' = Stops(1 .. setup.calls)
    BY <1>1 DEF Stops
  <2> QED
    BY <1>1, <1>5, <1>8, <2>7, <2>8 DEF AloneInv
<1> QED
  BY <1>7, <1>8

LEMMA AloneInit ==
    ASSUME SeededInit, NEW p \in Producers
    PROVE  AloneInv(p)
<1>1. /\ drawn = 0 /\ applied = {} /\ luck = <<>> /\ batches = {} /\ run = 1
      /\ work = [q \in Producers |-> Idle] /\ chosen = [q \in Producers |-> None]
      /\ first = [batches |-> {}, applied |-> {}]
  BY DEF SeededInit, Init
<1>2. K = 0
  BY <1>1, FS_EmptySet, Zenon DEF K
<1> HIDE DEF Idle
<1>3. \A q \in Producers : chosen[q] = None /\ work[q] = Idle
  BY <1>1
<1>4. Spot(p) = Entry(1)
  BY <1>2, <1>3 DEF Spot
<1>5. Following(luck, <<>>, 0) = Entry(1) /\ Taken(luck, <<>>, 0) = {}
  BY DEF Following, Taken, Hits
<1>6. WalkInv(p, <<>>)
  BY <1>1, <1>3, <1>4, <1>5 DEF WalkInv
<1>7. <<>> \in Seq(Stops(1 .. setup.calls))
  OBVIOUS
<1> QED
  BY <1>1, <1>3, <1>6, <1>7 DEF AloneInv

WholeAloneInv == \A p \in Producers : setup.active = {p} => AloneInv(p)

\* What a lone exporter decides is one walk, which the luck of the draws alone fixes; in
\* the second run it is somewhere on the walk of the first.
THEOREM AloneInvariance == SeededSpec => []WholeAloneInv
<1>1. SeededInit => WholeAloneInv
  BY AloneInit DEF WholeAloneInv
<1>2. WholeAloneInv /\ SeedInv /\ StageInv /\ [SeededNext]_seededVars => WholeAloneInv'
  <2> SUFFICES ASSUME WholeAloneInv, SeedInv, StageInv, [SeededNext]_seededVars,
                      NEW p \in Producers, setup'.active = {p}
               PROVE  AloneInv(p)'
    BY DEF WholeAloneInv
  <2>1. setup' = setup
    BY DEF SeededNext, Choose, Generate, ShouldApply, NewRun, Over, seededVars, seeds
  <2>2. AloneInv(p)
    BY <2>1 DEF WholeAloneInv
  <2>3. ASSUME NEW q \in Producers, Choose(q) PROVE AloneInv(p)'
    <3>1. q = p
      BY <2>1, <2>3 DEF Choose
    <3> QED
      BY <2>2, <2>3, <3>1, AloneChooses
  <2>4. ASSUME NEW q \in Producers, Generate(q) PROVE AloneInv(p)'
    <3>1. q = p
      BY <2>2, <2>4 DEF AloneInv, Generate, GenerateBatch
    <3> QED
      BY <2>2, <2>4, <3>1, AloneGenerates
  <2>5. ASSUME NEW q \in Producers, ShouldApply(q) PROVE AloneInv(p)'
    <3>1. q = p
      BY <2>2, <2>5 DEF AloneInv, ShouldApply
    <3> QED
      BY <2>2, <2>5, <3>1, AloneDraws
  <2>6. CASE NewRun
    BY <2>2, <2>6, AloneRestarts
  <2>7. CASE UNCHANGED seededVars
    BY <2>2, <2>7, AloneStutters
  <2> QED
    BY <2>3, <2>4, <2>5, <2>6, <2>7 DEF SeededNext, Over
<1>3. NumberOfHitsInv => SeedInv /\ StageInv
  BY DEF NumberOfHitsInv
<1> QED
  BY <1>1, <1>2, <1>3, DrawInvariance, PTL DEF SeededSpec

\* With one exporter the second run applies the policies of the first, to the same spans
\* of the same batches, in mode first_match too.
THEOREM SameDecisions == SeededSpec => []SameDecisionsAlone
<1>1. ASSUME SeedInv, StageInv, WholeAloneInv, Ended, run = 2, Cardinality(setup.active) = 1
      PROVE  applied = first.applied
  <2>1. PICK p \in Producers : setup.active = {p}
    <3>1. IsFiniteSet(setup.active) /\ setup.active \subseteq Producers
      BY <1>1, SetupType, SelectAssumption, FS_Subset
    <3>2. \E x : setup.active = {x}
      BY <1>1, <3>1, FS_Singleton
    <3> QED
      BY <3>1, <3>2
  <2>2. AloneInv(p)
    BY <1>1, <2>1 DEF WholeAloneInv
  <2>3. CASE setup.policies = 0
    BY <2>2, <2>3 DEF AloneInv
  <2>4. CASE setup.policies # 0
    <3>1. PICK walk \in Seq(Stops(1 .. setup.calls)) : WalkInv(p, walk)
      BY <2>2, <2>4 DEF AloneInv
    <3>2. K = setup.calls /\ setup.calls \in Nat /\ work[p] = Idle
      <4>1. chosen[p] = None /\ work[p] = Idle
        BY <1>1 DEF Ended, InCall, Busy
      <4> QED
        BY <1>1, <2>2, <4>1, AloneCalls DEF Ended
    <3>3. Following(luck, walk, drawn) = Entry(setup.calls + 1)
      BY <3>1, <3>2 DEF WalkInv, Spot
    <3>4. drawn \in Nat /\ drawn <= Len(walk) /\ Len(walk) \in Nat
      BY <1>1, <3>1 DEF StageInv, WalkInv
    <3>5. drawn = Len(walk)
      <4> SUFFICES ASSUME drawn # Len(walk) PROVE FALSE
        OBVIOUS
      <4>1. drawn + 1 \in 1 .. Len(walk) /\ (drawn + 1) - 1 = drawn
        BY <3>4
      <4>2. walk[drawn + 1] = Entry(setup.calls + 1)
        BY <3>1, <3>3, <4>1 DEF WalkInv
      <4>3. walk[drawn + 1].of \in 1 .. setup.calls
        BY <4>1, StopsOfWalk
      <4> QED
        BY <3>2, <4>2, <4>3 DEF Entry
    <3> QED
      BY <1>1, <3>1, <3>5 DEF WalkInv
  <2> QED
    BY <2>3, <2>4
<1>2. NumberOfHitsInv /\ WholeAloneInv => SameDecisionsAlone
  BY <1>1 DEF NumberOfHitsInv, SameDecisionsAlone
<1> QED
  BY <1>2, DrawInvariance, AloneInvariance, PTL
=============================================================================
