------------------------ MODULE SpanConversionProofs ------------------------
(***************************************************************************)
(* For every batch: the order for a rebuild keeps the spans and puts each  *)
(* after its parent; the rebuilt spans are the same tree; the rebuild      *)
(* ends; and the request to the collector has each span in the group of    *)
(* its key.                                                                *)
(***************************************************************************)
EXTENDS SpanConversion, NumberInduction, FiniteSetTheorems, SequenceTheorems

-----------------------------------------------------------------------------
(* orderForRebuild. *)

\* no two spans in a sequence have the same ID
Distinct(spans) == \A i, j \in DOMAIN spans : spans[i].id = spans[j].id => i = j

LEMMA BatchFacts ==
    ASSUME batch \in Batches
    PROVE  /\ batch \in Seq(Range(batch)) /\ Len(batch) \in Nat \ {0}
           /\ DOMAIN batch = 1 .. Len(batch) /\ Distinct(batch) /\ Len(batch) <= Len(NewIds)
           /\ \A s \in Range(batch) : IsSpan(s) /\ s.id \in Ids(batch)
           /\ \A s \in Range(batch) : s.id \notin Range(NewIds) /\ s.parent \notin Range(NewIds)
           /\ \A s, t \in Range(batch) : s.id = t.id => s = t
           /\ NoSpan \notin Ids(batch)
<1>1. /\ batch \in Seq(Range(batch)) /\ batch # <<>> /\ Len(batch) <= Len(NewIds)
      /\ \A i \in DOMAIN batch : IsSpan(batch[i])
      /\ \A i, j \in DOMAIN batch : batch[i].id = batch[j].id => i = j
      /\ \A i \in DOMAIN batch : {batch[i].id, batch[i].parent} \cap Range(NewIds) = {}
  BY ConversionAssumption
<1>2. Len(batch) \in Nat \ {0} /\ DOMAIN batch = 1 .. Len(batch)
  BY <1>1
<1>3. Distinct(batch)
  BY <1>1 DEF Distinct
<1>4. \A s \in Range(batch) : \E i \in DOMAIN batch : s = batch[i]
  BY DEF Range
<1>5. \A s \in Range(batch) : IsSpan(s) /\ s.id \in Ids(batch)
  BY <1>1, <1>4 DEF Ids
<1>6. \A s \in Range(batch) : s.id \notin Range(NewIds) /\ s.parent \notin Range(NewIds)
  BY <1>1, <1>4
<1>7. \A s, t \in Range(batch) : s.id = t.id => s = t
  BY <1>1, <1>4
<1>8. NoSpan \notin Ids(batch)
  BY <1>1 DEF Ids, IsSpan
<1> QED
  BY <1>1, <1>2, <1>3, <1>5, <1>6, <1>7, <1>8

\* what the sort and the loops never change
OrderedInv ==
    /\ batch \in Batches
    /\ ordered \in Seq(Range(batch)) /\ Len(ordered) = Len(batch)
    /\ Range(ordered) = Range(batch)

LoopTypes ==
    /\ phase \in {"pass", "rest", "rebuild", "done"}
    /\ at \in Nat \ {0} /\ progress \in BOOLEAN
    /\ result \in Seq(Range(batch)) /\ Distinct(result)

\* a parent in the batch comes before its children
ParentsBefore ==
    \A i \in DOMAIN result :
        result[i].parent \in Ids(batch) => \E j \in 1 .. i - 1 : result[j].id = result[i].parent

\* A pass that has added nothing has found nothing to add; in a batch without a cycle that
\* means that nothing is left.
OrderInv ==
    /\ OrderedInv
    /\ LoopTypes
    /\ phase = "pass" /\ ~progress =>
          \A k \in DOMAIN ordered : k < at => Added(ordered[k]) \/ ~Ready(ordered[k])
    /\ phase = "rest" /\ Acyclic => \A s \in Range(batch) : Added(s)
    /\ phase = "rest" => \A k \in DOMAIN ordered : k < at => Added(ordered[k])
    /\ Acyclic => ParentsBefore
    /\ phase \in {"rebuild", "done"} => Len(result) = Len(batch) /\ Range(result) = Range(batch)

LEMMA OrderedFacts ==
    ASSUME OrderedInv
    PROVE  /\ Ids(ordered) = Ids(batch) /\ DOMAIN ordered = 1 .. Len(batch)
           /\ \A k \in DOMAIN ordered : ordered[k] \in Range(batch)
           /\ \A s \in Range(batch) : \E k \in DOMAIN ordered : s = ordered[k]
<1>1. DOMAIN ordered = 1 .. Len(batch) /\ DOMAIN batch = 1 .. Len(batch)
  BY BatchFacts DEF OrderedInv
<1>2. \A k \in DOMAIN ordered : ordered[k] \in Range(batch)
  BY DEF OrderedInv, Range
<1>3. \A s \in Range(batch) : \E k \in DOMAIN ordered : s = ordered[k]
  BY DEF OrderedInv, Range
<1>4. Ids(ordered) = Ids(batch)
  <2>1. \A k \in DOMAIN ordered : \E i \in DOMAIN batch : ordered[k] = batch[i]
    BY <1>2 DEF Range
  <2>2. \A i \in DOMAIN batch : batch[i] \in Range(batch)
    BY DEF Range
  <2> QED
    BY <1>3, <2>1, <2>2 DEF Ids
<1> QED
  BY <1>1, <1>2, <1>3, <1>4

LEMMA InitOrder == Init => OrderInv
<1> SUFFICES ASSUME Init PROVE OrderInv
  OBVIOUS
<1>1. batch \in Batches
  BY DEF Init
<1>2. PICK order \in Bijection(DOMAIN batch, DOMAIN batch) :
          ordered = [i \in DOMAIN batch |-> batch[order[i]]]
  BY DEF Init
<1>3. DOMAIN batch = 1 .. Len(batch) /\ Len(batch) \in Nat
  BY <1>1, BatchFacts
<1>4. /\ order \in [DOMAIN batch -> DOMAIN batch]
      /\ \A i \in DOMAIN batch : \E k \in DOMAIN batch : order[k] = i
  BY <1>2 DEF Bijection, Surjection
<1>5. \A k \in DOMAIN batch : ordered[k] = batch[order[k]] /\ batch[order[k]] \in Range(batch)
  BY <1>2, <1>4 DEF Range
<1>6. ordered \in Seq(Range(batch)) /\ Len(ordered) = Len(batch)
  BY <1>2, <1>3, <1>5
<1>7. Range(ordered) = Range(batch)
  <2>1. DOMAIN ordered = DOMAIN batch
    BY <1>2
  <2>2. Range(ordered) \subseteq Range(batch)
    BY <2>1, <1>5 DEF Range
  <2>3. ASSUME NEW s \in Range(batch)
        PROVE  s \in Range(ordered)
    <3>1. PICK i \in DOMAIN batch : s = batch[i]
      BY DEF Range
    <3>2. PICK k \in DOMAIN batch : order[k] = i
      BY <1>4
    <3> QED
      BY <1>5, <2>1, <3>1, <3>2 DEF Range
  <2> QED
    BY <2>2, <2>3
<1>8. /\ phase = "pass" /\ at = 1 /\ progress = FALSE /\ result = <<>>
  BY DEF Init
<1>9. LoopTypes
  <2>1. Distinct(result)
    BY <1>8 DEF Distinct
  <2>2. result \in Seq(Range(batch)) /\ at \in Nat \ {0}
    BY <1>8
  <2> QED
    BY <1>8, <2>1, <2>2 DEF LoopTypes
<1>10. ParentsBefore
  BY <1>8 DEF ParentsBefore
<1>11. DOMAIN ordered \subseteq 1 .. Len(batch)
  BY <1>2, <1>3
<1> QED
  BY <1>1, <1>3, <1>6, <1>7, <1>8, <1>9, <1>10, <1>11 DEF OrderInv, OrderedInv

\* what adding a span that was not there does
LEMMA SpanAdded ==
    ASSUME OrderInv, NEW s \in Range(batch), ~Added(s), result' = Append(result, s),
           UNCHANGED batch
    PROVE  /\ result' \in Seq(Range(batch)) /\ Distinct(result')
           /\ \A t \in Range(batch) : Added(t)' <=> Added(t) \/ t = s
           /\ Len(result') = Len(result) + 1 /\ result'[Len(result')] = s
           /\ \A i \in 1 .. Len(result) : result'[i] = result[i]
           /\ DOMAIN result = 1 .. Len(result) /\ DOMAIN result' = 1 .. Len(result')
           /\ Len(result) \in Nat
<1>1. result \in Seq(Range(batch)) /\ Distinct(result) /\ batch \in Batches
  BY DEF OrderInv, OrderedInv, LoopTypes
<1>2. PICK n \in Nat : n = Len(result)
  BY <1>1
<1>3. DOMAIN result = 1 .. n
  BY <1>1, <1>2
<1>4. PICK new : new = result'
  OBVIOUS
<1>5. /\ new \in Seq(Range(batch)) /\ Len(new) = n + 1
      /\ new[n + 1] = s /\ \A i \in 1 .. n : new[i] = result[i]
  BY <1>1, <1>2, <1>4
<1>6. DOMAIN new = 1 .. (n + 1)
  BY <1>5
<1>7. \A i \in 1 .. (n + 1) : i \in 1 .. n \/ i = n + 1
  OBVIOUS
<1>8. \A i \in 1 .. n : result[i].id # s.id
  BY <1>3 DEF Added, Ids
<1>9. Distinct(new)
  <2>1. \A i, j \in 1 .. n : result[i].id = result[j].id => i = j
    BY <1>1, <1>3 DEF Distinct
  <2> QED
    BY <1>5, <1>6, <1>7, <1>8, <2>1 DEF Distinct
<1>10. ASSUME NEW t \in Range(batch)
       PROVE  t.id \in Ids(new) <=> Added(t) \/ t = s
  <2>1. t.id \in Ids(new) <=> \E i \in 1 .. (n + 1) : t.id = new[i].id
    BY <1>6 DEF Ids
  <2>2. Added(t) <=> \E i \in 1 .. n : t.id = result[i].id
    BY <1>3 DEF Added, Ids
  <2>3. t.id = s.id <=> t = s
    BY <1>1, BatchFacts
  <2>4. 1 .. n \subseteq 1 .. (n + 1) /\ n + 1 \in 1 .. (n + 1)
    OBVIOUS
  <2> QED
    BY <1>5, <1>7, <2>1, <2>2, <2>3, <2>4
<1>11. \A t : Added(t)' <=> t.id \in Ids(new)
  BY <1>4 DEF Added, Ids
<1> QED
  BY <1>2, <1>3, <1>4, <1>5, <1>6, <1>9, <1>10, <1>11

LEMMA VisitOrder ==
    ASSUME OrderInv, Visit
    PROVE  OrderInv'
<1>1. /\ phase = "pass" /\ at <= Len(ordered) /\ at' = at + 1
      /\ UNCHANGED <<batch, phase, ordered, rebuilt>>
  BY DEF Visit
<1>2. OrderedInv /\ OrderedInv' /\ LoopTypes /\ batch \in Batches
  BY <1>1 DEF OrderInv, OrderedInv
<1>3. at \in Nat \ {0} /\ Len(ordered) \in Nat /\ DOMAIN ordered = 1 .. Len(ordered)
  BY <1>2 DEF OrderedInv, LoopTypes
<1>4. at \in DOMAIN ordered /\ at' \in Nat \ {0}
  BY <1>1, <1>3
<1>5. \A k \in DOMAIN ordered : k < at' <=> k < at \/ k = at
  BY <1>1, <1>3
<1>6. PICK s \in Range(batch) : s = ordered[at]
  BY <1>2, <1>4, OrderedFacts
<1>7. Acyclic' = Acyclic
  BY <1>1 DEF Acyclic
<1>8. CASE Added(s) \/ ~Ready(s)
  <2>1. UNCHANGED <<progress, result>>
    BY <1>6, <1>8 DEF Visit
  <2>2. LoopTypes'
    BY <1>1, <1>2, <1>4, <2>1 DEF LoopTypes, Distinct
  <2>3. \A t : (Added(t)' <=> Added(t)) /\ (Ready(t)' <=> Ready(t))
    BY <1>1, <2>1 DEF Added, Ready, Ids
  <2>4. ParentsBefore' = ParentsBefore
    BY <1>1, <2>1 DEF ParentsBefore, Ids
  <2>5. ASSUME ~progress', NEW k \in DOMAIN ordered, k < at'
        PROVE  Added(ordered[k])' \/ ~Ready(ordered[k])'
    <3>1. Added(ordered[k]) \/ ~Ready(ordered[k])
      BY <1>1, <1>5, <1>6, <1>8, <2>1, <2>5 DEF OrderInv
    <3>2. ordered' = ordered
      BY <1>1
    <3> QED
      BY <2>3, <3>1, <3>2
  <2> QED
    BY <1>1, <1>2, <1>7, <2>2, <2>4, <2>5 DEF OrderInv
<1>9. CASE ~(Added(s) \/ ~Ready(s))
  <2>1. progress' = TRUE /\ result' = Append(result, s)
    BY <1>6, <1>9 DEF Visit
  <2>2. batch' = batch /\ ~Added(s) /\ Ready(s)
    BY <1>1, <1>9
  <2>3. /\ result' \in Seq(Range(batch)) /\ Distinct(result')
        /\ Len(result') = Len(result) + 1 /\ result'[Len(result')] = s
        /\ \A i \in 1 .. Len(result) : result'[i] = result[i]
        /\ DOMAIN result = 1 .. Len(result) /\ DOMAIN result' = 1 .. Len(result')
        /\ Len(result) \in Nat
    BY <2>1, <2>2, SpanAdded
  <2>4. LoopTypes'
    BY <1>1, <1>2, <1>4, <2>1, <2>2, <2>3 DEF LoopTypes
  <2>5. ASSUME Acyclic
        PROVE  ParentsBefore'
    <3>1. PICK n \in Nat : n = Len(result)
      BY <2>3
    <3>2. PICK new : new = result'
      OBVIOUS
    <3>3. /\ DOMAIN new = 1 .. (n + 1) /\ new[n + 1] = s
          /\ \A i \in 1 .. n : new[i] = result[i]
      BY <2>3, <3>1, <3>2
    <3>4. \A i \in 1 .. n : result[i].parent \in Ids(batch) =>
              \E j \in 1 .. i - 1 : result[j].id = result[i].parent
      BY <2>3, <2>5, <3>1 DEF OrderInv, ParentsBefore
    <3>5. ASSUME NEW i \in 1 .. (n + 1), new[i].parent \in Ids(batch)
          PROVE  \E j \in 1 .. i - 1 : new[j].id = new[i].parent
      <4>1. CASE i \in 1 .. n
        <5>1. PICK j \in 1 .. i - 1 : result[j].id = result[i].parent
          BY <3>3, <3>4, <3>5, <4>1
        <5>2. j \in 1 .. n
          BY <4>1
        <5> QED
          BY <3>3, <4>1, <5>1, <5>2
      <4>2. CASE i = n + 1
        <5>1. s.parent \in Ids(batch) /\ s.parent # NoSpan
          BY <1>2, <3>3, <3>5, <4>2, BatchFacts
        <5>2. s.parent \in Ids(result)
          BY <1>2, <2>2, <5>1, OrderedFacts DEF Ready
        <5>3. PICK j \in 1 .. n : result[j].id = s.parent
          BY <2>3, <3>1, <5>2 DEF Ids
        <5>4. j \in 1 .. i - 1
          BY <4>2
        <5> QED
          BY <3>3, <4>2, <5>3, <5>4
      <4> QED
        BY <4>1, <4>2
    <3>6. Ids(batch)' = Ids(batch)
      BY <2>2 DEF Ids
    <3> QED
      BY <3>2, <3>3, <3>5, <3>6 DEF ParentsBefore
  <2> QED
    BY <1>1, <1>2, <1>7, <2>1, <2>4, <2>5 DEF OrderInv
<1> QED
  BY <1>8, <1>9

LEMMA VisitRestOrder ==
    ASSUME OrderInv, VisitRest
    PROVE  OrderInv'
<1>1. /\ phase = "rest" /\ at <= Len(ordered) /\ at' = at + 1
      /\ UNCHANGED <<batch, phase, ordered, progress, rebuilt>>
  BY DEF VisitRest
<1>2. OrderedInv /\ OrderedInv' /\ LoopTypes /\ batch \in Batches
  BY <1>1 DEF OrderInv, OrderedInv
<1>3. at \in Nat \ {0} /\ Len(ordered) \in Nat /\ DOMAIN ordered = 1 .. Len(ordered)
  BY <1>2 DEF OrderedInv, LoopTypes
<1>4. at \in DOMAIN ordered /\ at' \in Nat \ {0}
  BY <1>1, <1>3
<1>5. \A k \in DOMAIN ordered : k < at' <=> k < at \/ k = at
  BY <1>1, <1>3
<1>6. PICK s \in Range(batch) : s = ordered[at]
  BY <1>2, <1>4, OrderedFacts
<1>7. Acyclic' = Acyclic
  BY <1>1 DEF Acyclic
<1>8. Acyclic => Added(s)
  BY <1>1 DEF OrderInv
<1>9. CASE Added(s)
  <2>1. result' = result
    BY <1>6, <1>9 DEF VisitRest
  <2>2. LoopTypes'
    BY <1>1, <1>2, <1>4, <2>1 DEF LoopTypes, Distinct
  <2>3. \A t : Added(t)' <=> Added(t)
    BY <1>1, <2>1 DEF Added, Ids
  <2>4. ParentsBefore' = ParentsBefore
    BY <1>1, <2>1 DEF ParentsBefore, Ids
  <2>5. ASSUME NEW k \in DOMAIN ordered, k < at'
        PROVE  Added(ordered[k])'
    <3>1. Added(ordered[k])
      BY <1>1, <1>5, <1>6, <1>9, <2>5 DEF OrderInv
    <3> QED
      BY <1>1, <2>3, <3>1
  <2> QED
    BY <1>1, <1>2, <1>7, <2>2, <2>3, <2>4, <2>5 DEF OrderInv
<1>10. CASE ~Added(s)
  <2>1. result' = Append(result, s) /\ batch' = batch
    BY <1>1, <1>6, <1>10 DEF VisitRest
  <2>2. /\ result' \in Seq(Range(batch)) /\ Distinct(result')
        /\ \A t \in Range(batch) : Added(t)' <=> Added(t) \/ t = s
    BY <1>10, <2>1, SpanAdded
  <2>3. LoopTypes'
    BY <1>1, <1>2, <1>4, <2>1, <2>2 DEF LoopTypes
  <2>4. ASSUME NEW k \in DOMAIN ordered, k < at'
        PROVE  Added(ordered[k])'
    <3>1. Added(ordered[k]) \/ ordered[k] = s
      BY <1>1, <1>5, <1>6, <2>4 DEF OrderInv
    <3>2. ordered[k] \in Range(batch) /\ ordered' = ordered
      BY <1>1, <1>2, OrderedFacts
    <3> QED
      BY <2>2, <3>1, <3>2
  <2> QED
    BY <1>1, <1>2, <1>7, <1>8, <1>10, <2>3, <2>4 DEF OrderInv
<1> QED
  BY <1>9, <1>10

\* in a batch without a cycle something can be added until all is added
LEMMA SomeReady ==
    ASSUME OrderInv, Acyclic, \E s \in Range(batch) : ~Added(s)
    PROVE  \E k \in DOMAIN ordered : ~Added(ordered[k]) /\ Ready(ordered[k])
<1>1. OrderedInv /\ batch \in Batches
  BY DEF OrderInv, OrderedInv
<1> DEFINE left == {i \in DOMAIN batch : ~Added(batch[i])}
<1>2. left # {}
  BY DEF Range
<1>3. left \in SUBSET DOMAIN batch
  OBVIOUS
<1> HIDE DEF left
<1>4. PICK i \in left : \A j \in left : batch[i].parent # batch[j].id
  BY <1>2, <1>3 DEF Acyclic
<1>5. i \in DOMAIN batch /\ ~Added(batch[i])
  BY DEF left
<1>6. Ready(batch[i])
  <2>1. CASE batch[i].parent \in Ids(batch)
    <3>1. PICK j \in DOMAIN batch : batch[j].id = batch[i].parent
      BY <2>1 DEF Ids
    <3>2. Added(batch[j])
      BY <1>4, <3>1 DEF left
    <3> QED
      BY <3>1, <3>2 DEF Ready, Added
  <2>2. CASE batch[i].parent \notin Ids(batch)
    BY <1>1, <2>2, OrderedFacts DEF Ready
  <2> QED
    BY <2>1, <2>2
<1>7. batch[i] \in Range(batch)
  BY <1>5 DEF Range
<1>8. PICK k \in DOMAIN ordered : batch[i] = ordered[k]
  BY <1>1, <1>7, OrderedFacts
<1> QED
  BY <1>5, <1>6, <1>8

\* a sequence of different spans of the batch that is as long as the batch is all of it
LEMMA WholeBatch ==
    ASSUME batch \in Batches, NEW spans \in Seq(Range(batch)), Distinct(spans)
    PROVE  /\ Len(spans) <= Len(batch)
           /\ Len(spans) = Len(batch) <=> Range(spans) = Range(batch)
<1>1. PICK n \in Nat, m \in Nat : n = Len(spans) /\ m = Len(batch)
  BY BatchFacts
<1>2. DOMAIN spans = 1 .. n /\ DOMAIN batch = 1 .. m
  BY <1>1, BatchFacts
<1>3. Range(spans) \subseteq Range(batch)
  BY DEF Range
<1>4. IsFiniteSet(1 .. m)
  BY FS_Interval
<1>5. batch \in Bijection(1 .. m, Range(batch))
  BY <1>2, BatchFacts DEF Bijection, Injection, Surjection, IsInjective, Distinct, Range
<1>6. spans \in Bijection(1 .. n, Range(spans))
  BY <1>2 DEF Bijection, Injection, Surjection, IsInjective, Distinct, Range
<1>7. IsFiniteSet(Range(batch)) /\ Cardinality(Range(batch)) = m
  <2>1. ExistsBijection(1 .. m, Range(batch))
    BY <1>5 DEF ExistsBijection
  <2> QED
    BY <1>4, <2>1, FS_Bijection, FS_CountingElements
<1>8. Cardinality(Range(spans)) = n
  <2>1. ExistsBijection(1 .. n, Range(spans))
    BY <1>6 DEF ExistsBijection
  <2> QED
    BY <2>1, FS_CountingElements
<1> QED
  BY <1>1, <1>3, <1>7, <1>8, FS_Subset

LEMMA PassEndsOrder ==
    ASSUME OrderInv, PassEnds
    PROVE  OrderInv'
<1>1. /\ phase \in {"pass", "rest"} /\ at > Len(ordered) /\ at' = 1 /\ progress' = FALSE
      /\ phase' = IF phase = "pass" /\ ~progress THEN "rest"
                  ELSE IF Len(result) < Len(ordered) THEN "pass"
                  ELSE "rebuild"
      /\ UNCHANGED <<batch, ordered, result, rebuilt>>
  BY DEF PassEnds
<1>2. OrderedInv /\ OrderedInv' /\ LoopTypes /\ batch \in Batches
  BY <1>1 DEF OrderInv, OrderedInv
<1>3. LoopTypes'
  <2>1. Distinct(result)' = Distinct(result)
    BY <1>1 DEF Distinct
  <2>2. phase' \in {"pass", "rest", "rebuild", "done"}
    BY <1>1
  <2>3. at' \in Nat \ {0} /\ progress' \in BOOLEAN
    <3>1. at' = 1 /\ progress' = FALSE
      BY <1>1
    <3>2. at' \in Nat \ {0}
      BY <3>1
    <3>3. progress' \in BOOLEAN
      BY <3>1
    <3> QED
      BY <3>2, <3>3
  <2>4. Range(batch)' = Range(batch) /\ result' = result
    BY <1>1
  <2>5. result' \in Seq(Range(batch)') /\ Distinct(result)'
    BY <1>2, <2>1, <2>4 DEF LoopTypes
  <2> QED
    BY <2>2, <2>3, <2>5 DEF LoopTypes
<1>4. DOMAIN ordered \in SUBSET Nat /\ \A k \in DOMAIN ordered : k < at /\ ~(k < 1)
  BY <1>1, <1>2 DEF OrderedInv, LoopTypes
<1>5. Acyclic' = Acyclic /\ ParentsBefore' = ParentsBefore /\ \A t : Added(t)' <=> Added(t)
  BY <1>1 DEF Acyclic, ParentsBefore, Ids, Added
<1>6. ASSUME phase' = "rest", Acyclic
      PROVE  \A s \in Range(batch) : Added(s)
  <2>1. phase = "pass" /\ ~progress
    BY <1>1, <1>6
  <2>2. \A k \in DOMAIN ordered : Added(ordered[k]) \/ ~Ready(ordered[k])
    BY <1>4, <2>1 DEF OrderInv
  <2> QED
    BY <1>6, <2>2, SomeReady
<1>7. ASSUME phase' = "rebuild"
      PROVE  Len(result) = Len(batch) /\ Range(result) = Range(batch)
  <2>1. ~(Len(result) < Len(ordered))
    BY <1>1, <1>7
  <2>2. /\ Len(result) <= Len(batch)
        /\ Len(result) = Len(batch) => Range(result) = Range(batch)
    BY <1>2, WholeBatch DEF LoopTypes
  <2>3. Len(result) \in Nat /\ Len(ordered) \in Nat /\ Len(ordered) = Len(batch)
    BY <1>2 DEF OrderedInv, LoopTypes
  <2> QED
    BY <2>1, <2>2, <2>3
<1>8. phase' \in {"pass", "rest", "rebuild"}
  BY <1>1
<1>9. \A k \in DOMAIN ordered' : ~(k < at')
  BY <1>1, <1>4
<1>10. Acyclic => ParentsBefore
  BY DEF OrderInv
<1>11. batch' = batch /\ result' = result
  BY <1>1
<1> QED
  BY <1>2, <1>3, <1>5, <1>6, <1>7, <1>8, <1>9, <1>10, <1>11 DEF OrderInv

LEMMA RebuildOrder ==
    ASSUME OrderInv, phase \in {"rebuild", "done"}, phase' \in {"rebuild", "done"},
           UNCHANGED <<batch, ordered, at, progress, result>>
    PROVE  OrderInv'
<1>1. OrderedInv' /\ LoopTypes'
  BY DEF OrderInv, OrderedInv, LoopTypes, Distinct
<1>2. Acyclic' = Acyclic /\ ParentsBefore' = ParentsBefore
  BY DEF Acyclic, ParentsBefore, Ids
<1> QED
  BY <1>1, <1>2 DEF OrderInv

LEMMA StutterOrder ==
    ASSUME OrderInv, UNCHANGED vars
    PROVE  OrderInv'
<1>1. OrderedInv' /\ LoopTypes'
  BY DEF OrderInv, OrderedInv, LoopTypes, Distinct, vars
<1>2. /\ Acyclic' = Acyclic /\ ParentsBefore' = ParentsBefore
      /\ \A t : (Added(t)' <=> Added(t)) /\ (Ready(t)' <=> Ready(t))
  BY DEF Acyclic, ParentsBefore, Ids, Added, Ready, vars
<1> QED
  BY <1>1, <1>2 DEF OrderInv, vars

\* orderForRebuild: what it has added are different spans of the batch, parents first if
\* there is no cycle, and in the end all.
THEOREM OrderInvariance == Spec => []OrderInv
<1>1. ASSUME OrderInv, Next
      PROVE  OrderInv'
  <2>1. CASE Visit
    BY <1>1, <2>1, VisitOrder
  <2>2. CASE VisitRest
    BY <1>1, <2>2, VisitRestOrder
  <2>3. CASE PassEnds
    BY <1>1, <2>3, PassEndsOrder
  <2>4. CASE StartSpan
    <3>1. /\ phase = "rebuild" /\ phase' \in {"rebuild", "done"}
          /\ UNCHANGED <<batch, ordered, at, progress, result>>
      BY <2>4 DEF StartSpan
    <3> QED
      BY <1>1, <3>1, RebuildOrder
  <2>5. CASE Done
    BY <1>1, <2>5, StutterOrder DEF Done
  <2> QED
    BY <1>1, <2>1, <2>2, <2>3, <2>4, <2>5 DEF Next
<1> QED
  BY <1>1, InitOrder, StutterOrder, PTL DEF Spec

\* The order for a rebuild keeps every span and puts it after its parent.
THEOREM OrderKeepsParentsFirst == Spec => []ParentsFirst
<1>1. ASSUME OrderInv
      PROVE  ParentsFirst
  <2>1. ASSUME phase \in {"rebuild", "done"}, Acyclic, NEW i \in DOMAIN result,
               NEW j \in DOMAIN result, result[i].parent = result[j].id
        PROVE  j < i
    <3>1. result \in Seq(Range(batch)) /\ Distinct(result) /\ batch \in Batches
      BY <1>1 DEF OrderInv, OrderedInv, LoopTypes
    <3>2. result[j] \in Range(batch)
      BY <3>1
    <3>3. result[j].id \in Ids(batch)
      BY <3>1, <3>2, BatchFacts
    <3>4. PICK k \in 1 .. i - 1 : result[k].id = result[i].parent
      BY <1>1, <2>1, <3>3 DEF OrderInv, ParentsBefore
    <3>5. i \in 1 .. Len(result) /\ k \in DOMAIN result /\ k < i
      BY <3>1, <3>4
    <3>6. k = j
      BY <2>1, <3>1, <3>4, <3>5 DEF Distinct
    <3> QED
      BY <3>5, <3>6
  <2> QED
    BY <1>1, <2>1 DEF OrderInv, ParentsFirst
<1> QED
  BY <1>1, OrderInvariance, PTL

-----------------------------------------------------------------------------
(* resourceAttributesKey. *)

\* the keys of the first k attributes
Keys(r) ==
    LET key[k \in 0 .. Len(Names)] ==
            IF k = 0 THEN <<>>
            ELSE IF Names[k] \notin DOMAIN r THEN key[k - 1]
            ELSE Joined(key[k - 1], Part(Names[k], r[Names[k]]))
    IN  key

LEMMA KeyIs == \A r : ResourceKey(r) = Keys(r)[Len(Names)]
  BY DEF ResourceKey, Keys

LEMMA NamesFacts ==
    /\ Len(Names) \in Nat /\ DOMAIN Names = 1 .. Len(Names)
    /\ \A k \in 1 .. Len(Names) : Names[k] \in Parts
    /\ \A j, k \in 1 .. Len(Names) : Names[j] = Names[k] => j = k
    /\ \A n \in Range(Names) : \E k \in 1 .. Len(Names) : n = Names[k]
<1>1. Names \in Seq(Parts) /\ IsInjective(Names)
  BY ConversionAssumption
<1>2. /\ Len(Names) \in Nat /\ DOMAIN Names = 1 .. Len(Names)
      /\ \A k \in 1 .. Len(Names) : Names[k] \in Parts
  BY ONLY <1>1
<1>3. \A j, k \in 1 .. Len(Names) : Names[j] = Names[k] => j = k
  BY ONLY <1>1, <1>2 DEF IsInjective
<1>4. \A n \in Range(Names) : \E k \in 1 .. Len(Names) : n = Names[k]
  BY ONLY <1>2 DEF Range
<1> QED
  BY ONLY <1>2, <1>3, <1>4

Symbols == Parts \cup Separators

\* values without separators
PlainParts == Parts \ Separators
PlainValues == [text : Seq(PlainParts), type : PlainParts]

LEMMA Separate ==
    /\ "=" \in Symbols /\ "|" \in Symbols /\ ";" \in Symbols
    /\ \A p \in Parts : p \in Symbols
    /\ \A p \in PlainParts : p \in Parts /\ p # "=" /\ p # "|" /\ p # ";"
  BY DEF Symbols, Separators, PlainParts

LEMMA PlainAreValues == PlainValues \subseteq Values
<1>1. PlainParts \subseteq Parts
  BY DEF PlainParts
<1>2. \A t \in Seq(PlainParts) : t \in Seq(Parts)
  BY <1>1
<1> QED
  BY <1>1, <1>2 DEF PlainValues, Values

LEMMA PlainIs ==
    ASSUME NEW r, IsResource(r), Plain(r), NEW n \in DOMAIN r
    PROVE  r[n] \in PlainValues
<1>1. r[n] \in Values /\ (Range(r[n].text) \cup {r[n].type}) \cap Separators = {}
  BY DEF IsResource, Plain
<1>2. PICK t, y : t = r[n].text /\ y = r[n].type
  OBVIOUS
<1>3. r[n] = [text |-> t, type |-> y] /\ t \in Seq(Parts) /\ y \in Parts
  BY <1>1, <1>2 DEF Values
<1>4. \A i \in 1 .. Len(t) : t[i] \in PlainParts
  <2>1. \A i \in DOMAIN t : t[i] \notin Separators
    BY <1>1, <1>2 DEF Range
  <2> QED
    BY <1>3, <2>1 DEF PlainParts
<1>5. t \in Seq(PlainParts)
  BY <1>3, <1>4
<1>6. y \in PlainParts
  BY <1>1, <1>2, <1>3 DEF PlainParts
<1> QED
  BY <1>3, <1>5, <1>6 DEF PlainValues

LEMMA PairIs ==
    ASSUME NEW S, NEW x \in S, NEW y \in S
    PROVE  <<x, y>> \in Seq(S) /\ Len(<<x, y>>) = 2
  OBVIOUS

LEMMA ConcatIs ==
    ASSUME NEW S, NEW s \in Seq(S), NEW t \in Seq(S)
    PROVE  /\ s \o t \in Seq(S) /\ Len(s) \in Nat /\ Len(t) \in Nat
           /\ Len(s \o t) = Len(s) + Len(t)
           /\ \A i \in 1 .. Len(s) : (s \o t)[i] = s[i]
           /\ \A i \in 1 .. Len(t) : (s \o t)[Len(s) + i] = t[i]
<1>1. /\ s \o t \in Seq(S) /\ Len(s \o t) = Len(s) + Len(t)
      /\ \A i \in 1 .. Len(s \o t) :
            (s \o t)[i] = IF i <= Len(s) THEN s[i] ELSE t[i - Len(s)]
  BY ConcatProperties
<1>2. Len(s) \in Nat /\ Len(t) \in Nat
  OBVIOUS
<1>3. \A i \in 1 .. Len(s) : (s \o t)[i] = s[i]
  BY <1>1, <1>2
<1>4. \A i \in 1 .. Len(t) : (s \o t)[Len(s) + i] = t[i]
  BY <1>1, <1>2
<1> QED
  BY <1>1, <1>2, <1>3, <1>4

LEMMA PartIs ==
    ASSUME NEW n \in Parts, NEW value \in Values
    PROVE  /\ Part(n, value) \in Seq(Symbols) /\ value.text \in Seq(Parts)
           /\ Len(value.text) \in Nat
           /\ Len(Part(n, value)) = Len(value.text) + 4
           /\ Part(n, value)[1] = n /\ Part(n, value)[2] = "="
           /\ \A i \in 1 .. Len(value.text) : Part(n, value)[i + 2] = value.text[i]
           /\ Part(n, value)[Len(value.text) + 3] = "|"
           /\ Part(n, value)[Len(value.text) + 4] = value.type
<1>1. n \in Symbols /\ value.type \in Symbols
  BY Separate DEF Values
<1>2. PICK t : t = value.text
  OBVIOUS
<1>3. t \in Seq(Parts)
  BY <1>2 DEF Values
<1>4. t \in Seq(Symbols)
  <2>1. Parts \subseteq Symbols
    BY DEF Symbols
  <2> QED
    BY <1>3, <2>1
<1>5. PICK m \in Nat : m = Len(t)
  BY <1>4
<1>61. <<n, "=">> \in Seq(Symbols) /\ Len(<<n, "=">>) = 2
  BY <1>1, Separate, PairIs
<1>6. PICK a \in Seq(Symbols) : a = <<n, "=">> \o t
  BY <1>4, <1>61, ConcatIs
<1>7. /\ Len(a) = m + 2 /\ a[1] = n /\ a[2] = "="
      /\ \A i \in 1 .. m : a[i + 2] = t[i]
  <2>2. Len(a) = 2 + m /\ (\A i \in 1 .. 2 : a[i] = <<n, "=">>[i])
        /\ \A i \in 1 .. m : a[2 + i] = t[i]
    BY <1>4, <1>5, <1>6, <1>61, ConcatIs
  <2> QED
    BY <2>2
<1>8. PICK z \in Seq(Symbols) : z = <<"|", value.type>>
  BY <1>1, Separate, PairIs
<1>9. Len(z) = 2 /\ z[1] = "|" /\ z[2] = value.type
  BY <1>8
<1>10. PICK p \in Seq(Symbols) : p = a \o z
  BY ConcatIs
<1>11. /\ Len(p) = m + 4
       /\ \A i \in 1 .. (m + 2) : p[i] = a[i]
       /\ p[m + 3] = "|" /\ p[m + 4] = value.type
  <2>1. Len(p) = (m + 2) + 2 /\ (\A i \in 1 .. (m + 2) : p[i] = a[i])
        /\ \A i \in 1 .. 2 : p[(m + 2) + i] = z[i]
    <3>1. /\ Len(a \o z) = Len(a) + Len(z) /\ (\A i \in 1 .. Len(a) : (a \o z)[i] = a[i])
          /\ \A i \in 1 .. Len(z) : (a \o z)[Len(a) + i] = z[i]
      BY ConcatIs
    <3> QED
      BY <1>7, <1>9, <1>10, <3>1
  <2>2. p[(m + 2) + 1] = z[1] /\ p[(m + 2) + 2] = z[2]
    BY <2>1
  <2> QED
    BY <1>9, <2>1, <2>2
<1>12. p[1] = n /\ p[2] = "=" /\ \A i \in 1 .. m : p[i + 2] = t[i]
  BY <1>7, <1>11
<1>13. p = Part(n, value)
  BY <1>2, <1>6, <1>8, <1>10 DEF Part
<1> QED
  BY <1>2, <1>3, <1>5, <1>11, <1>12, <1>13

LEMMA KeysIs ==
    ASSUME NEW r, IsResource(r)
    PROVE  /\ Keys(r)[0] = <<>>
           /\ \A k \in 0 .. Len(Names) : Keys(r)[k] \in Seq(Symbols)
           /\ \A k \in 1 .. Len(Names) :
                 Keys(r)[k] = IF Names[k] \notin DOMAIN r THEN Keys(r)[k - 1]
                              ELSE Joined(Keys(r)[k - 1], Part(Names[k], r[Names[k]]))
<1>1. PICK N \in Nat : N = Len(Names)
  BY NamesFacts
<1> DEFINE S == Seq(Symbols)
           F == [x \in S \X (1 .. N) |->
                    IF Names[x[2]] \notin DOMAIN r THEN x[1]
                    ELSE Joined(x[1], Part(Names[x[2]], r[Names[x[2]]]))]
           Def(g) == g = [k \in 0 .. N |->
                            IF k = 0 THEN <<>>
                            ELSE IF Names[k] \notin DOMAIN r THEN g[k - 1]
                            ELSE Joined(g[k - 1], Part(Names[k], r[Names[k]]))]
<1>2. ASSUME NEW s \in S, NEW k \in 1 .. N, Names[k] \in DOMAIN r
      PROVE  Joined(s, Part(Names[k], r[Names[k]])) \in S
  <2>1. Names[k] \in Parts /\ r[Names[k]] \in Values
    BY <1>1, <1>2, NamesFacts DEF IsResource
  <2>2. Part(Names[k], r[Names[k]]) \in S
    BY <2>1, PartIs
  <2>3. \A p \in S : Joined(s, p) \in S
    <3>1. Append(s, ";") \in S
      BY Separate, AppendProperties DEF S
    <3> QED
      BY <3>1, ConcatIs DEF Joined, S
  <2> QED
    BY <2>2, <2>3
<1>3. Rule(F, S, N)
  <2>1. \A x \in S \X (1 .. N) : F[x] \in S
    BY <1>2
  <2> QED
    BY <2>1 DEF Rule
<1>4. <<>> \in S
  OBVIOUS
<1>5. \A s \in S, k \in 1 .. N :
          F[<<s, k>>] = IF Names[k] \notin DOMAIN r THEN s
                        ELSE Joined(s, Part(Names[k], r[Names[k]]))
  OBVIOUS
<1> HIDE DEF F, S
<1>6. PICK g : Follows(g, F, S, N, <<>>)
  BY <1>3, <1>4, Recursion
<1>7. /\ g \in [0 .. N -> S] /\ g[0] = <<>>
      /\ \A k \in 1 .. N : g[k] = IF Names[k] \notin DOMAIN r THEN g[k - 1]
                                  ELSE Joined(g[k - 1], Part(Names[k], r[Names[k]]))
  <2>1. g \in [0 .. N -> S] /\ g[0] = <<>> /\ \A k \in 1 .. N : g[k] = F[<<g[k - 1], k>>]
    BY <1>6 DEF Follows
  <2>2. \A k \in 1 .. N : k - 1 \in 0 .. N
    OBVIOUS
  <2>3. \A k \in 1 .. N : g[k - 1] \in S
    BY <2>1, <2>2
  <2> QED
    BY <1>5, <2>1, <2>3
<1>8. Def(g)
  <2>1. \A k \in 0 .. N : k = 0 \/ k \in 1 .. N
    OBVIOUS
  <2>2. \A k \in 0 .. N :
            g[k] = IF k = 0 THEN <<>>
                   ELSE IF Names[k] \notin DOMAIN r THEN g[k - 1]
                   ELSE Joined(g[k - 1], Part(Names[k], r[Names[k]]))
    BY <1>7, <2>1
  <2> QED
    BY <1>7, <2>2
<1>9. Keys(r) = CHOOSE h : Def(h)
  BY <1>1 DEF Keys
<1>10. Def(Keys(r))
  BY <1>8, <1>9
<1> DEFINE h == Keys(r)
<1>11. h[0] = <<>> /\ \A k \in 1 .. N : h[k] = IF Names[k] \notin DOMAIN r THEN h[k - 1]
                                  ELSE Joined(h[k - 1], Part(Names[k], r[Names[k]]))
  <2>1. \A k \in 1 .. N : k \in 0 .. N /\ k # 0
    OBVIOUS
  <2>2. 0 \in 0 .. N
    OBVIOUS
  <2> QED
    BY <1>10, <2>1, <2>2
<1> HIDE DEF h, Def
<1> DEFINE T == {k \in 0 .. N : h[k] \in S}
<1>12. 0 \in T
  BY <1>4, <1>11
<1>13. ASSUME NEW k \in 1 .. N, k - 1 \in T
       PROVE  k \in T
  BY <1>2, <1>11, <1>13
<1> HIDE DEF T
<1>14. 0 .. N \subseteq T
  BY <1>12, <1>13, InductionTo
<1>15. \A k \in 0 .. N : h[k] \in S
  BY <1>14 DEF T
<1> QED
  BY <1>1, <1>11, <1>15 DEF h, S

\* x ends with the part of n and v, after q
EndsWith(x, q, n, v) == q \in Seq(Symbols) /\ x = q \o Part(n, v)

\* such a key holds nothing but the part from its last "=" on
Shape(x, q, n, v, l, m) ==
    /\ l = Len(q) /\ m = Len(v.text)
    /\ Len(x) = l + m + 4
    /\ x[l + 1] = n /\ x[l + 2] = "="
    /\ \A i \in (l + 3) .. (l + m + 4) : x[i] # "="
    /\ \A i \in 1 .. m : x[l + 2 + i] = v.text[i]
    /\ x[l + m + 4] = v.type
    /\ \A i \in 1 .. l : x[i] = q[i]

LEMMA PartEnds ==
    ASSUME NEW n \in Parts, NEW v \in PlainValues, NEW q, NEW x, EndsWith(x, q, n, v)
    PROVE  \E l, m \in Nat : Shape(x, q, n, v, l, m)
<1>01. /\ q \in Seq(Symbols) /\ x = q \o Part(n, v) /\ v \in Values
       /\ v.text \in Seq(PlainParts) /\ v.type \in PlainParts
  BY PlainAreValues DEF EndsWith, PlainValues
<1>02. PICK l \in Nat, m \in Nat : l = Len(q) /\ m = Len(v.text)
  BY <1>01
<1>1. PICK p \in Seq(Symbols) : p = Part(n, v)
  BY <1>01, PartIs
<1>2. /\ v.text \in Seq(Parts) /\ Len(p) = m + 4
      /\ p[1] = n /\ p[2] = "=" /\ (\A i \in 1 .. m : p[i + 2] = v.text[i])
      /\ p[m + 3] = "|" /\ p[m + 4] = v.type
  BY <1>1, <1>01, <1>02, PartIs
<1>3. /\ x \in Seq(Symbols) /\ Len(x) = l + (m + 4)
      /\ \A i \in 1 .. l : x[i] = q[i]
      /\ \A i \in 1 .. (m + 4) : x[l + i] = p[i]
  <2>1. /\ q \o p \in Seq(Symbols) /\ Len(q \o p) = Len(q) + Len(p)
        /\ \A i \in 1 .. Len(q) : (q \o p)[i] = q[i]
        /\ \A i \in 1 .. Len(p) : (q \o p)[Len(q) + i] = p[i]
    BY <1>01, ConcatIs
  <2> QED
    BY <1>01, <1>02, <1>1, <1>2, <2>1
<1>4. x[l + 1] = n /\ x[l + 2] = "=" /\ x[l + m + 4] = v.type /\ x[l + (m + 3)] = "|"
  <2>1. 1 \in 1 .. (m + 4) /\ 2 \in 1 .. (m + 4) /\ m + 3 \in 1 .. (m + 4)
        /\ m + 4 \in 1 .. (m + 4) /\ l + m + 4 = l + (m + 4)
    OBVIOUS
  <2> QED
    BY <1>2, <1>3, <2>1
<1>5. ASSUME NEW i \in 1 .. m
      PROVE  x[l + 2 + i] = v.text[i] /\ v.text[i] \in PlainParts
  <2>1. i + 2 \in 1 .. (m + 4) /\ l + 2 + i = l + (i + 2)
    OBVIOUS
  <2>2. x[l + 2 + i] = v.text[i]
    BY <1>2, <1>3, <2>1
  <2>3. v.text[i] \in PlainParts
    BY <1>01, <1>02
  <2> QED
    BY <2>2, <2>3
<1>6. ASSUME NEW i \in (l + 3) .. (l + m + 4)
      PROVE  x[i] # "="
  <2>1. CASE i = l + m + 4
    BY <1>01, <1>4, <2>1, Separate
  <2>2. CASE i = l + (m + 3)
    BY <1>4, <2>2
  <2>3. CASE i # l + m + 4 /\ i # l + (m + 3)
    <3>1. PICK j \in 1 .. m : i = l + 2 + j
      <4>1. i \in Int /\ i >= l + 3 /\ i <= l + m + 4
        OBVIOUS
      <4>2. i - (l + 2) \in 1 .. m /\ i = l + 2 + (i - (l + 2))
        BY <2>3, <4>1
      <4> QED
        BY <4>2
    <3>2. x[i] \in PlainParts
      BY <1>5, <3>1
    <3> QED
      BY <3>2, Separate
  <2> QED
    BY <2>1, <2>2, <2>3
<1>7. Len(x) = l + m + 4
  BY <1>3
<1>8. Shape(x, q, n, v, l, m)
  BY <1>02, <1>3, <1>4, <1>5, <1>6, <1>7 DEF Shape
<1> QED
  BY <1>8

\* what ends with a part determines the part
LEMMA PartsDiffer ==
    ASSUME NEW n \in Parts, NEW v \in PlainValues, NEW o \in Parts, NEW w \in PlainValues,
           NEW q, NEW r, NEW x, EndsWith(x, q, n, v), EndsWith(x, r, o, w)
    PROVE  q = r /\ n = o /\ v = w
<1>2. /\ v.text \in Seq(PlainParts) /\ w.text \in Seq(PlainParts)
      /\ q \in Seq(Symbols) /\ r \in Seq(Symbols)
  BY DEF PlainValues, EndsWith
<1>3. PICK l, m \in Nat : Shape(x, q, n, v, l, m)
  BY PartEnds
<1>4. PICK j, k \in Nat : Shape(x, r, o, w, j, k)
  BY PartEnds
<1>5. /\ l = Len(q) /\ m = Len(v.text)
      /\ Len(x) = l + m + 4 /\ x[l + 1] = n /\ x[l + 2] = "="
      /\ \A i \in (l + 3) .. (l + m + 4) : x[i] # "="
      /\ \A i \in 1 .. m : x[l + 2 + i] = v.text[i]
      /\ x[l + m + 4] = v.type
      /\ \A i \in 1 .. l : x[i] = q[i]
  BY <1>3 DEF Shape
<1>6. /\ j = Len(r) /\ k = Len(w.text)
      /\ Len(x) = j + k + 4 /\ x[j + 1] = o /\ x[j + 2] = "="
      /\ \A i \in (j + 3) .. (j + k + 4) : x[i] # "="
      /\ \A i \in 1 .. k : x[j + 2 + i] = w.text[i]
      /\ x[j + k + 4] = w.type
      /\ \A i \in 1 .. j : x[i] = r[i]
  BY <1>4 DEF Shape
<1>7. l + m + 4 = j + k + 4
  BY <1>5, <1>6
<1>8. l = j
  <2>1. ~(l < j)
    <3>1. l < j => j + 2 \in (l + 3) .. (l + m + 4)
      BY <1>7
    <3> QED
      BY <1>5, <1>6, <3>1
  <2>2. ~(j < l)
    <3>1. j < l => l + 2 \in (j + 3) .. (j + k + 4)
      BY <1>7
    <3> QED
      BY <1>5, <1>6, <3>1
  <2> QED
    BY <2>1, <2>2
<1>9. m = k
  BY <1>7, <1>8
<1>10. q = r
  <2>1. Len(q) = Len(r) /\ \A i \in 1 .. Len(q) : q[i] = r[i]
    BY <1>5, <1>6, <1>8
  <2> QED
    BY <1>2, <2>1, SeqEqual
<1>11. v.text = w.text
  <2>1. Len(v.text) = Len(w.text) /\ \A i \in 1 .. Len(v.text) : v.text[i] = w.text[i]
    BY <1>5, <1>6, <1>8, <1>9
  <2> QED
    BY <1>2, <2>1, SeqEqual
<1>12. v = w
  BY <1>5, <1>6, <1>8, <1>9, <1>11 DEF PlainValues
<1> QED
  BY <1>5, <1>6, <1>8, <1>10, <1>12

\* what goes before a part
Before(s) == IF s = <<>> THEN <<>> ELSE Append(s, ";")

LEMMA JoinedIs ==
    ASSUME NEW s \in Seq(Symbols), NEW p \in Seq(Symbols)
    PROVE  Before(s) \in Seq(Symbols) /\ Joined(s, p) = Before(s) \o p
<1>1. <<>> \o p = p
  BY ConcatEmptySeq
<1>2. Append(s, ";") \in Seq(Symbols)
  BY Separate, AppendProperties
<1>3. <<>> \in Seq(Symbols)
  OBVIOUS
<1> QED
  BY <1>1, <1>2, <1>3 DEF Before, Joined

LEMMA JoinedEnds ==
    ASSUME NEW s \in Seq(Symbols), NEW n \in Parts, NEW v \in Values, NEW x,
           x = Joined(s, Part(n, v))
    PROVE  EndsWith(x, Before(s), n, v)
<1>1. PICK p \in Seq(Symbols) : p = Part(n, v)
  BY PartIs
<1>2. Before(s) \in Seq(Symbols) /\ Joined(s, p) = Before(s) \o p
  BY JoinedIs
<1> QED
  BY <1>1, <1>2 DEF EndsWith

LEMMA BeforeDiffers ==
    ASSUME NEW s \in Seq(Symbols), NEW t \in Seq(Symbols), Before(s) = Before(t)
    PROVE  s = t
<1>1. Append(s, ";") # <<>> /\ Append(t, ";") # <<>>
  BY Separate, AppendProperties
<1>2. Append(s, ";") = Append(t, ";") => s = t
  <2>1. PICK e \in Symbols : e = ";"
    BY Separate
  <2>2. Append(s, e) = Append(t, e) <=> s = t /\ e = e
    BY AppendInjective
  <2> QED
    BY <2>1, <2>2
<1> QED
  BY <1>1, <1>2 DEF Before

\* a key is empty or ends with one of the attributes that were joined
EndsAmong(s, k) ==
    s = <<>> \/ \E q \in Seq(Symbols), j \in 1 .. k, v \in PlainValues : EndsWith(s, q, Names[j], v)

LEMMA KeysEnd ==
    ASSUME NEW r, IsResource(r), Plain(r)
    PROVE  \A k \in 0 .. Len(Names) : EndsAmong(Keys(r)[k], k)
<1>1. PICK N \in Nat : N = Len(Names)
  BY NamesFacts
<1> DEFINE h == Keys(r)
           T == {k \in 0 .. N : EndsAmong(h[k], k)}
<1>2. /\ h[0] = <<>> /\ \A k \in 0 .. N : h[k] \in Seq(Symbols)
      /\ \A k \in 1 .. N : h[k] = IF Names[k] \notin DOMAIN r THEN h[k - 1]
                                  ELSE Joined(h[k - 1], Part(Names[k], r[Names[k]]))
  BY <1>1, KeysIs
<1> HIDE DEF h
<1>3. 0 \in T
  BY <1>2 DEF EndsAmong
<1>4. ASSUME NEW k \in 1 .. N, k - 1 \in T
      PROVE  k \in T
  <2>1. EndsAmong(h[k - 1], k - 1) /\ k \in 0 .. N /\ k - 1 \in 0 .. N
    BY <1>4
  <2>2. CASE Names[k] \notin DOMAIN r
    <3>1. h[k] = h[k - 1]
      BY <1>2, <2>2
    <3>2. 1 .. (k - 1) \subseteq 1 .. k
      OBVIOUS
    <3>3. EndsAmong(h[k], k)
      BY <2>1, <3>1, <3>2 DEF EndsAmong
    <3> QED
      BY <2>1, <3>3
  <2>3. CASE Names[k] \in DOMAIN r
    <3>1. PICK v \in PlainValues : v = r[Names[k]]
      BY <2>3, PlainIs
    <3>2. h[k] = Joined(h[k - 1], Part(Names[k], v))
      BY <1>2, <2>3, <3>1
    <3>3. Names[k] \in Parts
      BY <1>1, NamesFacts
    <3>4. PICK s \in Seq(Symbols) : s = h[k - 1]
      BY <1>2, <2>1
    <3>41. h[k] = Joined(s, Part(Names[k], v))
      BY <3>2, <3>4
    <3>42. EndsWith(h[k], Before(s), Names[k], v)
      BY <3>3, <3>41, PlainAreValues, JoinedEnds
    <3>5. PICK q \in Seq(Symbols) : EndsWith(h[k], q, Names[k], v)
      BY <3>42 DEF EndsWith
    <3>6. k \in 1 .. k
      OBVIOUS
    <3>7. EndsAmong(h[k], k)
      BY <3>5, <3>6 DEF EndsAmong
    <3> QED
      BY <2>1, <3>7
  <2> QED
    BY <2>2, <2>3
<1> HIDE DEF T
<1>5. 0 .. N \subseteq T
  BY <1>3, <1>4, InductionTo
<1> QED
  BY <1>1, <1>5 DEF T, h

Same(r, u, n) ==
    /\ n \in DOMAIN r <=> n \in DOMAIN u
    /\ n \in DOMAIN r => r[n] = u[n]

\* a key to which an attribute is joined is no key of the attributes before
LEMMA NotJoined ==
    ASSUME NEW k \in 1 .. Len(Names), NEW s \in Seq(Symbols), NEW v \in PlainValues,
           NEW t, EndsAmong(t, k - 1), t = Joined(s, Part(Names[k], v))
    PROVE  FALSE
<1>1. Names[k] \in Parts
  BY NamesFacts
<1>3. PICK q : EndsWith(t, q, Names[k], v)
  BY <1>1, PlainAreValues, JoinedEnds
<1>4. t # <<>>
  <2>1. PICK l, m \in Nat : Shape(t, q, Names[k], v, l, m)
    BY <1>1, <1>3, PartEnds
  <2> QED
    BY <2>1 DEF Shape
<1>5. PICK r \in Seq(Symbols), j \in 1 .. (k - 1), w \in PlainValues : EndsWith(t, r, Names[j], w)
  BY <1>4 DEF EndsAmong
<1>6. j \in 1 .. Len(Names) /\ j # k
  BY NamesFacts
<1>7. Names[j] \in Parts
  BY <1>6, NamesFacts
<1>8. Names[j] = Names[k]
  BY <1>1, <1>3, <1>5, <1>7, PartsDiffer
<1> QED
  BY <1>6, <1>8, NamesFacts

\* the keys of resources without separators tell them apart
LEMMA KeysDiffer ==
    ASSUME NEW r, IsResource(r), Plain(r), NEW u, IsResource(u), Plain(u),
           ResourceKey(r) = ResourceKey(u)
    PROVE  r = u
<1>1. PICK N \in Nat : N = Len(Names)
  BY NamesFacts
<1> DEFINE h == Keys(r)
           g == Keys(u)
           T == {k \in 0 .. N : h[k] = g[k] => \A j \in 1 .. k : Same(r, u, Names[j])}
<1>2. /\ \A k \in 0 .. N : h[k] \in Seq(Symbols) /\ EndsAmong(h[k], k)
      /\ \A k \in 1 .. N : h[k] = IF Names[k] \notin DOMAIN r THEN h[k - 1]
                                  ELSE Joined(h[k - 1], Part(Names[k], r[Names[k]]))
  BY <1>1, KeysIs, KeysEnd
<1>3. /\ \A k \in 0 .. N : g[k] \in Seq(Symbols) /\ EndsAmong(g[k], k)
      /\ \A k \in 1 .. N : g[k] = IF Names[k] \notin DOMAIN u THEN g[k - 1]
                                  ELSE Joined(g[k - 1], Part(Names[k], u[Names[k]]))
  BY <1>1, KeysIs, KeysEnd
<1>4. h[N] = g[N]
  BY <1>1, KeyIs
<1> HIDE DEF h, g
<1>5. 0 \in T
  OBVIOUS
<1>6. ASSUME NEW k \in 1 .. N, k - 1 \in T
      PROVE  k \in T
  <2>1. k \in 0 .. N /\ k - 1 \in 0 .. N
    OBVIOUS
  <2>2. SUFFICES ASSUME h[k] = g[k]
                 PROVE  \A j \in 1 .. k : Same(r, u, Names[j])
    BY <2>1
  <2>3. ASSUME h[k - 1] = g[k - 1], Same(r, u, Names[k])
        PROVE  \A j \in 1 .. k : Same(r, u, Names[j])
    <3>1. \A j \in 1 .. (k - 1) : Same(r, u, Names[j])
      BY <1>6, <2>3
    <3>2. \A j \in 1 .. k : j = k \/ j \in 1 .. (k - 1)
      OBVIOUS
    <3> QED
      BY <2>3, <3>1, <3>2
  <2>4. CASE Names[k] \notin DOMAIN r /\ Names[k] \notin DOMAIN u
    <3>1. h[k - 1] = g[k - 1]
      BY <1>2, <1>3, <2>2, <2>4
    <3>2. Same(r, u, Names[k])
      BY <2>4 DEF Same
    <3> QED
      BY <2>3, <3>1, <3>2
  <2>5. CASE Names[k] \in DOMAIN r /\ Names[k] \in DOMAIN u
    <3>1. PICK v \in PlainValues, w \in PlainValues : v = r[Names[k]] /\ w = u[Names[k]]
      BY <2>5, PlainIs
    <3>2. Names[k] \in Parts
      BY <1>1, NamesFacts
    <3>3. PICK s \in Seq(Symbols), t \in Seq(Symbols) : s = h[k - 1] /\ t = g[k - 1]
      BY <1>2, <1>3, <2>1
    <3>4. h[k] = Joined(s, Part(Names[k], v)) /\ h[k] = Joined(t, Part(Names[k], w))
      BY <1>2, <1>3, <2>2, <2>5, <3>1, <3>3
    <3>5. EndsWith(h[k], Before(s), Names[k], v) /\ EndsWith(h[k], Before(t), Names[k], w)
      BY <3>2, <3>4, PlainAreValues, JoinedEnds
    <3>6. Before(s) = Before(t) /\ v = w
      BY <3>2, <3>5, PartsDiffer
    <3>7. s = t
      BY <3>6, BeforeDiffers
    <3>8. h[k - 1] = g[k - 1]
      BY <3>3, <3>7
    <3>9. Same(r, u, Names[k])
      BY <2>5, <3>1, <3>6 DEF Same
    <3> QED
      BY <2>3, <3>8, <3>9
  <2>6. CASE Names[k] \in DOMAIN r /\ Names[k] \notin DOMAIN u
    <3>1. PICK v \in PlainValues : v = r[Names[k]]
      BY <2>6, PlainIs
    <3>2. g[k - 1] = Joined(h[k - 1], Part(Names[k], v))
      BY <1>2, <1>3, <2>2, <2>6, <3>1
    <3>3. EndsAmong(g[k - 1], k - 1) /\ h[k - 1] \in Seq(Symbols) /\ k \in 1 .. Len(Names)
      BY <1>1, <1>2, <1>3, <2>1
    <3> QED
      BY <3>2, <3>3, NotJoined
  <2>7. CASE Names[k] \notin DOMAIN r /\ Names[k] \in DOMAIN u
    <3>1. PICK v \in PlainValues : v = u[Names[k]]
      BY <2>7, PlainIs
    <3>2. h[k - 1] = Joined(g[k - 1], Part(Names[k], v))
      BY <1>2, <1>3, <2>2, <2>7, <3>1
    <3>3. EndsAmong(h[k - 1], k - 1) /\ g[k - 1] \in Seq(Symbols) /\ k \in 1 .. Len(Names)
      BY <1>1, <1>2, <1>3, <2>1
    <3> QED
      BY <3>2, <3>3, NotJoined
  <2> QED
    BY <2>4, <2>5, <2>6, <2>7
<1> HIDE DEF T
<1>7. 0 .. N \subseteq T
  BY <1>5, <1>6, InductionTo
<1>8. \A j \in 1 .. N : Same(r, u, Names[j])
  BY <1>4, <1>7 DEF T
<1>9. \A n \in Range(Names) : Same(r, u, n)
  BY <1>1, <1>8, NamesFacts
<1>10. /\ DOMAIN r \subseteq Range(Names) /\ r = [n \in DOMAIN r |-> r[n]]
       /\ DOMAIN u \subseteq Range(Names) /\ u = [n \in DOMAIN u |-> u[n]]
  BY DEF IsResource
<1>11. DOMAIN r = DOMAIN u
  BY <1>9, <1>10 DEF Same
<1>12. \A n \in DOMAIN r : r[n] = u[n]
  BY <1>9, <1>10 DEF Same
<1> QED
  BY <1>10, <1>11, <1>12

LEMMA SameKeyAlike ==
    ASSUME NEW r, IsResource(r), NEW u, IsResource(u), ResourceKey(r) = ResourceKey(u)
    PROVE  Alike(r, u)
<1>1. Plain(r) /\ Plain(u) => r = u
  BY KeysDiffer
<1> QED
  BY <1>1 DEF Alike

-----------------------------------------------------------------------------
(* toReadOnlySpans. *)

LEMMA NewIdsFacts ==
    /\ \A i \in 1 .. Len(NewIds) : NewIds[i] \in Nat \ {NoSpan} /\ NewIds[i] \in Range(NewIds)
    /\ \A i, j \in 1 .. Len(NewIds) : NewIds[i] = NewIds[j] => i = j
    /\ Len(NewIds) \in Nat
<1>1. NewIds \in Seq(Nat \ {NoSpan}) /\ IsInjective(NewIds)
  BY ConversionAssumption
<1>2. /\ Len(NewIds) \in Nat /\ DOMAIN NewIds = 1 .. Len(NewIds)
      /\ \A i \in 1 .. Len(NewIds) : NewIds[i] \in Nat \ {NoSpan}
  BY ONLY <1>1
<1>3. \A i, j \in 1 .. Len(NewIds) : NewIds[i] = NewIds[j] => i = j
  BY ONLY <1>1, <1>2 DEF IsInjective
<1>4. \A i \in 1 .. Len(NewIds) : NewIds[i] \in Range(NewIds)
  BY ONLY <1>2 DEF Range
<1> QED
  BY ONLY <1>2, <1>3, <1>4

\* the spans that are rebuilt are the batch
LEMMA ResultFacts ==
    ASSUME OrderInv, phase \in {"rebuild", "done"}
    PROVE  /\ result \in Seq(Range(batch)) /\ Len(result) = Len(batch)
           /\ DOMAIN result = 1 .. Len(batch) /\ Ids(result) = Ids(batch)
           /\ \A i \in 1 .. Len(batch) :
                 /\ result[i] \in Range(batch) /\ IsSpan(result[i])
                 /\ result[i].id \in Ids(batch) /\ result[i].parent \notin Range(NewIds)
           /\ \A i, j \in 1 .. Len(batch) : result[i].id = result[j].id => i = j
           /\ Len(batch) \in Nat \ {0} /\ Len(batch) <= Len(NewIds) /\ batch \in Batches
<1>1. /\ result \in Seq(Range(batch)) /\ Len(result) = Len(batch) /\ Distinct(result)
      /\ Range(result) = Range(batch) /\ batch \in Batches
  BY DEF OrderInv, OrderedInv, LoopTypes
<1>2. Len(batch) \in Nat \ {0} /\ DOMAIN batch = 1 .. Len(batch) /\ Len(batch) <= Len(NewIds)
  BY <1>1, BatchFacts
<1>3. DOMAIN result = 1 .. Len(batch)
  BY <1>1, <1>2
<1>4. \A i \in 1 .. Len(batch) : result[i] \in Range(batch)
  BY <1>1, <1>3
<1>5. \A i \in 1 .. Len(batch) :
          IsSpan(result[i]) /\ result[i].id \in Ids(batch) /\ result[i].parent \notin Range(NewIds)
  BY <1>1, <1>4, BatchFacts
<1>6. Ids(result) = Ids(batch)
  <2>1. \A i \in DOMAIN batch : batch[i] \in Range(result)
    BY <1>1 DEF Range
  <2>2. \A i \in DOMAIN batch : \E j \in DOMAIN result : batch[i] = result[j]
    BY <2>1 DEF Range
  <2> QED
    BY <1>3, <1>5, <2>2 DEF Ids
<1>7. \A i, j \in 1 .. Len(batch) : result[i].id = result[j].id => i = j
  BY <1>1, <1>3 DEF Distinct
<1> QED
  BY <1>1, <1>2, <1>3, <1>4, <1>5, <1>6, <1>7

\* span i has the resource that it had, or one alike
Kept(i) ==
    \E j \in DOMAIN result :
        /\ Alike(result[i].resource, result[j].resource)
        /\ rebuilt[i].resource = WithEnvironment(result[j].resource)

\* the provider that a span gets has that span's resource, or one alike
LEMMA SharedIsAlike ==
    ASSUME OrderInv, phase \in {"rebuild", "done"}, NEW k \in DOMAIN result
    PROVE  \E f \in DOMAIN result :
              /\ Alike(result[k].resource, result[f].resource)
              /\ SharedResource(result[k]) = WithEnvironment(result[f].resource)
<1> DEFINE same == {j \in DOMAIN result :
                       ResourceKey(result[j].resource) = ResourceKey(result[k].resource)}
           First(j) == /\ ResourceKey(result[j].resource) = ResourceKey(result[k].resource)
                       /\ \A i \in 1 .. j - 1 :
                             ResourceKey(result[i].resource) # ResourceKey(result[k].resource)
<1>1. DOMAIN result = 1 .. Len(batch) /\ Len(batch) \in Nat
      /\ \A i \in DOMAIN result : IsSpan(result[i])
  BY ResultFacts
<1>2. same \in SUBSET Nat /\ same # {}
  BY <1>1
<1>3. PICK j \in same : \A i \in same : j <= i
  BY <1>2, LeastNat
<1>4. j \in DOMAIN result /\ First(j)
  <2>1. ASSUME NEW i \in 1 .. j - 1, i \in same
        PROVE  FALSE
    BY <1>2, <1>3, <2>1
  <2>2. 1 .. j - 1 \subseteq DOMAIN result
    BY <1>1
  <2> QED
    BY <2>1, <2>2
<1>5. PICK f : f = CHOOSE i \in DOMAIN result : First(i)
  OBVIOUS
<1>6. f \in DOMAIN result /\ First(f)
  BY <1>4, <1>5
<1>7. IsResource(result[f].resource) /\ IsResource(result[k].resource)
  BY <1>1, <1>6 DEF IsSpan
<1>8. Alike(result[k].resource, result[f].resource)
  BY <1>6, <1>7, SameKeyAlike
<1>9. SharedResource(result[k]) = WithEnvironment(result[f].resource)
  BY <1>5 DEF SharedResource
<1> QED
  BY <1>6, <1>8, <1>9

\* a span as the SDK makes it
Built == [id : Nat, start : Int, parent : Nat,
          resource : {WithEnvironment(s.resource) : s \in Range(batch)}]

\* What has been rebuilt is the first spans of the order, each with its own new ID and, if
\* it is in a tree, that of its parent.
RebuildInv ==
    /\ phase \in {"pass", "rest"} => rebuilt = <<>>
    /\ rebuilt \in Seq(Built)
    /\ phase = "rebuild" => Len(rebuilt) < Len(batch)
    /\ phase = "done" => Len(rebuilt) = Len(batch)
    /\ \A i \in DOMAIN rebuilt :
          /\ rebuilt[i].id = NewIds[i]
          /\ Kept(i)
          /\ result[i].parent \notin Ids(batch) => rebuilt[i].parent = result[i].parent
    /\ Acyclic => \A i \in DOMAIN rebuilt, j \in DOMAIN result :
          result[i].parent = result[j].id => rebuilt[i].parent = NewIds[j]

LEMMA InitRebuild == Init => RebuildInv
<1> SUFFICES ASSUME Init PROVE RebuildInv
  OBVIOUS
<1>1. phase = "pass" /\ rebuilt = <<>>
  BY DEF Init
<1>2. rebuilt \in Seq(Built) /\ DOMAIN rebuilt = {}
  BY <1>1
<1> QED
  BY <1>1, <1>2 DEF RebuildInv

LEMMA OrderRebuild ==
    ASSUME OrderInv, OrderInv', RebuildInv, phase \in {"pass", "rest"},
           phase' \in {"pass", "rest", "rebuild"}, UNCHANGED <<batch, rebuilt>>
    PROVE  RebuildInv'
<1>1. rebuilt' = <<>> /\ rebuilt' \in Seq(Built)' /\ DOMAIN rebuilt' = {} /\ Len(rebuilt') = 0
  <2>1. rebuilt' = <<>>
    BY DEF RebuildInv
  <2> QED
    BY <2>1
<1>2. Len(batch) \in Nat \ {0} /\ batch' = batch
  BY BatchFacts DEF OrderInv, OrderedInv
<1>3. Len(batch)' = Len(batch) /\ 0 < Len(batch)
  BY <1>2
<1> QED
  BY <1>1, <1>3 DEF RebuildInv

\* what the SDK makes of one span
LEMMA ParentIs ==
    ASSUME OrderInv, RebuildInv, phase = "rebuild", NEW k \in DOMAIN result,
           k = Len(rebuilt) + 1
    PROVE  /\ ParentContext(result[k]) \in Nat
           /\ result[k].parent \notin Ids(batch) => ParentContext(result[k]) = result[k].parent
           /\ Acyclic => \A j \in DOMAIN result :
                 result[k].parent = result[j].id => ParentContext(result[k]) = NewIds[j]
<1>1. /\ DOMAIN result = 1 .. Len(batch) /\ Len(batch) \in Nat /\ batch \in Batches
      /\ \A i \in DOMAIN result : IsSpan(result[i]) /\ result[i].id \in Ids(batch)
      /\ \A i, j \in DOMAIN result : result[i].id = result[j].id => i = j
  BY ResultFacts
<1>2. rebuilt \in Seq(Built) /\ Len(rebuilt) < Len(batch)
  BY DEF RebuildInv
<1>3. DOMAIN rebuilt = 1 .. (k - 1) /\ k \in 1 .. Len(batch) /\ DOMAIN rebuilt \subseteq DOMAIN result
  BY <1>1, <1>2
<1> DEFINE s == result[k]
           known == {i \in DOMAIN rebuilt : result[i].id = s.parent}
<1>4. ParentContext(s) = IF s.parent # NoSpan /\ known # {}
                         THEN rebuilt[CHOOSE i \in known : TRUE].id ELSE s.parent
  BY DEF ParentContext
<1>5. s.parent \in Nat
  BY <1>1 DEF IsSpan
<1> HIDE DEF s
<1>6. ASSUME known # {}
      PROVE  \E i \in known : i = CHOOSE c \in known : TRUE
  BY <1>6
<1>7. ParentContext(s) \in Nat
  <2>1. CASE known = {}
    BY <1>4, <1>5, <2>1
  <2>2. CASE known # {}
    <3>1. PICK i \in DOMAIN rebuilt : i = CHOOSE c \in known : TRUE
      BY <1>6, <2>2
    <3>2. rebuilt[i].id \in Nat
      <4>1. rebuilt[i] \in Built
        BY <1>2
      <4> QED
        BY <4>1 DEF Built
    <3> QED
      BY <1>4, <1>5, <3>1, <3>2
  <2> QED
    BY <2>1, <2>2
<1>8. ASSUME s.parent \notin Ids(batch)
      PROVE  ParentContext(s) = s.parent
  <2>1. known = {}
    BY <1>1, <1>3, <1>8
  <2> QED
    BY <1>4, <2>1
<1>9. ASSUME Acyclic, NEW j \in DOMAIN result, s.parent = result[j].id
      PROVE  ParentContext(s) = NewIds[j]
  <2>1. s.parent \in Ids(batch)
    BY <1>1, <1>9
  <2>2. PICK i \in 1 .. k - 1 : result[i].id = s.parent
    BY <1>9, <2>1 DEF OrderInv, ParentsBefore, s
  <2>3. i = j
    BY <1>1, <1>3, <1>9, <2>2
  <2>4. known = {j}
    BY <1>1, <1>3, <1>9, <2>2, <2>3
  <2>5. s.parent # NoSpan
    BY <1>1, <2>1, BatchFacts
  <2>6. ParentContext(s) = rebuilt[j].id
    BY <1>4, <2>4, <2>5
  <2>7. rebuilt[j].id = NewIds[j]
    BY <1>3, <2>2, <2>3 DEF RebuildInv
  <2> QED
    BY <2>6, <2>7
<1> QED
  BY <1>7, <1>8, <1>9 DEF s

LEMMA StartSpanRebuild ==
    ASSUME OrderInv, RebuildInv, StartSpan
    PROVE  RebuildInv'
<1>1. /\ phase = "rebuild" /\ Len(rebuilt) < Len(result)
      /\ UNCHANGED <<batch, ordered, at, progress, result>>
      /\ phase' = IF Len(rebuilt') = Len(result) THEN "done" ELSE "rebuild"
  BY DEF StartSpan
<1>2. /\ DOMAIN result = 1 .. Len(batch) /\ Len(batch) \in Nat /\ Len(result) = Len(batch)
      /\ \A i \in DOMAIN result : result[i] \in Range(batch) /\ IsSpan(result[i])
      /\ Len(batch) <= Len(NewIds)
  BY <1>1, ResultFacts
<1>3. rebuilt \in Seq(Built)
  BY DEF RebuildInv
<1>4. PICK n \in Nat : n = Len(rebuilt)
  BY <1>3
<1>5. n + 1 \in DOMAIN result /\ n < Len(batch)
  BY <1>1, <1>2, <1>4
<1>6. PICK p : p = ParentContext(result[n + 1])
  OBVIOUS
<1>7. /\ p \in Nat
      /\ result[n + 1].parent \notin Ids(batch) => p = result[n + 1].parent
      /\ Acyclic => \A j \in DOMAIN result : result[n + 1].parent = result[j].id => p = NewIds[j]
  BY <1>1, <1>4, <1>5, <1>6, ParentIs
<1>8. PICK f \in DOMAIN result :
          /\ Alike(result[n + 1].resource, result[f].resource)
          /\ SharedResource(result[n + 1]) = WithEnvironment(result[f].resource)
  BY <1>1, <1>5, SharedIsAlike
<1>9. NewIds[n + 1] \in Nat
  <2>1. n + 1 \in 1 .. Len(NewIds)
    BY <1>2, <1>5, NewIdsFacts
  <2> QED
    BY <2>1, NewIdsFacts
<1>10. PICK b : b = [id |-> NewIds[n + 1], start |-> result[n + 1].start, parent |-> p,
                     resource |-> WithEnvironment(result[f].resource)]
  OBVIOUS
<1>11. b \in Built
  BY <1>2, <1>5, <1>7, <1>9, <1>10 DEF Built, IsSpan
<1>12. PICK new : new = rebuilt'
  OBVIOUS
<1>13. new = Append(rebuilt, b)
  BY <1>4, <1>6, <1>8, <1>10, <1>12 DEF StartSpan
<1>14. /\ new \in Seq(Built) /\ Len(new) = n + 1 /\ DOMAIN new = 1 .. (n + 1)
       /\ new[n + 1] = b /\ DOMAIN rebuilt = 1 .. n
       /\ \A i \in 1 .. n : new[i] = rebuilt[i]
  BY <1>3, <1>4, <1>11, <1>13
<1>15. \A i \in 1 .. (n + 1) : i \in 1 .. n \/ i = n + 1
  OBVIOUS
<1> DEFINE Like(i) == \E j \in DOMAIN result :
                         /\ Alike(result[i].resource, result[j].resource)
                         /\ new[i].resource = WithEnvironment(result[j].resource)
<1>16. \A i \in 1 .. (n + 1) :
           /\ new[i].id = NewIds[i]
           /\ Like(i)
           /\ result[i].parent \notin Ids(batch) => new[i].parent = result[i].parent
  <2>1. \A i \in 1 .. n :
           /\ new[i].id = NewIds[i]
           /\ Like(i)
           /\ result[i].parent \notin Ids(batch) => new[i].parent = result[i].parent
    BY <1>14 DEF RebuildInv, Kept
  <2>2. /\ new[n + 1].id = NewIds[n + 1]
        /\ new[n + 1].resource = WithEnvironment(result[f].resource)
        /\ new[n + 1].parent = p
    BY <1>10, <1>14
  <2>3. Like(n + 1)
    BY <1>8, <2>2
  <2> HIDE DEF Like
  <2> QED
    BY <1>7, <1>15, <2>1, <2>2, <2>3
<1>17. Acyclic => \A i \in 1 .. (n + 1), j \in DOMAIN result :
           result[i].parent = result[j].id => new[i].parent = NewIds[j]
  <2>1. new[n + 1].parent = p
    BY <1>10, <1>14
  <2>2. Acyclic => \A i \in 1 .. n, j \in DOMAIN result :
           result[i].parent = result[j].id => new[i].parent = NewIds[j]
    BY <1>14 DEF RebuildInv
  <2> QED
    BY <1>7, <1>15, <2>1, <2>2
<1>18. /\ Built' = Built /\ Acyclic' = Acyclic /\ Ids(batch)' = Ids(batch)
       /\ result' = result /\ batch' = batch
       /\ \A r : WithEnvironment(r)' = WithEnvironment(r)
       /\ \A r, u : Alike(r, u)' = Alike(r, u)
  BY <1>1 DEF Built, Acyclic, Ids, WithEnvironment
<1>19. phase' = IF n + 1 = Len(batch) THEN "done" ELSE "rebuild"
  BY <1>1, <1>2, <1>12, <1>14
<1>20. /\ phase' = "rebuild" => n + 1 < Len(batch)
       /\ phase' = "done" => n + 1 = Len(batch)
  <2>1. PICK m \in Nat : m = Len(batch)
    BY <1>2
  <2>3. n + 1 # m => n + 1 < m
    <3>1. n < m
      BY <1>5, <2>1
    <3> QED
      BY ONLY n \in Nat, m \in Nat, <3>1
  <2>2. "done" # "rebuild"
    OBVIOUS
  <2> QED
    BY <1>19, <2>1, <2>2, <2>3
<1>21. phase' \in {"rebuild", "done"}
  BY <1>1
<1> QED
  BY <1>12, <1>14, <1>16, <1>17, <1>18, <1>19, <1>20, <1>21 DEF RebuildInv, Kept

LEMMA StutterRebuild ==
    ASSUME RebuildInv, UNCHANGED vars
    PROVE  RebuildInv'
<1>1. /\ Built' = Built /\ Acyclic' = Acyclic /\ Ids(batch)' = Ids(batch)
      /\ \A r : WithEnvironment(r)' = WithEnvironment(r)
      /\ UNCHANGED <<batch, phase, result, rebuilt>>
  BY DEF vars, Built, Acyclic, Ids, WithEnvironment
<1>2. \A i : Kept(i)' = Kept(i)
  BY <1>1 DEF Kept, WithEnvironment
<1> QED
  BY <1>1, <1>2 DEF RebuildInv

\* toReadOnlySpans: what has been rebuilt has the parents it had and their resources.
THEOREM RebuildInvariance == Spec => []RebuildInv
<1>1. ASSUME OrderInv, OrderInv', RebuildInv, Next
      PROVE  RebuildInv'
  <2>1. CASE Visit \/ VisitRest \/ PassEnds
    <3>1. /\ phase \in {"pass", "rest"} /\ phase' \in {"pass", "rest", "rebuild"}
          /\ UNCHANGED <<batch, rebuilt>>
      BY <2>1 DEF Visit, VisitRest, PassEnds
    <3> QED
      BY <1>1, <3>1, OrderRebuild
  <2>2. CASE StartSpan
    BY <1>1, <2>2, StartSpanRebuild
  <2>3. CASE Done
    BY <1>1, <2>3, StutterRebuild DEF Done
  <2> QED
    BY <1>1, <2>1, <2>2, <2>3 DEF Next
<1> QED
  BY <1>1, InitRebuild, StutterRebuild, OrderInvariance, PTL DEF Spec

\* The rebuilt spans are the same tree under new IDs, each with its resource, or one
\* that separators make alike.
THEOREM RebuildKeepsTree == Spec => []TreeSurvivesRebuild
<1>1. ASSUME OrderInv, RebuildInv, phase = "done", Acyclic
      PROVE  \A i \in DOMAIN result :
                /\ Kept(i)
                /\ result[i].parent \notin Ids(batch) => rebuilt[i].parent = result[i].parent
                /\ \A j \in DOMAIN result :
                      rebuilt[i].parent = rebuilt[j].id <=> result[i].parent = result[j].id
  <2>1. /\ DOMAIN result = 1 .. Len(batch) /\ Ids(result) = Ids(batch)
        /\ \A i \in DOMAIN result : result[i].parent \notin Range(NewIds)
        /\ Len(batch) \in Nat /\ Len(batch) <= Len(NewIds)
    BY <1>1, ResultFacts
  <2>2. DOMAIN rebuilt = DOMAIN result
    <3>1. rebuilt \in Seq(Built) /\ Len(rebuilt) = Len(batch)
      BY <1>1 DEF RebuildInv
    <3> QED
      BY <2>1, <3>1
  <2>3. \A i \in DOMAIN result :
            /\ rebuilt[i].id = NewIds[i]
            /\ Kept(i)
            /\ result[i].parent \notin Ids(batch) => rebuilt[i].parent = result[i].parent
    BY <1>1, <2>2 DEF RebuildInv
  <2>4. \A i, j \in DOMAIN result :
            result[i].parent = result[j].id => rebuilt[i].parent = NewIds[j]
    BY <1>1, <2>2 DEF RebuildInv
  <2>5. /\ \A i \in DOMAIN result : NewIds[i] \in Range(NewIds)
        /\ \A i, j \in DOMAIN result : NewIds[i] = NewIds[j] => i = j
    <3>1. DOMAIN result \subseteq 1 .. Len(NewIds)
      BY <2>1, NewIdsFacts
    <3> QED
      BY <3>1, NewIdsFacts
  <2>6. ASSUME NEW i \in DOMAIN result, NEW j \in DOMAIN result,
               rebuilt[i].parent = rebuilt[j].id
        PROVE  result[i].parent = result[j].id
    <3>1. result[i].parent \in Ids(batch)
      BY <2>1, <2>3, <2>5, <2>6
    <3>2. PICK k \in DOMAIN result : result[i].parent = result[k].id
      BY <2>1, <3>1 DEF Ids
    <3>3. NewIds[k] = NewIds[j]
      BY <2>3, <2>4, <2>6, <3>2
    <3> QED
      BY <2>5, <3>2, <3>3
  <2> QED
    BY <2>3, <2>4, <2>6
<1>2. OrderInv /\ RebuildInv => TreeSurvivesRebuild
  BY <1>1 DEF TreeSurvivesRebuild, Kept
<1> QED
  BY <1>2, OrderInvariance, RebuildInvariance, PTL

-----------------------------------------------------------------------------
(* modelBatchToProto. *)

Resources == {s.resource : s \in Range(batch)}

\* what the request is made of
Group == [resource : Resources, spans : Seq(Range(batch))]

\* the groups after each span
Groups(spans) ==
    LET groups[k \in 0 .. Len(spans)] ==
            IF k = 0 THEN <<>> ELSE AddToGroups(groups[k - 1], spans[k])
    IN  groups

LEMMA ProtoIs == \A spans : ToProto(spans) = Groups(spans)[Len(spans)]
  BY DEF ToProto, Groups

LEMMA PositionIs ==
    ASSUME batch \in Batches, NEW i \in DOMAIN batch
    PROVE  Position(batch[i]) = i
<1>1. \A j \in DOMAIN batch : batch[j] = batch[i] => j = i
  BY BatchFacts DEF Distinct
<1>2. PICK p : p = CHOOSE j \in DOMAIN batch : batch[j] = batch[i]
  OBVIOUS
<1>3. p \in DOMAIN batch /\ batch[p] = batch[i]
  BY <1>2
<1>4. Position(batch[i]) = p
  BY <1>2 DEF Position
<1> QED
  BY <1>1, <1>3, <1>4

\* a new group at the end, or a span at the end of the group with its key
Opens(new, groups, s) ==
    new = Append(groups, [resource |-> s.resource, spans |-> <<s>>])

Joins(new, groups, s) ==
    /\ DOMAIN new = DOMAIN groups
    /\ \A g \in DOMAIN groups :
          /\ new[g].resource = groups[g].resource
          /\ new[g].spans = IF Key(groups[g]) = Key(s)
                            THEN Append(groups[g].spans, s) ELSE groups[g].spans

LEMMA AddIs ==
    ASSUME batch \in Batches, NEW groups \in Seq(Group), NEW s \in Range(batch)
    PROVE  /\ AddToGroups(groups, s) \in Seq(Group)
           /\ (\A g \in DOMAIN groups : Key(groups[g]) # Key(s)) =>
                  Opens(AddToGroups(groups, s), groups, s)
           /\ (\E g \in DOMAIN groups : Key(groups[g]) = Key(s)) =>
                  Joins(AddToGroups(groups, s), groups, s)
<1> DEFINE entry == {g \in DOMAIN groups : Key(groups[g]) = Key(s)}
           opened == Append(groups, [resource |-> s.resource, spans |-> <<s>>])
           joined == [g \in DOMAIN groups |->
                        IF g \in entry THEN [groups[g] EXCEPT !.spans = Append(@, s)]
                        ELSE groups[g]]
<1>1. AddToGroups(groups, s) = IF entry = {} THEN opened ELSE joined
  BY DEF AddToGroups, Key
<1>3. s.resource \in Resources
  BY DEF Resources
<1>4. PICK n \in Nat : n = Len(groups)
  OBVIOUS
<1>5. \A g \in DOMAIN groups :
          groups[g].resource \in Resources /\ groups[g].spans \in Seq(Range(batch))
  <2>1. \A g \in DOMAIN groups : groups[g] \in Group
    OBVIOUS
  <2> QED
    BY <2>1 DEF Group
<1>6. \A g \in DOMAIN groups : g \in entry <=> Key(groups[g]) = Key(s)
  OBVIOUS
<1>7. opened \in Seq(Group)
  <2>1. <<s>> \in Seq(Range(batch))
    OBVIOUS
  <2>2. [resource |-> s.resource, spans |-> <<s>>] \in Group
    BY <1>3, <2>1 DEF Group
  <2> QED
    BY <2>2, AppendProperties
<1> HIDE DEF entry
<1>8. \A g \in DOMAIN groups : Append(groups[g].spans, s) \in Seq(Range(batch))
  BY <1>5, AppendProperties
<1>9. ASSUME NEW g \in DOMAIN groups
      PROVE  /\ joined[g] \in Group /\ joined[g].resource = groups[g].resource
             /\ joined[g].spans = IF Key(groups[g]) = Key(s)
                                  THEN Append(groups[g].spans, s) ELSE groups[g].spans
  <2>1. groups[g] \in Group
    OBVIOUS
  <2>2. CASE g \in entry
    <3>1. joined[g] = [groups[g] EXCEPT !.spans = Append(groups[g].spans, s)]
      BY <2>2
    <3>2. joined[g] = [resource |-> groups[g].resource, spans |-> Append(groups[g].spans, s)]
      BY <2>1, <3>1 DEF Group
    <3>3. joined[g] \in Group
      BY <1>5, <1>8, <3>2 DEF Group
    <3> QED
      BY <1>6, <2>2, <3>2, <3>3
  <2>3. CASE g \notin entry
    BY <1>6, <2>1, <2>3
  <2> QED
    BY <2>2, <2>3
<1>10. DOMAIN joined = DOMAIN groups
  OBVIOUS
<1>11. joined \in Seq(Group)
  <2>1. DOMAIN joined = 1 .. n /\ joined = [g \in 1 .. n |-> joined[g]]
    BY <1>4
  <2>2. \A g \in 1 .. n : joined[g] \in Group
    BY <1>9, <1>10, <2>1
  <2> HIDE DEF joined
  <2> QED
    BY <2>1, <2>2
<1> HIDE DEF joined, opened
<1>12. (\A g \in DOMAIN groups : Key(groups[g]) # Key(s)) =>
           Opens(AddToGroups(groups, s), groups, s)
  <2>1. (\A g \in DOMAIN groups : Key(groups[g]) # Key(s)) => entry = {}
    BY <1>6 DEF entry
  <2> QED
    BY <1>1, <2>1 DEF Opens, opened
<1>13. (\E g \in DOMAIN groups : Key(groups[g]) = Key(s)) =>
           Joins(AddToGroups(groups, s), groups, s)
  <2>1. (\E g \in DOMAIN groups : Key(groups[g]) = Key(s)) => entry # {}
    BY <1>6
  <2> QED
    BY <1>1, <1>9, <1>10, <2>1 DEF Joins
<1> QED
  BY <1>1, <1>7, <1>11, <1>12, <1>13

\* a group holds those of the first k spans that have its key, in order, and the resource
\* of the first of them
Holds(group, k) ==
    /\ \A i \in 1 .. k : Key(batch[i]) = Key(group) =>
           \E p \in DOMAIN group.spans : group.spans[p] = batch[i]
    /\ \A p \in DOMAIN group.spans :
           \E i \in 1 .. k : group.spans[p] = batch[i] /\ Key(batch[i]) = Key(group)
    /\ group.spans # <<>> /\ group.resource = group.spans[1].resource
    /\ \A p, q \in DOMAIN group.spans :
           p < q => Position(group.spans[p]) < Position(group.spans[q])

\* a span with another key changes nothing of a group
LEMMA HoldsOther ==
    ASSUME NEW k \in 1 .. Len(batch), NEW group, Holds(group, k - 1),
           Key(batch[k]) # Key(group)
    PROVE  Holds(group, k)
<1>1. \A i \in 1 .. k : i = k \/ i \in 1 .. (k - 1)
  OBVIOUS
<1>2. 1 .. (k - 1) \subseteq 1 .. k
  OBVIOUS
<1> QED
  BY <1>1, <1>2 DEF Holds

\* a span with its key comes after those that it has
LEMMA HoldsNext ==
    ASSUME batch \in Batches, NEW k \in 1 .. Len(batch),
           NEW group \in Group, Holds(group, k - 1), Key(batch[k]) = Key(group),
           NEW longer, longer.resource = group.resource,
           longer.spans = Append(group.spans, batch[k])
    PROVE  Holds(longer, k)
<1>1. DOMAIN batch = 1 .. Len(batch) /\ Len(batch) \in Nat
  BY BatchFacts
<1>2. PICK old : old = group.spans
  OBVIOUS
<1>3. PICK new : new = longer.spans
  OBVIOUS
<1>4. old \in Seq(Range(batch)) /\ batch[k] \in Range(batch) /\ new = Append(old, batch[k])
  BY <1>1, <1>2, <1>3 DEF Group, Range
<1>5. PICK n \in Nat : n = Len(old)
  BY <1>4
<1>6. /\ DOMAIN old = 1 .. n /\ DOMAIN new = 1 .. (n + 1) /\ new[n + 1] = batch[k]
      /\ \A p \in 1 .. n : new[p] = old[p]
  BY <1>4, <1>5
<1>7. /\ \A i \in 1 .. k : i = k \/ i \in 1 .. (k - 1)
      /\ \A p \in 1 .. (n + 1) : p = n + 1 \/ p \in 1 .. n
      /\ 1 .. (k - 1) \subseteq 1 .. k /\ 1 .. n \subseteq 1 .. (n + 1)
      /\ k \in 1 .. k /\ n + 1 \in 1 .. (n + 1)
  OBVIOUS
<1>71. Key(longer) = Key(group)
  BY DEF Key
<1>72. n >= 1 /\ old # <<>> /\ longer.resource = old[1].resource
  BY <1>2, <1>4, <1>5 DEF Holds
<1>73. new # <<>> /\ longer.resource = new[1].resource
  BY <1>6, <1>72
<1>8. \A p \in 1 .. n : \E i \in 1 .. (k - 1) :
          old[p] = batch[i] /\ Key(batch[i]) = Key(group)
  BY <1>2, <1>6 DEF Holds
<1>9. ASSUME NEW i \in 1 .. k, Key(batch[i]) = Key(longer)
      PROVE  \E p \in 1 .. (n + 1) : new[p] = batch[i]
  <2>1. CASE i = k
    BY <1>6, <1>7, <2>1
  <2>2. CASE i \in 1 .. (k - 1)
    <3>1. PICK p \in 1 .. n : old[p] = batch[i]
      BY <1>2, <1>6, <1>71, <1>9, <2>2 DEF Holds
    <3> QED
      BY <1>6, <1>7, <3>1
  <2> QED
    BY <1>7, <2>1, <2>2
<1>10. ASSUME NEW p \in 1 .. (n + 1)
       PROVE  \E i \in 1 .. k : new[p] = batch[i] /\ Key(batch[i]) = Key(longer)
  <2>1. CASE p = n + 1
    BY <1>6, <1>7, <1>71, <2>1
  <2>2. CASE p \in 1 .. n
    BY <1>6, <1>7, <1>71, <1>8, <2>2
  <2> QED
    BY <1>7, <2>1, <2>2
<1>11. ASSUME NEW p \in 1 .. (n + 1), NEW q \in 1 .. (n + 1), p < q
       PROVE  Position(new[p]) < Position(new[q])
  <2>1. p \in 1 .. n
    BY <1>11
  <2>2. CASE q = n + 1
    <3>1. PICK i \in 1 .. (k - 1) : new[p] = batch[i]
      BY <1>6, <1>8, <2>1
    <3>2. i \in DOMAIN batch /\ k \in DOMAIN batch /\ i < k
      BY <1>1
    <3>3. Position(new[p]) = i /\ Position(new[q]) = k
      BY <1>6, <2>2, <3>1, <3>2, PositionIs
    <3> QED
      BY <3>2, <3>3
  <2>3. CASE q \in 1 .. n
    <3>1. Position(old[p]) < Position(old[q])
      BY <1>2, <1>6, <1>11, <2>1, <2>3 DEF Holds
    <3> QED
      BY <1>6, <2>1, <2>3, <3>1
  <2> QED
    BY <1>7, <2>2, <2>3
<1> QED
  BY <1>3, <1>6, <1>73, <1>9, <1>10, <1>11 DEF Holds

\* a new group holds the one span that it begins with
LEMMA HoldsFirst ==
    ASSUME NEW k \in 1 .. Len(batch), NEW group, group.resource = batch[k].resource,
           group.spans = <<batch[k]>>,
           \A i \in 1 .. (k - 1) : Key(batch[i]) # Key(batch[k])
    PROVE  Holds(group, k)
<1>1. /\ \A i \in 1 .. k : i = k \/ i \in 1 .. (k - 1)
      /\ k \in 1 .. k
  OBVIOUS
<1>2. PICK spans : spans = group.spans
  OBVIOUS
<1>3. DOMAIN spans = {1} /\ spans[1] = batch[k] /\ spans # <<>> /\ Key(group) = Key(batch[k])
  BY <1>2 DEF Key
<1>4. \A p, q \in {1} : ~(p < q)
  OBVIOUS
<1> QED
  BY <1>1, <1>2, <1>3, <1>4 DEF Holds

\* every key of the first k spans has one group, and that holds its spans
Grouped(groups, k) ==
    /\ groups \in Seq(Group)
    /\ \A i \in 1 .. k : \E g \in DOMAIN groups : Key(groups[g]) = Key(batch[i])
    /\ \A g, h \in DOMAIN groups : Key(groups[g]) = Key(groups[h]) => g = h
    /\ \A g \in DOMAIN groups : Holds(groups[g], k)

LEMMA GroupedNext ==
    ASSUME batch \in Batches, NEW k \in 1 .. Len(batch), NEW groups, Grouped(groups, k - 1)
    PROVE  Grouped(AddToGroups(groups, batch[k]), k)
<1>1. DOMAIN batch = 1 .. Len(batch) /\ Len(batch) \in Nat
  BY BatchFacts
<1>2. batch[k] \in Range(batch)
  BY <1>1 DEF Range
<1>3. PICK s \in Range(batch) : s = batch[k]
  BY <1>2
<1>4. PICK new : new = AddToGroups(groups, s)
  OBVIOUS
<1>5. groups \in Seq(Group)
  BY DEF Grouped
<1>6. /\ new \in Seq(Group)
      /\ (\A g \in DOMAIN groups : Key(groups[g]) # Key(s)) => Opens(new, groups, s)
      /\ (\E g \in DOMAIN groups : Key(groups[g]) = Key(s)) => Joins(new, groups, s)
  BY <1>4, <1>5, AddIs
<1>7. PICK n \in Nat : n = Len(groups)
  BY <1>5
<1>8. DOMAIN groups = 1 .. n
  BY <1>5, <1>7
<1>9. \A i \in 1 .. k : i = k \/ i \in 1 .. (k - 1)
  OBVIOUS
<1>10. CASE \A g \in DOMAIN groups : Key(groups[g]) # Key(s)
  <2>1. PICK first : first = [resource |-> s.resource, spans |-> <<s>>]
    OBVIOUS
  <2>2. new = Append(groups, first)
    BY <1>6, <1>10, <2>1 DEF Opens
  <2>3. first \in Group
    <3>1. first.resource \in Resources
      BY <2>1 DEF Resources
    <3>2. <<s>> \in Seq(Range(batch))
      OBVIOUS
    <3> QED
      BY <2>1, <3>1, <3>2 DEF Group
  <2>4. /\ DOMAIN new = 1 .. (n + 1) /\ new[n + 1] = first
        /\ \A g \in 1 .. n : new[g] = groups[g]
    BY <1>5, <1>7, <2>2, <2>3
  <2>5. /\ \A g \in 1 .. (n + 1) : g = n + 1 \/ g \in 1 .. n
        /\ n + 1 \in 1 .. (n + 1) /\ 1 .. n \subseteq 1 .. (n + 1)
    OBVIOUS
  <2>6. first.resource = s.resource /\ Key(first) = Key(s) /\ first.spans = <<s>>
    BY <2>1 DEF Key
  <2>7. \A i \in 1 .. (k - 1) : Key(batch[i]) # Key(s)
    BY <1>10 DEF Grouped
  <2>8. Holds(first, k)
    BY <1>3, <2>6, <2>7, HoldsFirst
  <2>9. ASSUME NEW g \in 1 .. n
        PROVE  Holds(groups[g], k)
    BY <1>3, <1>8, <1>10, HoldsOther DEF Grouped
  <2>10. \A i \in 1 .. k : \E g \in 1 .. (n + 1) : Key(new[g]) = Key(batch[i])
    <3>1. Key(new[n + 1]) = Key(batch[k])
      BY <1>3, <2>4, <2>6
    <3>2. \A i \in 1 .. (k - 1) : \E g \in 1 .. n : Key(groups[g]) = Key(batch[i])
      BY <1>8 DEF Grouped
    <3> QED
      BY <1>9, <2>4, <2>5, <3>1, <3>2
  <2>11. \A g, h \in 1 .. (n + 1) : Key(new[g]) = Key(new[h]) => g = h
    <3>1. \A g, h \in 1 .. n : Key(groups[g]) = Key(groups[h]) => g = h
      BY <1>8 DEF Grouped
    <3>2. \A g \in 1 .. n : Key(groups[g]) # Key(first)
      BY <1>8, <1>10, <2>6
    <3> QED
      BY <2>4, <2>5, <3>1, <3>2
  <2>12. \A g \in 1 .. (n + 1) : Holds(new[g], k)
    BY <2>4, <2>5, <2>8, <2>9
  <2>13. Grouped(new, k)
    BY <1>6, <2>4, <2>10, <2>11, <2>12 DEF Grouped
  <2> QED
    BY <1>3, <1>4, <2>13
<1>11. CASE \E g \in DOMAIN groups : Key(groups[g]) = Key(s)
  <2>1. /\ DOMAIN new = DOMAIN groups
        /\ \A g \in DOMAIN groups :
              /\ new[g].resource = groups[g].resource /\ Key(new[g]) = Key(groups[g])
              /\ new[g].spans = IF Key(groups[g]) = Key(s)
                                THEN Append(groups[g].spans, s) ELSE groups[g].spans
    BY <1>6, <1>11 DEF Joins, Key
  <2>2. ASSUME NEW g \in DOMAIN groups
        PROVE  Holds(new[g], k)
    <3>1. groups[g] \in Group /\ Holds(groups[g], k - 1)
      BY <1>5 DEF Grouped
    <3>2. CASE Key(groups[g]) = Key(s)
      <4>1. /\ new[g].resource = groups[g].resource
            /\ new[g].spans = Append(groups[g].spans, batch[k])
            /\ Key(batch[k]) = Key(groups[g])
        BY <1>3, <2>1, <3>2
      <4> QED
        BY <3>1, <4>1, HoldsNext
    <3>3. CASE Key(groups[g]) # Key(s)
      <4>1. Holds(groups[g], k)
        BY <1>3, <3>1, <3>3, HoldsOther
      <4>2. /\ new[g].resource = groups[g].resource /\ Key(new[g]) = Key(groups[g])
            /\ new[g].spans = groups[g].spans
        BY <2>1, <3>3
      <4> QED
        BY <4>1, <4>2 DEF Holds
    <3> QED
      BY <3>2, <3>3
  <2>3. \A i \in 1 .. k : \E g \in DOMAIN groups : Key(groups[g]) = Key(batch[i])
    BY <1>3, <1>9, <1>11 DEF Grouped
  <2>4. \A g, h \in DOMAIN groups : Key(groups[g]) = Key(groups[h]) => g = h
    BY DEF Grouped
  <2>5. Grouped(new, k)
    BY <1>6, <2>1, <2>2, <2>3, <2>4 DEF Grouped
  <2> QED
    BY <1>3, <1>4, <2>5
<1> QED
  BY <1>10, <1>11

\* the groups of the whole batch
LEMMA ProtoGrouped ==
    ASSUME batch \in Batches
    PROVE  Grouped(ToProto(batch), Len(batch))
<1>1. PICK N \in Nat : N = Len(batch)
  BY BatchFacts
<1>2. \A k \in 1 .. N : batch[k] \in Range(batch)
  BY <1>1, BatchFacts DEF Range
<1> DEFINE S == Seq(Group)
           F == [x \in S \X (1 .. N) |-> AddToGroups(x[1], batch[x[2]])]
           Def(g) == g = [k \in 0 .. N |->
                             IF k = 0 THEN <<>> ELSE AddToGroups(g[k - 1], batch[k])]
<1>3. Rule(F, S, N)
  <2>1. \A x \in S \X (1 .. N) : F[x] \in S
    BY <1>2, AddIs
  <2> QED
    BY <2>1 DEF Rule
<1>4. <<>> \in S
  OBVIOUS
<1>5. \A s \in S, k \in 1 .. N : F[<<s, k>>] = AddToGroups(s, batch[k])
  OBVIOUS
<1> HIDE DEF F, S
<1>6. PICK g : Follows(g, F, S, N, <<>>)
  BY <1>3, <1>4, Recursion
<1>7. /\ g \in [0 .. N -> S] /\ g[0] = <<>>
      /\ \A k \in 1 .. N : g[k] = AddToGroups(g[k - 1], batch[k])
  <2>1. g \in [0 .. N -> S] /\ g[0] = <<>> /\ \A k \in 1 .. N : g[k] = F[<<g[k - 1], k>>]
    BY <1>6 DEF Follows
  <2>2. \A k \in 1 .. N : k - 1 \in 0 .. N
    OBVIOUS
  <2>3. \A k \in 1 .. N : g[k - 1] \in S
    BY <2>1, <2>2
  <2> QED
    BY <1>5, <2>1, <2>3
<1>8. Def(g)
  <2>1. \A k \in 0 .. N : k = 0 \/ k \in 1 .. N
    OBVIOUS
  <2>2. \A k \in 0 .. N : g[k] = IF k = 0 THEN <<>> ELSE AddToGroups(g[k - 1], batch[k])
    BY <1>7, <2>1
  <2> QED
    BY <1>7, <2>2
<1>9. Groups(batch) = CHOOSE h : Def(h)
  BY <1>1 DEF Groups
<1>10. Def(Groups(batch))
  BY <1>8, <1>9
<1> DEFINE h == Groups(batch)
<1>11. h[0] = <<>> /\ \A k \in 1 .. N : h[k] = AddToGroups(h[k - 1], batch[k])
  <2>1. \A k \in 1 .. N : k \in 0 .. N /\ k # 0
    OBVIOUS
  <2>2. 0 \in 0 .. N
    OBVIOUS
  <2> QED
    BY <1>10, <2>1, <2>2
<1> HIDE DEF h, Def
<1> DEFINE T == {k \in 0 .. N : Grouped(h[k], k)}
<1>12. 0 \in T
  <2>1. DOMAIN h[0] = {} /\ h[0] \in Seq(Group)
    BY <1>11
  <2>2. Grouped(h[0], 0)
    BY <2>1 DEF Grouped
  <2> QED
    BY <2>2
<1>13. ASSUME NEW k \in 1 .. N, k - 1 \in T
       PROVE  k \in T
  <2>1. Grouped(h[k - 1], k - 1)
    BY <1>13
  <2>2. Grouped(h[k], k)
    BY <1>1, <1>11, <2>1, GroupedNext
  <2> QED
    BY <2>2
<1> HIDE DEF T
<1>14. 0 .. N \subseteq T
  BY <1>12, <1>13, InductionTo
<1>15. Grouped(h[N], N)
  BY <1>14 DEF T
<1>16. ToProto(batch) = h[N]
  BY <1>1, ProtoIs DEF h
<1> QED
  BY <1>1, <1>15, <1>16

\* modelBatchToProto: each key once, with all its spans in the order of the batch and a
\* resource that is theirs, or made alike by separators.
THEOREM GroupedByResource == Spec => []SpansUnderTheirResource
<1>1. ASSUME batch \in Batches
      PROVE  SpansUnderTheirResource
  <2>1. PICK proto : proto = ToProto(batch)
    OBVIOUS
  <2>2. PICK N \in Nat : N = Len(batch)
    BY <1>1, BatchFacts
  <2>3. DOMAIN batch = 1 .. N
    BY <1>1, <2>2, BatchFacts
  <2>4. /\ proto \in Seq(Group)
        /\ \A i \in 1 .. N : \E g \in DOMAIN proto : Key(proto[g]) = Key(batch[i])
        /\ \A g, h \in DOMAIN proto : Key(proto[g]) = Key(proto[h]) => g = h
        /\ \A g \in DOMAIN proto : Holds(proto[g], N)
    BY <1>1, <2>1, <2>2, ProtoGrouped DEF Grouped
  <2>5. \A s \in Range(batch) : \E i \in 1 .. N : s = batch[i]
    BY <2>3 DEF Range
  <2>6. \A i \in 1 .. N : batch[i] \in Range(batch)
    BY <2>3 DEF Range
  <2>7. \A s \in Range(batch) : \E g \in DOMAIN proto : Key(proto[g]) = Key(s)
    BY <2>4, <2>5
  <2>8. ASSUME NEW g \in DOMAIN proto
        PROVE  Range(proto[g].spans) = {s \in Range(batch) : Key(s) = Key(proto[g])}
    <3>1. /\ \A i \in 1 .. N : Key(batch[i]) = Key(proto[g]) =>
                 \E p \in DOMAIN proto[g].spans : proto[g].spans[p] = batch[i]
          /\ \A p \in DOMAIN proto[g].spans : \E i \in 1 .. N :
                 proto[g].spans[p] = batch[i] /\ Key(batch[i]) = Key(proto[g])
      BY <2>4 DEF Holds
    <3>2. Range(proto[g].spans) \subseteq {s \in Range(batch) : Key(s) = Key(proto[g])}
      BY <2>6, <3>1 DEF Range
    <3>3. {s \in Range(batch) : Key(s) = Key(proto[g])} \subseteq Range(proto[g].spans)
      BY <2>5, <3>1 DEF Range
    <3> QED
      BY <3>2, <3>3
  <2>9. ASSUME NEW g \in DOMAIN proto, NEW i \in DOMAIN proto[g].spans,
               NEW j \in DOMAIN proto[g].spans, i < j
        PROVE  Position(proto[g].spans[i]) < Position(proto[g].spans[j])
    BY <2>4, <2>9 DEF Holds
  <2>12. ASSUME NEW g \in DOMAIN proto
         PROVE  /\ proto[g].resource = proto[g].spans[1].resource
                /\ \A s \in Range(proto[g].spans) : Alike(s.resource, proto[g].resource)
    <3>1. proto[g].resource = proto[g].spans[1].resource
      BY <2>4 DEF Holds
    <3>2. IsResource(proto[g].resource)
      <4>1. proto[g] \in Group
        BY <2>4
      <4> QED
        BY <1>1, <4>1, BatchFacts DEF Group, Resources, IsSpan
    <3>3. ASSUME NEW s \in Range(proto[g].spans)
          PROVE  Alike(s.resource, proto[g].resource)
      <4>1. s \in Range(batch) /\ Key(s) = Key(proto[g])
        BY <2>8, <3>3
      <4>2. IsResource(s.resource)
        BY <1>1, <4>1, BatchFacts DEF IsSpan
      <4> QED
        BY <3>2, <4>1, <4>2, SameKeyAlike DEF Key
    <3> QED
      BY <3>1, <3>3
  <2>10. \A g \in DOMAIN proto :
             /\ proto[g].resource = proto[g].spans[1].resource
             /\ \A s \in Range(proto[g].spans) : Alike(s.resource, proto[g].resource)
             /\ Range(proto[g].spans) = {s \in Range(batch) : Key(s) = Key(proto[g])}
             /\ \A i, j \in DOMAIN proto[g].spans :
                   i < j => Position(proto[g].spans[i]) < Position(proto[g].spans[j])
    BY <2>8, <2>9, <2>12
  <2>11. \A g, h \in DOMAIN proto : Key(proto[g]) = Key(proto[h]) => g = h
    BY <2>4
  <2> QED
    BY ONLY <2>1, <2>7, <2>10, <2>11 DEF SpansUnderTheirResource
<1>2. OrderInv => SpansUnderTheirResource
  BY <1>1 DEF OrderInv, OrderedInv
<1> QED
  BY <1>2, OrderInvariance, PTL

-----------------------------------------------------------------------------
(* Termination. *)

AtInv == at <= Len(batch) + 1

\* what is still to do: in a pass, spans to add, then the next pass, then spans to visit
Rank ==
    CASE phase = "pass"    -> <<3, Len(batch) - Len(result), IF progress THEN 1 ELSE 0,
                                Len(batch) + 1 - at>>
      [] phase = "rest"    -> <<2, Len(batch) - Len(result), 0, Len(batch) + 1 - at>>
      [] phase = "rebuild" -> <<1, Len(batch) - Len(rebuilt), 0, 0>>
      [] phase = "done"    -> <<0, 0, 0, 0>>

LEMMA AtInvariance == Spec => []AtInv
<1>1. ASSUME OrderInv
      PROVE  Len(batch) \in Nat \ {0} /\ Len(ordered) = Len(batch) /\ at \in Nat
  BY <1>1, BatchFacts DEF OrderInv, OrderedInv, LoopTypes
<1>2. Init /\ OrderInv => AtInv
  <2>1. Init => at = 1
    BY DEF Init
  <2>2. \A n \in Nat \ {0} : 1 <= n + 1
    OBVIOUS
  <2> QED
    BY <1>1, <2>1, <2>2 DEF AtInv
<1>3. ASSUME OrderInv, AtInv, [Next]_vars
      PROVE  AtInv'
  <2>1. PICK n \in Nat : n = Len(batch) /\ n # 0
    BY <1>1, <1>3
  <2>2. CASE Visit \/ VisitRest
    <3>1. at <= n /\ at' = at + 1 /\ batch' = batch /\ at \in Nat
      BY <1>1, <1>3, <2>1, <2>2 DEF Visit, VisitRest
    <3>2. at' <= n + 1
      BY <3>1
    <3> QED
      BY <2>1, <3>1, <3>2 DEF AtInv
  <2>3. CASE PassEnds
    <3>1. at' = 1 /\ batch' = batch /\ 1 <= n + 1
      BY <2>1, <2>3 DEF PassEnds
    <3> QED
      BY <2>1, <3>1 DEF AtInv
  <2>4. CASE UNCHANGED <<batch, at>>
    BY <1>3, <2>4 DEF AtInv
  <2> QED
    BY <1>3, <2>2, <2>3, <2>4 DEF Next, StartSpan, Done, vars
<1> QED
  BY <1>2, <1>3, OrderInvariance, PTL DEF Spec

LEMMA RankIs ==
    ASSUME OrderInv, RebuildInv, AtInv
    PROVE  /\ Rank \in Ranks
           /\ Len(batch) \in Nat \ {0} /\ Len(result) \in 0 .. Len(batch)
           /\ Len(rebuilt) \in 0 .. Len(batch) /\ at \in 1 .. (Len(batch) + 1)
<1>1. PICK n \in Nat : n = Len(batch) /\ n # 0
  BY BatchFacts DEF OrderInv, OrderedInv
<1>2. PICK r \in Nat : r = Len(result) /\ r <= n
  <2>1. Len(result) \in Nat /\ Len(result) <= Len(batch)
    BY WholeBatch DEF OrderInv, OrderedInv, LoopTypes
  <2> QED
    BY <1>1, <2>1
<1>3. PICK b \in Nat : b = Len(rebuilt) /\ b <= n
  <2>1. Len(rebuilt) \in Nat
    BY DEF RebuildInv
  <2>2. PICK b \in Nat : b = Len(rebuilt)
    BY <2>1
  <2>3. phase \in {"pass", "rest"} => b = 0
    BY <2>2 DEF RebuildInv
  <2>4. phase = "rebuild" => b < n
    BY <1>1, <2>2 DEF RebuildInv
  <2>5. phase = "done" => b = n
    BY <1>1, <2>2 DEF RebuildInv
  <2>6. phase \in {"pass", "rest", "rebuild", "done"}
    BY DEF OrderInv, LoopTypes
  <2>7. b = 0 \/ b < n \/ b = n
    BY <2>3, <2>4, <2>5, <2>6
  <2>8. b <= n
    BY <2>7
  <2> QED
    BY <2>2, <2>8
<1>4. PICK a \in Nat : a = at /\ 1 <= a /\ a <= n + 1
  <2>1. at \in Nat \ {0}
    BY DEF OrderInv, LoopTypes
  <2>2. at <= n + 1
    BY <1>1 DEF AtInv
  <2> QED
    BY <2>1, <2>2
<1>5. n - r \in Nat /\ n - b \in Nat /\ n + 1 - a \in Nat
  BY <1>2, <1>3, <1>4
<1>6. phase \in {"pass", "rest", "rebuild", "done"}
  BY DEF OrderInv, LoopTypes
<1>7. \A p \in {0, 1} : <<3, n - r, p, n + 1 - a>> \in Ranks
  BY <1>5 DEF Ranks
<1>8. <<2, n - r, 0, n + 1 - a>> \in Ranks /\ <<1, n - b, 0, 0>> \in Ranks /\ <<0, 0, 0, 0>> \in Ranks
  BY <1>5 DEF Ranks
<1>9. (IF progress THEN 1 ELSE 0) \in {0, 1}
  OBVIOUS
<1>10. Rank \in Ranks
  BY <1>1, <1>2, <1>3, <1>4, <1>6, <1>7, <1>8, <1>9 DEF Rank
<1> QED
  BY <1>1, <1>2, <1>3, <1>4, <1>10

\* after the loop that breaks cycles nothing is left, so that no pass follows it
LEMMA RestAddsAll ==
    ASSUME OrderInv, phase = "rest", at > Len(ordered)
    PROVE  Len(result) = Len(batch)
<1>1. OrderedInv /\ batch \in Batches /\ result \in Seq(Range(batch)) /\ Distinct(result)
      /\ at \in Nat
  BY DEF OrderInv, OrderedInv, LoopTypes
<1>2. DOMAIN ordered = 1 .. Len(ordered) /\ Len(ordered) \in Nat
  BY <1>1 DEF OrderedInv
<1>3. \A k \in DOMAIN ordered : k < at
  BY <1>1, <1>2
<1>4. \A k \in DOMAIN ordered : Added(ordered[k])
  BY <1>3 DEF OrderInv
<1>5. ASSUME NEW s \in Range(batch)
      PROVE  s \in Range(result)
  <2>1. Added(s)
    BY <1>1, <1>4, OrderedFacts
  <2>2. PICK i \in DOMAIN result : result[i].id = s.id
    BY <2>1 DEF Added, Ids
  <2>3. result[i] \in Range(batch)
    BY <1>1
  <2>4. result[i] = s
    BY <1>1, <2>2, <2>3, BatchFacts
  <2> QED
    BY <2>4 DEF Range
<1>6. Range(result) \subseteq Range(batch)
  BY <1>1 DEF Range
<1>7. Range(result) = Range(batch)
  BY <1>5, <1>6
<1> QED
  BY <1>1, <1>7, WholeBatch

LEMMA VisitDescends ==
    ASSUME OrderInv, RebuildInv, AtInv, Visit \/ VisitRest
    PROVE  Lower(Rank', Rank)
<1>1. PICK n \in Nat : n = Len(batch)
  BY RankIs
<1>2. PICK r \in Nat : r = Len(result) /\ r <= n
  BY <1>1, RankIs
<1>3. PICK a \in Nat : a = at
  BY <1>1, RankIs
<1>4. batch' = batch /\ phase' = phase /\ at' = a + 1 /\ phase \in {"pass", "rest"}
  BY <1>3 DEF Visit, VisitRest
<1>5. (n + 1) - (a + 1) < (n + 1) - a
  OBVIOUS
<1>6. CASE phase = "pass"
  <2>1. CASE UNCHANGED <<progress, result>>
    <3>1. PICK p : p = IF progress THEN 1 ELSE 0
      OBVIOUS
    <3>2. Rank = <<3, n - r, p, n + 1 - a>>
      BY <1>1, <1>2, <1>3, <1>6, <3>1 DEF Rank
    <3>3. Rank' = <<3, n - r, p, n + 1 - (a + 1)>>
      BY <1>1, <1>2, <1>4, <1>6, <2>1, <3>1 DEF Rank
    <3> QED
      BY <1>5, <3>2, <3>3 DEF Lower
  <2>2. CASE result' = Append(result, ordered[at])
    <3>1. Len(result') = r + 1
      BY <1>2, <2>2 DEF OrderInv, LoopTypes
    <3>2. Rank[1] = 3 /\ Rank[2] = n - r
      BY <1>1, <1>2, <1>6 DEF Rank
    <3>3. Rank'[1] = 3 /\ Rank'[2] = n - (r + 1)
      BY <1>1, <1>4, <1>6, <3>1 DEF Rank
    <3>4. n - (r + 1) < n - r
      OBVIOUS
    <3> QED
      BY <3>2, <3>3, <3>4 DEF Lower
  <2> QED
    BY <1>6, <2>1, <2>2 DEF Visit, VisitRest
<1>7. CASE phase = "rest"
  <2>1. CASE result' = result
    <3>1. Rank = <<2, n - r, 0, n + 1 - a>>
      BY <1>1, <1>2, <1>3, <1>7 DEF Rank
    <3>2. Rank' = <<2, n - r, 0, n + 1 - (a + 1)>>
      BY <1>1, <1>2, <1>4, <1>7, <2>1 DEF Rank
    <3> QED
      BY <1>5, <3>1, <3>2 DEF Lower
  <2>2. CASE result' = Append(result, ordered[at])
    <3>1. Len(result') = r + 1
      BY <1>2, <2>2 DEF OrderInv, LoopTypes
    <3>2. Rank[1] = 2 /\ Rank[2] = n - r
      BY <1>1, <1>2, <1>7 DEF Rank
    <3>3. Rank'[1] = 2 /\ Rank'[2] = n - (r + 1)
      BY <1>1, <1>4, <1>7, <3>1 DEF Rank
    <3>4. n - (r + 1) < n - r
      OBVIOUS
    <3> QED
      BY <3>2, <3>3, <3>4 DEF Lower
  <2> QED
    BY <1>7, <2>1, <2>2 DEF Visit, VisitRest
<1> QED
  BY <1>4, <1>6, <1>7

LEMMA PassEndsDescends ==
    ASSUME OrderInv, RebuildInv, AtInv, PassEnds
    PROVE  Lower(Rank', Rank)
<1>1. /\ phase \in {"pass", "rest"} /\ at > Len(ordered) /\ at' = 1 /\ progress' = FALSE
      /\ phase' = IF phase = "pass" /\ ~progress THEN "rest"
                  ELSE IF Len(result) < Len(ordered) THEN "pass"
                  ELSE "rebuild"
      /\ UNCHANGED <<batch, ordered, result, rebuilt>>
  BY DEF PassEnds
<1>2. Len(ordered) = Len(batch) /\ Len(batch) \in Nat
  BY RankIs DEF OrderInv, OrderedInv
<1>3. CASE phase = "pass" /\ ~progress
  <2>1. Rank[1] = 3 /\ Rank'[1] = 2
    BY <1>1, <1>3 DEF Rank
  <2> QED
    BY <2>1 DEF Lower
<1>4. CASE phase = "pass" /\ progress
  <2>1. phase' \in {"pass", "rebuild"}
    BY <1>1, <1>4
  <2>2. Rank[1] = 3 /\ Rank[2] = Len(batch) - Len(result) /\ Rank[3] = 1
    BY <1>4 DEF Rank
  <2>3. CASE phase' = "pass"
    <3>1. Rank'[1] = 3 /\ Rank'[2] = Len(batch) - Len(result) /\ Rank'[3] = 0
      BY <1>1, <2>3 DEF Rank
    <3> QED
      BY <2>2, <3>1 DEF Lower
  <2>4. CASE phase' = "rebuild"
    <3>1. Rank'[1] = 1
      BY <2>4 DEF Rank
    <3> QED
      BY <2>2, <3>1 DEF Lower
  <2> QED
    BY <2>1, <2>3, <2>4
<1>5. CASE phase = "rest"
  <2>1. Len(result) = Len(batch)
    BY <1>1, <1>5, RestAddsAll
  <2>2. phase' = "rebuild"
    BY <1>1, <1>2, <1>5, <2>1
  <2>3. Rank[1] = 2 /\ Rank'[1] = 1
    BY <1>5, <2>2 DEF Rank
  <2> QED
    BY <2>3 DEF Lower
<1> QED
  BY <1>1, <1>3, <1>4, <1>5

LEMMA StartSpanDescends ==
    ASSUME OrderInv, RebuildInv, AtInv, StartSpan
    PROVE  Lower(Rank', Rank)
<1>1. PICK n \in Nat : n = Len(batch)
  BY RankIs
<1>2. PICK b \in Nat : b = Len(rebuilt)
  BY <1>1, RankIs
<1>3. Rank[1] = 1 /\ Rank[2] = n - b
  BY <1>1, <1>2 DEF Rank, StartSpan
<1>4. phase' \in {"rebuild", "done"} /\ batch' = batch
  BY DEF StartSpan
<1>5. CASE phase' = "done"
  <2>1. Rank'[1] = 0
    BY <1>5 DEF Rank
  <2> QED
    BY <1>3, <2>1 DEF Lower
<1>6. CASE phase' = "rebuild"
  <2>1. \E x : rebuilt' = Append(rebuilt, x)
    BY DEF StartSpan
  <2>2. Len(rebuilt') = b + 1
    BY <1>2, <2>1 DEF RebuildInv
  <2>3. Rank'[1] = 1 /\ Rank'[2] = n - (b + 1)
    BY <1>1, <1>4, <1>6, <2>2 DEF Rank
  <2>4. n - (b + 1) < n - b
    OBVIOUS
  <2> QED
    BY <1>3, <2>3, <2>4 DEF Lower
<1> QED
  BY <1>4, <1>5, <1>6

\* orderForRebuild and toReadOnlySpans end on every batch, cycles of parents included: each
\* of their steps lowers the rank, which cannot go on for ever (NoEndlessDescent).
THEOREM RebuildEnds == Spec => [](Rank \in Ranks) /\ [][Lower(Rank', Rank)]_vars
<1>1. OrderInv /\ RebuildInv /\ AtInv => Rank \in Ranks
  BY RankIs
<1>2. ASSUME OrderInv, RebuildInv, AtInv, [Next]_vars
      PROVE  [Lower(Rank', Rank)]_vars
  <2>1. CASE Visit \/ VisitRest
    BY <1>2, <2>1, VisitDescends
  <2>2. CASE PassEnds
    BY <1>2, <2>2, PassEndsDescends
  <2>3. CASE StartSpan
    BY <1>2, <2>3, StartSpanDescends
  <2>4. CASE UNCHANGED vars
    BY <2>4
  <2> QED
    BY <1>2, <2>1, <2>2, <2>3, <2>4 DEF Next, Done
<1> QED
  BY <1>1, <1>2, OrderInvariance, RebuildInvariance, AtInvariance, PTL DEF Spec
=============================================================================
