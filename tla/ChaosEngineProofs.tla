-------------------------- MODULE ChaosEngineProofs --------------------------
(***************************************************************************)
(* What Engine.Apply keeps, for every batch and every list of policies:    *)
(* the argument is never written to, spans end after they started, and the *)
(* result is what the policies make of each span by itself.                *)
(***************************************************************************)
EXTENDS ChaosEngine, NumberInduction, SequenceTheorems

-----------------------------------------------------------------------------
(* One action, on references and on values. *)

RefSpans   == [kind : Kinds, end : Nat \ {0}, status : Statuses, span : Refs, resource : Refs]
ValueSpans == [kind : Kinds, end : Nat \ {0}, status : Statuses,
               span : Contents, resource : Contents]

\* a span to write to, with the heap: its two maps are different ones
Targets == {t \in [heap : [Refs -> Contents], span : RefSpans] :
               t.span.span # t.span.resource}

\* t and u are the same but for what is in the maps of t and what needs no map
SameMaps(t, u) ==
    /\ u.span.span = t.span.span /\ u.span.resource = t.span.resource
    /\ \A r \in Refs : r \notin {t.span.span, t.span.resource} => u.heap[r] = t.heap[r]

Value(t) == Deref(t.span, t.heap)

LEMMA ValueIs ==
    ASSUME NEW s \in RefSpans, NEW h \in [Refs -> Contents]
    PROVE  /\ Deref(s, h) \in ValueSpans
           /\ Deref(s, h) = [kind |-> s.kind, end |-> s.end, status |-> s.status,
                             span |-> h[s.span], resource |-> h[s.resource]]
<1>1. /\ s = [kind |-> s.kind, end |-> s.end, status |-> s.status, span |-> s.span,
              resource |-> s.resource]
      /\ s.kind \in Kinds /\ s.end \in Nat \ {0} /\ s.status \in Statuses
      /\ s.span \in Refs /\ s.resource \in Refs
  BY DEF RefSpans
<1>2. h[s.span] \in Contents /\ h[s.resource] \in Contents
  BY <1>1
<1>3. Deref(s, h) = [kind |-> s.kind, end |-> s.end, status |-> s.status,
                     span |-> h[s.span], resource |-> h[s.resource]]
  <2>1. PICK kind, end, status, span, resource :
            s = [kind |-> kind, end |-> end, status |-> status, span |-> span,
                 resource |-> resource]
    BY <1>1
  <2>2. PICK m, n : m = h[s.span] /\ n = h[s.resource]
    OBVIOUS
  <2> DEFINE t == [s EXCEPT !.span = m]
  <2>3. t = [kind |-> kind, end |-> end, status |-> status, span |-> m, resource |-> resource]
    BY <2>1
  <2>4. [t EXCEPT !.resource = n]
        = [kind |-> kind, end |-> end, status |-> status, span |-> m, resource |-> n]
    <3> HIDE DEF t
    <3> QED
      BY <2>3
  <2>5. [s EXCEPT !.span = m, !.resource = n] = [t EXCEPT !.resource = n]
    OBVIOUS
  <2>6. Deref(s, h) = [s EXCEPT !.span = m, !.resource = n]
    BY <2>2 DEF Deref
  <2> QED
    BY <2>1, <2>2, <2>4, <2>5, <2>6
<1> QED
  BY <1>1, <1>2, <1>3 DEF ValueSpans

LEMMA SetAttribute ==
    ASSUME NEW t \in Targets,
           NEW a \in [type : {"set_attribute"}, scope : Scopes, name : {"service", "other"},
                      value : Values]
    PROVE  LET u == ApplyAction(t, a) IN
           u \in Targets /\ SameMaps(t, u) /\ Value(u) = PureAction(Value(t), a)
<1> DEFINE u   == ApplyAction(t, a)
           ref == t.span[a.scope]
           new == [t.heap EXCEPT ![ref] = [@ EXCEPT ![a.name] = a.value]]
<1>1. /\ t.span \in RefSpans /\ t.heap \in [Refs -> Contents]
      /\ t = [heap |-> t.heap, span |-> t.span] /\ t.span.span # t.span.resource
  BY DEF Targets
<1>2. /\ a.scope = "span" \/ a.scope = "resource"
      /\ a.name = "service" \/ a.name = "other"
      /\ a.type = "set_attribute" /\ a.value \in Values
  BY DEF Scopes
<1>3. ref \in Refs /\ (ref = t.span.span \/ ref = t.span.resource)
  BY <1>1, <1>2 DEF RefSpans
<1>4. t.heap[ref] \in Contents
  BY <1>1, <1>3
<1>5. [t.heap[ref] EXCEPT ![a.name] = a.value] \in Contents
  BY <1>2, <1>4 DEF Contents
<1>6. new \in [Refs -> Contents]
  BY <1>1, <1>3, <1>5
<1>7. u = IF t.heap[ref][a.name] = Absent THEN t ELSE [heap |-> new, span |-> t.span]
  BY <1>1, <1>2 DEF ApplyAction
<1>8. u \in Targets /\ SameMaps(t, u)
  <2>1. CASE u = t
    BY <2>1 DEF SameMaps
  <2>2. CASE u = [heap |-> new, span |-> t.span]
    BY <1>1, <1>3, <1>6, <2>2 DEF SameMaps, Targets
  <2> QED
    BY <1>7, <2>1, <2>2
<1> DEFINE v == Value(t)
<1>9. v[a.scope] = t.heap[ref]
  BY <1>1, <1>2, ValueIs DEF Value
<1>10. PureAction(v, a) = IF t.heap[ref][a.name] = Absent THEN v
                          ELSE [v EXCEPT ![a.scope][a.name] = a.value]
  BY <1>2, <1>9 DEF PureAction
<1>11. Value(u) = PureAction(v, a)
  <2>1. CASE t.heap[ref][a.name] = Absent
    BY <1>7, <1>10, <2>1
  <2>2. CASE t.heap[ref][a.name] # Absent
    <3>1. u.heap = new /\ u.span = t.span
      BY <1>7, <2>2
    <3>2. Value(u) = [kind |-> t.span.kind, end |-> t.span.end, status |-> t.span.status,
                      span |-> new[t.span.span], resource |-> new[t.span.resource]]
      BY <1>1, <1>6, <3>1, ValueIs DEF Value
    <3>3. v = [kind |-> t.span.kind, end |-> t.span.end, status |-> t.span.status,
               span |-> t.heap[t.span.span], resource |-> t.heap[t.span.resource]]
      BY <1>1, ValueIs DEF Value
    <3>4. PureAction(v, a) = [v EXCEPT ![a.scope] = [@ EXCEPT ![a.name] = a.value]]
      BY <1>10, <2>2
    <3>5. t.span.span \in Refs /\ t.span.resource \in Refs
      BY <1>1 DEF RefSpans
    <3> HIDE DEF u, v
    <3>6. CASE a.scope = "span"
      BY <1>1, <3>2, <3>3, <3>4, <3>5, <3>6
    <3>7. CASE a.scope = "resource"
      BY <1>1, <3>2, <3>3, <3>4, <3>5, <3>7
    <3> QED
      BY <1>2, <3>6, <3>7
  <2> QED
    BY <2>1, <2>2
<1> QED
  BY <1>8, <1>11

LEMMA SetStatus ==
    ASSUME NEW t \in Targets, NEW a \in [type : {"set_status"}, code : Statuses]
    PROVE  LET u == ApplyAction(t, a) IN
           u \in Targets /\ SameMaps(t, u) /\ Value(u) = PureAction(Value(t), a)
<1>1. /\ t.span \in RefSpans /\ t.heap \in [Refs -> Contents]
      /\ t = [heap |-> t.heap, span |-> t.span] /\ t.span.span # t.span.resource
  BY DEF Targets
<1> DEFINE new == [t.span EXCEPT !.status = a.code]
<1>2. new \in RefSpans /\ new.span = t.span.span /\ new.resource = t.span.resource
  BY <1>1 DEF RefSpans
<1>3. ApplyAction(t, a) = [heap |-> t.heap, span |-> new]
  BY <1>1 DEF ApplyAction
<1>4. PureAction(Value(t), a) = [Value(t) EXCEPT !.status = a.code]
  BY DEF PureAction
<1>5. Deref(new, t.heap) = [Deref(t.span, t.heap) EXCEPT !.status = a.code]
  BY <1>1 DEF Deref, RefSpans
<1> DEFINE u == ApplyAction(t, a)
<1>6. u.heap = t.heap /\ u.span = new
  BY <1>3
<1>7. Value(u) = PureAction(Value(t), a)
  BY <1>4, <1>5, <1>6 DEF Value
<1>8. u \in Targets
  <2> HIDE DEF new
  <2>1. [heap |-> t.heap, span |-> new] \in Targets
    BY <1>1, <1>2 DEF Targets
  <2> QED
    BY <1>3, <2>1
<1> HIDE DEF u
<1>9. SameMaps(t, u)
  BY <1>2, <1>6 DEF SameMaps
<1> QED
  BY <1>7, <1>8, <1>9 DEF u

LEMMA AddLatencyAction ==
    ASSUME NEW t \in Targets, NEW a \in [type : {"add_latency"}, delta : Int]
    PROVE  LET u == ApplyAction(t, a) IN
           u \in Targets /\ SameMaps(t, u) /\ Value(u) = PureAction(Value(t), a)
<1>1. /\ t.span \in RefSpans /\ t.heap \in [Refs -> Contents]
      /\ t = [heap |-> t.heap, span |-> t.span] /\ t.span.span # t.span.resource
  BY DEF Targets
<1> DEFINE end == AddLatency(t.span.end, a.delta)
           new == [t.span EXCEPT !.end = end]
<1>2. t.span.end \in Nat \ {0} /\ a.delta \in Int /\ end \in Nat \ {0}
  BY <1>1 DEF RefSpans, AddLatency
<1>3. new \in RefSpans /\ new.span = t.span.span /\ new.resource = t.span.resource
  BY <1>1, <1>2 DEF RefSpans
<1>4. ApplyAction(t, a) = [heap |-> t.heap, span |-> new]
  BY <1>1 DEF ApplyAction
<1>5. Deref(new, t.heap) = [Deref(t.span, t.heap) EXCEPT !.end = end]
  BY <1>1 DEF Deref, RefSpans
<1>6. PureAction(Value(t), a) = [Value(t) EXCEPT !.end = end]
  <2> DEFINE v == Value(t)
  <2>1. v.end = t.span.end /\ v \in ValueSpans
    BY <1>1, ValueIs DEF Value
  <2>2. CASE a.delta = 0
    <3>1. PureAction(v, a) = v
      BY <2>2 DEF PureAction
    <3>2. end = v.end
      BY <2>1, <2>2 DEF AddLatency
    <3>3. [v EXCEPT !.end = v.end] = v
      BY <2>1 DEF ValueSpans
    <3> HIDE DEF v, end
    <3>4. PureAction(v, a) = [v EXCEPT !.end = end]
      BY <3>1, <3>2, <3>3
    <3> QED
      BY <3>4 DEF v
  <2>3. CASE a.delta # 0
    <3> DEFINE e == v.end
               Is(x) == IF e + a.delta > 0 THEN x = e + a.delta ELSE x = 1
    <3>1. end \in {1, e + a.delta} /\ Is(end)
      BY <1>2, <2>1, <2>3 DEF AddLatency
    <3>2. \A x : Is(x) => x = end
      BY <1>2, <2>1, <2>3 DEF AddLatency
    <3>3. PureAction(v, a) = [v EXCEPT !.end = CHOOSE x \in {1, e + a.delta} : Is(x)]
      BY <2>3 DEF PureAction
    <3> HIDE DEF Is, e, v, end
    <3>4. (CHOOSE x \in {1, e + a.delta} : Is(x)) = end
      BY <3>1, <3>2
    <3>5. PureAction(v, a) = [v EXCEPT !.end = end]
      BY <3>3, <3>4
    <3> QED
      BY <3>5 DEF v
  <2> QED
    BY <2>2, <2>3
<1> DEFINE u == ApplyAction(t, a)
<1>7. u.heap = t.heap /\ u.span = new
  BY <1>4
<1>8. Value(u) = PureAction(Value(t), a)
  BY <1>5, <1>6, <1>7 DEF Value
<1>9. u \in Targets
  <2> HIDE DEF new
  <2>1. [heap |-> t.heap, span |-> new] \in Targets
    BY <1>1, <1>3 DEF Targets
  <2> QED
    BY <1>4, <2>1
<1> HIDE DEF u
<1>10. SameMaps(t, u)
  BY <1>3, <1>7 DEF SameMaps
<1> QED
  BY <1>8, <1>9, <1>10 DEF u

\* an action writes to the span and its maps only, and does on values what it does on
\* references
LEMMA ActionStep ==
    ASSUME NEW t \in Targets, NEW a \in Actions
    PROVE  LET u == ApplyAction(t, a) IN
           u \in Targets /\ SameMaps(t, u) /\ Value(u) = PureAction(Value(t), a)
BY SetAttribute, SetStatus, AddLatencyAction DEF Actions

LEMMA PureActionType ==
    ASSUME NEW v \in ValueSpans, NEW a \in Actions
    PROVE  PureAction(v, a) \in ValueSpans
<1>1. CASE a \in [type : {"set_attribute"}, scope : Scopes, name : {"service", "other"},
                  value : Values]
  <2>1. /\ a.type = "set_attribute" /\ a.value \in Values
        /\ a.scope = "span" \/ a.scope = "resource"
        /\ a.name = "service" \/ a.name = "other"
    BY <1>1 DEF Scopes
  <2>2. v[a.scope] \in Contents
    BY <2>1 DEF ValueSpans
  <2>3. [v[a.scope] EXCEPT ![a.name] = a.value] \in Contents
    BY <2>1, <2>2 DEF Contents
  <2> DEFINE new == [v[a.scope] EXCEPT ![a.name] = a.value]
  <2>4. [v EXCEPT ![a.scope][a.name] = a.value] = [v EXCEPT ![a.scope] = new]
    OBVIOUS
  <2> HIDE DEF new
  <2>5. [v EXCEPT ![a.scope] = new] \in ValueSpans
    BY <2>1, <2>3 DEF ValueSpans, new
  <2> QED
    BY <2>1, <2>4, <2>5 DEF PureAction
<1>2. CASE a \in [type : {"set_status"}, code : Statuses]
  <2>1. PureAction(v, a) = [v EXCEPT !.status = a.code] /\ a.code \in Statuses
    BY <1>2 DEF PureAction
  <2> QED
    BY <2>1 DEF ValueSpans
<1>3. CASE a \in [type : {"add_latency"}, delta : Int]
  <2>1. CASE a.delta = 0
    BY <1>3, <2>1 DEF PureAction
  <2>2. CASE a.delta # 0
    <3> DEFINE e == v.end
               Is(x) == IF e + a.delta > 0 THEN x = e + a.delta ELSE x = 1
               end == CHOOSE x \in {1, e + a.delta} : Is(x)
    <3>1. e \in Nat \ {0} /\ a.delta \in Int
      BY <1>3 DEF ValueSpans
    <3>2. \E x \in {1, e + a.delta} : Is(x)
      BY <3>1
    <3>3. PureAction(v, a) = [v EXCEPT !.end = end]
      BY <1>3, <2>2 DEF PureAction
    <3> HIDE DEF Is
    <3>4. end \in {1, e + a.delta} /\ Is(end)
      BY <3>2
    <3> HIDE DEF e, end
    <3>5. end \in Nat \ {0}
      BY <3>1, <3>4 DEF Is
    <3> QED
      BY <3>3, <3>5 DEF ValueSpans
  <2> QED
    BY <2>1, <2>2
<1> QED
  BY <1>1, <1>2, <1>3 DEF Actions

-----------------------------------------------------------------------------
(* All actions of a policy. *)

\* the recursive functions are what they look like
LEMMA AppliedIs ==
    ASSUME NEW t \in Targets, NEW todo \in Seq(Actions)
    PROVE  Applied(t, todo) = [k \in 0 .. Len(todo) |->
               IF k = 0 THEN t ELSE ApplyAction(Applied(t, todo)[k - 1], todo[k])]
<1> DEFINE F == [p \in Targets \X (1 .. Len(todo)) |-> ApplyAction(p[1], todo[p[2]])]
           Is(g) == g = [k \in 0 .. Len(todo) |->
                            IF k = 0 THEN t ELSE ApplyAction(g[k - 1], todo[k])]
<1>1. F \in [Targets \X (1 .. Len(todo)) -> Targets]
  <2>1. \A u \in Targets, j \in 1 .. Len(todo) : ApplyAction(u, todo[j]) \in Targets
    BY ActionStep
  <2> QED
    BY <2>1
<1> HIDE DEF F
<1>2. PICK g \in [0 .. Len(todo) -> Targets] :
          g[0] = t /\ \A k \in 1 .. Len(todo) : g[k] = F[<<g[k - 1], k>>]
  <2>1. PICK N \in Nat : N = Len(todo)
    OBVIOUS
  <2>2. Rule(F, Targets, N)
    BY <1>1, <2>1 DEF Rule
  <2>3. \E g : Follows(g, F, Targets, N, t)
    BY <2>2, Recursion
  <2> QED
    BY <2>1, <2>3 DEF Follows
<1>3. ASSUME NEW k \in 1 .. Len(todo)
      PROVE  g[k] = ApplyAction(g[k - 1], todo[k])
  <2>1. k - 1 \in 0 .. Len(todo) /\ g[k - 1] \in Targets
    BY <1>2
  <2>2. F[<<g[k - 1], k>>] = ApplyAction(g[k - 1], todo[k])
    BY <2>1 DEF F
  <2> QED
    BY <1>2, <2>2
<1>4. Is(g)
  <2>1. g = [k \in 0 .. Len(todo) |-> g[k]]
    BY <1>2
  <2>2. \A k \in 0 .. Len(todo) : k = 0 \/ k \in 1 .. Len(todo)
    OBVIOUS
  <2> QED
    BY <1>2, <1>3, <2>1, <2>2
<1>5. Applied(t, todo) = CHOOSE h : Is(h)
  BY DEF Applied
<1> HIDE DEF Is
<1>6. Is(Applied(t, todo))
  BY <1>4, <1>5
<1> QED
  BY <1>6 DEF Is

LEMMA PureActionsIs ==
    ASSUME NEW v \in ValueSpans, NEW todo \in Seq(Actions)
    PROVE  PureActions(v, todo) = [k \in 0 .. Len(todo) |->
               IF k = 0 THEN v ELSE PureAction(PureActions(v, todo)[k - 1], todo[k])]
<1> DEFINE F == [p \in ValueSpans \X (1 .. Len(todo)) |-> PureAction(p[1], todo[p[2]])]
           Is(g) == g = [k \in 0 .. Len(todo) |->
                            IF k = 0 THEN v ELSE PureAction(g[k - 1], todo[k])]
<1>1. F \in [ValueSpans \X (1 .. Len(todo)) -> ValueSpans]
  <2>1. \A u \in ValueSpans, j \in 1 .. Len(todo) : PureAction(u, todo[j]) \in ValueSpans
    BY PureActionType
  <2> QED
    BY <2>1
<1> HIDE DEF F
<1>2. PICK g \in [0 .. Len(todo) -> ValueSpans] :
          g[0] = v /\ \A k \in 1 .. Len(todo) : g[k] = F[<<g[k - 1], k>>]
  <2>1. PICK N \in Nat : N = Len(todo)
    OBVIOUS
  <2>2. Rule(F, ValueSpans, N)
    BY <1>1, <2>1 DEF Rule
  <2>3. \E g : Follows(g, F, ValueSpans, N, v)
    BY <2>2, Recursion
  <2> QED
    BY <2>1, <2>3 DEF Follows
<1>3. ASSUME NEW k \in 1 .. Len(todo)
      PROVE  g[k] = PureAction(g[k - 1], todo[k])
  <2>1. k - 1 \in 0 .. Len(todo) /\ g[k - 1] \in ValueSpans
    BY <1>2
  <2>2. F[<<g[k - 1], k>>] = PureAction(g[k - 1], todo[k])
    BY <2>1 DEF F
  <2> QED
    BY <1>2, <2>2
<1>4. Is(g)
  <2>1. g = [k \in 0 .. Len(todo) |-> g[k]]
    BY <1>2
  <2>2. \A k \in 0 .. Len(todo) : k = 0 \/ k \in 1 .. Len(todo)
    OBVIOUS
  <2> QED
    BY <1>2, <1>3, <2>1, <2>2
<1>5. PureActions(v, todo) = CHOOSE h : Is(h)
  BY DEF PureActions
<1> HIDE DEF Is
<1>6. Is(PureActions(v, todo))
  BY <1>4, <1>5
<1> QED
  BY <1>6 DEF Is

\* the loop over the actions writes to one span, and does on values what it does on
\* references
LEMMA PolicyStep ==
    ASSUME NEW t \in Targets, NEW todo \in Seq(Actions)
    PROVE  LET u == Applied(t, todo)[Len(todo)] IN
           u \in Targets /\ SameMaps(t, u) /\ Value(u) = PureActions(Value(t), todo)[Len(todo)]
<1> DEFINE u(k) == Applied(t, todo)[k]
           v(k) == PureActions(Value(t), todo)[k]
           Good(k) == u(k) \in Targets /\ SameMaps(t, u(k)) /\ Value(u(k)) = v(k)
           S == {k \in 0 .. Len(todo) : Good(k)}
<1>1. Value(t) \in ValueSpans
  BY ValueIs DEF Value, Targets
<1>2. u(0) = t /\ v(0) = Value(t)
  BY <1>1, AppliedIs, PureActionsIs
<1>3. \A k \in 1 .. Len(todo) :
          u(k) = ApplyAction(u(k - 1), todo[k]) /\ v(k) = PureAction(v(k - 1), todo[k])
  BY <1>1, AppliedIs, PureActionsIs
<1> HIDE DEF u, v
<1>4. 0 \in S
  BY <1>2 DEF SameMaps
<1>5. ASSUME NEW k \in 1 .. Len(todo), k - 1 \in S
      PROVE  k \in S
  <2>1. Good(k - 1)
    BY <1>5
  <2>2. todo[k] \in Actions
    OBVIOUS
  <2>3. /\ u(k) \in Targets /\ SameMaps(u(k - 1), u(k))
        /\ Value(u(k)) = PureAction(Value(u(k - 1)), todo[k])
    BY <1>3, <2>1, <2>2, ActionStep
  <2>4. SameMaps(t, u(k))
    BY <2>1, <2>3 DEF SameMaps
  <2> QED
    BY <1>3, <2>1, <2>3, <2>4
<1> HIDE DEF S
<1>6. PICK N \in Nat : N = Len(todo)
  OBVIOUS
<1>7. Len(todo) \in S
  <2>1. \A k \in 1 .. N : k - 1 \in S => k \in S
    BY <1>5, <1>6
  <2>2. 0 .. N \subseteq S
    BY <1>4, <2>1, InductionTo
  <2> QED
    BY <1>6, <2>2
<1> QED
  BY <1>7 DEF S, u, v

-----------------------------------------------------------------------------
(* All policies on one span, on values. *)

Marks == [span : ValueSpans, stopped : BOOLEAN]

\* what a run of the loop is about, whatever its state
Task == /\ mode \in {"all", "first_match"} /\ policies \in Seq(Policies)
        /\ original \in Seq(ValueSpans)

LEMMA PureActionsType ==
    ASSUME NEW v \in ValueSpans, NEW todo \in Seq(Actions)
    PROVE  PureActions(v, todo)[Len(todo)] \in ValueSpans
<1> DEFINE u(k) == PureActions(v, todo)[k]
           S == {k \in 0 .. Len(todo) : u(k) \in ValueSpans}
<1>1. u(0) = v /\ \A k \in 1 .. Len(todo) : u(k) = PureAction(u(k - 1), todo[k])
  BY PureActionsIs
<1> HIDE DEF u
<1>2. 0 \in S
  BY <1>1
<1>3. ASSUME NEW k \in 1 .. Len(todo), k - 1 \in S
      PROVE  k \in S
  <2>1. todo[k] \in Actions /\ u(k - 1) \in ValueSpans
    BY <1>3
  <2> QED
    BY <1>1, <2>1, PureActionType
<1> HIDE DEF S
<1>4. PICK N \in Nat : N = Len(todo)
  OBVIOUS
<1>5. \A k \in 1 .. N : k - 1 \in S => k \in S
  BY <1>3, <1>4
<1>6. 0 .. N \subseteq S
  BY <1>2, <1>5, InductionTo
<1> QED
  BY <1>4, <1>6 DEF S, u

LEMMA PolicyType ==
    ASSUME Task, NEW j \in 1 .. Len(policies)
    PROVE  policies[j] \in Policies /\ policies[j].actions \in Seq(Actions)
BY ChaosAssumption DEF Task

LEMMA VisitType ==
    ASSUME Task, NEW i, NEW j \in 1 .. Len(policies), NEW m \in Marks, NEW sel
    PROVE  Visit(i, j, m, sel) \in Marks
<1> DEFINE todo == policies[j].actions
           b == mode = "first_match"
<1>1. PureActions(m.span, todo)[Len(todo)] \in ValueSpans
  BY PolicyType, PureActionsType DEF Marks
<1>2. b \in BOOLEAN
  OBVIOUS
<1>3. PICK v \in ValueSpans, c \in BOOLEAN :
          v = PureActions(m.span, todo)[Len(todo)] /\ c = b
  BY <1>1, <1>2
<1>4. [span |-> v, stopped |-> c] \in Marks
  BY DEF Marks
<1>5. Visit(i, j, m, sel) \in {[span |-> v, stopped |-> c], m}
  BY <1>3 DEF Visit
<1> QED
  BY <1>4, <1>5

LEMMA VisitedIs ==
    ASSUME Task, NEW i \in DOMAIN original, NEW sel
    PROVE  /\ \A k \in 0 .. Len(policies) : Visited(i, sel)[k] \in Marks
           /\ Visited(i, sel)[0] = [span |-> original[i], stopped |-> FALSE]
           /\ \A k \in 1 .. Len(policies) :
                 Visited(i, sel)[k] = Visit(i, k, Visited(i, sel)[k - 1], sel)
<1> DEFINE first == [span |-> original[i], stopped |-> FALSE]
           F == [p \in Marks \X (1 .. Len(policies)) |-> Visit(i, p[2], p[1], sel)]
           Is(g) == g = [k \in 0 .. Len(policies) |->
                            IF k = 0 THEN first ELSE Visit(i, k, g[k - 1], sel)]
<1>1. first \in Marks
  BY DEF Task, Marks
<1>2. F \in [Marks \X (1 .. Len(policies)) -> Marks]
  <2>1. \A m \in Marks, j \in 1 .. Len(policies) : Visit(i, j, m, sel) \in Marks
    BY VisitType
  <2> QED
    BY <2>1
<1> HIDE DEF F, first
<1>3. PICK g \in [0 .. Len(policies) -> Marks] :
          g[0] = first /\ \A k \in 1 .. Len(policies) : g[k] = F[<<g[k - 1], k>>]
  <2>1. PICK N \in Nat : N = Len(policies)
    BY DEF Task
  <2>2. Rule(F, Marks, N)
    BY <1>2, <2>1 DEF Rule
  <2>3. \E g : Follows(g, F, Marks, N, first)
    BY <1>1, <2>2, Recursion
  <2> QED
    BY <2>1, <2>3 DEF Follows
<1>4. ASSUME NEW k \in 1 .. Len(policies)
      PROVE  g[k] = Visit(i, k, g[k - 1], sel)
  <2>1. k - 1 \in 0 .. Len(policies) /\ g[k - 1] \in Marks
    BY <1>3 DEF Task
  <2>2. F[<<g[k - 1], k>>] = Visit(i, k, g[k - 1], sel)
    BY <2>1 DEF F
  <2> QED
    BY <1>3, <2>2
<1>5. Is(g)
  <2>1. g = [k \in 0 .. Len(policies) |-> g[k]]
    BY <1>3
  <2>2. \A k \in 0 .. Len(policies) : k = 0 \/ k \in 1 .. Len(policies)
    BY DEF Task
  <2> QED
    BY <1>3, <1>4, <2>1, <2>2
<1>6. Visited(i, sel) = CHOOSE h : Is(h)
  BY DEF Visited, first
<1> HIDE DEF Is
<1>7. Is(Visited(i, sel))
  BY <1>5, <1>6
<1> DEFINE v == Visited(i, sel)
<1> HIDE DEF v
<1>8. v = [k \in 0 .. Len(policies) |-> IF k = 0 THEN first ELSE Visit(i, k, v[k - 1], sel)]
  BY <1>7 DEF Is, v
<1>9. v[0] = first /\ \A k \in 1 .. Len(policies) : v[k] = Visit(i, k, v[k - 1], sel)
  BY <1>8 DEF Task
<1> DEFINE S == {k \in 0 .. Len(policies) : v[k] \in Marks}
<1>10. 0 \in S
  BY <1>1, <1>9 DEF Task
<1>11. ASSUME NEW k \in 1 .. Len(policies), k - 1 \in S
       PROVE  k \in S
  BY <1>9, <1>11, VisitType
<1> HIDE DEF S
<1>12. PICK N \in Nat : N = Len(policies)
  BY DEF Task
<1>13. \A k \in 1 .. N : k - 1 \in S => k \in S
  BY <1>11, <1>12
<1>14. 0 .. N \subseteq S
  BY <1>10, <1>13, InductionTo
<1> QED
  BY <1>9, <1>12, <1>14 DEF S, v, first

\* A and B select the same of span i's first n policies
AgreeTo(i, n, A, B) == \A j \in 1 .. n : <<i, j>> \in A <=> <<i, j>> \in B

\* what was selected elsewhere or later does not matter
LEMMA Agreement ==
    ASSUME Task, NEW i \in DOMAIN original, NEW A, NEW B, NEW n \in 0 .. Len(policies),
           AgreeTo(i, n, A, B)
    PROVE  Visited(i, A)[n] = Visited(i, B)[n]
<1> DEFINE a(k) == Visited(i, A)[k]
           b(k) == Visited(i, B)[k]
           S == {k \in 0 .. n : a(k) = b(k)}
<1>0. n \in Nat /\ \A k \in 1 .. n : k \in 1 .. Len(policies)
  BY DEF Task
<1>1. a(0) = b(0)
  BY VisitedIs
<1>2. \A k \in 1 .. n : a(k) = Visit(i, k, a(k - 1), A) /\ b(k) = Visit(i, k, b(k - 1), B)
  BY <1>0, VisitedIs
<1> HIDE DEF a, b
<1>3. 0 \in S
  BY <1>0, <1>1
<1>4. ASSUME NEW k \in 1 .. n, k - 1 \in S
      PROVE  k \in S
  <2>1. a(k - 1) = b(k - 1)
    BY <1>4
  <2>2. Visit(i, k, a(k - 1), A) = Visit(i, k, a(k - 1), B)
    BY DEF Visit, AgreeTo
  <2> QED
    BY <1>0, <1>2, <2>1, <2>2
<1> HIDE DEF S
<1>5. 0 .. n \subseteq S
  BY <1>0, <1>3, <1>4, InductionTo
<1> QED
  BY <1>0, <1>5 DEF S, a, b

\* after the policy that stopped, nothing changes
LEMMA NothingAfterStop ==
    ASSUME Task, NEW i \in DOMAIN original, NEW sel, NEW n \in 0 .. Len(policies),
           Visited(i, sel)[n].stopped
    PROVE  Visited(i, sel)[Len(policies)] = Visited(i, sel)[n]
<1> DEFINE a(k) == Visited(i, sel)[k]
           S == {k \in 0 .. Len(policies) : k >= n => a(k) = a(n)}
<1>1. \A k \in 1 .. Len(policies) : a(k) = Visit(i, k, a(k - 1), sel)
  BY VisitedIs
<1>2. a(n).stopped
  OBVIOUS
<1>3. Len(policies) \in Nat /\ n \in Nat
  BY DEF Task
<1> HIDE DEF a
<1>4. 0 \in S
  <2>1. 0 >= n => n = 0
    BY <1>3
  <2> QED
    BY <1>3, <2>1
<1>5. ASSUME NEW k \in 1 .. Len(policies), k - 1 \in S
      PROVE  k \in S
  <2>1. CASE k <= n
    <3>1. k >= n => k = n
      BY <1>3, <2>1
    <3> QED
      BY <1>3, <3>1
  <2>2. CASE k > n
    <3>1. a(k - 1) = a(n)
      BY <1>3, <1>5, <2>2
    <3>2. Visit(i, k, a(n), sel) = a(n)
      BY <1>2 DEF Visit
    <3> QED
      BY <1>1, <1>3, <3>1, <3>2
  <2> QED
    BY <1>3, <2>1, <2>2
<1> HIDE DEF S
<1>6. PICK N \in Nat : N = Len(policies)
  BY <1>3
<1>7. \A k \in 1 .. N : k - 1 \in S => k \in S
  BY <1>5, <1>6
<1>8. 0 .. N \subseteq S
  BY <1>4, <1>7, InductionTo
<1>9. N \in S /\ N >= n
  BY <1>6, <1>8
<1> QED
  BY <1>6, <1>9 DEF S, a

-----------------------------------------------------------------------------
(* Copying on write. *)

\* span i has maps of its own, or those of the argument
Owned(i) ==
    LET side == IF i \in writable THEN "out" ELSE "in"
    IN  Copy[i].span = <<side, i, "span">> /\ Copy[i].resource = <<side, i, "resource">>

\* the argument is the batch that was there at first, each span with maps of its own
Argument ==
    spans = [i \in DOMAIN original |->
                [original[i] EXCEPT !.span = <<"in", i, "span">>,
                                    !.resource = <<"in", i, "resource">>]]

Places ==
    /\ Task /\ Len(original) \in 1 .. MaxSpans /\ Argument
    /\ index \in 1 .. (Len(original) + 1) /\ next \in 1 .. (Len(policies) + 1)
    /\ done => index = Len(original) + 1

CopyInv ==
    /\ heap \in [Refs -> Contents]
    /\ Copy \in [DOMAIN original -> RefSpans]
    /\ writable \subseteq DOMAIN original
    /\ \A i \in DOMAIN original :
          /\ Owned(i)
          /\ heap[<<"in", i, "span">>] = original[i].span
          /\ heap[<<"in", i, "resource">>] = original[i].resource

\* the value of span i in the copy
Now(i) == Deref(Copy[i], heap)

\* how many policies span i has seen
Seen(i) == IF i < index THEN Len(policies) ELSE IF i = index THEN next - 1 ELSE 0

SelectedInv ==
    /\ selected \subseteq (DOMAIN original) \X (1 .. Len(policies))
    /\ \A s \in selected : s[1] < index \/ (s[1] = index /\ s[2] < next)

ValueInv ==
    \A i \in DOMAIN original :
        /\ Now(i) = Visited(i, selected)[Seen(i)].span
        /\ i = index /\ next <= Len(policies) => ~Visited(i, selected)[Seen(i)].stopped

ApplyInv == Places /\ CopyInv /\ SelectedInv /\ ValueInv

LEMMA Numbers ==
    ASSUME Places
    PROVE  /\ Len(policies) \in Nat /\ DOMAIN policies = 1 .. Len(policies)
           /\ Len(original) \in Nat \ {0} /\ DOMAIN original = 1 .. Len(original)
           /\ DOMAIN spans = DOMAIN original /\ Len(spans) = Len(original)
           /\ index \in Nat \ {0} /\ index <= Len(original) + 1
           /\ next \in Nat \ {0} /\ next <= Len(policies) + 1
<1>1. policies \in Seq(Policies) /\ original \in Seq(ValueSpans)
  BY DEF Places, Task
<1>2. /\ Len(policies) \in Nat /\ DOMAIN policies = 1 .. Len(policies)
      /\ Len(original) \in Nat /\ DOMAIN original = 1 .. Len(original)
  BY <1>1
<1>3. Len(original) \in Nat \ {0}
  BY <1>2 DEF Places
<1>4. DOMAIN spans = DOMAIN original
  BY DEF Places, Argument
<1>5. Len(spans) = Len(original)
  <2>1. PICK n \in Nat : n = Len(original)
    BY <1>2
  <2> DEFINE R == {spans[i] : i \in 1 .. n}
  <2>2. spans \in [1 .. n -> R]
    BY <1>2, <1>4, <2>1 DEF Places, Argument
  <2> HIDE DEF R
  <2>3. spans \in Seq(R)
    BY <2>2
  <2> QED
    BY <2>1, <2>2, <2>3
<1> QED
  BY <1>2, <1>3, <1>4, <1>5 DEF Places

LEMMA InputTypes ==
    ASSUME Places, NEW i \in DOMAIN original
    PROVE  /\ original[i] \in ValueSpans /\ i \in 1 .. MaxSpans
           /\ \A side \in {"in", "out"}, scope \in Scopes : <<side, i, scope>> \in Refs
           /\ spans[i] \in RefSpans
           /\ spans[i].kind = original[i].kind /\ spans[i].end = original[i].end
           /\ spans[i].status = original[i].status
           /\ spans[i].span = <<"in", i, "span">> /\ spans[i].resource = <<"in", i, "resource">>
<1>1. original[i] \in ValueSpans /\ i \in 1 .. MaxSpans
  <2>1. original \in Seq(ValueSpans) /\ Len(original) \in 1 .. MaxSpans
    BY DEF Places, Task
  <2> QED
    BY <2>1, ChaosAssumption
<1>2. \A side \in {"in", "out"}, scope \in Scopes : <<side, i, scope>> \in Refs
  BY <1>1 DEF Refs
<1>3. spans[i] = [original[i] EXCEPT !.span = <<"in", i, "span">>,
                                     !.resource = <<"in", i, "resource">>]
  BY DEF Places, Argument
<1> DEFINE o == original[i]
<1> HIDE DEF o
<1>4. PICK x, y : x = <<"in", i, "span">> /\ y = <<"in", i, "resource">>
  OBVIOUS
<1>5. PICK kind, end, status, span, resource :
          /\ o = [kind |-> kind, end |-> end, status |-> status, span |-> span,
                  resource |-> resource]
          /\ kind \in Kinds /\ end \in Nat \ {0} /\ status \in Statuses
  BY <1>1 DEF ValueSpans, o
<1> DEFINE t == [o EXCEPT !.span = x]
<1>6. t = [kind |-> kind, end |-> end, status |-> status, span |-> x, resource |-> resource]
  BY <1>5
<1>7. [t EXCEPT !.resource = y]
      = [kind |-> kind, end |-> end, status |-> status, span |-> x, resource |-> y]
  <2> HIDE DEF t
  <2> QED
    BY <1>6
<1>8. [o EXCEPT !.span = x, !.resource = y] = [t EXCEPT !.resource = y]
  OBVIOUS
<1>9. spans[i] = [kind |-> kind, end |-> end, status |-> status, span |-> x, resource |-> y]
  BY <1>3, <1>4, <1>7, <1>8 DEF o
<1>10. x \in Refs /\ y \in Refs
  BY <1>2, <1>4 DEF Scopes
<1>11. spans[i] \in RefSpans
  BY <1>5, <1>9, <1>10 DEF RefSpans
<1>12. original[i].kind = kind /\ original[i].end = end /\ original[i].status = status
  BY <1>5 DEF o
<1>13. /\ spans[i].kind = kind /\ spans[i].end = end /\ spans[i].status = status
       /\ spans[i].span = x /\ spans[i].resource = y
  BY <1>9
<1> QED
  BY <1>1, <1>2, <1>4, <1>11, <1>12, <1>13

\* the argument's maps still hold what they did
LEMMA InputKept == Places /\ CopyInv => InputUntouched
<1> SUFFICES ASSUME Places, CopyInv
             PROVE  [i \in DOMAIN spans |-> Deref(spans[i], heap)] = original
  BY DEF InputUntouched
<1>1. ASSUME NEW i \in DOMAIN original
      PROVE  Deref(spans[i], heap) = original[i]
  <2>1. Deref(spans[i], heap)
        = [kind |-> spans[i].kind, end |-> spans[i].end, status |-> spans[i].status,
           span |-> heap[spans[i].span], resource |-> heap[spans[i].resource]]
    BY InputTypes, ValueIs DEF CopyInv
  <2>2. heap[spans[i].span] = original[i].span /\ heap[spans[i].resource] = original[i].resource
    <3>1. spans[i].span = <<"in", i, "span">> /\ spans[i].resource = <<"in", i, "resource">>
      BY InputTypes
    <3> QED
      BY <3>1 DEF CopyInv
  <2>3. original[i] = [kind |-> original[i].kind, end |-> original[i].end,
                       status |-> original[i].status, span |-> original[i].span,
                       resource |-> original[i].resource]
    BY InputTypes DEF ValueSpans
  <2>4. /\ spans[i].kind = original[i].kind /\ spans[i].end = original[i].end
        /\ spans[i].status = original[i].status
    BY InputTypes
  <2> QED
    BY <2>1, <2>2, <2>3, <2>4
<1>2. DOMAIN spans = DOMAIN original
  BY DEF Places, Argument
<1>3. original = [i \in DOMAIN original |-> original[i]]
  <2>1. original \in [1 .. Len(original) -> ValueSpans]
    BY LenProperties DEF Places, Task
  <2> QED
    BY <2>1
<1> QED
  BY <1>1, <1>2, <1>3

\* before anything is written the copy has the value of the argument
LEMMA FreshValue ==
    ASSUME Places, CopyInv, out = <<>>, NEW i \in DOMAIN original
    PROVE  Now(i) = original[i]
<1>1. InputUntouched
  BY InputKept
<1>2. Copy[i] = spans[i] /\ i \in DOMAIN spans
  BY DEF Copy, Places, Argument
<1> QED
  BY <1>1, <1>2 DEF InputUntouched, Now

\* the span that ensureWritable returns has the same value, and maps that nobody else has
LEMMA Writable ==
    ASSUME Places, CopyInv, index \in DOMAIN original
    PROVE  /\ EnsureWritable \in Targets
           /\ EnsureWritable.span.span = <<"out", index, "span">>
           /\ EnsureWritable.span.resource = <<"out", index, "resource">>
           /\ \A r \in Refs : r \notin {<<"out", index, "span">>, <<"out", index, "resource">>}
                  => EnsureWritable.heap[r] = heap[r]
           /\ Value(EnsureWritable) = Now(index)
<1> DEFINE c  == Copy[index]
           x  == <<"out", index, "span">>
           y  == <<"out", index, "resource">>
           w  == EnsureWritable
<1>1. c \in RefSpans /\ heap \in [Refs -> Contents] /\ c.span \in Refs /\ c.resource \in Refs
  BY DEF CopyInv, RefSpans
<1>2. x \in Refs /\ y \in Refs /\ x # y
  BY InputTypes DEF Scopes
<1>3. CASE index \in writable
  <2>1. c.span = x /\ c.resource = y
    BY <1>3 DEF CopyInv, Owned
  <2>2. w = [heap |-> heap, span |-> c]
    BY <1>3 DEF EnsureWritable
  <2>3. w.heap = heap /\ w.span = c
    BY <2>2
  <2> HIDE DEF c, x, y
  <2>4. [heap |-> heap, span |-> c] \in Targets
    BY <1>1, <1>2, <2>1 DEF Targets
  <2>5. Value(w) = Now(index)
    BY <2>3 DEF Value, Now, c
  <2> QED
    BY <1>1, <1>2, <2>1, <2>2, <2>3, <2>4, <2>5 DEF c, x, y
<1>4. CASE index \notin writable
  <2> DEFINE h == [r \in Refs |-> IF r = x THEN heap[c.span]
                                  ELSE IF r = y THEN heap[c.resource] ELSE heap[r]]
             s == [c EXCEPT !.span = x, !.resource = y]
             refs == [scope \in Scopes |-> <<"out", index, scope>>]
             g == [r \in Refs |-> IF \E scope \in Scopes : r = refs[scope]
                                  THEN heap[c[r[3]]] ELSE heap[r]]
  <2>1. w = [heap |-> g, span |-> [c EXCEPT !.span = refs["span"],
                                            !.resource = refs["resource"]]]
    BY <1>4 DEF EnsureWritable
  <2>2. refs["span"] = x /\ refs["resource"] = y
    BY DEF Scopes
  <2>3. ASSUME NEW r \in Refs
        PROVE  (\E scope \in Scopes : r = refs[scope]) <=> (r = x \/ r = y)
    BY <2>2 DEF Scopes
  <2>4. x[3] = "span" /\ y[3] = "resource" /\ c["span"] = c.span /\ c["resource"] = c.resource
    OBVIOUS
  <2>5. g = h
    <3>1. ASSUME NEW r \in Refs
          PROVE  g[r] = h[r]
      <4>1. CASE r = x
        BY <1>2, <2>3, <2>4, <4>1
      <4>2. CASE r = y
        BY <1>2, <2>3, <2>4, <4>2
      <4>3. CASE r # x /\ r # y
        BY <2>3, <4>3
      <4> QED
        BY <4>1, <4>2, <4>3
    <3> HIDE DEF x, y, refs, c
    <3> QED
      BY <3>1
  <2>6. w.heap = h /\ w.span = s /\ w = [heap |-> h, span |-> s]
    <3> HIDE DEF g, h, refs, x, y, c
    <3> QED
      BY <2>1, <2>2, <2>5
  <2> HIDE DEF w, g, refs
  <2>7. s \in RefSpans /\ s.span = x /\ s.resource = y
        /\ s.kind = c.kind /\ s.end = c.end /\ s.status = c.status
    <3> HIDE DEF x, y, c
    <3> QED
      BY <1>1, <1>2 DEF RefSpans
  <2> HIDE DEF s
  <2>8. /\ h \in [Refs -> Contents] /\ h[x] = heap[c.span] /\ h[y] = heap[c.resource]
        /\ \A r \in Refs : r \notin {x, y} => h[r] = heap[r]
    <3> HIDE DEF x, y, c
    <3> QED
      BY <1>1, <1>2
  <2> HIDE DEF h
  <2>9. [heap |-> h, span |-> s] \in Targets
    <3> HIDE DEF x, y
    <3> QED
      BY <1>2, <2>7, <2>8 DEF Targets
  <2>10. Value(w) = [kind |-> s.kind, end |-> s.end, status |-> s.status,
                     span |-> h[s.span], resource |-> h[s.resource]]
    BY <2>6, <2>7, <2>8, ValueIs DEF Value
  <2>11. Now(index) = [kind |-> c.kind, end |-> c.end, status |-> c.status,
                       span |-> heap[c.span], resource |-> heap[c.resource]]
    BY <1>1, ValueIs DEF Now
  <2>12. Value(w) = Now(index)
    BY <2>7, <2>8, <2>10, <2>11
  <2> QED
    BY <2>6, <2>7, <2>8, <2>9, <2>12 DEF w
<1> QED
  BY <1>3, <1>4

-----------------------------------------------------------------------------
(* The invariant. *)

LEMMA ApplyInit == Init => ApplyInv
<1> SUFFICES ASSUME Init
             PROVE  ApplyInv
  OBVIOUS
<1>1. Task /\ Len(original) \in 1 .. MaxSpans /\ DOMAIN original = 1 .. Len(original)
  <2>1. PICK n \in 1 .. MaxSpans : original \in [1 .. n -> Inputs]
    BY DEF Init
  <2>2. original \in Seq(Inputs) /\ Len(original) = n
    BY <2>1, ChaosAssumption
  <2>3. Inputs \subseteq ValueSpans
    BY ChaosAssumption DEF ValueSpans
  <2>4. \A k \in 1 .. n : original[k] \in ValueSpans
    BY <2>1, <2>3
  <2>5. original \in Seq(ValueSpans)
    BY <2>1, <2>4, ChaosAssumption
  <2>6. PICK m \in 1 .. MaxPolicies : policies \in [1 .. m -> Policies]
    BY DEF Init
  <2>7. policies \in Seq(Policies)
    BY <2>6, ChaosAssumption
  <2> QED
    BY <2>1, <2>2, <2>5, <2>7 DEF Task, Init
<1>2. Places
  <2>1. Len(policies) \in Nat /\ Len(original) \in Nat
    BY <1>1 DEF Task
  <2>2. index = 1 /\ next = 1 /\ ~done /\ Argument
    BY DEF Init, Argument
  <2> QED
    BY <1>1, <2>1, <2>2 DEF Places
<1>3. Copy = spans
  BY DEF Copy, Init
<1>4. heap \in [Refs -> Contents]
  <2>1. ASSUME NEW r \in Refs
        PROVE  heap[r] \in Contents
    <3>1. CASE r[1] = "in" /\ r[2] \in DOMAIN original
      <4>1. original[r[2]] \in ValueSpans /\ r[3] \in {"span", "resource"}
        BY <1>2, <3>1, InputTypes DEF Refs, Scopes
      <4>2. heap[r] = original[r[2]][r[3]]
        BY <3>1 DEF Init
      <4>3. CASE r[3] = "span"
        BY <4>1, <4>2, <4>3 DEF ValueSpans
      <4>4. CASE r[3] = "resource"
        BY <4>1, <4>2, <4>4 DEF ValueSpans
      <4> QED
        BY <4>1, <4>3, <4>4
    <3>2. CASE ~(r[1] = "in" /\ r[2] \in DOMAIN original)
      <4>1. heap[r] = [service |-> Absent, other |-> Absent]
        BY <3>2 DEF Init
      <4> QED
        BY <4>1 DEF Contents
    <3> QED
      BY <3>1, <3>2
  <2> QED
    BY <2>1 DEF Init
<1>5. ASSUME NEW i \in DOMAIN original
      PROVE  /\ Owned(i)
             /\ heap[<<"in", i, "span">>] = original[i].span
             /\ heap[<<"in", i, "resource">>] = original[i].resource
             /\ spans[i] \in RefSpans
  <2>1. <<"in", i, "span">> \in Refs /\ <<"in", i, "resource">> \in Refs
    BY <1>2, InputTypes DEF Scopes
  <2>2. spans[i].span = <<"in", i, "span">> /\ spans[i].resource = <<"in", i, "resource">>
    BY <1>2, InputTypes
  <2>3. Owned(i)
    BY <1>3, <2>2 DEF Owned, Init
  <2>4. /\ heap[<<"in", i, "span">>] = original[i].span
        /\ heap[<<"in", i, "resource">>] = original[i].resource
    BY <2>1 DEF Init
  <2> QED
    BY <1>2, <2>3, <2>4, InputTypes
<1>6. CopyInv
  <2>1. spans \in [DOMAIN original -> RefSpans]
    BY <1>2, <1>5 DEF Places, Argument
  <2> QED
    BY <1>3, <1>4, <1>5, <2>1 DEF CopyInv, Init
<1>7. SelectedInv
  BY DEF SelectedInv, Init
<1>8. ASSUME NEW i \in DOMAIN original
      PROVE  /\ Now(i) = Visited(i, selected)[Seen(i)].span
             /\ ~Visited(i, selected)[Seen(i)].stopped
  <2>1. Seen(i) = 0
    <3>1. i \in Nat \ {0}
      BY <1>1
    <3>2. index = 1 /\ next = 1
      BY DEF Init
    <3> QED
      BY <3>1, <3>2 DEF Seen
  <2>2. Visited(i, selected)[0] = [span |-> original[i], stopped |-> FALSE]
    BY <1>1, VisitedIs
  <2>3. Now(i) = original[i]
    BY <1>2, <1>6, FreshValue DEF Init
  <2> QED
    BY <2>1, <2>2, <2>3
<1> QED
  BY <1>2, <1>6, <1>7, <1>8 DEF ApplyInv, ValueInv

\* what does not touch the copy does not change values
LEMMA SameTask ==
    ASSUME UNCHANGED <<mode, policies, spans, original>>
    PROVE  /\ Task' = Task /\ Argument' = Argument
           /\ \A i : Visited(i, selected)' = Visited(i, selected')
BY DEF Task, Argument, Visited, Visit

LEMMA SameCopy ==
    ASSUME UNCHANGED <<out, spans, heap, writable, original>>
    PROVE  /\ CopyInv' = CopyInv
           /\ \A i : Now(i)' = Now(i)
BY DEF CopyInv, Copy, Owned, Now, Deref

LEMMA SkipKeeps ==
    ASSUME ApplyInv, Skip
    PROVE  ApplyInv'
<1>1. /\ UNCHANGED <<out, writable, heap, index, mode, policies, spans, done, original, selected>>
      /\ next' = next + 1 /\ index \in DOMAIN original /\ next \in 1 .. Len(policies)
      /\ ~Matches(Now(index), policies[next].match) \/ policies[next].probability # "always"
  BY Numbers DEF Skip, InLoop, Policy, Current, ApplyInv, Now
<1>2. Task /\ Len(policies) \in Nat
  BY Numbers DEF ApplyInv, Places
<1>3. Places'
  <2>1. next' \in 1 .. (Len(policies) + 1)
    BY <1>1, <1>2
  <2> QED
    BY <1>1, <2>1, SameTask DEF ApplyInv, Places
<1>4. CopyInv'
  BY <1>1, SameCopy DEF ApplyInv
<1>5. SelectedInv'
  BY <1>1, <1>2 DEF ApplyInv, SelectedInv
<1>6. ASSUME NEW i \in DOMAIN original
      PROVE  /\ Now(i)' = Visited(i, selected)[Seen(i)'].span
             /\ i = index => ~Visited(i, selected)[Seen(i)'].stopped
  <2>0. Now(i)' = Now(i)
    BY <1>1, SameCopy
  <2>1. CASE i # index
    <3>1. Seen(i)' = Seen(i)
      BY <1>1, <2>1 DEF Seen
    <3> QED
      BY <2>0, <2>1, <3>1 DEF ApplyInv, ValueInv
  <2>2. CASE i = index
    <3> DEFINE m == Visited(i, selected)[next - 1]
    <3>1. Seen(i) = next - 1 /\ Seen(i)' = next
      <4>1. index \in Nat /\ next \in Nat /\ (next + 1) - 1 = next
        BY Numbers DEF ApplyInv
      <4> QED
        BY <1>1, <2>2, <4>1 DEF Seen
    <3>2. m.span = Now(i) /\ ~m.stopped
      BY <1>1, <2>2, <3>1 DEF ApplyInv, ValueInv
    <3>3. <<i, next>> \notin selected
      <4>1. index \in Nat /\ next \in Nat
        BY Numbers DEF ApplyInv
      <4> QED
        BY <2>2, <4>1 DEF ApplyInv, SelectedInv
    <3>4. Visited(i, selected)[next] = Visit(i, next, m, selected)
      BY <1>1, <1>2, VisitedIs
    <3>5. Visit(i, next, m, selected) = m
      BY <1>1, <2>2, <3>2, <3>3 DEF Visit
    <3> QED
      BY <2>0, <3>1, <3>2, <3>4, <3>5
  <2> QED
    BY <2>1, <2>2
<1>7. ValueInv'
  BY <1>1, <1>6, SameTask DEF ValueInv
<1> QED
  BY <1>3, <1>4, <1>5, <1>7 DEF ApplyInv

LEMMA NextSpanKeeps ==
    ASSUME ApplyInv, NextSpan
    PROVE  ApplyInv'
<1>1. /\ UNCHANGED <<out, writable, heap, mode, policies, spans, done, original, selected>>
      /\ index' = index + 1 /\ next' = 1 /\ index \in DOMAIN original /\ ~done
      /\ next = Len(policies) + 1
  BY Numbers DEF NextSpan, ApplyInv
<1>2. Task /\ Len(policies) \in Nat /\ DOMAIN original = 1 .. Len(original)
      /\ Len(original) \in Nat
  BY Numbers DEF ApplyInv, Places
<1>3. Places'
  <2>1. index' \in 1 .. (Len(original) + 1) /\ next' \in 1 .. (Len(policies) + 1)
    BY <1>1, <1>2
  <2> QED
    BY <1>1, <2>1, SameTask DEF ApplyInv, Places
<1>4. CopyInv'
  BY <1>1, SameCopy DEF ApplyInv
<1>5. SelectedInv'
  BY <1>1, <1>2 DEF ApplyInv, SelectedInv
<1>6. ASSUME NEW i \in DOMAIN original
      PROVE  /\ Now(i)' = Visited(i, selected)[Seen(i)'].span
             /\ i = index' => ~Visited(i, selected)[Seen(i)'].stopped
  <2>1. Seen(i)' = Seen(i)
    BY <1>1, <1>2 DEF Seen
  <2>2. i = index' => Seen(i)' = 0
    BY <1>1, <1>2 DEF Seen
  <2>3. ~Visited(i, selected)[0].stopped
    <3>1. Visited(i, selected)[0] = [span |-> original[i], stopped |-> FALSE]
      BY <1>2, VisitedIs
    <3> QED
      BY <3>1
  <2>4. Now(i)' = Now(i)
    BY <1>1, SameCopy
  <2> QED
    BY <2>1, <2>2, <2>3, <2>4 DEF ApplyInv, ValueInv
<1>7. ValueInv'
  BY <1>1, <1>6, SameTask DEF ValueInv
<1> QED
  BY <1>3, <1>4, <1>5, <1>7 DEF ApplyInv

LEMMA ReturnKeeps ==
    ASSUME ApplyInv, Return
    PROVE  ApplyInv'
<1>1. /\ UNCHANGED <<out, writable, heap, index, next, mode, policies, spans, original, selected>>
      /\ index = Len(original) + 1
  BY Numbers DEF Return, loop, ApplyInv
<1>2. Places'
  BY <1>1, SameTask DEF ApplyInv, Places
<1>3. CopyInv'
  BY <1>1, SameCopy DEF ApplyInv
<1>4. SelectedInv'
  BY <1>1 DEF ApplyInv, SelectedInv
<1>5. ValueInv'
  BY <1>1, SameTask, SameCopy DEF ApplyInv, ValueInv, Seen
<1> QED
  BY <1>2, <1>3, <1>4, <1>5 DEF ApplyInv

\* what a policy does to the copy: the span it is applied to gets the new value in maps
\* of its own, and everything else stays
LEMMA ApplyWrites ==
    ASSUME ApplyInv, ApplyPolicy
    PROVE  /\ UNCHANGED <<index, mode, policies, spans, done, original>>
           /\ index \in DOMAIN original /\ next \in 1 .. Len(policies)
           /\ Matches(Now(index), policies[next].match) /\ policies[next].probability # "never"
           /\ selected' = selected \cup {<<index, next>>}
           /\ next' = IF mode = "first_match" THEN Len(policies) + 1 ELSE next + 1
           /\ CopyInv'
           /\ Now(index)' = PureActions(Now(index), policies[next].actions)
                               [Len(policies[next].actions)]
           /\ \A i \in DOMAIN original : i # index => Now(i)' = Now(i)
<1>1. /\ UNCHANGED <<index, mode, policies, spans, done, original>>
      /\ index \in DOMAIN original /\ next \in 1 .. Len(policies)
      /\ Matches(Now(index), policies[next].match) /\ policies[next].probability # "never"
      /\ selected' = selected \cup {<<index, next>>} /\ writable' = writable \cup {index}
      /\ next' = IF mode = "first_match" THEN Len(policies) + 1 ELSE next + 1
  BY Numbers DEF ApplyPolicy, InLoop, Policy, Current, ApplyInv, Now
<1> DEFINE todo == policies[next].actions
           w == EnsureWritable
           u == Applied(w, todo)[Len(todo)]
           x == <<"out", index, "span">>
           y == <<"out", index, "resource">>
<1>2. heap' = u.heap /\ out' = [Copy EXCEPT ![index] = u.span]
  BY DEF ApplyPolicy, Policy
<1>3. todo \in Seq(Actions)
  BY <1>1, PolicyType DEF ApplyInv, Places
<1>4. /\ w \in Targets /\ w.span.span = x /\ w.span.resource = y
      /\ \A r \in Refs : r \notin {x, y} => w.heap[r] = heap[r]
      /\ Value(w) = Now(index)
  BY <1>1, Writable DEF ApplyInv
<1> HIDE DEF w, x, y, todo
<1>5. u \in Targets /\ SameMaps(w, u) /\ Value(u) = PureActions(Value(w), todo)[Len(todo)]
  BY <1>3, <1>4, PolicyStep
<1> HIDE DEF u
<1>6. /\ u.span \in RefSpans /\ u.heap \in [Refs -> Contents]
      /\ u.span.span = x /\ u.span.resource = y
      /\ \A r \in Refs : r \notin {x, y} => u.heap[r] = heap[r]
  BY <1>4, <1>5 DEF Targets, SameMaps
<1>7. Copy \in [DOMAIN original -> RefSpans]
  BY DEF ApplyInv, CopyInv
<1>8. Copy' = [Copy EXCEPT ![index] = u.span]
  <2> DEFINE c == [Copy EXCEPT ![index] = u.span]
  <2>1. DOMAIN c = 1 .. Len(original) /\ Len(original) \in Nat \ {0}
    BY <1>7, Numbers DEF ApplyInv
  <2>2. c # <<>>
    <3>1. 1 \in DOMAIN c
      BY <2>1
    <3> HIDE DEF c
    <3> QED
      BY <3>1
  <2> QED
    BY <1>2, <2>2 DEF Copy
<1>9. /\ Copy' \in [DOMAIN original -> RefSpans] /\ Copy'[index] = u.span
      /\ \A i \in DOMAIN original : i # index => Copy'[i] = Copy[i]
  BY <1>1, <1>6, <1>7, <1>8
<1>10. ASSUME NEW i \in DOMAIN original
       PROVE  /\ Owned(i)'
              /\ heap'[<<"in", i, "span">>] = original[i].span
              /\ heap'[<<"in", i, "resource">>] = original[i].resource
  <2>1. <<"in", i, "span">> \in Refs /\ <<"in", i, "resource">> \in Refs
    BY InputTypes DEF ApplyInv, Scopes
  <2>2. /\ heap'[<<"in", i, "span">>] = original[i].span
        /\ heap'[<<"in", i, "resource">>] = original[i].resource
    BY <1>2, <1>6, <2>1 DEF ApplyInv, CopyInv, x, y
  <2>3. CASE i = index
    BY <1>1, <1>6, <1>9, <2>2, <2>3 DEF Owned, x, y
  <2>4. CASE i # index
    <3>1. Owned(i) /\ Copy'[i] = Copy[i] /\ (i \in writable' <=> i \in writable)
      BY <1>1, <1>9, <2>4 DEF ApplyInv, CopyInv
    <3> QED
      BY <2>2, <3>1 DEF Owned
  <2> QED
    BY <2>3, <2>4
<1>11. CopyInv'
  <2>1. writable' \subseteq DOMAIN original
    BY <1>1 DEF ApplyInv, CopyInv
  <2>2. heap' \in [Refs -> Contents]
    BY <1>2, <1>6
  <2> QED
    BY <1>1, <1>9, <1>10, <2>1, <2>2 DEF CopyInv
<1>12. Now(index)' = PureActions(Now(index), todo)[Len(todo)]
  <2>1. Now(index)' = Value(u)
    BY <1>1, <1>2, <1>9 DEF Now, Value, Deref
  <2> QED
    BY <1>4, <1>5, <2>1
<1>13. ASSUME NEW i \in DOMAIN original, i # index
       PROVE  Now(i)' = Now(i)
  <2>1. Copy'[i] = Copy[i] /\ Owned(i) /\ Copy[i] \in RefSpans
    BY <1>9, <1>13 DEF ApplyInv, CopyInv
  <2>2. Copy[i].span \in Refs /\ Copy[i].resource \in Refs
    BY <2>1 DEF RefSpans
  <2>3. Copy[i].span \notin {x, y} /\ Copy[i].resource \notin {x, y}
    BY <1>13, <2>1 DEF Owned, x, y
  <2>4. heap'[Copy[i].span] = heap[Copy[i].span]
        /\ heap'[Copy[i].resource] = heap[Copy[i].resource]
    BY <1>2, <1>6, <2>2, <2>3
  <2> QED
    BY <2>1, <2>4 DEF Now, Deref
<1> QED
  BY <1>1, <1>11, <1>12, <1>13 DEF todo

LEMMA ApplyPolicyKeeps ==
    ASSUME ApplyInv, ApplyPolicy
    PROVE  ApplyInv'
<1>1. /\ UNCHANGED <<index, mode, policies, spans, done, original>>
      /\ index \in DOMAIN original /\ next \in 1 .. Len(policies)
      /\ Matches(Now(index), policies[next].match) /\ policies[next].probability # "never"
      /\ selected' = selected \cup {<<index, next>>}
      /\ next' = IF mode = "first_match" THEN Len(policies) + 1 ELSE next + 1
  BY ApplyWrites
<1>2. /\ Task /\ Len(policies) \in Nat /\ index \in Nat /\ next \in Nat
      /\ DOMAIN original = 1 .. Len(original)
  BY Numbers DEF ApplyInv, Places
<1>3. /\ next' \in 1 .. (Len(policies) + 1) /\ next' > next
      /\ mode = "first_match" => next' = Len(policies) + 1
      /\ mode # "first_match" => next' = next + 1
  BY <1>1, <1>2
<1>4. Places'
  BY <1>1, <1>3, SameTask DEF ApplyInv, Places
<1>5. SelectedInv'
  <2>1. <<index, next>> \in (DOMAIN original) \X (1 .. Len(policies))
    BY <1>1
  <2>2. selected' \subseteq (DOMAIN original)' \X (1 .. Len(policies))'
    BY <1>1, <2>1 DEF ApplyInv, SelectedInv
  <2>3. ASSUME NEW s \in selected'
        PROVE  s[1] < index' \/ (s[1] = index' /\ s[2] < next')
    <3>1. CASE s \in selected
      <4>1. s[1] < index \/ (s[1] = index /\ s[2] < next)
        BY <3>1 DEF ApplyInv, SelectedInv
      <4>2. s[2] \in Nat
        BY <3>1, <1>2 DEF ApplyInv, SelectedInv
      <4> QED
        BY <1>1, <1>2, <1>3, <4>1, <4>2
    <3>2. CASE s = <<index, next>>
      BY <1>1, <1>2, <1>3, <3>2
    <3> QED
      BY <1>1, <3>1, <3>2
  <2> QED
    BY <2>2, <2>3 DEF SelectedInv
<1> DEFINE sel == selected'
           seen(i) == Seen(i)'
<1>6. ASSUME NEW i \in DOMAIN original, i # index
      PROVE  Now(i)' = Visited(i, sel)[seen(i)].span
  <2>1. seen(i) = Seen(i)
    BY <1>1, <1>6 DEF Seen
  <2>2. Seen(i) \in 0 .. Len(policies)
    BY <1>2, <1>6 DEF Seen
  <2>3. \A j : <<i, j>> \in selected <=> <<i, j>> \in selected'
    BY <1>1, <1>6
  <2>4. Visited(i, selected)[Seen(i)] = Visited(i, sel)[Seen(i)]
    <3>1. PICK k \in 0 .. Len(policies) : k = Seen(i)
      BY <2>2
    <3>2. PICK B : B = sel
      OBVIOUS
    <3>3. AgreeTo(i, k, selected, B)
      BY <2>3, <3>2 DEF AgreeTo
    <3>4. Task /\ i \in DOMAIN original
      BY <1>2, <1>6
    <3>5. Visited(i, selected)[k] = Visited(i, B)[k]
      BY ONLY <3>1, <3>3, <3>4, Agreement
    <3> QED
      BY <3>1, <3>2, <3>5
  <2>5. Now(i)' = Now(i)
    BY <1>6, ApplyWrites
  <2> QED
    BY <2>1, <2>4, <2>5 DEF ApplyInv, ValueInv
<1>7. /\ Now(index)' = Visited(index, sel)[seen(index)].span
      /\ next' <= Len(policies) => ~Visited(index, sel)[seen(index)].stopped
  <2> DEFINE m == Visited(index, selected)[next - 1]
             todo == policies[next].actions
             v == PureActions(Now(index), todo)[Len(todo)]
  <2>1. next - 1 \in 0 .. Len(policies) /\ next \in 0 .. Len(policies)
    BY <1>1, <1>2
  <2>2. Seen(index) = next - 1
    BY <1>2 DEF Seen
  <2>3. m.span = Now(index) /\ ~m.stopped
    BY <1>1, <1>2, <2>2 DEF ApplyInv, ValueInv
  <2>4. \A j \in 1 .. (next - 1) : <<index, j>> \in selected <=> <<index, j>> \in sel
    BY <1>1, <1>2
  <2>5. Visited(index, sel)[next - 1] = m
    <3>1. PICK k \in 0 .. Len(policies) : k = next - 1
      BY <2>1
    <3>2. PICK B : B = sel
      OBVIOUS
    <3>3. AgreeTo(index, k, selected, B)
      BY <2>4, <3>1, <3>2 DEF AgreeTo
    <3>4. Task /\ index \in DOMAIN original
      BY <1>1, <1>2
    <3> HIDE DEF sel, m
    <3>5. Visited(index, selected)[k] = Visited(index, B)[k]
      BY ONLY <3>1, <3>4, <3>3, Agreement
    <3> QED
      BY <3>1, <3>2, <3>5 DEF m
  <2>6. Visited(index, sel)[next] = Visit(index, next, m, sel)
    BY <1>1, <1>2, <2>5, VisitedIs
  <2>7. <<index, next>> \in sel
    BY <1>1
  <2>8. Visit(index, next, m, sel) = [span |-> v, stopped |-> mode = "first_match"]
    BY <1>1, <2>3, <2>7 DEF Visit
  <2>9. Now(index)' = v
    BY ApplyWrites
  <2> DEFINE n == Visited(index, sel)[next]
  <2>10. n.span = v /\ (n.stopped <=> mode = "first_match")
    <3>1. n = [span |-> v, stopped |-> mode = "first_match"]
      BY <2>6, <2>8
    <3> HIDE DEF n, v
    <3> QED
      BY <3>1, Zenon
  <2> HIDE DEF n, v
  <2>11. CASE mode = "first_match"
    <3>1. seen(index) = Len(policies)
      BY <1>1, <1>2, <1>3, <2>11 DEF Seen
    <3>2. Visited(index, sel)[next].stopped
      BY <2>10, <2>11 DEF n
    <3>3. Visited(index, sel)[Len(policies)] = Visited(index, sel)[next]
      BY <1>1, <1>2, <2>1, <3>2, NothingAfterStop
    <3>4. ~(next' <= Len(policies))
      BY <1>2, <1>3, <2>11
    <3> QED
      BY <2>9, <2>10, <3>1, <3>3, <3>4 DEF n
  <2>12. CASE mode # "first_match"
    <3>1. seen(index) = next
      BY <1>1, <1>2, <1>3, <2>12 DEF Seen
    <3> QED
      BY <2>9, <2>10, <2>12, <3>1 DEF n
  <2> QED
    BY <2>11, <2>12
<1>8. ValueInv'
  BY <1>1, <1>6, <1>7, SameTask DEF ValueInv
<1> QED
  BY <1>4, <1>5, <1>8, ApplyWrites DEF ApplyInv

\* The argument, the copy and what has been selected so far agree at any moment of the
\* loop, for every batch and every list of policies.
THEOREM ApplyInvariance == Spec => []ApplyInv
<1>1. ApplyInv /\ [Next]_vars => ApplyInv'
  <2> SUFFICES ASSUME ApplyInv, [Next]_vars
               PROVE  ApplyInv'
    OBVIOUS
  <2>1. CASE Skip
    BY <2>1, SkipKeeps
  <2>2. CASE ApplyPolicy
    BY <2>2, ApplyPolicyKeeps
  <2>3. CASE NextSpan
    BY <2>3, NextSpanKeeps
  <2>4. CASE Return
    BY <2>4, ReturnKeeps
  <2>5. CASE UNCHANGED vars
    <3>1. UNCHANGED <<out, writable, heap, index, next, mode, policies, spans, done, original,
                      selected>>
      BY <2>5 DEF vars, loop
    <3>2. Places' /\ CopyInv'
      BY <3>1, SameTask, SameCopy DEF ApplyInv, Places
    <3>3. SelectedInv'
      BY <3>1 DEF ApplyInv, SelectedInv
    <3>4. ValueInv'
      BY <3>1, SameTask, SameCopy DEF ApplyInv, ValueInv, Seen
    <3> QED
      BY <3>2, <3>3, <3>4 DEF ApplyInv
  <2> QED
    BY <2>1, <2>2, <2>3, <2>4, <2>5 DEF Next, Returned
<1> QED
  BY <1>1, ApplyInit, PTL DEF Spec

\* Apply never writes to the batch it was given, however long it is and whatever the
\* policies.
THEOREM ArgumentKept == Spec => []InputUntouched
<1>1. ApplyInv => InputUntouched
  BY InputKept DEF ApplyInv
<1> QED
  BY <1>1, ApplyInvariance, PTL

\* A span ends after it started, whatever latencies are added and subtracted.
THEOREM DurationsPositive == Spec => []EndsAfterStart
<1>1. ASSUME ApplyInv, NEW i \in DOMAIN spans
      PROVE  Copy[i].end > 0
  <2>1. Copy[i] \in RefSpans
    BY <1>1, Numbers DEF ApplyInv, CopyInv
  <2> QED
    BY <2>1 DEF RefSpans
<1>2. ApplyInv => EndsAfterStart
  BY <1>1 DEF EndsAfterStart
<1> QED
  BY <1>2, ApplyInvariance, PTL

\* The batch that Apply returns is what the policies make of the value of each span.
THEOREM ResultByValues == Spec => []ResultIsPure
<1>1. ASSUME ApplyInv, done
      PROVE  [i \in DOMAIN spans |-> Deref(Copy[i], heap)] = [i \in DOMAIN spans |-> PureSpan(i)]
  <2>1. ASSUME NEW i \in DOMAIN spans
        PROVE  Deref(Copy[i], heap) = PureSpan(i)
    <3>1. i \in DOMAIN original /\ i < index
      BY <1>1, Numbers DEF ApplyInv, Places
    <3>2. Seen(i) = Len(policies)
      BY <3>1 DEF Seen
    <3> QED
      BY <1>1, <3>1, <3>2 DEF ApplyInv, ValueInv, Now, PureSpan
  <2> QED
    BY <2>1
<1>2. ApplyInv => ResultIsPure
  BY <1>1 DEF ResultIsPure
<1> QED
  BY <1>2, ApplyInvariance, PTL
=============================================================================
