----------------------------- MODULE ChaosEngine -----------------------------
(***************************************************************************)
(* Engine.Apply of internal/chaos/engine.go on one batch.  A span holds    *)
(* references to its two attribute maps; Apply copies the batch when the   *)
(* first policy applies, and a span's maps when the first policy applies   *)
(* to that span, so that until then the copy shares them with the input.   *)
(* Times are milliseconds after the start of a span.  A span has two       *)
(* attributes: service.name and one other; its kind stands for everything  *)
(* that a policy matches and no policy changes.                            *)
(***************************************************************************)
EXTENDS Integers, Sequences

CONSTANTS
    Values,     \* attribute values
    Kinds,      \* what spans are matched by besides attributes
    Inputs,     \* the spans a batch may have
    MaxSpans,   \* bound on the length of the batch
    Policies,   \* the policies a file may contain
    MaxPolicies \* bound on their number

Absent == "absent"   \* the attribute is not there
AnyValue == "any"    \* the policy does not ask for it

Contents == [service : Values \cup {Absent}, other : Values \cup {Absent}]
Statuses == {"unset", "ok", "error"}
Scopes   == {"span", "resource"}

Actions == [type : {"set_attribute"}, scope : Scopes, name : {"service", "other"}, value : Values]
           \cup [type : {"set_status"}, code : Statuses]
           \cup [type : {"add_latency"}, delta : Int]

ASSUME ChaosAssumption ==
    /\ {Absent, AnyValue} \cap Values = {}
    /\ Inputs \subseteq [kind : Kinds, end : Nat \ {0}, status : Statuses,
                         span : Contents, resource : Contents]
    /\ MaxSpans \in Nat /\ MaxPolicies \in Nat
    /\ \A pol \in Policies :
          /\ pol.probability \in {"never", "sometimes", "always"}
          /\ pol.match.kinds \subseteq Kinds
          /\ pol.match.service \in Values \cup {AnyValue} /\ pol.match.other \in Values \cup {AnyValue}
          /\ pol.actions \in Seq(Actions) /\ pol.actions # <<>>

VARIABLES
    mode,       \* "all" or "first_match"
    policies,   \* Engine.policies
    heap,       \* the contents of the attribute maps
    spans,      \* Apply's argument
    out,        \* Apply's copy of it; <<>> is nil
    writable,   \* the spans of out that have maps of their own
    index,      \* the span the outer loop is at
    next,       \* the policy the inner loop is at
    done,       \* Apply has returned
    original,   \* history: what the argument was, maps included
    selected    \* history: <<span, policy>> that shouldApply chose

loop == <<out, writable, heap, index, next>>
vars == <<loop, mode, policies, spans, done, original, selected>>

Refs == {"in", "out"} \X (1 .. MaxSpans) \X Scopes

\* a span with its maps in place of the references
Deref(s, h) == [s EXCEPT !.span = h[@], !.resource = h[@]]

Init ==
    /\ mode \in {"all", "first_match"}
    /\ policies \in UNION {[1 .. n -> Policies] : n \in 1 .. MaxPolicies}
    /\ original \in UNION {[1 .. n -> Inputs] : n \in 1 .. MaxSpans}
    /\ heap = [r \in Refs |->
                  IF r[1] = "in" /\ r[2] \in DOMAIN original
                  THEN original[r[2]][r[3]] ELSE [service |-> Absent, other |-> Absent]]
    /\ spans = [i \in DOMAIN original |->
                   [original[i] EXCEPT !.span = <<"in", i, "span">>,
                                       !.resource = <<"in", i, "resource">>]]
    /\ out = <<>> /\ writable = {}
    /\ index = 1 /\ next = 1 /\ done = FALSE /\ selected = {}

-----------------------------------------------------------------------------
\* matches, on a span with its maps
Matches(s, match) ==
    /\ match.kinds = {} \/ s.kind \in match.kinds
    /\ match.service \in {AnyValue, s.span.service, s.resource.service}
    /\ match.other = AnyValue
       \/ match.other = IF s.span.other # Absent THEN s.span.other ELSE s.resource.other

\* Mutated: only what is shorter than nothing is clamped
AddLatencyUnclamped(end, delta) ==
    IF delta = 0 THEN end ELSE IF end + delta < 0 THEN 1 ELSE end + delta

\* applyLatency
AddLatency(end, delta) ==
    IF delta = 0 THEN end ELSE IF end + delta <= 0 THEN 1 ELSE end + delta

\* applyAction on a span, writing through its references
ApplyAction(acc, a) ==
    CASE a.type = "set_attribute" ->
            IF acc.heap[acc.span[a.scope]][a.name] = Absent THEN acc
            ELSE [acc EXCEPT !.heap[acc.span[a.scope]][a.name] = a.value]
      [] a.type = "set_status" -> [acc EXCEPT !.span.status = a.code]
      [] a.type = "add_latency" ->
            [acc EXCEPT !.span.end = AddLatency(@, a.delta)]

\* the action loop: what the first k actions make of a span, for each k
Applied(acc, actions) ==
    LET after[k \in 0 .. Len(actions)] ==
            IF k = 0 THEN acc ELSE ApplyAction(after[k - 1], actions[k])
    IN  after

Copy == IF out = <<>> THEN spans ELSE out

\* Mutated: the resource attributes are not cloned
EnsureWritableSpanOnly ==
    IF index \in writable THEN [heap |-> heap, span |-> Copy[index]]
    ELSE LET ref == <<"out", index, "span">>
         IN  [heap |-> [heap EXCEPT ![ref] = heap[Copy[index].span]],
              span |-> [Copy[index] EXCEPT !.span = ref]]

\* ensureWritable: the span to write to, and the heap with its maps
EnsureWritable ==
    IF index \in writable THEN [heap |-> heap, span |-> Copy[index]]
    ELSE LET refs == [scope \in Scopes |-> <<"out", index, scope>>]
         IN  [heap |-> [r \in Refs |-> IF \E scope \in Scopes : r = refs[scope]
                                       THEN heap[Copy[index][r[3]]] ELSE heap[r]],
              span |-> [Copy[index] EXCEPT !.span = refs["span"],
                                           !.resource = refs["resource"]]]

InLoop  == ~done /\ index \in DOMAIN spans /\ next \in DOMAIN policies
Policy  == policies[next]
Current == Deref(Copy[index], heap)

\* Mutated: the first policy that matches ends the loop although it was not selected
SkipEndsLoop ==
    /\ InLoop
    /\ ~Matches(Current, Policy.match) \/ Policy.probability # "always"
    /\ next' = IF mode = "first_match" /\ Matches(Current, Policy.match)
               THEN Len(policies) + 1 ELSE next + 1
    /\ UNCHANGED <<out, writable, heap, index, mode, policies, spans, done, original,
                   selected>>

\* the policy does not match, or shouldApplyPolicy says no
Skip ==
    /\ InLoop
    /\ ~Matches(Current, Policy.match) \/ Policy.probability # "always"
    /\ next' = next + 1
    /\ UNCHANGED <<out, writable, heap, index, mode, policies, spans, done, original,
                   selected>>

ApplyPolicy ==
    /\ InLoop
    /\ Matches(Current, Policy.match) /\ Policy.probability # "never"
    /\ LET target == Applied(EnsureWritable, Policy.actions)[Len(Policy.actions)]
       IN  /\ heap' = target.heap
           /\ out' = [Copy EXCEPT ![index] = target.span]
    /\ writable' = writable \cup {index}
    /\ selected' = selected \cup {<<index, next>>}
    /\ next' = IF mode = "first_match" THEN Len(policies) + 1 ELSE next + 1
    /\ UNCHANGED <<index, mode, policies, spans, done, original>>

NextSpan ==
    /\ ~done /\ index \in DOMAIN spans /\ next > Len(policies)
    /\ index' = index + 1
    /\ next' = 1
    /\ UNCHANGED <<out, writable, heap, mode, policies, spans, done, original, selected>>

Return ==
    /\ ~done /\ index > Len(spans)
    /\ done' = TRUE
    /\ UNCHANGED <<loop, mode, policies, spans, original, selected>>

Returned == done /\ UNCHANGED vars

Next == Skip \/ ApplyPolicy \/ NextSpan \/ Return \/ Returned

Spec == Init /\ [][Next]_vars

-----------------------------------------------------------------------------

\* Apply never writes to the batch it was given, neither to its spans nor through the
\* maps that the copy still shares with it.
InputUntouched == [i \in DOMAIN spans |-> Deref(spans[i], heap)] = original

\* what the policies make of a span, one after the other, on values instead of
\* references: each sees what the ones before it did
PureAction(s, a) ==
    CASE a.type = "set_attribute" ->
            IF s[a.scope][a.name] = Absent THEN s ELSE [s EXCEPT ![a.scope][a.name] = a.value]
      [] a.type = "set_status" -> [s EXCEPT !.status = a.code]
      [] a.type = "add_latency" /\ a.delta = 0 -> s
      [] a.type = "add_latency" /\ a.delta # 0 ->
            [s EXCEPT !.end = CHOOSE t \in {1, @ + a.delta} :
                                 IF @ + a.delta > 0 THEN t = @ + a.delta ELSE t = 1]

PureActions(s, actions) ==
    LET after[k \in 0 .. Len(actions)] ==
            IF k = 0 THEN s ELSE PureAction(after[k - 1], actions[k])
    IN  after

\* policy j on span i, where sel says which policies were selected
Visit(i, j, acc, sel) ==
    IF /\ ~acc.stopped /\ Matches(acc.span, policies[j].match)
       /\ policies[j].probability # "never"
       /\ policies[j].probability = "always" \/ <<i, j>> \in sel
    THEN [span |-> PureActions(acc.span, policies[j].actions)[Len(policies[j].actions)],
          stopped |-> mode = "first_match"]
    ELSE acc

\* what the first k policies make of span i, for each k
Visited(i, sel) ==
    LET after[k \in 0 .. Len(policies)] ==
            IF k = 0 THEN [span |-> original[i], stopped |-> FALSE]
            ELSE Visit(i, k, after[k - 1], sel)
    IN  after

PureSpan(i) == Visited(i, selected)[Len(policies)].span

\* The batch Apply returns is, span by span, what the policies make of the values of
\* that span alone: copying on write neither leaks a change from one span or one policy
\* into another nor loses one.
ResultIsPure ==
    done => [i \in DOMAIN spans |-> Deref(Copy[i], heap)]
            = [i \in DOMAIN spans |-> PureSpan(i)]

\* README.md:261: whatever the latencies that are added and subtracted by several
\* policies, a span ends after it started.
EndsAfterStart == \A i \in DOMAIN spans : Copy[i].end > 0
=============================================================================
