--------------------------- MODULE SpanConversion ---------------------------
(***************************************************************************)
(* The forms a batch takes on its way to the collector: modelBatchToProto  *)
(* of internal/otlp/model_to_otlp.go, which groups its spans by resource,  *)
(* and internal/model/readonly.go, which rebuilds a batch with the SDK's   *)
(* tracers (orderForRebuild, toReadOnlySpans) and reads the SDK's spans    *)
(* (FromReadOnlySpans).  A span keeps its ID, parent, start and resource;  *)
(* its trace is that of the batch, and the rest is copied field by field.  *)
(* A resource maps names to typed values, whose text is a sequence.        *)
(***************************************************************************)
EXTENDS Integers, Sequences, FiniteSets, Functions

CONSTANTS
    Batches,      \* the batches: sequences of [id, parent, start, resource]
    Parts,        \* what names, texts and types of attributes are made of
    Names,        \* the names of resource attributes, as a sorted sequence
    NewIds,       \* the span IDs that the SDK draws, in the order it draws them
    EnvResource   \* the attributes of OTEL_RESOURCE_ATTRIBUTES, that the SDK adds

NoSpan == 0   \* an ID that is not valid

\* what resourceAttributesKey puts between the parts of a resource, and does not escape
Separators == {"=", "|", ";"}

Values == [text : Seq(Parts), type : Parts]

IsResource(r) ==
    /\ DOMAIN r \subseteq Range(Names) /\ r = [n \in DOMAIN r |-> r[n]]
    /\ \A n \in DOMAIN r : r[n] \in Values

IsSpan(s) ==
    s.id \in Nat \ {NoSpan} /\ s.parent \in Nat /\ s.start \in Int /\ IsResource(s.resource)

\* an empty batch is returned before; IDs are valid and differ, the SDK's from all others
ASSUME ConversionAssumption ==
    /\ Names \in Seq(Parts) /\ IsInjective(Names)
    /\ NewIds \in Seq(Nat \ {NoSpan}) /\ IsInjective(NewIds)
    /\ \A batch \in Batches :
          /\ batch \in Seq(Range(batch)) /\ batch # <<>> /\ Len(batch) <= Len(NewIds)
          /\ \A i \in DOMAIN batch : IsSpan(batch[i])
          /\ \A i, j \in DOMAIN batch : batch[i].id = batch[j].id => i = j
          /\ \A i \in DOMAIN batch : {batch[i].id, batch[i].parent} \cap Range(NewIds) = {}

VARIABLES
    batch,     \* the batch that is converted
    phase,     \* "pass" and "rest" (the two loops of orderForRebuild), "rebuild", "done"
    ordered,   \* the batch, sorted
    at,        \* the index of the loop over it
    progress,  \* the pass has added a span
    result,    \* what orderForRebuild returns
    rebuilt    \* the SDK's spans, as the collector of toReadOnlySpans receives them

vars == <<batch, phase, ordered, at, progress, result, rebuilt>>

-----------------------------------------------------------------------------
(* modelBatchToProto *)

Joined(parts, part) == IF parts = <<>> THEN part ELSE Append(parts, ";") \o part

\* Mutated: the type of a value is not part of the key
ResourceKeyUntyped(r) ==
    LET key[k \in 0 .. Len(Names)] ==
            IF k = 0 THEN <<>>
            ELSE IF Names[k] \notin DOMAIN r THEN key[k - 1]
            ELSE Joined(key[k - 1], <<Names[k], "=">> \o r[Names[k]].text)
    IN  key[Len(Names)]

\* one attribute of a resource
Part(n, value) == <<n, "=">> \o value.text \o <<"|", value.type>>

\* resourceAttributesKey, and buildResourceKey of readonly.go: the attributes joined
ResourceKey(r) ==
    LET key[k \in 0 .. Len(Names)] ==
            IF k = 0 THEN <<>>
            ELSE IF Names[k] \notin DOMAIN r THEN key[k - 1]
            ELSE Joined(key[k - 1], Part(Names[k], r[Names[k]]))
    IN  key[Len(Names)]

\* one span joins the group with the key of its resource, or begins one
AddToGroups(groups, s) ==
    LET entry == {g \in DOMAIN groups :
                     ResourceKey(groups[g].resource) = ResourceKey(s.resource)}
    IN  IF entry = {} THEN Append(groups, [resource |-> s.resource, spans |-> <<s>>])
        ELSE [g \in DOMAIN groups |->
                IF g \in entry THEN [groups[g] EXCEPT !.spans = Append(@, s)] ELSE groups[g]]

ToProto(spans) ==
    LET groups[k \in 0 .. Len(spans)] ==
            IF k = 0 THEN <<>> ELSE AddToGroups(groups[k - 1], spans[k])
    IN  groups[Len(spans)]

-----------------------------------------------------------------------------
(* orderForRebuild *)

Earlier(s, t) == s.start < t.start \/ (s.start = t.start /\ s.id < t.id)

Sorted(spans) == \A i, j \in DOMAIN spans : i < j => ~Earlier(spans[j], spans[i])

Init ==
    /\ batch \in Batches
    /\ \E order \in Bijection(DOMAIN batch, DOMAIN batch) :
          ordered = [i \in DOMAIN batch |-> batch[order[i]]]
    /\ Sorted(ordered)
    /\ phase = "pass" /\ at = 1 /\ progress = FALSE
    /\ result = <<>> /\ rebuilt = <<>>

Ids(spans) == {spans[i].id : i \in DOMAIN spans}
Added(s) == s.id \in Ids(result)

\* Mutated: whether the parent exists is looked up among the spans that were added
ReadyIfUnseen(s) == s.parent = NoSpan \/ s.parent \notin Ids(result) \/ s.parent \in Ids(result)

\* no parent, a parent that is not in the batch, or one that was added
Ready(s) == s.parent = NoSpan \/ s.parent \notin Ids(ordered) \/ s.parent \in Ids(result)

\* one span of a pass, which skips those whose parent is still to come
Visit ==
    /\ phase = "pass" /\ at <= Len(ordered)
    /\ at' = at + 1
    /\ IF Added(ordered[at]) \/ ~Ready(ordered[at]) THEN UNCHANGED <<progress, result>>
       ELSE progress' = TRUE /\ result' = Append(result, ordered[at])
    /\ UNCHANGED <<batch, phase, ordered, rebuilt>>

\* one span of the loop after a pass without progress, which breaks the cycles
VisitRest ==
    /\ phase = "rest" /\ at <= Len(ordered)
    /\ at' = at + 1
    /\ result' = IF Added(ordered[at]) THEN result ELSE Append(result, ordered[at])
    /\ UNCHANGED <<batch, phase, ordered, progress, rebuilt>>

\* the condition of the outer loop, and what follows a pass
PassEnds ==
    /\ phase \in {"pass", "rest"} /\ at > Len(ordered)
    /\ phase' = IF phase = "pass" /\ ~progress THEN "rest"
                ELSE IF Len(result) < Len(ordered) THEN "pass"
                ELSE "rebuild"
    /\ at' = 1 /\ progress' = FALSE
    /\ UNCHANGED <<batch, ordered, result, rebuilt>>

-----------------------------------------------------------------------------
(* toReadOnlySpans: the SDK gives every span an ID of its own *)

\* Mutated: the parent keeps the ID it had in the batch
ParentContextOld(s) == s.parent

\* parentContextForSpan: the parent as it was rebuilt, or a remote one with its old ID
ParentContext(s) ==
    LET known == {i \in DOMAIN rebuilt : result[i].id = s.parent}
    IN  IF s.parent # NoSpan /\ known # {} THEN rebuilt[CHOOSE i \in known : TRUE].id
        ELSE s.parent

\* what the SDK makes of a resource: its attributes win over the environment's
WithEnvironment(r) ==
    [n \in DOMAIN r \cup DOMAIN EnvResource |-> IF n \in DOMAIN r THEN r[n] ELSE EnvResource[n]]

\* the spans with one key share a provider, which has the resource of the first of them
SharedResource(s) ==
    LET i == CHOOSE j \in DOMAIN result :
                 /\ ResourceKey(result[j].resource) = ResourceKey(s.resource)
                 /\ \A k \in 1 .. j - 1 :
                       ResourceKey(result[k].resource) # ResourceKey(s.resource)
    IN  WithEnvironment(result[i].resource)

StartSpan ==
    /\ phase = "rebuild" /\ Len(rebuilt) < Len(result)
    /\ LET s == result[Len(rebuilt) + 1]
       IN  rebuilt' = Append(rebuilt, [id |-> NewIds[Len(rebuilt) + 1], start |-> s.start,
                                       parent |-> ParentContext(s),
                                       resource |-> SharedResource(s)])
    /\ phase' = IF Len(rebuilt') = Len(result) THEN "done" ELSE "rebuild"
    /\ UNCHANGED <<batch, ordered, at, progress, result>>

Done == phase = "done" /\ UNCHANGED vars

Next == Visit \/ VisitRest \/ PassEnds \/ StartSpan \/ Done

Spec == Init /\ [][Next]_vars

-----------------------------------------------------------------------------
(* Properties. *)

Position(s) == CHOOSE i \in DOMAIN batch : batch[i] = s

\* the key of a span's resource, or of a group's
Key(x) == ResourceKey(x.resource)

\* no separator is in it
Plain(r) == \A n \in DOMAIN r : (Range(r[n].text) \cup {r[n].type}) \cap Separators = {}

\* what one group or provider may take for the same: resources whose keys a separator in
\* one of them makes the same
Alike(r, u) == r = u \/ (ResourceKey(r) = ResourceKey(u) /\ ~(Plain(r) /\ Plain(u)))

\* The request to the collector has every span of the batch once: one group for each key,
\* with the spans that have that key in the order of the batch and the resource of the
\* first; it is that of the others too, unless one of the two has separators in it.
SpansUnderTheirResource ==
    LET proto == ToProto(batch)
    IN  /\ \A s \in Range(batch) : \E g \in DOMAIN proto : Key(proto[g]) = Key(s)
        /\ \A g, h \in DOMAIN proto : Key(proto[g]) = Key(proto[h]) => g = h
        /\ \A g \in DOMAIN proto :
              /\ Range(proto[g].spans) = {s \in Range(batch) : Key(s) = Key(proto[g])}
              /\ proto[g].resource = proto[g].spans[1].resource
              /\ \A s \in Range(proto[g].spans) : Alike(s.resource, proto[g].resource)
              /\ \A i, j \in DOMAIN proto[g].spans :
                    i < j => Position(proto[g].spans[i]) < Position(proto[g].spans[j])

\* no span leads back to itself by parents: among any spans of the batch is one whose
\* parent is not among them
Acyclic ==
    \A some \in (SUBSET DOMAIN batch) \ {{}} :
        \E i \in some : \A j \in some : batch[i].parent # batch[j].id

\* The order for a rebuild loses and repeats no span, not even of a cycle of parents, and
\* puts every span after its parent if there is no cycle, whatever the clocks say.
ParentsFirst ==
    phase \in {"rebuild", "done"} =>
        /\ Len(result) = Len(batch) /\ Range(result) = Range(batch)
        /\ Acyclic => \A i, j \in DOMAIN result : result[i].parent = result[j].id => j < i

\* Reading the rebuilt spans back yields the same tree under new IDs: every span of a
\* tree has its rebuilt parent, an unknown parent stays what it was, and resources only
\* gain what the environment adds, unless separators in them make two keys the same.
TreeSurvivesRebuild ==
    phase = "done" /\ Acyclic =>
        \A i \in DOMAIN result :
            /\ \E j \in DOMAIN result :
                  /\ Alike(result[i].resource, result[j].resource)
                  /\ rebuilt[i].resource = WithEnvironment(result[j].resource)
            /\ result[i].parent \notin Ids(batch) => rebuilt[i].parent = result[i].parent
            /\ \A j \in DOMAIN result :
                  rebuilt[i].parent = rebuilt[j].id <=> result[i].parent = result[j].id
=============================================================================
