--------------------------- MODULE ScenarioSelect ---------------------------
(***************************************************************************)
(* The scenario generator that the producers of a run share: GenerateBatch *)
(* of internal/scenario/multi_generator.go takes a ticket from its own     *)
(* atomic counter to choose a generator, and that generator's GenerateBatch *)
(* takes a sequence number from a second one.  The two additions are two   *)
(* steps, between which other producers run.  The seed of the generator    *)
(* and the sequence number determine the trace ID of the batch.            *)
(***************************************************************************)
EXTENDS Integers, FiniteSets

CONSTANTS
    Producers,  \* the goroutines that call GenerateBatch
    Count,      \* the number of scenario files
    Strategies, \* the selection strategies --scenario-strategy may have been given
    MaxCalls    \* bound: GenerateBatch is called so often in all

ASSUME SelectAssumption ==
    /\ IsFiniteSet(Producers) /\ Count \in Nat \ {0} /\ MaxCalls \in Nat
    /\ Strategies \subseteq {"round-robin", "random"}

VARIABLES
    strategy,   \* MultiGenerator.strategy
    ticket,     \* MultiGenerator.counter
    sequence,   \* Generator.counter of each generator
    chosen,     \* the generator each producer has chosen, None outside a call
    batches,    \* history: the <<generator, sequence number>> of each batch
    repeated    \* history: a batch had the generator and number of an earlier one

vars == <<strategy, ticket, sequence, chosen, batches, repeated>>

Generators == 0 .. Count - 1
None == -1
InCall == {p \in Producers : chosen[p] # None}
Calls  == Cardinality(batches) + Cardinality(InCall)

Init ==
    /\ strategy \in Strategies
    /\ ticket = 0
    /\ sequence = [g \in Generators |-> 0]
    /\ chosen = [p \in Producers |-> None]
    /\ batches = {} /\ repeated = FALSE

\* Mutated: the counter is read again after the addition, so that a producer sees the
\* additions of the others
NextIndexReread(p) ==
    /\ chosen[p] = None /\ Calls < MaxCalls
    /\ ticket' = IF Count = 1 THEN ticket ELSE ticket + 1
    /\ \E index \in Generators, seen \in ticket .. ticket + Cardinality(Producers) :
          /\ strategy = "round-robin" => index = seen % Count
          /\ chosen' = [chosen EXCEPT ![p] = index]
    /\ UNCHANGED <<strategy, sequence, batches, repeated>>

\* nextIndex: a single generator takes no ticket; splitmix64 of seed and ticket is any
\* residue
NextIndex(p) ==
    /\ chosen[p] = None /\ Calls < MaxCalls
    /\ ticket' = IF Count = 1 THEN ticket ELSE ticket + 1
    /\ \E index \in Generators :
          /\ strategy = "round-robin" => index = ticket % Count
          /\ chosen' = [chosen EXCEPT ![p] = index]
    /\ UNCHANGED <<strategy, sequence, batches, repeated>>

\* Mutated: the counter is read and written back in two steps, so that a producer may
\* miss the addition of another that is inside the same generator
GenerateBatchTorn(p) ==
    /\ chosen[p] # None
    /\ sequence' = [sequence EXCEPT ![chosen[p]] = @ + 1]
    /\ \E n \in {sequence'[chosen[p]],
                 IF sequence[chosen[p]] > 0 THEN sequence[chosen[p]] ELSE 1} :
          LET id == <<chosen[p], n>>
          IN  /\ batches' = batches \cup {id}
              /\ repeated' = (repeated \/ id \in batches)
    /\ chosen' = [chosen EXCEPT ![p] = None]
    /\ UNCHANGED <<strategy, ticket>>

\* Generator.GenerateBatch of the chosen generator
GenerateBatch(p) ==
    /\ chosen[p] # None
    /\ sequence' = [sequence EXCEPT ![chosen[p]] = @ + 1]
    /\ LET id == <<chosen[p], sequence'[chosen[p]]>>
       IN  /\ batches' = batches \cup {id}
           /\ repeated' = (repeated \/ id \in batches)
    /\ chosen' = [chosen EXCEPT ![p] = None]
    /\ UNCHANGED <<strategy, ticket>>

Quiet == Calls = MaxCalls /\ InCall = {} /\ UNCHANGED vars

Next == (\E p \in Producers : NextIndex(p) \/ GenerateBatch(p)) \/ Quiet

Spec == Init /\ [][Next]_vars

-----------------------------------------------------------------------------
\* Every variable has its type: nextIndex yields an index of a generator that exists.
TypeOK ==
    /\ strategy \in Strategies /\ ticket \in Nat
    /\ sequence \in [Generators -> Nat]
    /\ chosen \in [Producers -> Generators \cup {None}]
    /\ batches \subseteq Generators \X (Nat \ {0})
    /\ repeated \in BOOLEAN

\* No two batches of a run get the same generator and sequence number, and so the same
\* trace ID, and no number is left out: each generator has numbered its batches 1, 2, ...
\* whatever the order in which the producers reach it.
EveryNumberOnce ==
    /\ ~repeated
    /\ \A g \in Generators : {b[2] : b \in {c \in batches : c[1] = g}} = 1 .. sequence[g]

\* the batches of a generator, begun ones included
Assigned(g) == sequence[g] + Cardinality({p \in Producers : chosen[p] = g})

\* Round robin shares the batches out evenly, one at most being the difference, although
\* a producer may be overtaken between its ticket and its sequence number.
RoundRobinIsFair ==
    strategy = "round-robin" =>
        \A g, h \in Generators : g < h => Assigned(g) - Assigned(h) \in {0, 1}
=============================================================================
