----------------------------- MODULE SeededRuns -----------------------------
(***************************************************************************)
(* Two runs with the same seeds, one after the other: what a reader of     *)
(* README.md expects to find again in the second.  Each producer generates *)
(* a batch as in ScenarioSelect and applies the chaos policies to it; the  *)
(* decisions are drawn from one atomic counter that all producers share    *)
(* (seededDecider of internal/chaos).  splitmix64 of a seed and a number   *)
(* is any value, but the same in both runs: it is chosen when it is first  *)
(* asked for.                                                              *)
(***************************************************************************)
EXTENDS ScenarioSelect, Sequences

CONSTANTS
    Setups    \* bound: the producers, batches, spans of a batch, all of which match every
              \* policy, policies and mode: [active, calls, spans, policies, mode]

ASSUME SetupAssumption ==
    \A s \in Setups :
        /\ s.active \subseteq Producers /\ s.calls \in Nat
        /\ s.spans \in Nat \ {0} /\ s.policies \in Nat

VARIABLES
    setup,    \* how both runs are started
    run,      \* 1 or 2
    picks,    \* the generator of each ticket, of a random choice, as far as asked for
    luck,     \* whether each draw is below the probability, as far as asked for
    drawn,    \* seededDecider.counter
    work,     \* the batch, span and policy each producer is at, Idle outside the stage
    applied,  \* history: the <<batch, span, policy>> that were applied
    first     \* history: what the first run generated and applied

seeds == <<setup, picks>>
chaos == <<luck, drawn, work, applied>>
seededVars == <<vars, setup, run, picks, luck, drawn, work, applied, first>>

Idle == [of |-> <<None, 0>>, span |-> 0, policy |-> 0]

SeededInit ==
    /\ Init
    /\ drawn = 0 /\ applied = {} /\ work = [p \in Producers |-> Idle]
    /\ setup \in Setups /\ run = 1
    /\ picks = <<>> /\ luck = <<>>
    /\ first = [batches |-> {}, applied |-> {}]

\* the batches that a producer has not finished with
Busy == {p \in Producers : work[p] # Idle}

\* GenerateBatch of the shared generator, its first half
Choose(p) ==
    /\ p \in setup.active /\ work[p] = Idle /\ Calls < setup.calls
    /\ NextIndex(p)
    /\ IF strategy = "round-robin" \/ Count = 1 THEN UNCHANGED picks
       ELSE IF ticket < Len(picks) THEN chosen'[p] = picks[ticket + 1] /\ UNCHANGED picks
       ELSE picks' = Append(picks, chosen'[p])
    /\ UNCHANGED <<setup, run, chaos, first>>

\* its second half; the pipeline hands the batch to the chaos stage, if there is one
Generate(p) ==
    /\ GenerateBatch(p)
    /\ work' = IF setup.policies = 0 THEN work ELSE
               [work EXCEPT ![p] = [of |-> <<chosen[p], sequence'[chosen[p]]>>,
                                    span |-> 1, policy |-> 1]]
    /\ UNCHANGED <<seeds, run, luck, drawn, applied, first>>

\* where Apply goes on after a decision about a span and a policy
After(at, hit) ==
    IF at.policy < setup.policies /\ ~(hit /\ setup.mode = "first_match")
    THEN [at EXCEPT !.policy = @ + 1]
    ELSE IF at.span < setup.spans THEN [at EXCEPT !.span = @ + 1, !.policy = 1] ELSE Idle

\* Mutated: the seed of the second run is not the first one's
RandomUnseeded(n) == IF run = 2 THEN ~luck[n] ELSE luck[n]

\* whether draw n is below the probability that the policies have
Random(n) == luck[n]

\* Mutated: the counter is read and written back in two steps, so that a producer may
\* miss the draw of another
NumbersTorn ==
    {drawn + 1} \cup IF drawn > 0 /\ Cardinality(Busy) > 1 THEN {drawn} ELSE {}

\* the number that a draw gets: counter.Add(1)
Numbers == {drawn + 1}

\* seededDecider.ShouldApply, for a probability strictly between 0 and 1
ShouldApply(p) ==
    /\ work[p] # Idle
    /\ \E n \in Numbers :
          /\ drawn' = n
          /\ IF n <= Len(luck) THEN UNCHANGED luck
             ELSE \E below \in BOOLEAN : luck' = Append(luck, below)
          /\ LET hit == (n <= Len(luck) /\ Random(n)) \/ (n > Len(luck) /\ luck'[n])
             IN  /\ applied' = applied \cup IF ~hit THEN {} ELSE
                                   {<<work[p].of, work[p].span, work[p].policy>>}
                 /\ work' = [work EXCEPT ![p] = After(@, hit)]
    /\ UNCHANGED <<vars, seeds, run, first>>

Ended == Calls = setup.calls /\ InCall = {} /\ Busy = {}

\* the second process; only the seeds and the flags are the first one's
NewRun ==
    /\ Ended /\ run = 1 /\ run' = 2
    /\ first' = [batches |-> batches, applied |-> applied]
    /\ ticket' = 0 /\ sequence' = [g \in Generators |-> 0]
    /\ chosen' = [p \in Producers |-> None] /\ batches' = {} /\ repeated' = FALSE
    /\ drawn' = 0 /\ applied' = {} /\ work' = [p \in Producers |-> Idle]
    /\ UNCHANGED <<strategy, seeds, luck>>

Over == Ended /\ run = 2 /\ UNCHANGED seededVars

SeededNext ==
    \/ \E p \in Producers : Choose(p) \/ Generate(p) \/ ShouldApply(p)
    \/ NewRun \/ Over

SeededSpec == SeededInit /\ [][SeededNext]_seededVars

-----------------------------------------------------------------------------
\* With a fixed --scenario-run-seed the second run has the traces of the first: the
\* pairs of generator and number, which the IDs are made of, are the same, whatever the
\* order in which the producers reach the two counters.
SameTraces == Ended /\ run = 2 => batches = first.batches

\* With a fixed --chaos-seed and one exporter the policies are applied to the same spans
\* of the same batches.
SameDecisionsAlone ==
    Ended /\ run = 2 /\ Cardinality(setup.active) = 1 => applied = first.applied

\* With several exporters the spans may differ, but where every policy is tried (mode
\* "all", one probability) the number of applications is the same in both runs.
SameNumberApplied ==
    Ended /\ run = 2 /\ setup.mode = "all" =>
        Cardinality(applied) = Cardinality(first.applied)
=============================================================================
