# Verification of tercios

tercios is a load generator for trace collectors. One process generates batches of spans,
optionally distorts them, exports them over OTLP from several workers at once, and prints a
summary. This directory holds TLA+ models of the parts of it in which steps interleave, fail or
depend on each other, the TLC runs that check them on small instances, and TLAPS proofs of the
properties that matter most. `PROJECT.json` lists the runs, the source lines behind every
definition, the hazards and the theorems.

## 1. Inventory

| Component | State | Operations | Interacts with | What is hard |
|---|---|---|---|---|
| **pipeline** (`internal/pipeline`) | two buffered channels, two wait groups, an errgroup with a context, the final summary | `Run`: producers, exporters, two closing goroutines, one statistics goroutine; `Process`: the stages | calls stages and exporters; its channels connect everything else | closing channels while goroutines leave, cancellation at any point, errors that race, ends of runs that must not hang |
| **metrics** (`internal/metrics`) | counters, latencies, failures by class, samples | `RecordWithTraceIDs`, `Summary`, `Summarize` | fed by the statistics goroutine | results in any order, limits applied twice |
| **otlp exporters** (`direct_exporter.go`, `slow_transport.go`) | one client per exporter | create and start, `ExportBatch`, `Shutdown` | called by the exporter goroutines | late or missing answers, shutdown on every way out |
| **otlp conversion** (`model_to_otlp.go`) | none | group spans by resource, convert | called by `ExportBatch` | the grouping key |
| **otlp preflight** (`preflight.go`) | one client | start, empty upload, stop | called by the command before `Run` | the stop after a timeout; which error wins |
| **otlp dry run** (`dry_run_exporter.go`) | a stream and a lock shared by all exporters | write one JSON line per batch | replaces the exporters | interleaved output, writes that fail midway |
| **otlp factory** (`exporter_factory.go`) | none | endpoint and TLS settings | used to make clients | precedence of flags, variables and files |
| **tracegen** (`internal/tracegen`) | the spans of the trace being built | `GenerateBatch`, `emitTrace`, `SpanBuilder.AddChild` | first stage, run by every producer with a builder of its own | a graph with links that must stay acyclic; depth, windows and span budget |
| **scenario selection** (`multi_generator.go`) | one atomic counter, and one per generator | `GenerateBatch`, `nextIndex` | shared by all producers | two atomic steps per batch |
| **scenario generation** (`scenario/config.go`, `generator.go`) | an immutable graph | `Validate`, `GenerateBatch` | first stage, shared by all producers | cycle detection with parallel edges, a recursion with one shared cursor, a duration estimated beforehand |
| **chaos engine** (`chaos/engine.go`) | compiled policies; a decider with an atomic counter | `Apply` | second stage, shared by all producers | copy on write of spans that share maps |
| **chaos configuration, configuration, typed values** | none | decoding and validation | used at start | nothing concurrent |
| **model** (`internal/model`) | the SDK's tracers while a batch is rebuilt | `orderForRebuild`, `toReadOnlySpans`, `FromReadOnlySpans` | the generator stage reads the tracer's spans back; rebuilding is an exported function that only tests and benchmarks call | parents that start later than their children, cycles, new span IDs |
| **command** (`cmd/tercios`) | flags | environment, preflight, stages, `Run`, exit status | starts everything | signals; order of checks |

What makes each of them correct:

- *pipeline*: no send on a closed channel; a batch is exported and counted at most once; nothing
  is lost unless the run is interrupted, and then boundedly little; `Run` returns nil only after a
  complete run, and otherwise the error that ended it; every client is shut down; `Run` returns.
- *metrics*: the figures depend on the results and not on their order; samples are the first
  distinct ones; merging several `Stats` loses nothing.
- *tracegen*: one root, no cycle, children inside their parents, the span count that was drawn.
- *scenario selection*: no two batches with one number, hence one trace ID; an even round robin;
  with a fixed seed, the traces of an earlier run again, whatever the schedule.
- *scenario generation*: exactly the graphs without a cycle are accepted; the root span covers the
  trace; the trace is the graph unfolded from the root, each path exactly once; calls do not
  overlap.
- *chaos engine*: the argument is never written to; the result is what the policies make of each
  span by itself; spans keep a positive duration; a fixed seed fixes the decisions of one exporter
  and, where every policy is tried, the number of decisions taken by several.
- *preflight, command*: the first failure is the one reported; a client that was started is
  stopped; nothing is generated before a preflight that passed; exit status 0 means that every
  batch was exported, and that of a JSON dry run each is on a line of its own; a signal ends the
  process; a client is as secure as asked for, by the flags and by what the SDK reads itself.
- *dry run*: a batch that was exported is on the stream in one piece, and begins a line unless a
  write before it failed midway. *conversion, model*: grouping and reordering lose and duplicate
  no span, and keep parents, and resources as far as their keys tell them apart.

## 2. Modules

| Module | Models | Notes |
|---|---|---|
| `Pipeline` | `Pipeline.Run` with its errgroup | the core; one action per select case, handler or goroutine end |
| `LoadRun` | nothing of the code | what a run promises of each batch; `Pipeline` implements it |
| `PipelineProofs` | | theorems about `Pipeline`, among them that it implements `LoadRun` and that it ends |
| `Metrics` | `metrics.Stats`, `sampleTraceIDs` | |
| `MetricsProofs` | | theorems about it |
| `TraceGen` | `emitTrace` and `SpanBuilder` | |
| `ScenarioSelect` | `MultiGenerator` and the counters of its generators | |
| `SeededRuns` | two runs of `ScenarioSelect` with the same seeds, each followed by the chaos stage's `seededDecider` | extends `ScenarioSelect`; composes selection and chaos |
| `SeededRunsProofs` | | theorems about the two |
| `ScenarioTrace` | `validateDAG`, `estimateDuration`, `emitFromNode` | |
| `GenerationProofs` | | theorems about `TraceGen` and `ScenarioTrace` |
| `ChaosEngine` | `Engine.Apply` | |
| `ChaosEngineProofs` | | theorems about it |
| `NumberInduction` | | lemmas: induction over numbers and over finite ranges of them, functions defined by recursion, ranks that cannot descend for ever |
| `SpanConversion` | `modelBatchToProto`; `orderForRebuild`, `toReadOnlySpans` | |
| `SpanConversionProofs` | | theorems about it |
| `ClientSettings` | from flags and variables to the client's settings | operators only |
| `Command` | `main`, `runPreflight`, the exporters of a dry run | extends `ClientSettings`; its load run is `LoadRun`, so that it composes with `Pipeline` through the refinement |
| `CommandProofs` | | theorems about `Command` |
| `MC*` | | constants, symmetry and inputs of the runs |

An operator that follows a comment `\* Mutated: ...` is not part of any specification. It is the
operator below it with a plausible bug, and is kept to show that a property would notice that bug:
with the mutant in place of the original, TLC finds the property violated.

### Pipeline

A producer's place is `ppc`: `rampUp` and `interval` are the selects on a timer, `check` the three
tests at the top of the loop, `process` is `p.Process`, `send` the select on `batchChannel`,
`returning` the moment between `producerWG.Done()` and the errgroup's bookkeeping (deferred calls
run first, so a closing goroutine may run between the two), `done` the end. An exporter's place is
`epc`: `init` is `NewBatchExporter`, `recv` the select on `batchChannel`, `export` is
`ExportBatch`, `report` the select on `summaryChannel`, `shutdown` the deferred `Shutdown`, then
`returning` and `done`. A select with several ready cases may take any: every case is an action of
its own, guarded by its channel or by `cancelled`.

`firstErr` and `cancelled` are the errgroup's error and context. `CancelParent` is the signal
handler's cancellation of the caller's context. `Expire` is the moment at which `--for` has passed;
the code looks at it between two requests of a producer and nowhere else, so that queued batches
are still exported, as in the model. `Process` yields a batch, an empty batch or an error, and may
fail by itself when the context is cancelled; `NewBatchExporter` likewise. `ExportBatch` returns
nil or, if exports may fail or the context is cancelled, an error. A timeout of the export is such
a failure. The content of a batch is left out: a batch is its producer and request number.

`Faults` says what may go wrong in a run: stages, client creation, exports, the caller's
cancellation. `exports`, `recorded` and `late` are history variables.

`LoadRun` is the specification of a run without goroutines: each batch goes through `none`,
`queued`, `exporting`, `ok` or `failed`, and `countedOk`, `countedFailed` or `lost`; a verdict ends
the run. `Life` maps the channels, the batches in the exporters' hands and the history to it.

### Metrics

A result is the trace IDs of its batch's spans, an error and a duration. An error is the facts that
`classifyError` asks of it; a word in it stands for all the phrases of one case. The sets of seen
IDs are left out: the code adds to them in the same branch as to the samples. `log` is the history
the properties compare with. Formatting and the instrumented exporters, which nothing calls, are
left out; `Summarize`, which nothing calls either, is an exported promise and is kept. Its loop is
`Merge`, one of the Stats at a time. `Sorted` says by ranks what `sort.Slice` leaves at each place;
the samples are built by a recursive function over the values, in the order in which the code adds
them.

### TraceGen, ScenarioSelect, ScenarioTrace, ChaosEngine

`TraceGen`: each draw of the random source is a choice, each pass of the loop in `emitTrace` one
action. `started` is the parent the tracer exports, `links` the further parents that `AddChild`
makes, `depth` the field of the `SpanBuilder`, which a link lowers. `ChildWindows` computes what
`emitChildSpan` and `randomChildWindow` compute: the drawn duration, cut to the parent's; the latest
start, clamped to the parent's start; a drawn offset up to there; the end from the start. `HasAncestor` is the set that the
recursion over parents covers, defined as the least one closed under parents.

`ScenarioSelect`: `nextIndex` and the generator's own addition are two actions, with those of other
producers between. The wrap of a 64-bit counter is left out: a run does not reach it.

`ScenarioTrace`: first Kahn's algorithm over edges in file order, with the map's order as a choice:
`Visit` takes a node from the queue, and each `TakeChild` is one pass of the loop over its children,
where `child` is. Then the recursion of `emitFromNode` as a stack of frames, the innermost last. An
edge is its index in the file, and `Outgoing(n, i)` the next one from n after i, which is what
`adjacency` and `outgoing` are read for. `estimateDuration` is a recursive function of the node
(`Walk`), whose loop over the edges is one of the edge (`Sums`); its memo is left out. A span keeps
its parent, edge and kind, so that `EveryPathOnce` can say of each span what is below it, and not
only how many spans there are.

`ChaosEngine`: spans hold references into a heap of attribute maps, so that sharing between the
argument and the copy is visible. Whether a policy with a probability between 0 and 1 applies is a
choice.

`SeededRuns`: the second run starts when the first is over. `picks` and `luck` are splitmix64 of the
two seeds: a value is chosen when it is first asked for and is the same ever after. A producer takes
a ticket, a number, and then one draw of the shared decider for each span and policy; steps of
several producers interleave between any two of these.

`SpanConversion`: `ToProto` is `modelBatchToProto`. The actions are the passes of `orderForRebuild`,
one span at a time, and the spans that `toReadOnlySpans` starts with the SDK, which gives each a new
ID, the next of `NewIds`. `ResourceKey` is the text that spans are grouped by: as a sequence of
`Parts` and `Separators`, the name, text and type of each attribute in the order of names. The code
escapes nothing, and a text may hold separators (`Unescaped` of the MC module does); a name is one
part. Resources are `Alike` if they are the same, or if one of them has a separator in it that gives
both one key.

### Command

`pc` is the place in `main`: `flags` (environment and validation), `output`, the preflight
(`create`, `start`, `upload`, `stop`), `stages`, `running`, `summary`, `exited`. A signal before
`signal.NotifyContext` ends the process, and later only cancels the context. `Expire` is the
timeout of the preflight's export context; `StopClient` has a context of its own, as in the
deferred call. `faults` is the history of steps that failed of themselves, in order.

While `pc` is `running`, the batches live as `LoadRun` says; `Answer` is the OTLP client's
`ExportBatch`, `Discard` the one of a dry run that prints a summary, and `LockWriter`, `WritePiece`
and `WriteEnds` the one of a JSON dry run: lock, a line in `Pieces` writes, of which each may fail,
unlock. What a failed write leaves of a line stays, and the next batch continues it: the code writes
no line end of its own. `Run` returns with a verdict that `LoadRun` allows. The summary of any other
run goes to stdout in `Pieces` writes, of which nobody checks the errors, so that any part of it may
be missing, whatever the status. `ClientSettings` gives the settings by flag, then the signal's
variable, then the general one, then the default. A file is readable or not; what cannot be read is
skipped if a variable names it and refused if the flag does. The OTLP client is the vendored SDK's,
which reads variables on its own: `EnvPlain` is its reading of the `INSECURE` variables and of the
scheme of an endpoint variable, which `newOTLPClient` overrides for plain text and never for TLS;
`TLSConfig` is what `mergedTLSConfig` gives it, which holds all it would have read of certificates;
`SpeaksTLS` and `ClientTLS` are what comes of both.

## 3. Runs

| Run | Instance | Shows |
|---|---|---|
| `two_workers` | 2 producers, 2 exporters, 2 requests each, failing exports, cancellation, worker symmetry | types, no panic, exactly once, bounded loss, agreement of error and summary, cause of the end, shutdown, completeness, at most one late batch |
| `full_channels` | 1 worker without a request limit, 5 batches, every timer and fault, no export timeout | both channels reach their capacity (2 and 4) and block; a cancelled run returns although nothing else would end it |
| `refinement` | 2 workers, the second delayed, every fault | `Pipeline` implements `LoadRun`; `Run` returns |
| `random_trace` | depth 4, 6 spans | no cycle, nesting of the drawn windows, span count |
| `docs_max_depth` | depth 2, 4 spans | a help text that the code does not keep |
| `same_seeds` | 2 scenarios, up to 3 producers, both strategies; 5 batches without chaos, 2 or 3 with it | numbers neither repeat nor skip, round robin is even, a seed gives the same traces, and what it gives of the chaos decisions |
| `scenario_trace` | all graphs of 3 nodes and 1 to 3 edges | validation, estimate and walk |
| `chaos_apply` | at most 2 spans, at most 3 of 5 policies, both modes | copy on write |
| `metrics` | 2 `Stats`, at most 4 results of 7, limits 2 and 2 | samples, order, merging |
| `conversion` | 4 spans with any parents and two clock values; 5 resources | grouping, the order for a rebuild, the rebuilt tree |
| `command` | settings that vary by group, 2 batches, a signal at any time | error, client and order of the preflight, lines that no other batch breaks, exit status, security of the client, end after a signal |
| `docs_tls` | `--tls-ca-cert` as in README.md's example, over HTTP and gRPC | a sentence of README.md that the code does not keep |

### Bounds and why they suffice

- `two_workers`: two of each is the least number at which one goroutine fails, closes or reports
  while another is anywhere; with two requests a producer is at every place both before and after
  its first send. The fault set is the one that interacts with its properties: stage and client
  failures are in `full_channels` and `refinement`, and in the proofs.
- `full_channels`: with one worker the capacities are 2 and 4, so that five batches fill the first
  behind a slow exporter. The second is filled by four results that the statistics goroutine has
  not yet read. `MaxRequests` bounds the requests of an unlimited producer; a producer at the bound
  waits for the cancellation, which is less than the code would do and never more.
- `random_trace`: a cycle through a link needs at least four spans on two branches; six leave two
  more. With durations of one or two ticks a child starts with its parent or later, ends with it or
  earlier, or is as long.
- `scenario_trace`: three nodes and three edges hold parallel edges, self-loops, cycles of two and
  three, diamonds, and parts that the root does not reach; edges repeat once or twice.
- `chaos_apply`: the five policies are chosen to enable and disable each other; three in a row show
  what one that is skipped, one that is applied and one that sees the result do.
- `metrics`: four distinct traces, a class with three messages, and a batch that repeats a trace,
  against limits of 2. The source's limit of messages is 3; it is a constant here.
- `same_seeds`: two scenarios and three producers let one be overtaken between its two steps by two
  others. With chaos, two producers draw for two batches of two spans or policies each. The theorems
  below have no such bounds.
- `conversion`: four spans hold cycles of one to four, unknown parents, chains against the clock,
  and a group whose spans are apart; the resources differ by the type of a value, by an attribute,
  or are empty, and one has a text that reads like two attributes and shares the key of another.
- `command`: `Pieces` is 2, the least number in which a line can be torn; two batches are two
  exporters, since nobody waits for the same batch. The settings vary in groups and not in their
  product: how far the process comes (`Courses`), where the client connects (`Targets`), how it is
  secured (`Identities`), and whether flags and variables agree that it is (`Contested`: every
  protocol with and without each TLS flag against every INSECURE variable, and against endpoint
  variables of every scheme).

Deadlock is checked in every run but `metrics`, which ends at its bound on the number of results.
`Terminated`, `Finished`, `Ended` of `ScenarioTrace`, `Returned`, `Quiet`, `Over`, `Done` and
`Exited` are not steps of the program: they let what is over stay as it is, so that a deadlock is a
real one.

### Fairness

`FairSpec` assumes weak fairness of each goroutine by itself (the Go scheduler runs what can run;
timers fire), of the two closing goroutines, the statistics goroutine and `Run`, and of `Expire`
(time passes). It assumes nothing of `CancelParent`: nobody need press Ctrl-C. An exporter inside
`ExportBatch` is treated fairly only if there is an export timeout or the context is cancelled,
because a collector need not answer; the OTLP clients return when their context is done. Fairness
is of a goroutine's step as a whole, hence never decides which ready case a select takes. `Process`
and `NewBatchExporter` are assumed to return, as they do no unbounded waiting.

`Command`'s `FairSpec` assumes that the process goes on, and that a call of the collector returns
once its context is done (`CallEnds`: it has a timeout, or the signal came). A stream that is
written to accepts the write or fails; a reader of stdout that stops reading without closing it
blocks a JSON dry run for good, in spite of a signal, and is outside the model. The preflight's stop
is taken to return: it has a timeout of its own.

## 4. Proofs

All theorems hold for every value of the constants that the modules' assumptions admit: every number
of workers, every request limit, every choice of timers and faults (`PipelineAssumption`), every
number of producers and scenarios (`SelectAssumption`), every number of batches of a run
(`SetupAssumption`), every set of options and batches (`CommandAssumption`), every set of batches to convert
(`ConversionAssumption`).

Every invariant below was an invariant of a TLC run of its module's instance before it was proved.

**`Pipeline`**

- `PipelineProofs!TypeCorrect`: `Spec => []TypeOK`. `TypeOK` is not inductive: that the request
  number stays within the limit after a send, and that what is exported and reported is a batch,
  needs `Located` (a producer that generates or sends is below the limit; an exporter that exports
  or reports holds a batch). One lemma per goroutine has one step per action.
- `PipelineProofs!SafetyInvariance`: `Spec => []SafetyInv`, where `SafetyInv` adds to the types
  - `Closing`: a closed channel means that all its senders are past their `Done`; a published
    summary means that the results are closed;
  - `Causes`: the context is cancelled only by the caller or by an error that is already kept, and
    a goroutine returns "context canceled" only when it is cancelled. It is the first half that
    makes `RootCause` inductive: when the first such error arrives at the errgroup, either another
    error is there before it or the caller cancelled;
  - `Clients`: a connected client belongs to an exporter with its deferred `Shutdown` before it;
  - `Lateness`: a producer that has sent after the cancellation is not generating or sending again.
- From it follow `NoPanic` (`NoSendOnClosed`), `RootCauseKept` (`RootCause`), `NoClientLeaks`
  (`ClientsShutDown`) and `CancelledProducerStops` (`OneLateBatch`).
- `PipelineProofs!DeliveryInvariance`: `Spec => []DeliveryInv`, the way of a batch.
  - `PlaceInv`: a batch is unsent, or in one place of a channel, or in one exporter's hands, or in
    one report, or recorded once; which of them decides whether it was exported. "One place" is said
    by positions (two positions with the same batch are the same position), and only the theorem
    turns it into the counts of `ExactlyOnce`.
  - `CountInv` and `FailureInv`: the counters are the cardinalities of the recorded results and of
    the failed ones; the failures reported or recorded are as many as the exporters that end with
    an export error.
  - `LossInv`: the batches lost are not more than the exporters that ended by the cancellation.
  - `EndInv`: what is over stays empty: closed channels are drained once nobody receives, a producer
    that left without error has reached its limit or the deadline, the summary is the final one.

  A lemma (`Moves`) splits the steps of the goroutines into those that leave every batch where it is
  and those that move one; each part of the invariant then has one lemma over these. From the whole
  follow `BatchesOnce` (`ExactlyOnce`), `LossesAreFew` (`LossBounded`), `FailuresAreTold`
  (`FailuresAreReported`) and `CleanRun` (`CleanRunIsComplete`).
- `PipelineProofs!RunKeepsItsPromise`: `Spec => ImplementsLoadRun`. `At(b, l)` says where a batch
  in part `l` of its life is found; by `DeliveryInv` these places exclude one another, so that
  `Life(b)` is `l`. A step that moves a batch is then a step of `LoadRun` for it and leaves the life
  of every other, and the verdict is allowed because of `EndInv` and `FailureInv`.
- `PipelineProofs!RunDescends` and `RunNeverHangs` are what can be proved of termination without
  fairness. Every step lowers `Rank`: first the batches not yet exported, then the places that
  producers and then exporters have before them, then the results to record and the events that
  happen once. So a run does finitely many steps within the request limit (without one, within
  `MaxRequests`). And with a limit or a deadline, a run that has not returned has a step to take:
  `ProducerCanGo`, `ExporterCanGo` and `OthersCanGo` are the guards of the actions. Were everybody
  waiting, a producer that waits to send would find the channel full and hence every exporter gone;
  without a cancellation, exporters go only when the channel is closed and empty (`Drained`), and an
  error would have cancelled (`ErrorCancels`). What neither theorem says is that a goroutine that can
  go does go, and that `ExportBatch` answers: these are the fairness of `Termination`.

**`ScenarioSelect` and `SeededRuns`**

- `SeededRunsProofs!NumbersAreUnique`: `Spec => []EveryNumberOnce`. The invariant says that the
  numbers a generator gave are exactly those up to its counter, so that the next is new.
- `SeededRunsProofs!SeedInvariance`: `SeededSpec => []SeedInv`. The heart of it is `ShareInv`: what a
  generator has numbered, and the calls that have chosen it and not yet numbered, are together its
  *share* of the tickets, the number of tickets that the rule and the picks give it. Taking a ticket
  adds one to both sides, numbering moves a batch from the second to the first. At the end nobody
  is inside a call, so that the counter is the share; the second run has the same picks and hence
  the same shares, however its producers were scheduled (`SeedsFixTraces`). `RoundInv` gives the
  share of round robin in closed form, one more for the generators below the remainder, from which
  `RoundRobinFairness` follows; its arithmetic is in `NextRemainder` and `ModStep`.
- `SeededRunsProofs!DrawInvariance`: where every policy is tried, the decisions taken so far (those
  about the batches of the run, without what each exporter has still before it) are as many as the
  draws, and those that applied a policy are as many as the draws below the probability. At the end
  nothing is left before anybody, so that both runs have made the same number of draws of the same
  sequence (`SameNumber`: `SameNumberApplied`).
- `SeededRunsProofs!AloneInvariance`: one exporter passes through a sequence of stops (batch, span,
  policy) in which each stop is determined by the one before and the draw made there. The walk of
  the second run is, as far as it goes, that of the first; both end where the batches do, hence
  apply the same policies (`SameDecisions`: `SameDecisionsAlone`). It does not matter whether an
  applied policy keeps the later ones from being tried.

**`TraceGen`**

- `GenerationProofs!TraceInvariance`: `Spec => []TraceInv`. `Forest` says that parents precede their
  children and that windows nest; absence of a cycle is put as: every set of spans that is not empty
  has a member without a parent in it. A new span is a leaf (`NewLeaf`). A link from p to c is safe
  since c is outside the set of p and its ancestors, which no edge enters (`NewEdge`,
  `LinkKeepsForest`). `LinksCloseNoCycle` (`Acyclic`), `SpansWithinParents` (`Nested`) and
  `SpansAsDrawn` (`SpanCount`) follow.
- `GenerationProofs!TraceHasRoom`: the root can always be picked as a parent if `--max-depth` is above
  1, for it stays at depth 1 whatever links are made (`RoomInv`): a link goes only to a span that is
  deeper than the new parent. So `emitTrace` never takes the `break` before its spans are drawn, on
  which the guard of `EndAll` relies, and there is time for a pair below every span.
- `GenerationProofs!TraceEnds`: spans and links lower `TraceRank`, the spans left and then the pairs of
  spans that are not linked. Links lower depths and so make other links possible, but not for ever. A
  pass of the loop that draws a link and finds none to make changes nothing and is not a step: that
  such passes end is a matter of the random source.

**`ChaosEngine`**

- `ChaosEngineProofs!ApplyInvariance`: `Spec => []ApplyInv`. `CopyInv`: a span of the copy has either
  the argument's maps or maps of its own, that no other span has; the argument's maps hold what they
  held. `ValueInv`: the value of each span in the copy is what the policies it has seen make of the
  argument's, where what was selected for other spans or by later policies does not count
  (`Agreement`), and nothing changes after a policy that ended the loop (`NothingAfterStop`).
  `ArgumentKept` (`InputUntouched`), `DurationsPositive` (`EndsAfterStart`) and `ResultByValues`
  (`ResultIsPure`) follow.
- The loops over actions and policies are recursive functions on numbers: that these functions are
  what their equations say, and what they compute, is by `NumberInduction`.

**`ScenarioTrace`**

- `GenerationProofs!ValidationInvariance`: `Spec => []ValidationInv`. A node is *finished* when
  `validateDAG` has taken it from the queue. The invariant says that the in-degree of a node is the
  number of edges into it that are left (`Counted`: those from nodes not finished, and those of the
  node at hand that the loop has yet to take), that queued and finished nodes are together those of
  in-degree 0, that no finished node is on a cycle, and that `visited` is the number of the finished
  ones. A node that gets in-degree 0 is on no cycle, since the finished nodes hold all that lead
  to it and to each other, and not the node itself (`OnNoCycle`). When the queue is empty and a node is
  left, every node that is left has an edge into it from one that is left; as there are finitely
  many, some node is on a cycle (`CycleAbove`: the node that reaches the most others). Both halves
  make `ValidationIsExact` (`AcceptsExactlyDAGs`). `Reach` is a recursive function of a number of
  steps; `ReachClosed` shows that as many steps as there are nodes suffice, `ReachLeast` that no
  smaller set would do.
- `GenerationProofs!EmitInvariance`: `Spec => [](ValidationInv /\ EmitInv)`. What the walk of a
  graph adds is a function over nodes that is defined by itself: it exists only because every edge of
  an accepted graph goes to a node that reaches fewer others (`EdgesGoDown`), and `WalkIs` shows its
  equation by induction over that number. `Left(cost, f)` is what a call f of `emitFromNode` has
  still to add: the repetitions left of its edge, and the edges after it. `OnCourse(cost, st, now)`
  says that `now`, with what every call on the stack has left to add, is what the whole walk adds;
  it holds of the clock with the edges' durations and of the number of spans with the edges' sizes.
  At the end nothing is left: `RootSpan` (`RootCoversTrace`). That the
  clock only moves forward is `CallsInSequence` (`CallsDoNotOverlap`).
- `GenerationProofs!PathsOnce` (`EveryPathOnce`) has an invariant of its own, about the spans and
  the frames together: a span with a frame has below it what the frame has been through, that is all
  of the edges before its own and `done` repetitions of that one; a span whose frame has returned, or
  that is a client's, has all that it is to have; and frames are of different spans. `EmitEdge` adds
  to the innermost span only (`TreeGrows`, `MadeGrows`).
- `GenerationProofs!ScenarioEnds`: both walks end, on every graph. In the first a node leaves the
  queue or the loop comes to a later edge; in the second a span is added, of which `OnCourse` allows
  only as many as the walk asks for (`CourseBounds`), or a call returns, or comes to a later edge.

**`SpanConversion`**

- `SpanConversionProofs!OrderInvariance`: `Spec => []OrderInv`. What `orderForRebuild` has added are
  different spans of the batch, each after its parent if the batch has no cycle; as long as a pass
  has added nothing, every span it has seen is added or not ready. A batch without a cycle has a
  span whose parent is not among those left, and that span is ready (`SomeReady`): so a pass that
  adds nothing has nothing left, and the loop that breaks cycles finds none. Different spans as many
  as the batch are all of it (`WholeBatch`). `OrderKeepsParentsFirst` (`ParentsFirst`) follows.
- `KeysDiffer`: two resources without separators in their values and with one key are the same. A key ends with the part of its last
  attribute, and that part begins before the last `=`, since neither texts nor types hold
  one (`PartEnds`); hence the key determines the part and what goes before it (`PartsDiffer`), and
  the attributes are compared from the last to the first by induction over the names.
- `SpanConversionProofs!RebuildInvariance`: `Spec => []RebuildInv`: each span that the SDK has started
  has the new ID of its place, a resource that is its own span's or `Alike` (`SharedIsAlike`, by
  `KeysDiffer`: the provider is that of the first span with the key), and, in a tree, the new ID of its parent
  (`ParentIs`, by the order). `RebuildKeepsTree` (`TreeSurvivesRebuild`) needs besides that the SDK's
  IDs differ from each other and from the batch's.
- `SpanConversionProofs!GroupedByResource` (`SpansUnderTheirResource`): after k spans every key of
  theirs has one group, which holds those of the k spans that have it, in order, and the resource of
  the first (`Grouped`); by induction over k (`GroupedNext`). That needs nothing of the values; that
  the resource is that of the others too, if no separator is in it, is `KeysDiffer`.
- `SpanConversionProofs!RebuildEnds`: the rebuild ends on every batch. A pass that added a span is
  followed by one with fewer left, and one that added nothing by the loop that breaks cycles, which
  leaves nothing (`RestAddsAll`), so that no pass follows it.

**`Metrics`**

- `MetricsProofs!StatsAreReplayed`: `Spec => []Replayed`, each of the Stats is what `Replay` makes of
  the results it has recorded, and these are results. All the rest is about `Replay`, for every
  sequence of results. `Portrait` says part by part what it makes: the durations are those of the
  results, each counter is a sum over them, and each list of samples is `AddSamples` of everything
  they hold. The step to one more result is `GrownPortrait`, which needs that samples of samples are
  the samples of the whole (`AddCut`), since `sampleTraceIDs` has cut each batch before.
- `SamplesFirst` (`SamplesAreFirst`): `AddSamples` of a sequence, to any limit, are its first
  different values (`AddedAreFirst`). With one more value the first place of the others stays
  (`FirstStays`) and a new one comes after them (`FirstIsNew`).
- `MergedAreWhole` (`MergeIsWhole`), for any number of Stats: to merge the Stats of two sequences of
  results is to record the one after the other (`MergeReplays`), by induction over the second; again
  `AddCut` is what the samples need.
- `OrderChoosesOnlySamples` (`OrderOnlyPicksSamples`), for every order of the results: a sum over a
  permuted sequence is the same (`SumShuffled`, by induction over the length: take the last element
  out of both), so is the sorted sequence (`SortedShuffled`, for ranks count elements, not places),
  and the number of samples is the smaller of the limit and the number of different values
  (`NoMoreSamples`), which a permutation keeps (`FlatShuffled`).

**`NumberInduction`**

TLAPS knows of a recursive function only that it is a CHOOSE. `LeastNat` gets the least element of a
set of numbers from the library's theorem that `<` is well-founded, `Induction` and `InductionTo` say
that a set with 0 and every next number holds all, or all up to a limit, and `Recursion` that a
function given step by step exists. They speak of sets, not of operators, so that the provers can
use them. `Lower` compares `Ranks`, four numbers each, from the left, and `NoEndlessDescent` says that
no sequence of ranks goes down for ever: a theorem `[][Lower(Rank', Rank)]_vars` is then one of
termination, without fairness, for what does not stop of itself.

**`Command`**

- `CommandProofs!FlowInvariance`: `FlowInv` says for each place of `main` what the client and the
  faults are. `FirstFaultWins`, `PreflightStops` and `PreflightComesFirst` follow. `ClientIsSecure`
  adds that a client is made of settings that were found valid.
- `CommandProofs!NoLineTorn`: `WriteInv` says that one batch at most is being written, that it is
  the last on the stream, and that one not begun has left nothing there. `JoinInv` adds that what
  begins a batch's line is at the beginning of one, or behind a beginning whose batch has failed.
- `CommandProofs!ZeroMeansAll` (`ExitZeroMeansAll`): by `PiecesOnce` the places of stdout are
  one-to-one with the pieces of the lines, whose number is the product of `Pieces` and the batches.
- `CommandProofs!CommandDescends` and `CommandNeverHangs`, for a finite set of batches, are to
  `InterruptStops` what `RunDescends` is to `Termination`. `Rank` holds what `main` has before it and
  the events that happen once, then the stages of the batches, the batches that have not had the
  writer, and the pieces not written. Until the process has ended there is a step to take, or it
  waits for the collector: whoever waits for the writer waits for a batch that is being exported
  (`WriteInv`), and that can always be written to its end or fail.

Only model-checked:

- liveness (`Termination`, `CancelStops`, `InterruptStops`), since it rests on fairness and ENABLED,
  which are out of TLAPS's reach here. `RunDescends`, `RunNeverHangs`, `CommandDescends` and
  `CommandNeverHangs` prove what does not rest on them; the steps are bounded, not their duration;
- the two claims of texts that the code does not keep (section 5).

## 5. Where code and text differ

Shown by a run:

- `--max-depth` is described as "maximum span depth per trace" (`cmd/tercios/main.go:67`). The test
  is on the parent that was picked; a client and server pair below it goes one deeper
  (`docs_max_depth`).
- `README.md:120` says that `--tls-ca-cert` and `--tls-skip-verify` are ignored when `--insecure` is
  set. It is set by default, so that they are also ignored when the flag is absent: the client of
  the example with an internal CA is made without that CA's roots (`docs_tls`).

Read, and not run:

- `--max-requests` is described as "requests per exporter" (`cmd/tercios/main.go:61`). The limit
  holds for each producer; exporters share one channel, and one may take every batch.
- `--ramp-up` is described as ramping "exporter workers" (`cmd/tercios/main.go:64`). Producers are
  ramped up; every exporter connects at once.
- `README.md:107` says "CLI flags still take precedence over environment variables.", and a comment in
  `exporter_factory.go:188` that "security is explicit". For `--insecure=false` `newOTLPClient` passes
  no option, so that the SDK keeps what it reads itself: with `OTEL_EXPORTER_OTLP_INSECURE=true`, or
  with an `http://` endpoint variable and no INSECURE one, an HTTP client is in plain text even if
  `--tls-ca-cert` is given, and a gRPC client is unless a TLS flag or certificate is.
  `SecureAsAsked` states exactly this exception.
- A batch behind a line that a failed write has torn is no JSON line, though its export succeeds.
  The process exits with 1 then (`ExitZeroMeansAll`).

## 6. Not modelled

- Decoding and validation of the chaos and scenario files and of JSON configuration, `typedvalue`,
  headers and the parts of an address: without state. What they accept is the modules' assumptions.
- Formatting, names, attributes and statuses of generated spans, and the field-by-field conversion
  of a span in `model_to_otlp.go` and `readonly.go`.
- What nothing calls: `ConcurrencyRunner.Run`, `ExporterFactory.NewExporter`, the instrumented
  exporters and the span exporters of the dry run.
- The delay of `slow_transport.go`, a sleep that ignores the request's context: an answer comes at
  any time in `Pipeline`. SIGPIPE on stdout, which ends a process.
- Names of attributes with separators in them: a name is one part of a key. Values may have them,
  and two resources may then share a key, so that the second's spans get the first's attributes; no
  text of the repository promises otherwise.
- Equal span IDs in different traces (`ScenarioTrace` keeps identifiers abstract), graphs whose
  repeats multiply without bound, and the error class taken from a message that contains an
  endpoint: no text promises anything of them. `add_latency` does not keep a trace nested; only the
  span's own positive duration is claimed.
- The wrap of 64-bit counters.

## 7. Plan

Done, in this order: `Pipeline`, `LoadRun`, `TraceGen`, `ScenarioSelect`, `ScenarioTrace`,
`ChaosEngine`, `Metrics`, `ClientSettings`, `Command`, `SeededRuns`, `SpanConversion`, and the
theorems in `PipelineProofs`, `CommandProofs`, `SeededRunsProofs`, `GenerationProofs`,
`ChaosEngineProofs`, `SpanConversionProofs` and `MetricsProofs`.

Not done: parsing of chaos policies, which has no state and would need a run of its own; the wait
for a context in `slow_transport.go`; the fields of a converted span.
