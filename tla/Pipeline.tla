------------------------------ MODULE Pipeline ------------------------------
(***************************************************************************)
(* Pipeline.Run of internal/pipeline/pipeline.go: workerCount producers    *)
(* generate batches into batchChannel, workerCount exporters take them out *)
(* and export them, and one statistics goroutine counts the results that   *)
(* the exporters put into summaryChannel.  All goroutines belong to one    *)
(* errgroup: the first error is kept, and cancels the group's context.     *)
(*                                                                         *)
(* A select with several ready cases picks any of them, so each case is an *)
(* action of its own.  Timers (ramp-up, interval, --for, export timeout)   *)
(* are events that may happen at any time after they are armed.            *)
(***************************************************************************)
EXTENDS Integers, Sequences, FiniteSets

CONSTANTS
    Producers,    \* the producer goroutines
    Exporters,    \* the exporter goroutines, as many as there are producers
    Delayed,      \* the producers whose rampUpDelay is positive
    Requests,     \* requestsPerWorker; 0 is no request limit
    MaxRequests,  \* bound on the requests of a producer when Requests = 0
    HasInterval,  \* requestInterval > 0
    HasDeadline,  \* requestDuration > 0
    HasTimeout,   \* exportTimeout > 0
    Faults        \* what may go wrong: "stage", "init", "export", "cancel"

ASSUME PipelineAssumption ==
    /\ Producers # {} /\ IsFiniteSet(Producers)
    /\ IsFiniteSet(Exporters) /\ Cardinality(Exporters) = Cardinality(Producers)
    /\ Delayed \subseteq Producers /\ Delayed # Producers
    /\ Requests \in Nat /\ MaxRequests \in Nat
    /\ HasInterval \in BOOLEAN /\ HasDeadline \in BOOLEAN /\ HasTimeout \in BOOLEAN
    /\ Faults \subseteq {"stage", "init", "export", "cancel"}

VARIABLES
    cancelled,      \* groupCtx is done
    parentDone,     \* the caller's ctx is done (SIGINT, SIGTERM)
    firstErr,       \* errgroup's err: the first error a goroutine returned
    expired,        \* time.Since(startTime) >= requestDuration
    ppc,            \* where each producer is
    request,        \* its loop variable
    perr,           \* the error it returns
    batchChannel,   \* buffered channel of batches
    batchClosed,
    epc,            \* where each exporter is
    held,           \* the batch it took from batchChannel
    exportOk,       \* whether ExportBatch(held) returned nil
    eerr,           \* the error it returns
    open,           \* the exporters whose client is connected and not shut down
    summaryChannel, \* buffered channel of export results
    summaryClosed,
    stats,          \* the counters of metrics.Stats
    summary,        \* finalSummary, which Run copies into p.summary
    returned,       \* Run has returned
    exports,        \* history: how often ExportBatch was called with each batch
    recorded,       \* history: the results that reached stats
    late            \* history: batches a producer sent after the cancellation

producerVars == <<ppc, request, perr>>
exporterVars == <<epc, held, exportOk, eerr, open>>
batchVars    == <<batchChannel, batchClosed>>
resultVars   == <<summaryChannel, summaryClosed>>
groupVars    == <<cancelled, parentDone, firstErr>>
statsVars    == <<stats, summary, recorded>>
historyVars  == <<exports, late>>
vars == <<producerVars, exporterVars, batchVars, resultVars, groupVars,
          statsVars, historyVars, expired, returned>>

-----------------------------------------------------------------------------
Errors == {"none", "canceled", "stage", "init", "export"}

Bound   == IF Requests > 0 THEN Requests ELSE MaxRequests
Batches == Producers \X (0 .. Bound - 1)
NoBatch == <<>>
Results == [batch : Batches, ok : BOOLEAN]

BatchCap   == 2 * Cardinality(Producers)
SummaryCap == 4 * Cardinality(Producers)

\* producerWG and exporterWG: Done runs before the error reaches the errgroup
ProducerGone(p) == ppc[p] \in {"returning", "done"}
ExporterGone(e) == epc[e] \in {"returning", "done"}

NewStats  == [total |-> 0, successes |-> 0, failures |-> 0]
NoSummary == [total |-> -1, successes |-> -1, failures |-> -1]

\* metrics.Stats.RecordWithTraceIDs, its counters
Count(s, ok) ==
    [total     |-> s.total + 1,
     successes |-> s.successes + (IF ok THEN 1 ELSE 0),
     failures  |-> s.failures + (IF ok THEN 0 ELSE 1)]

Init ==
    /\ cancelled = FALSE /\ parentDone = FALSE /\ firstErr = "none"
    /\ expired = FALSE /\ returned = FALSE
    /\ ppc = [p \in Producers |-> IF p \in Delayed THEN "rampUp" ELSE "check"]
    /\ request = [p \in Producers |-> 0]
    /\ perr = [p \in Producers |-> "none"]
    /\ batchChannel = <<>> /\ batchClosed = FALSE
    /\ epc = [e \in Exporters |-> "init"]
    /\ held = [e \in Exporters |-> NoBatch]
    /\ exportOk = [e \in Exporters |-> TRUE]
    /\ eerr = [e \in Exporters |-> "none"]
    /\ open = {}
    /\ summaryChannel = <<>> /\ summaryClosed = FALSE
    /\ stats = NewStats /\ summary = NoSummary /\ recorded = {}
    /\ exports = [b \in Batches |-> 0]
    /\ late = [p \in Producers |-> 0]

-----------------------------------------------------------------------------
(* The errgroup. *)

\* Mutated: the last error wins
GroupReturnLast(err) ==
    /\ firstErr' = IF err # "none" THEN err ELSE firstErr
    /\ cancelled' = (cancelled \/ err # "none")
    /\ UNCHANGED parentDone

\* errgroup.Go's wrapper when the goroutine's function returned err
GroupReturn(err) ==
    /\ firstErr' = IF firstErr = "none" THEN err ELSE firstErr
    /\ cancelled' = (cancelled \/ err # "none")
    /\ UNCHANGED parentDone

\* the signal handler cancels the caller's context, and groupCtx with it
CancelParent ==
    /\ "cancel" \in Faults /\ ~parentDone /\ ~returned
    /\ parentDone' = TRUE
    /\ cancelled' = TRUE
    /\ UNCHANGED <<firstErr, expired, returned, producerVars, exporterVars,
                   batchVars, resultVars, statsVars, historyVars>>

\* --for seconds have passed since startTime
Expire ==
    /\ HasDeadline /\ ~expired /\ ~returned
    /\ expired' = TRUE
    /\ UNCHANGED <<producerVars, exporterVars, batchVars, resultVars,
                   groupVars, statsVars, historyVars, returned>>

-----------------------------------------------------------------------------
(* Producers. *)

ProducerTo(p, loc) ==
    /\ ppc' = [ppc EXCEPT ![p] = loc]
    /\ UNCHANGED perr

ProducerReturns(p, err) ==
    /\ ppc' = [ppc EXCEPT ![p] = "returning"]
    /\ perr' = [perr EXCEPT ![p] = err]

\* the end of the loop body: the interval, if one is due, and request++
NextRequest(p) ==
    /\ ProducerTo(p, IF HasInterval /\ (Requests = 0 \/ request[p] < Requests - 1)
                     THEN "interval" ELSE "check")
    /\ request' = [request EXCEPT ![p] = @ + 1]

RampUpOver(p) ==
    /\ ppc[p] = "rampUp"
    /\ ProducerTo(p, "check")
    /\ UNCHANGED <<request, batchVars, late>>

IntervalOver(p) ==
    /\ ppc[p] = "interval"
    /\ ProducerTo(p, "check")
    /\ UNCHANGED <<request, batchVars, late>>

\* Mutated: off by one
LimitReachedLate(p) == Requests > 0 /\ request[p] > Requests

LimitReached(p) == Requests > 0 /\ request[p] >= Requests

\* the three checks at the top of the loop, in their order
CheckEnd(p) ==
    /\ ppc[p] = "check"
    /\ \/ (LimitReached(p) \/ expired) /\ ProducerReturns(p, "none")
       \/ ~LimitReached(p) /\ ~expired /\ cancelled /\ ProducerReturns(p, "canceled")
    /\ UNCHANGED <<request, batchVars, late>>

BeginRequest(p) ==
    /\ ppc[p] = "check"
    /\ ~LimitReached(p) /\ ~expired
    /\ Requests = 0 => request[p] < MaxRequests
    /\ ProducerTo(p, "process")
    /\ UNCHANGED <<request, batchVars, late>>

\* Mutated: the context is not polled between requests
CheckGoUnpolled(p) == BeginRequest(p)

CheckGo(p) == ~cancelled /\ BeginRequest(p)

\* Process: the stages yield a batch, an empty batch, or an error; a cancelled context
\* may by itself make them fail (provider.Shutdown in tracegen's GenerateBatch)
ProcessBatch(p) ==
    /\ ppc[p] = "process"
    /\ ProducerTo(p, "send")
    /\ UNCHANGED <<request, batchVars, late>>

ProcessEmpty(p) ==
    /\ ppc[p] = "process"
    /\ NextRequest(p)
    /\ UNCHANGED <<batchVars, late>>

ProcessFails(p) ==
    /\ ppc[p] = "process"
    /\ "stage" \in Faults \/ cancelled
    /\ ProducerReturns(p, "stage")
    /\ UNCHANGED <<request, batchVars, late>>

\* batchChannel <- batch
Send(p) ==
    /\ ppc[p] = "send"
    /\ Len(batchChannel) < BatchCap
    /\ batchChannel' = Append(batchChannel, <<p, request[p]>>)
    /\ late' = [late EXCEPT ![p] = IF cancelled THEN @ + 1 ELSE @]
    /\ NextRequest(p)
    /\ UNCHANGED batchClosed

\* <-groupCtx.Done() in a select at one of locs
ProducerCancelledAt(p, locs) ==
    /\ ppc[p] \in locs
    /\ cancelled
    /\ ProducerReturns(p, "canceled")
    /\ UNCHANGED <<request, batchVars, late>>

\* Mutated: the send on batchChannel is not in a select
ProducerCancelledNotInSend(p) == ProducerCancelledAt(p, {"rampUp", "interval"})

\* the selects of ramp-up, send and interval
ProducerCancelled(p) == ProducerCancelledAt(p, {"rampUp", "send", "interval"})

\* the goroutine of a producer ends
ProducerDone(p) ==
    /\ ppc[p] = "returning"
    /\ ProducerTo(p, "done")
    /\ GroupReturn(perr[p])
    /\ UNCHANGED <<request, batchVars, late>>

ProducerStep(p) ==
    /\ \/ /\ \/ RampUpOver(p) \/ IntervalOver(p)
             \/ CheckEnd(p) \/ CheckGo(p)
             \/ ProcessBatch(p) \/ ProcessEmpty(p) \/ ProcessFails(p)
             \/ Send(p) \/ ProducerCancelled(p)
          /\ UNCHANGED groupVars
       \/ ProducerDone(p)
    /\ UNCHANGED <<exporterVars, resultVars, statsVars, exports, expired, returned>>

CloseBatchesWhen(gone) ==
    /\ ~batchClosed
    /\ gone
    /\ batchClosed' = TRUE
    /\ UNCHANGED <<producerVars, exporterVars, batchChannel, resultVars, groupVars,
                   statsVars, historyVars, expired, returned>>

\* Mutated: close after the first producer ends; close only after a success
CloseBatchesEarly     == CloseBatchesWhen(\E p \in Producers : ProducerGone(p))
CloseBatchesOnSuccess ==
    CloseBatchesWhen(\A p \in Producers : ProducerGone(p) /\ perr[p] = "none")

\* producerWG.Wait(); close(batchChannel)
CloseBatches == CloseBatchesWhen(\A p \in Producers : ProducerGone(p))

-----------------------------------------------------------------------------
(* Exporters. *)

ExporterTo(e, loc) ==
    /\ epc' = [epc EXCEPT ![e] = loc]
    /\ UNCHANGED eerr

\* the function returns err: the deferred Shutdown comes first
ExporterReturns(e, err) ==
    /\ epc' = [epc EXCEPT ![e] = "shutdown"]
    /\ eerr' = [eerr EXCEPT ![e] = err]

NewExporter(e) ==
    /\ epc[e] = "init"
    /\ ExporterTo(e, "recv")
    /\ open' = open \cup {e}
    /\ UNCHANGED <<held, exportOk, batchVars, resultVars, exports>>

\* a cancelled context also fails the Start of an HTTP client
NewExporterFails(e) ==
    /\ epc[e] = "init"
    /\ "init" \in Faults \/ cancelled
    /\ epc' = [epc EXCEPT ![e] = "returning"]
    /\ eerr' = [eerr EXCEPT ![e] = "init"]
    /\ UNCHANGED <<held, exportOk, open, batchVars, resultVars, exports>>

\* batch, ok := <-batchChannel with a batch: ExportBatch is called with it
Receive(e) ==
    /\ epc[e] = "recv"
    /\ batchChannel # <<>>
    /\ batchChannel' = Tail(batchChannel)
    /\ held' = [held EXCEPT ![e] = Head(batchChannel)]
    /\ exportOk' = [exportOk EXCEPT ![e] = TRUE]
    /\ exports' = [exports EXCEPT ![Head(batchChannel)] = @ + 1]
    /\ ExporterTo(e, "export")
    /\ UNCHANGED <<open, batchClosed, resultVars>>

\* batch, ok := <-batchChannel after close and with nothing left
ReceiveClosed(e) ==
    /\ epc[e] = "recv"
    /\ batchChannel = <<>> /\ batchClosed
    /\ ExporterReturns(e, "none")
    /\ UNCHANGED <<held, exportOk, open, batchVars, resultVars, exports>>

\* ExportBatch returns: with an error if the collector fails or is too slow, or
\* if its context is cancelled
ExportReturns(e) ==
    /\ epc[e] = "export"
    /\ \E ok \in BOOLEAN :
          /\ ~ok => ("export" \in Faults \/ cancelled)
          /\ exportOk' = [exportOk EXCEPT ![e] = ok]
    /\ ExporterTo(e, "report")
    /\ UNCHANGED <<held, open, batchVars, resultVars, exports>>

\* Mutated: the batch of a failed export is queued again
ReportAndRequeue(e) ==
    /\ epc[e] = "report"
    /\ Len(summaryChannel) < SummaryCap /\ ~batchClosed
    /\ summaryChannel' = Append(summaryChannel, [batch |-> held[e], ok |-> exportOk[e]])
    /\ batchChannel' = IF exportOk[e] THEN batchChannel ELSE Append(batchChannel, held[e])
    /\ held' = [held EXCEPT ![e] = NoBatch]
    /\ ExporterTo(e, "recv")
    /\ UNCHANGED <<exportOk, open, batchClosed, summaryClosed, exports>>

\* Mutated: the error is returned before the result is sent
ReportSuccessOnly(e) ==
    /\ epc[e] = "report"
    /\ summaryChannel' = IF exportOk[e]
                         THEN Append(summaryChannel, [batch |-> held[e], ok |-> TRUE])
                         ELSE summaryChannel
    /\ held' = [held EXCEPT ![e] = NoBatch]
    /\ IF exportOk[e] THEN ExporterTo(e, "recv") ELSE ExporterReturns(e, "export")
    /\ UNCHANGED <<exportOk, open, batchVars, summaryClosed, exports>>

\* summaryChannel <- result, then return err if the export failed
Report(e) ==
    /\ epc[e] = "report"
    /\ Len(summaryChannel) < SummaryCap
    /\ summaryChannel' = Append(summaryChannel, [batch |-> held[e], ok |-> exportOk[e]])
    /\ held' = [held EXCEPT ![e] = NoBatch]
    /\ IF exportOk[e] THEN ExporterTo(e, "recv") ELSE ExporterReturns(e, "export")
    /\ UNCHANGED <<exportOk, open, batchVars, summaryClosed, exports>>

\* <-groupCtx.Done() in a select at one of locs
ExporterCancelledAt(e, locs, err) ==
    /\ epc[e] \in locs
    /\ cancelled
    /\ ExporterReturns(e, err)
    /\ held' = [held EXCEPT ![e] = NoBatch]
    /\ UNCHANGED <<exportOk, open, batchVars, resultVars, exports>>

\* Mutated: the export's error is returned although its result was not sent
ExporterCancelledKeepsErr(e) ==
    ExporterCancelledAt(e, {"recv", "report"}, IF exportOk[e] THEN "canceled" ELSE "export")

\* Mutated: the cancellation also ends the wait for an export that is under way
ExporterCancelledAbandons(e) ==
    ExporterCancelledAt(e, {"recv", "export", "report"}, "canceled")

\* Mutated: this way out misses Shutdown
ExporterCancelledNoShutdown(e) ==
    /\ epc[e] \in {"recv", "report"}
    /\ cancelled
    /\ epc' = [epc EXCEPT ![e] = "returning"]
    /\ eerr' = [eerr EXCEPT ![e] = "canceled"]
    /\ held' = [held EXCEPT ![e] = NoBatch]
    /\ UNCHANGED <<exportOk, open, batchVars, resultVars, exports>>

\* the selects of the receive and of the report
ExporterCancelled(e) == ExporterCancelledAt(e, {"recv", "report"}, "canceled")

\* the deferred exporter.Shutdown(groupCtx), then exporterWG.Done()
Shutdown(e) ==
    /\ epc[e] = "shutdown"
    /\ ExporterTo(e, "returning")
    /\ open' = open \ {e}
    /\ UNCHANGED <<held, exportOk, batchVars, resultVars, exports>>

\* the goroutine of an exporter ends
ExporterDone(e) ==
    /\ epc[e] = "returning"
    /\ ExporterTo(e, "done")
    /\ GroupReturn(eerr[e])
    /\ UNCHANGED <<held, exportOk, open, batchVars, resultVars, exports>>

ExporterStep(e) ==
    /\ \/ /\ \/ NewExporter(e) \/ NewExporterFails(e)
             \/ Receive(e) \/ ReceiveClosed(e)
             \/ ExportReturns(e) \/ Report(e)
             \/ ExporterCancelled(e) \/ Shutdown(e)
          /\ UNCHANGED groupVars
       \/ ExporterDone(e)
    /\ UNCHANGED <<producerVars, statsVars, late, expired, returned>>

\* exporterWG.Wait(); close(summaryChannel)
CloseSummaries ==
    /\ ~summaryClosed
    /\ \A e \in Exporters : ExporterGone(e)
    /\ summaryClosed' = TRUE
    /\ UNCHANGED <<producerVars, exporterVars, batchVars, summaryChannel, groupVars,
                   statsVars, historyVars, expired, returned>>

-----------------------------------------------------------------------------
(* The statistics goroutine, and Run itself. *)

RecordResult ==
    /\ summaryChannel # <<>>
    /\ summaryChannel' = Tail(summaryChannel)
    /\ stats' = Count(stats, Head(summaryChannel).ok)
    /\ recorded' = recorded \cup {Head(summaryChannel)}
    /\ UNCHANGED <<summary, summaryClosed, producerVars, exporterVars, batchVars,
                   groupVars, historyVars, expired, returned>>

PublishSummaryWhen(ready) ==
    /\ summary = NoSummary
    /\ ready
    /\ summary' = stats
    /\ UNCHANGED <<stats, recorded, resultVars, producerVars, exporterVars, batchVars,
                   groupVars, historyVars, expired, returned>>

\* Mutated: the results still in the channel are not waited for
PublishSummaryEarly == PublishSummaryWhen(summaryClosed)

\* the range over summaryChannel ends; finalSummary <- stats.Summary()
PublishSummary == PublishSummaryWhen(summaryChannel = <<>> /\ summaryClosed)

\* group.Wait() returns once every goroutine of the group has ended
RunReturns ==
    /\ ~returned
    /\ \A p \in Producers : ppc[p] = "done"
    /\ \A e \in Exporters : epc[e] = "done"
    /\ batchClosed /\ summaryClosed /\ summary # NoSummary
    /\ returned' = TRUE
    /\ UNCHANGED <<producerVars, exporterVars, batchVars, resultVars, groupVars,
                   statsVars, historyVars, expired>>

\* not a step of the program: it lets a run that is over stay as it is
Terminated == returned /\ UNCHANGED vars

Next ==
    \/ CancelParent \/ Expire
    \/ \E p \in Producers : ProducerStep(p)
    \/ \E e \in Exporters : ExporterStep(e)
    \/ CloseBatches \/ CloseSummaries
    \/ RecordResult \/ PublishSummary \/ RunReturns
    \/ Terminated

Spec == Init /\ [][Next]_vars

\* The Go scheduler runs every goroutine that can run, timers fire, and time
\* passes.  ExportBatch need not answer by itself: it returns when its context
\* is done, that is after exportTimeout or after the cancellation.
Fairness ==
    /\ \A p \in Producers : WF_vars(ProducerStep(p))
    /\ \A e \in Exporters :
          WF_vars((epc[e] = "export" => HasTimeout \/ cancelled) /\ ExporterStep(e))
    /\ WF_vars(CloseBatches) /\ WF_vars(CloseSummaries)
    /\ WF_vars(RecordResult) /\ WF_vars(PublishSummary) /\ WF_vars(RunReturns)
    /\ WF_vars(Expire)

FairSpec == Spec /\ Fairness

-----------------------------------------------------------------------------
(* Properties. *)

GroupType ==
    /\ cancelled \in BOOLEAN /\ parentDone \in BOOLEAN /\ firstErr \in Errors
    /\ expired \in BOOLEAN /\ returned \in BOOLEAN

ProducerType ==
    /\ ppc \in [Producers -> {"rampUp", "check", "process", "send", "interval",
                              "returning", "done"}]
    /\ request \in [Producers -> 0 .. Bound]
    /\ perr \in [Producers -> {"none", "canceled", "stage"}]
    /\ late \in [Producers -> Nat]

ExporterType ==
    /\ epc \in [Exporters -> {"init", "recv", "export", "report", "shutdown",
                              "returning", "done"}]
    /\ held \in [Exporters -> Batches \cup {NoBatch}]
    /\ exportOk \in [Exporters -> BOOLEAN]
    /\ eerr \in [Exporters -> {"none", "canceled", "init", "export"}]
    /\ open \subseteq Exporters

ChannelType ==
    /\ batchChannel \in Seq(Batches) /\ batchClosed \in BOOLEAN
    /\ summaryChannel \in Seq(Results) /\ summaryClosed \in BOOLEAN
    /\ Len(batchChannel) <= BatchCap /\ Len(summaryChannel) <= SummaryCap

Counters == [total : Nat, successes : Nat, failures : Nat]

StatsType ==
    /\ stats \in Counters
    /\ summary \in Counters \cup {NoSummary}
    /\ recorded \subseteq Results
    /\ exports \in [Batches -> Nat]

\* Every variable has its type; no request index leaves the limit, and no channel holds
\* more than its capacity.
TypeOK == GroupType /\ ProducerType /\ ExporterType /\ ChannelType /\ StatsType

\* A send on a closed channel panics.  The two closing goroutines close only what
\* nobody can send on any more, also while goroutines leave with errors.
NoSendOnClosed ==
    /\ batchClosed => \A p \in Producers : ppc[p] \notin {"process", "send"}
    /\ summaryClosed => \A e \in Exporters : epc[e] \notin {"export", "report"}

Queued(b)    == Cardinality({i \in DOMAIN batchChannel : batchChannel[i] = b})
Carriers(b)  == {e \in Exporters : held[e] = b}
Reported(b)  == Cardinality({i \in DOMAIN summaryChannel : summaryChannel[i].batch = b})
Recorded(b)  == Cardinality({r \in recorded : r.batch = b})
LostBatches  == {b \in Batches : exports[b] > 0 /\ Carriers(b) = {}
                                 /\ Reported(b) = 0 /\ Recorded(b) = 0}

\* However the two exporters interleave, a batch is exported at most once, it is in
\* at most one place at a time, and its result is counted at most once: the summary's
\* total is the number of distinct batches recorded.
ExactlyOnce ==
    /\ \A b \in Batches :
          /\ exports[b] + Queued(b) <= 1
          /\ Queued(b) + Cardinality(Carriers(b)) + Reported(b) + Recorded(b) <= 1
    /\ stats.total = Cardinality(recorded)
    /\ stats.total = stats.successes + stats.failures

\* Only a cancelled run loses the result of an export (the select at 168 drops it),
\* and every exporter drops at most one: "Sent N requests" of the summary is less than
\* the number of batches exported by at most the number of workers.
LossBounded ==
    /\ Cardinality(LostBatches) <= Cardinality(Exporters)
    /\ LostBatches # {} => cancelled

\* Run returns nil only after a complete run: nothing is left in the channels, every
\* batch taken was exported with success and is in the summary, and without a deadline
\* every producer has made all its requests.
CleanRunIsComplete ==
    returned /\ firstErr = "none" =>
        /\ batchChannel = <<>> /\ summaryChannel = <<>>
        /\ summary.failures = 0
        /\ summary.total = Cardinality({b \in Batches : exports[b] = 1})
        /\ ~HasDeadline => \A p \in Producers : request[p] = Requests

\* The exit status and the printed summary agree: an export error that Run returns is
\* among the counted failures, a counted failure makes Run return an error, and there
\* are never more failures than workers, since an exporter stops after its first.
FailuresAreReported ==
    returned =>
        /\ firstErr = "export" => summary.failures > 0
        /\ summary.failures > 0 => firstErr # "none"
        /\ summary.failures <= Cardinality(Exporters)

\* "context canceled" is Run's error only if the caller cancelled: the cancellation
\* that follows a goroutine's error never hides that error.
RootCause == firstErr = "canceled" => parentDone

\* Every client that was connected is shut down before the summary is final, on every
\* way out of an exporter.
ClientsShutDown == summary # NoSummary => open = {}

\* After the cancellation a producer sends at most one more batch, the one whose
\* generation it had begun.
OneLateBatch == \A p \in Producers : late[p] <= 1

\* Once the group's context is cancelled, by the caller or by an error, Run returns,
\* even if no ExportBatch answers by itself.
CancelStops == cancelled ~> returned

\* With a request limit or a deadline, and with an export timeout, Run returns.
Termination == <>returned

-----------------------------------------------------------------------------
(* The run implements the promise of LoadRun. *)

Life(b) ==
    LET has(ok) == [batch |-> b, ok |-> ok]
        reported(ok) == \E i \in DOMAIN summaryChannel : summaryChannel[i] = has(ok)
        carried(locs, oks) == \E e \in Carriers(b) : epc[e] \in locs /\ exportOk[e] \in oks
    IN  CASE has(TRUE) \in recorded -> "countedOk"
          [] has(FALSE) \in recorded -> "countedFailed"
          [] reported(TRUE) \/ carried({"report"}, {TRUE}) -> "ok"
          [] reported(FALSE) \/ carried({"report"}, {FALSE}) -> "failed"
          [] carried({"export"}, BOOLEAN) -> "exporting"
          [] b \in LostBatches -> "lost"
          [] Queued(b) > 0 -> "queued"
          [] OTHER -> "none"

Promise == INSTANCE LoadRun WITH
    life    <- [b \in Batches |-> Life(b)],
    verdict <- IF returned THEN firstErr ELSE "running"

\* Every step of the goroutines is a step of the life of one batch, the verdict, or
\* invisible to LoadRun.
ImplementsLoadRun == Promise!Spec

=============================================================================
