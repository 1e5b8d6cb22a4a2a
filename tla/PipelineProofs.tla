--------------------------- MODULE PipelineProofs ---------------------------
(***************************************************************************)
(* The safety of Pipeline.Run for every number of workers, every request   *)
(* limit, every combination of timers and every set of faults.             *)
(*                                                                         *)
(* First the goroutines: one inductive invariant, SafetyInv, from which    *)
(* four of the properties that TLC checks on two workers follow.  Then the *)
(* batches: each is exported and counted at most once, few results are     *)
(* lost and only by a cancellation, and the error that Run returns agrees  *)
(* with its summary.  These follow from DeliveryInv, which says where a    *)
(* batch can be and what the ends of goroutines mean.  Then the goroutines *)
(* keep the promise of LoadRun: each of their steps is a step in the life  *)
(* of one batch, the verdict, or invisible.  Last, Run ends: it does only  *)
(* finitely many steps, and until it returns there is one to do.           *)
(***************************************************************************)
EXTENDS Pipeline, NumberInduction, FiniteSetTheorems, SequenceTheorems

-----------------------------------------------------------------------------
(* Types. *)

\* What TypeOK needs in order to be inductive: a producer that generates or sends is
\* below the request limit, and an exporter that exports or reports holds a batch.
Located ==
    /\ \A p \in Producers : ppc[p] \in {"process", "send"} => request[p] < Bound
    /\ \A e \in Exporters : epc[e] \in {"export", "report"} => held[e] \in Batches

TypeInv == TypeOK /\ Located

LEMMA BoundsAreNat == Bound \in Nat /\ BatchCap \in Nat /\ SummaryCap \in Nat
<1>1. Bound \in Nat
  BY PipelineAssumption DEF Bound
<1>2. Cardinality(Producers) \in Nat
  BY PipelineAssumption, FS_CardinalityType
<1> QED
  BY <1>1, <1>2 DEF BatchCap, SummaryCap

LEMMA InitTypeInv == Init => TypeInv
<1> SUFFICES ASSUME Init PROVE TypeInv
  OBVIOUS
<1>1. GroupType
  BY DEF Init, GroupType, Errors
<1>2. ProducerType
  BY BoundsAreNat DEF Init, ProducerType
<1>3. ExporterType
  BY DEF Init, ExporterType
<1>4. ChannelType
  <2>1. <<>> \in Seq(Batches) /\ <<>> \in Seq(Results) /\ Len(<<>>) = 0
    BY EmptySeq
  <2>2. batchChannel = <<>> /\ summaryChannel = <<>> /\ ~batchClosed /\ ~summaryClosed
    BY DEF Init
  <2>3. Len(batchChannel) <= BatchCap /\ Len(summaryChannel) <= SummaryCap
    BY <2>1, <2>2, BoundsAreNat
  <2>4. batchClosed \in BOOLEAN /\ summaryClosed \in BOOLEAN
    BY DEF Init
  <2> QED
    BY <2>1, <2>2, <2>3, <2>4 DEF ChannelType
<1>5. StatsType
  BY DEF Init, StatsType, Counters, NewStats, NoSummary
<1>6. Located
  BY DEF Init, Located
<1> QED
  BY <1>1, <1>2, <1>3, <1>4, <1>5, <1>6 DEF TypeInv, TypeOK

\* A group of types holds on as long as its variables do.
LEMMA TypesUnchanged ==
    /\ GroupType /\ UNCHANGED <<groupVars, expired, returned>> => GroupType'
    /\ ProducerType /\ UNCHANGED <<producerVars, late>> => ProducerType'
    /\ ExporterType /\ UNCHANGED exporterVars => ExporterType'
    /\ ChannelType /\ UNCHANGED <<batchVars, resultVars>> => ChannelType'
    /\ StatsType /\ UNCHANGED <<statsVars, exports>> => StatsType'
<1>1. GroupType /\ UNCHANGED <<groupVars, expired, returned>> => GroupType'
  BY DEF GroupType, groupVars
<1>2. ProducerType /\ UNCHANGED <<producerVars, late>> => ProducerType'
  BY DEF ProducerType, producerVars
<1>3. ExporterType /\ UNCHANGED exporterVars => ExporterType'
  BY DEF ExporterType, exporterVars
<1>4. ChannelType /\ UNCHANGED <<batchVars, resultVars>> => ChannelType'
  BY DEF ChannelType, batchVars, resultVars
<1>5. StatsType /\ UNCHANGED <<statsVars, exports>> => StatsType'
  BY DEF StatsType, statsVars
<1> QED
  BY <1>1, <1>2, <1>3, <1>4, <1>5

LEMMA ProducerStepTypeInv ==
    ASSUME TypeInv, NEW p \in Producers, ProducerStep(p)
    PROVE  TypeInv'
<1> USE BoundsAreNat
<1>0. /\ GroupType /\ ProducerType /\ ExporterType /\ ChannelType /\ StatsType
      /\ Located
  BY DEF TypeInv, TypeOK
<1>1. GroupType'
  <2>1. CASE UNCHANGED groupVars
    BY <1>0, <2>1 DEF ProducerStep, GroupType, groupVars
  <2>2. CASE ProducerDone(p)
    BY <1>0, <2>2 DEF ProducerStep, ProducerDone, GroupReturn, GroupType, ProducerType, Errors
  <2> QED
    BY <2>1, <2>2 DEF ProducerStep
<1>2. ProducerType' /\ (\A q \in Producers : ppc'[q] \in {"process", "send"} => request'[q] < Bound)
  <2> USE <1>0 DEF ProducerType, Located, ProducerTo, ProducerReturns, NextRequest
  <2>1. CASE RampUpOver(p) \/ IntervalOver(p)
    BY <2>1 DEF RampUpOver, IntervalOver
  <2>2. CASE CheckEnd(p)
    BY <2>2 DEF CheckEnd
  <2>3. CASE CheckGo(p)
    <3>1. request[p] < Bound
      BY <2>3, PipelineAssumption DEF CheckGo, BeginRequest, LimitReached, Bound
    <3> QED
      BY <2>3, <3>1 DEF CheckGo, BeginRequest
  <2>4. CASE ProcessBatch(p)
    BY <2>4 DEF ProcessBatch
  <2>5. CASE ProcessEmpty(p)
    BY <2>5 DEF ProcessEmpty
  <2>6. CASE ProcessFails(p)
    BY <2>6 DEF ProcessFails
  <2>7. CASE Send(p)
    BY <2>7 DEF Send
  <2>8. CASE ProducerCancelled(p)
    BY <2>8 DEF ProducerCancelled, ProducerCancelledAt
  <2>9. CASE ProducerDone(p)
    BY <2>9 DEF ProducerDone
  <2> QED
    BY <2>1, <2>2, <2>3, <2>4, <2>5, <2>6, <2>7, <2>8, <2>9 DEF ProducerStep
<1>3. ExporterType' /\ StatsType'
  BY <1>0, TypesUnchanged DEF ProducerStep
<1>4. ChannelType'
  <2>1. CASE UNCHANGED batchVars
    BY <1>0, <2>1, TypesUnchanged DEF ProducerStep
  <2>2. CASE Send(p)
    <3>1. <<p, request[p]>> \in Batches
      BY <1>0, <2>2 DEF Send, Located, ProducerType, Batches
    <3>2. /\ batchChannel' \in Seq(Batches)
          /\ Len(batchChannel') = Len(batchChannel) + 1
          /\ Len(batchChannel) \in Nat
      BY <1>0, <2>2, <3>1, AppendProperties, LenProperties DEF Send, ChannelType
    <3> QED
      BY <1>0, <2>2, <3>2 DEF Send, ChannelType, ProducerStep, resultVars, BatchCap, SummaryCap
  <2> QED
    BY <2>1, <2>2 DEF ProducerStep, RampUpOver, IntervalOver, CheckEnd, CheckGo, BeginRequest,
       ProcessBatch, ProcessEmpty, ProcessFails, ProducerCancelled, ProducerCancelledAt,
       ProducerDone
<1>5. Located'
  BY <1>0, <1>2 DEF Located, ProducerStep, exporterVars
<1> QED
  BY <1>1, <1>2, <1>3, <1>4, <1>5 DEF TypeInv, TypeOK

LEMMA ExporterStepTypeInv ==
    ASSUME TypeInv, NEW e \in Exporters, ExporterStep(e)
    PROVE  TypeInv'
<1> USE BoundsAreNat
<1>0. /\ GroupType /\ ProducerType /\ ExporterType /\ ChannelType /\ StatsType
      /\ Located
  BY DEF TypeInv, TypeOK
<1>1. GroupType'
  <2>1. CASE UNCHANGED groupVars
    BY <1>0, <2>1 DEF ExporterStep, GroupType, groupVars
  <2>2. CASE ExporterDone(e)
    BY <1>0, <2>2 DEF ExporterStep, ExporterDone, GroupReturn, GroupType, ExporterType, Errors
  <2> QED
    BY <2>1, <2>2 DEF ExporterStep
<1>2. ASSUME Receive(e)
      PROVE  /\ Head(batchChannel) \in Batches
             /\ batchChannel' \in Seq(Batches)
             /\ Len(batchChannel') <= BatchCap
  <2>1. /\ Head(batchChannel) \in Batches
        /\ Tail(batchChannel) \in Seq(Batches)
        /\ Len(Tail(batchChannel)) = Len(batchChannel) - 1
    BY <1>0, <1>2, HeadTailProperties DEF Receive, ChannelType
  <2>2. Len(batchChannel) \in Nat
    BY <1>0, LenProperties DEF ChannelType
  <2> QED
    BY <1>0, <1>2, <2>1, <2>2 DEF Receive, ChannelType
<1>3. ExporterType' /\ Located'
  <2> USE <1>0 DEF ExporterType, Located, ExporterTo, ExporterReturns
  <2>0. UNCHANGED <<ppc, request>>
    BY DEF ExporterStep, producerVars
  <2>1. CASE NewExporter(e)
    BY <2>0, <2>1 DEF NewExporter
  <2>2. CASE NewExporterFails(e)
    BY <2>0, <2>2 DEF NewExporterFails
  <2>3. CASE Receive(e)
    BY <2>0, <2>3, <1>2 DEF Receive
  <2>4. CASE ReceiveClosed(e)
    BY <2>0, <2>4 DEF ReceiveClosed
  <2>5. CASE ExportReturns(e)
    BY <2>0, <2>5 DEF ExportReturns
  <2>6. CASE Report(e)
    BY <2>0, <2>6 DEF Report
  <2>7. CASE ExporterCancelled(e)
    BY <2>0, <2>7 DEF ExporterCancelled, ExporterCancelledAt
  <2>8. CASE Shutdown(e)
    BY <2>0, <2>8 DEF Shutdown
  <2>9. CASE ExporterDone(e)
    BY <2>0, <2>9 DEF ExporterDone
  <2> QED
    BY <2>1, <2>2, <2>3, <2>4, <2>5, <2>6, <2>7, <2>8, <2>9 DEF ExporterStep
<1>4. ChannelType'
  <2>1. CASE UNCHANGED <<batchVars, resultVars>>
    BY <1>0, <2>1, TypesUnchanged
  <2>2. CASE Receive(e)
    BY <1>0, <1>2, <2>2 DEF Receive, ChannelType, resultVars
  <2>3. CASE Report(e)
    <3>1. [batch |-> held[e], ok |-> exportOk[e]] \in Results
      BY <1>0, <2>3 DEF Report, Located, ExporterType, Results
    <3>2. /\ summaryChannel' \in Seq(Results)
          /\ Len(summaryChannel') = Len(summaryChannel) + 1
          /\ Len(summaryChannel) \in Nat
      BY <1>0, <2>3, <3>1, AppendProperties, LenProperties DEF Report, ChannelType
    <3>3. Len(summaryChannel') <= SummaryCap
      BY <2>3, <3>2 DEF Report
    <3> QED
      BY <1>0, <2>3, <3>2, <3>3 DEF Report, ChannelType, batchVars
  <2> QED
    BY <2>1, <2>2, <2>3 DEF ExporterStep, NewExporter, NewExporterFails, ReceiveClosed,
       ExportReturns, ExporterCancelled, ExporterCancelledAt, Shutdown, ExporterDone
<1>5. StatsType'
  <2>1. CASE UNCHANGED exports
    BY <1>0, <2>1, TypesUnchanged DEF ExporterStep
  <2>2. CASE Receive(e)
    BY <1>0, <1>2, <2>2 DEF Receive, ExporterStep, StatsType, statsVars
  <2> QED
    BY <2>1, <2>2 DEF ExporterStep, NewExporter, NewExporterFails, ReceiveClosed,
       ExportReturns, Report, ExporterCancelled, ExporterCancelledAt, Shutdown, ExporterDone
<1>6. ProducerType'
  BY <1>0, TypesUnchanged DEF ExporterStep
<1> QED
  BY <1>1, <1>3, <1>4, <1>5, <1>6 DEF TypeInv, TypeOK

LEMMA RunStepTypeInv ==
    ASSUME TypeInv,
           \/ CancelParent \/ Expire \/ CloseBatches \/ CloseSummaries
           \/ RecordResult \/ PublishSummary \/ RunReturns \/ UNCHANGED vars
    PROVE  TypeInv'
<1>0. /\ GroupType /\ ProducerType /\ ExporterType /\ ChannelType /\ StatsType
      /\ Located
  BY DEF TypeInv, TypeOK
<1>1. /\ UNCHANGED <<producerVars, late>>
      /\ UNCHANGED exporterVars
  BY DEF CancelParent, Expire, CloseBatches, CloseBatchesWhen, CloseSummaries, RecordResult,
     PublishSummary, PublishSummaryWhen, RunReturns, vars, historyVars
<1>2. ProducerType' /\ ExporterType' /\ Located'
  BY <1>0, <1>1, TypesUnchanged DEF Located, producerVars, exporterVars
<1>3. GroupType'
  BY <1>0 DEF GroupType, CancelParent, Expire, CloseBatches, CloseBatchesWhen, CloseSummaries,
     RecordResult, PublishSummary, PublishSummaryWhen, RunReturns, vars, groupVars
<1>4. ASSUME RecordResult
      PROVE  /\ Head(summaryChannel) \in Results
             /\ summaryChannel' \in Seq(Results)
             /\ Len(summaryChannel') <= SummaryCap
  <2>1. /\ Head(summaryChannel) \in Results
        /\ Tail(summaryChannel) \in Seq(Results)
        /\ Len(Tail(summaryChannel)) = Len(summaryChannel) - 1
    BY <1>0, <1>4, HeadTailProperties DEF RecordResult, ChannelType
  <2>2. Len(summaryChannel) \in Nat /\ SummaryCap \in Nat
    BY <1>0, LenProperties, BoundsAreNat DEF ChannelType
  <2> QED
    BY <1>0, <1>4, <2>1, <2>2 DEF RecordResult, ChannelType
<1>5. ChannelType'
  <2>1. CASE RecordResult
    BY <1>0, <1>4, <2>1 DEF RecordResult, ChannelType, batchVars
  <2>2. CASE CloseBatches \/ CloseSummaries
    BY <1>0, <2>2 DEF CloseBatches, CloseBatchesWhen, CloseSummaries, ChannelType, batchVars,
       resultVars
  <2>3. CASE UNCHANGED <<batchVars, resultVars>>
    BY <1>0, <2>3, TypesUnchanged
  <2> QED
    BY <2>1, <2>2, <2>3 DEF CancelParent, Expire, PublishSummary, PublishSummaryWhen,
       RunReturns, vars
<1>6. StatsType'
  <2>1. CASE RecordResult
    <3>1. Count(stats, Head(summaryChannel).ok) \in Counters
      BY <1>0 DEF StatsType, Count, Counters
    <3> QED
      BY <1>0, <1>4, <2>1, <3>1 DEF RecordResult, StatsType, historyVars
  <2>2. CASE PublishSummary
    BY <1>0, <2>2 DEF PublishSummary, PublishSummaryWhen, StatsType, historyVars
  <2>3. CASE UNCHANGED <<statsVars, exports>>
    BY <1>0, <2>3, TypesUnchanged
  <2> QED
    BY <2>1, <2>2, <2>3 DEF CancelParent, Expire, CloseBatches, CloseBatchesWhen, CloseSummaries,
       RunReturns, vars, historyVars
<1> QED
  BY <1>2, <1>3, <1>5, <1>6 DEF TypeInv, TypeOK

LEMMA TypeInvInductive == TypeInv /\ [Next]_vars => TypeInv'
  BY ProducerStepTypeInv, ExporterStepTypeInv, RunStepTypeInv DEF Next, Terminated

LEMMA TypeInvariance == Spec => []TypeInv
  BY InitTypeInv, TypeInvInductive, PTL DEF Spec

\* Type correctness of Run for every number of workers: in particular no request index
\* leaves the request limit and no channel exceeds its capacity.
THEOREM TypeCorrect == Spec => []TypeOK
<1>1. TypeInv => TypeOK
  BY DEF TypeInv
<1> QED
  BY <1>1, TypeInvariance, PTL

-----------------------------------------------------------------------------
(* Safety. *)

\* a channel is closed when its senders have ended, and the summary is made after that
Closing ==
    /\ batchClosed => \A p \in Producers : ProducerGone(p)
    /\ summaryClosed => \A e \in Exporters : ExporterGone(e)
    /\ summary # NoSummary => summaryClosed

\* the context is cancelled by the caller or by an error that is already kept, and a
\* goroutine returns "context canceled" only when it is cancelled
Causes ==
    /\ cancelled => parentDone \/ firstErr # "none"
    /\ \A p \in Producers : perr[p] = "canceled" => cancelled
    /\ \A e \in Exporters : eerr[e] = "canceled" => cancelled
    /\ firstErr = "canceled" => parentDone

\* a connected client belongs to an exporter that has its deferred Shutdown before it
Clients == \A e \in open : epc[e] \in {"recv", "export", "report", "shutdown"}

\* after its late batch a producer polls the context before it generates another one
Lateness ==
    \A p \in Producers :
        late[p] = 0 \/ (late[p] = 1 /\ cancelled /\ ppc[p] \notin {"process", "send"})

SafetyInv == TypeInv /\ Closing /\ Causes /\ Clients /\ Lateness

-----------------------------------------------------------------------------
LEMMA InitSafetyInv == Init => SafetyInv
<1> SUFFICES ASSUME Init PROVE SafetyInv
  OBVIOUS
<1>1. TypeInv
  BY InitTypeInv
<1>2. Closing /\ Causes /\ Clients /\ Lateness
  BY DEF Init, Closing, Causes, Clients, Lateness
<1> QED
  BY <1>1, <1>2 DEF SafetyInv

\* A step of a producer reaches "process" and "send" only past the poll of the context.
LEMMA ProducerStepSafety ==
    ASSUME SafetyInv, NEW p \in Producers, ProducerStep(p)
    PROVE  Closing' /\ Causes' /\ Clients' /\ Lateness'
<1>0. /\ ppc \in [Producers -> {"rampUp", "check", "process", "send", "interval",
                                "returning", "done"}]
      /\ perr \in [Producers -> {"none", "canceled", "stage"}]
      /\ late \in [Producers -> Nat]
      /\ Closing /\ Causes /\ Clients /\ Lateness
  BY DEF SafetyInv, TypeInv, TypeOK, ProducerType
<1>1. UNCHANGED <<epc, eerr, open, summaryClosed, summary>>
  BY DEF ProducerStep, exporterVars, resultVars, statsVars
<1>2. Closing'
  <2>1. batchClosed' = batchClosed
    BY DEF ProducerStep, batchVars, RampUpOver, IntervalOver, CheckEnd, CheckGo, BeginRequest,
       ProcessBatch, ProcessEmpty, ProcessFails, Send, ProducerCancelled, ProducerCancelledAt,
       ProducerDone
  <2>2. ProducerGone(p) => ProducerGone(p)'
    BY <1>0 DEF ProducerGone, ProducerStep, RampUpOver, IntervalOver, CheckEnd, CheckGo,
       BeginRequest, ProcessBatch, ProcessEmpty, ProcessFails, Send, ProducerCancelled,
       ProducerCancelledAt, ProducerDone, ProducerTo
  <2>3. \A q \in Producers : q # p => ppc'[q] = ppc[q]
    BY <1>0 DEF ProducerStep, RampUpOver, IntervalOver, CheckEnd, CheckGo, BeginRequest,
       ProcessBatch, ProcessEmpty, ProcessFails, Send, ProducerCancelled, ProducerCancelledAt,
       ProducerDone, ProducerTo, ProducerReturns, NextRequest
  <2> QED
    BY <1>0, <1>1, <2>1, <2>2, <2>3 DEF Closing, ProducerGone, ExporterGone
<1>3. Causes'
  <2>1. CASE UNCHANGED groupVars
    <3>1. \A q \in Producers : perr'[q] = "canceled" => cancelled
      BY <1>0 DEF Causes, ProducerStep, RampUpOver, IntervalOver, CheckEnd, CheckGo,
         BeginRequest, ProcessBatch, ProcessEmpty, ProcessFails, Send, ProducerCancelled,
         ProducerCancelledAt, ProducerDone, ProducerTo, ProducerReturns, NextRequest
    <3> QED
      BY <1>0, <1>1, <2>1, <3>1 DEF Causes, groupVars
  <2>2. CASE ProducerDone(p)
    BY <1>0, <1>1, <2>2 DEF Causes, ProducerDone, ProducerTo, GroupReturn
  <2> QED
    BY <2>1, <2>2 DEF ProducerStep
<1>4. Clients'
  BY <1>0, <1>1 DEF Clients
<1>5. Lateness'
  <2> USE <1>0 DEF Lateness, ProducerTo, ProducerReturns, NextRequest
  <2>1. CASE ProducerDone(p)
    BY <2>1 DEF ProducerDone, GroupReturn
  <2>2. ASSUME UNCHANGED groupVars PROVE Lateness'
    <3>0. cancelled' = cancelled
      BY <2>2 DEF groupVars
    <3>1. CASE RampUpOver(p) \/ IntervalOver(p) \/ CheckEnd(p)
      BY <3>0, <3>1 DEF RampUpOver, IntervalOver, CheckEnd
    <3>2. CASE CheckGo(p)
      BY <3>0, <3>2 DEF CheckGo, BeginRequest
    <3>3. CASE ProcessBatch(p) \/ ProcessEmpty(p) \/ ProcessFails(p)
      BY <3>0, <3>3 DEF ProcessBatch, ProcessEmpty, ProcessFails
    <3>4. CASE Send(p)
      BY <3>0, <3>4 DEF Send
    <3>5. CASE ProducerCancelled(p)
      BY <3>0, <3>5 DEF ProducerCancelled, ProducerCancelledAt
    <3>6. CASE ProducerDone(p)
      BY <2>1, <3>6
    <3> QED
      BY <3>1, <3>2, <3>3, <3>4, <3>5, <3>6 DEF ProducerStep
  <2> QED
    BY <2>1, <2>2 DEF ProducerStep
<1> QED
  BY <1>2, <1>3, <1>4, <1>5

\* Every way out of an exporter that is connected leads through "shutdown".
LEMMA ExporterStepSafety ==
    ASSUME SafetyInv, NEW e \in Exporters, ExporterStep(e)
    PROVE  Closing' /\ Causes' /\ Clients' /\ Lateness'
<1>0. /\ epc \in [Exporters -> {"init", "recv", "export", "report", "shutdown",
                                "returning", "done"}]
      /\ eerr \in [Exporters -> {"none", "canceled", "init", "export"}]
      /\ open \subseteq Exporters
      /\ Closing /\ Causes /\ Clients /\ Lateness
  BY DEF SafetyInv, TypeInv, TypeOK, ExporterType
<1>1. UNCHANGED <<ppc, perr, late, summary>>
  BY DEF ExporterStep, producerVars, statsVars
<1>2. Closing'
  <2>1. batchClosed' = batchClosed /\ summaryClosed' = summaryClosed
    BY DEF ExporterStep, batchVars, resultVars, NewExporter, NewExporterFails, Receive,
       ReceiveClosed, ExportReturns, Report, ExporterCancelled, ExporterCancelledAt, Shutdown,
       ExporterDone
  <2>2. ExporterGone(e) => ExporterGone(e)'
    BY <1>0 DEF ExporterGone, ExporterStep, NewExporter, NewExporterFails, Receive,
       ReceiveClosed, ExportReturns, Report, ExporterCancelled, ExporterCancelledAt, Shutdown,
       ExporterDone, ExporterTo
  <2>3. \A f \in Exporters : f # e => epc'[f] = epc[f]
    BY <1>0 DEF ExporterStep, NewExporter, NewExporterFails, Receive, ReceiveClosed,
       ExportReturns, Report, ExporterCancelled, ExporterCancelledAt, Shutdown, ExporterDone,
       ExporterTo, ExporterReturns
  <2> QED
    BY <1>0, <1>1, <2>1, <2>2, <2>3 DEF Closing, ProducerGone, ExporterGone
<1>3. Causes'
  <2>1. CASE UNCHANGED groupVars
    <3>1. \A f \in Exporters : eerr'[f] = "canceled" => cancelled
      BY <1>0 DEF Causes, ExporterStep, NewExporter, NewExporterFails, Receive, ReceiveClosed,
         ExportReturns, Report, ExporterCancelled, ExporterCancelledAt, Shutdown, ExporterDone,
         ExporterTo, ExporterReturns
    <3> QED
      BY <1>0, <1>1, <2>1, <3>1 DEF Causes, groupVars
  <2>2. CASE ExporterDone(e)
    BY <1>0, <1>1, <2>2 DEF Causes, ExporterDone, ExporterTo, GroupReturn
  <2> QED
    BY <2>1, <2>2 DEF ExporterStep
<1>4. Clients'
  <2> USE <1>0 DEF Clients, ExporterTo, ExporterReturns
  <2>1. CASE NewExporter(e) \/ NewExporterFails(e)
    BY <2>1 DEF NewExporter, NewExporterFails
  <2>2. CASE Receive(e) \/ ReceiveClosed(e) \/ ExportReturns(e) \/ Report(e)
    BY <2>2 DEF Receive, ReceiveClosed, ExportReturns, Report
  <2>3. CASE ExporterCancelled(e)
    BY <2>3 DEF ExporterCancelled, ExporterCancelledAt
  <2>4. CASE Shutdown(e)
    BY <2>4 DEF Shutdown
  <2>5. CASE ExporterDone(e)
    BY <2>5 DEF ExporterDone
  <2> QED
    BY <2>1, <2>2, <2>3, <2>4, <2>5 DEF ExporterStep
<1>5. Lateness'
  <2>1. cancelled => cancelled'
    BY DEF ExporterStep, ExporterDone, GroupReturn, groupVars
  <2> QED
    BY <1>0, <1>1, <2>1 DEF Lateness
<1> QED
  BY <1>2, <1>3, <1>4, <1>5

LEMMA RunStepSafety ==
    ASSUME SafetyInv,
           \/ CancelParent \/ Expire \/ CloseBatches \/ CloseSummaries
           \/ RecordResult \/ PublishSummary \/ RunReturns \/ UNCHANGED vars
    PROVE  Closing' /\ Causes' /\ Clients' /\ Lateness'
<1>0. Closing /\ Causes /\ Clients /\ Lateness
  BY DEF SafetyInv
<1>1. UNCHANGED <<ppc, perr, late, epc, eerr, open, firstErr>>
  BY DEF CancelParent, Expire, CloseBatches, CloseBatchesWhen, CloseSummaries, RecordResult,
     PublishSummary, PublishSummaryWhen, RunReturns, vars, producerVars, exporterVars,
     historyVars, groupVars
<1>2. (cancelled => cancelled') /\ (parentDone => parentDone') /\ (cancelled' # cancelled => parentDone')
  BY DEF CancelParent, Expire, CloseBatches, CloseBatchesWhen, CloseSummaries, RecordResult,
     PublishSummary, PublishSummaryWhen, RunReturns, vars, groupVars
<1>3. Closing'
  <2>1. CASE CloseBatches
    BY <1>0, <1>1, <2>1 DEF CloseBatches, CloseBatchesWhen, Closing, ProducerGone, ExporterGone,
       resultVars, statsVars
  <2>2. CASE CloseSummaries
    BY <1>0, <1>1, <2>2 DEF CloseSummaries, Closing, ProducerGone, ExporterGone, batchVars,
       statsVars
  <2>3. CASE PublishSummary
    BY <1>0, <1>1, <2>3 DEF PublishSummary, PublishSummaryWhen, Closing, ProducerGone,
       ExporterGone, batchVars, resultVars
  <2>4. CASE CancelParent \/ Expire \/ RecordResult \/ RunReturns \/ UNCHANGED vars
    BY <1>0, <1>1, <2>4 DEF CancelParent, Expire, RecordResult, RunReturns, vars, Closing,
       ProducerGone, ExporterGone, batchVars, resultVars, statsVars
  <2> QED
    BY <2>1, <2>2, <2>3, <2>4
<1>4. Causes' /\ Clients' /\ Lateness'
  BY <1>0, <1>1, <1>2 DEF Causes, Clients, Lateness
<1> QED
  BY <1>3, <1>4

LEMMA SafetyInvInductive == SafetyInv /\ [Next]_vars => SafetyInv'
<1> SUFFICES ASSUME SafetyInv, [Next]_vars PROVE SafetyInv'
  OBVIOUS
<1>1. TypeInv'
  BY TypeInvInductive DEF SafetyInv
<1>2. Closing' /\ Causes' /\ Clients' /\ Lateness'
  BY ProducerStepSafety, ExporterStepSafety, RunStepSafety DEF Next, Terminated
<1> QED
  BY <1>1, <1>2 DEF SafetyInv

\* SafetyInv holds in every state of a run.
THEOREM SafetyInvariance == Spec => []SafetyInv
  BY InitSafetyInv, SafetyInvInductive, PTL DEF Spec

\* No producer is ever about to send on a closed batchChannel, nor an exporter on a
\* closed summaryChannel, so that no worker panics.
THEOREM NoPanic == Spec => []NoSendOnClosed
<1>1. SafetyInv => NoSendOnClosed
  BY DEF SafetyInv, Closing, NoSendOnClosed, ProducerGone, ExporterGone
<1> QED
  BY <1>1, SafetyInvariance, PTL

\* Run returns "context canceled" only if its caller cancelled: the cancellation an error
\* causes in the other goroutines never takes the place of that error.
THEOREM RootCauseKept == Spec => []RootCause
<1>1. SafetyInv => RootCause
  BY DEF SafetyInv, Causes, RootCause
<1> QED
  BY <1>1, SafetyInvariance, PTL

\* When the summary is final every client that was connected has been shut down.
THEOREM NoClientLeaks == Spec => []ClientsShutDown
<1>1. SafetyInv => ClientsShutDown
  BY DEF SafetyInv, TypeInv, TypeOK, ExporterType, Closing, Clients, ClientsShutDown, ExporterGone
<1> QED
  BY <1>1, SafetyInvariance, PTL

\* A cancelled producer sends at most the batch it was generating.
THEOREM CancelledProducerStops == Spec => []OneLateBatch
<1>1. SafetyInv => OneLateBatch
  <2>1. SafetyInv => \A p \in Producers : late[p] \in {0, 1}
    BY DEF SafetyInv, Lateness
  <2>2. \A n \in {0, 1} : n <= 1
    OBVIOUS
  <2> QED
    BY <2>1, <2>2 DEF OneLateBatch
<1> QED
  BY <1>1, SafetyInvariance, PTL

-----------------------------------------------------------------------------
(* The way of a batch. *)

\* a batch that its producer has not sent yet is nowhere
Unsent ==
    \A b \in Batches : b[2] >= request[b[1]] =>
        /\ exports[b] = 0
        /\ \A i \in DOMAIN batchChannel : batchChannel[i] # b

\* a batch is in batchChannel once, and only before it is exported
QueuedOnce ==
    /\ \A i \in DOMAIN batchChannel : exports[batchChannel[i]] = 0
    /\ \A i, j \in DOMAIN batchChannel : batchChannel[i] = batchChannel[j] => i = j

Holding(e) == epc[e] \in {"export", "report"}

\* a batch is in the hands of one exporter, whose result is not known elsewhere
HeldOnce ==
    \A e \in Exporters :
        /\ Holding(e) <=> held[e] \in Batches
        /\ Holding(e) =>
            /\ exports[held[e]] = 1
            /\ \A f \in Exporters : held[f] = held[e] => f = e
            /\ \A i \in DOMAIN summaryChannel : summaryChannel[i].batch # held[e]
            /\ \A r \in recorded : r.batch # held[e]

\* a result is in summaryChannel once, and only before it is recorded
ReportedOnce ==
    /\ \A i \in DOMAIN summaryChannel :
          /\ exports[summaryChannel[i].batch] = 1
          /\ \A r \in recorded : r.batch # summaryChannel[i].batch
    /\ \A i, j \in DOMAIN summaryChannel :
          summaryChannel[i].batch = summaryChannel[j].batch => i = j

\* a batch is recorded with one result
RecordedOnce ==
    /\ \A r \in recorded : exports[r.batch] = 1
    /\ \A r, s \in recorded : r.batch = s.batch => r = s

ExportedOnce == \A b \in Batches : exports[b] \in {0, 1}

PlaceInv == Unsent /\ ExportedOnce /\ QueuedOnce /\ HeldOnce /\ ReportedOnce /\ RecordedOnce

\* the counters of Stats are about the set of recorded results
Failures(results) == {r \in results : ~r.ok}
CountInv ==
    /\ IsFiniteSet(recorded)
    /\ stats.total = Cardinality(recorded)
    /\ stats.failures = Cardinality(Failures(recorded))
    /\ stats.total = stats.successes + stats.failures

Leaving(e) == epc[e] \in {"shutdown", "returning", "done"}
Ended(err) == {e \in Exporters : eerr[e] = err}

\* an exporter has an error only when it leaves
Unended == \A e \in Exporters : ~Leaving(e) => eerr[e] = "none"

\* every exporter that was cancelled lost one batch at most, and nobody else lost any
LossInv == Cardinality(LostBatches) <= Cardinality(Ended("canceled"))

Reports == {r \in Results : \E i \in DOMAIN summaryChannel : summaryChannel[i] = r}

\* every exporter that returns an export's error has reported it, and only these
FailureInv ==
    /\ IsFiniteSet(Failures(recorded \cup Reports))
    /\ Cardinality(Failures(recorded \cup Reports)) = Cardinality(Ended("export"))

\* the error of a goroutine that ended is not forgotten, and Run's error is from one of them
ErrorsKept ==
    /\ \A p \in Producers : ppc[p] = "done" /\ perr[p] # "none" => firstErr # "none"
    /\ \A e \in Exporters : epc[e] = "done" /\ eerr[e] # "none" => firstErr # "none"
    /\ firstErr = "export" => Ended("export") # {}

\* an exporter leaves without an error only when there is no batch left, and none to come
Drained ==
    \A e \in Exporters : Leaving(e) /\ eerr[e] = "none" => batchClosed /\ batchChannel = <<>>

\* a producer ends without an error only at its limit or after the deadline
Quota ==
    /\ expired => HasDeadline
    /\ \A p \in Producers :
          ProducerGone(p) /\ perr[p] = "none" => expired \/ LimitReached(p)

\* the summary is that of all results, and Run returns after everybody has ended
SummaryFinal == summary # NoSummary => summaryChannel = <<>> /\ summary = stats
Over ==
    /\ \A p \in Producers : ppc[p] = "done"
    /\ \A e \in Exporters : epc[e] = "done"
    /\ batchClosed /\ summary # NoSummary
AllEnded == returned => Over

EndInv == ErrorsKept /\ Drained /\ Quota /\ SummaryFinal /\ AllEnded

DeliveryInv == Unended /\ PlaceInv /\ CountInv /\ LossInv /\ FailureInv /\ EndInv

-----------------------------------------------------------------------------
(* Sequences, sets and batches. *)

LEMMA AppendEntries ==
    ASSUME NEW S, NEW s \in Seq(S), NEW x \in S, NEW t, t = Append(s, x)
    PROVE  /\ DOMAIN t = DOMAIN s \cup {Len(s) + 1}
           /\ Len(s) + 1 \notin DOMAIN s
           /\ t[Len(s) + 1] = x
           /\ \A i \in DOMAIN s : t[i] = s[i]
BY AppendProperties, LenProperties

LEMMA TailEntries ==
    ASSUME NEW S, NEW s \in Seq(S), s # <<>>, NEW t, t = Tail(s)
    PROVE  /\ 1 \in DOMAIN s /\ s[1] = Head(s)
           /\ \A i \in DOMAIN t : i + 1 \in DOMAIN s /\ i + 1 # 1 /\ t[i] = s[i + 1]
           /\ \A i \in DOMAIN s : i # 1 => i - 1 \in DOMAIN t /\ t[i - 1] = s[i]
           /\ \A i, j \in DOMAIN t : i + 1 = j + 1 => i = j
<1>1. /\ t \in Seq(S) /\ Len(t) = Len(s) - 1 /\ Len(s) \in Nat \ {0}
      /\ \A i \in 1 .. Len(t) : t[i] = s[i + 1]
  BY HeadTailProperties, EmptySeq
<1>2. DOMAIN s = 1 .. Len(s) /\ DOMAIN t = 1 .. Len(t)
  BY <1>1, LenProperties
<1> QED
  BY <1>1, <1>2

\* A set without two different elements has at most one.
LEMMA AtMostOne ==
    ASSUME NEW S, \A x, y \in S : x = y
    PROVE  /\ IsFiniteSet(S)
           /\ Cardinality(S) = IF S = {} THEN 0 ELSE 1
<1>1. CASE S = {}
  BY <1>1, FS_EmptySet
<1>2. CASE S # {}
  <2>1. PICK x : S = {x}
    BY <1>2
  <2> QED
    BY <2>1, FS_Singleton
<1> QED
  BY <1>1, <1>2

LEMMA BatchParts ==
    /\ NoBatch \notin Batches
    /\ \A b \in Batches : b[1] \in Producers /\ b[2] \in 0 .. Bound - 1 /\ b = <<b[1], b[2]>>
    /\ \A p \in Producers, n \in 0 .. Bound - 1 : <<p, n>> \in Batches
BY DEF Batches, NoBatch

-----------------------------------------------------------------------------
(* Where a batch is. *)

placeVars == <<request, batchChannel, exports, held, epc, summaryChannel, recorded>>

LEMMA PlaceInit == Init => PlaceInv
<1> SUFFICES ASSUME Init PROVE PlaceInv
  OBVIOUS
<1>1. /\ request = [p \in Producers |-> 0] /\ exports = [b \in Batches |-> 0]
      /\ held = [e \in Exporters |-> NoBatch] /\ epc = [e \in Exporters |-> "init"]
      /\ batchChannel = <<>> /\ summaryChannel = <<>> /\ recorded = {}
  BY DEF Init
<1>2. DOMAIN batchChannel = {} /\ DOMAIN summaryChannel = {}
  BY <1>1
<1>3. Unsent /\ ExportedOnce /\ QueuedOnce /\ ReportedOnce /\ RecordedOnce
  BY <1>1, <1>2 DEF Unsent, ExportedOnce, QueuedOnce, ReportedOnce, RecordedOnce
<1>4. HeldOnce
  BY <1>1, BatchParts DEF HeldOnce, Holding
<1> QED
  BY <1>3, <1>4 DEF PlaceInv

\* The batch that a producer sends was nowhere.
LEMMA SendPlace ==
    ASSUME TypeInv, PlaceInv, NEW p \in Producers, Send(p),
           UNCHANGED <<exports, held, epc, summaryChannel, recorded>>
    PROVE  PlaceInv'
<1> DEFINE b == <<p, request[p]>>
<1>1. /\ b \in Batches /\ b[1] = p /\ b[2] = request[p] /\ request[p] \in Nat
      /\ batchChannel \in Seq(Batches) /\ request \in [Producers -> 0 .. Bound]
  <2>1. /\ batchChannel \in Seq(Batches) /\ request \in [Producers -> 0 .. Bound]
        /\ request[p] < Bound
    BY DEF TypeInv, TypeOK, ChannelType, ProducerType, Located, Send
  <2>2. request[p] \in 0 .. Bound - 1
    BY <2>1, BoundsAreNat
  <2> QED
    BY <2>1, <2>2, BatchParts
<1>2. /\ batchChannel' = Append(batchChannel, b)
      /\ request' = [request EXCEPT ![p] = @ + 1]
  BY DEF Send, NextRequest
<1>3. /\ DOMAIN batchChannel' = DOMAIN batchChannel \cup {Len(batchChannel) + 1}
      /\ Len(batchChannel) + 1 \notin DOMAIN batchChannel
      /\ batchChannel'[Len(batchChannel) + 1] = b
      /\ \A i \in DOMAIN batchChannel : batchChannel'[i] = batchChannel[i]
  BY <1>1, <1>2, AppendEntries
<1>4. exports[b] = 0 /\ \A i \in DOMAIN batchChannel : batchChannel[i] # b
  BY <1>1 DEF PlaceInv, Unsent
<1>5. Unsent'
  <2>1. \A c \in Batches : c[2] >= request'[c[1]] => c[2] >= request[c[1]] /\ c # b
    <3> SUFFICES ASSUME NEW c \in Batches, c[2] >= request'[c[1]]
                 PROVE  c[2] >= request[c[1]] /\ c # b
      OBVIOUS
    <3>1. c[1] \in Producers /\ c[2] \in Nat /\ request[c[1]] \in Nat
      BY <1>1, BatchParts, BoundsAreNat
    <3>2. CASE c[1] = p
      BY <1>1, <1>2, <3>1, <3>2
    <3>3. CASE c[1] # p
      BY <1>1, <1>2, <3>1, <3>3
    <3> QED
      BY <3>2, <3>3
  <2> QED
    BY <1>3, <2>1 DEF PlaceInv, Unsent
<1>6. QueuedOnce'
  BY <1>3, <1>4 DEF PlaceInv, QueuedOnce
<1>7. ExportedOnce' /\ HeldOnce' /\ ReportedOnce' /\ RecordedOnce'
  BY DEF PlaceInv, ExportedOnce, HeldOnce, Holding, ReportedOnce, RecordedOnce
<1> QED
  BY <1>5, <1>6, <1>7 DEF PlaceInv

\* An exporter takes a batch out of the channel for the first time.
LEMMA ReceivePlace ==
    ASSUME TypeInv, PlaceInv, NEW e \in Exporters, Receive(e),
           UNCHANGED <<request, recorded>>
    PROVE  PlaceInv'
<1> DEFINE b == Head(batchChannel)
<1>1. /\ batchChannel \in Seq(Batches) /\ b \in Batches /\ batchChannel # <<>>
      /\ exports \in [Batches -> Nat]
      /\ held \in [Exporters -> Batches \cup {NoBatch}] /\ epc[e] = "recv"
      /\ DOMAIN epc = Exporters
  BY HeadTailProperties
     DEF TypeInv, TypeOK, ChannelType, ExporterType, StatsType, Receive
<1>2. /\ batchChannel' = Tail(batchChannel)
      /\ held' = [held EXCEPT ![e] = b] /\ epc' = [epc EXCEPT ![e] = "export"]
      /\ exports' = [exports EXCEPT ![b] = @ + 1] /\ UNCHANGED summaryChannel
  BY DEF Receive, ExporterTo, resultVars
<1>3. /\ 1 \in DOMAIN batchChannel /\ batchChannel[1] = b
      /\ \A i \in DOMAIN batchChannel' :
            i + 1 \in DOMAIN batchChannel /\ i + 1 # 1 /\ batchChannel'[i] = batchChannel[i + 1]
      /\ \A i, j \in DOMAIN batchChannel' : i + 1 = j + 1 => i = j
  BY <1>1, <1>2, TailEntries
<1>4. /\ exports[b] = 0 /\ exports'[b] = 1
      /\ \A c \in Batches : c # b => exports'[c] = exports[c]
  BY <1>1, <1>2, <1>3 DEF PlaceInv, QueuedOnce
<1>5. \A i \in DOMAIN batchChannel' : batchChannel'[i] \in Batches /\ batchChannel'[i] # b
  <2> SUFFICES ASSUME NEW i \in DOMAIN batchChannel'
               PROVE  batchChannel'[i] \in Batches /\ batchChannel'[i] # b
    OBVIOUS
  <2>1. batchChannel[i + 1] \in Batches
    BY <1>1, <1>3, LenProperties
  <2> QED
    BY <1>3, <2>1 DEF PlaceInv, QueuedOnce
<1>6. Unsent'
  <2>1. b[2] < request[b[1]] \/ ~(b[2] >= request[b[1]])
    BY <1>1, <1>3 DEF PlaceInv, Unsent
  <2> QED
    BY <1>1, <1>3, <1>4, <2>1 DEF PlaceInv, Unsent
<1>7. QueuedOnce'
  BY <1>3, <1>4, <1>5 DEF PlaceInv, QueuedOnce
<1>8. /\ \A f \in Exporters : Holding(f) => held[f] \in Batches /\ held[f] # b
      /\ \A i \in DOMAIN summaryChannel :
            summaryChannel[i].batch # b /\ summaryChannel[i].batch \in Batches
      /\ \A r \in recorded : r.batch # b /\ r.batch \in Batches
  <2>1. \A i \in DOMAIN summaryChannel : summaryChannel[i] \in Results
    BY LenProperties DEF TypeInv, TypeOK, ChannelType
  <2>2. recorded \subseteq Results
    BY DEF TypeInv, TypeOK, StatsType
  <2> QED
    BY <1>4, <2>1, <2>2 DEF PlaceInv, HeldOnce, ReportedOnce, RecordedOnce, Results
<1>9. HeldOnce'
  <2>1. \A f \in Exporters : f # e => held'[f] = held[f] /\ Holding(f)' = Holding(f)
    BY <1>1, <1>2 DEF Holding
  <2>2. held'[e] = b /\ Holding(e)'
    BY <1>1, <1>2 DEF Holding
  <2>3. ASSUME NEW f \in Exporters, f # e, Holding(f)
        PROVE  \A g \in Exporters : held'[g] = held'[f] => g = f
    BY <1>8, <2>1, <2>2, <2>3 DEF PlaceInv, HeldOnce
  <2>4. \A g \in Exporters : held[g] # b
    BY <1>1, <1>8 DEF PlaceInv, HeldOnce
  <2> QED
    BY <1>1, <1>2, <1>4, <1>8, <2>1, <2>2, <2>3, <2>4 DEF PlaceInv, HeldOnce
<1>10. ExportedOnce' /\ ReportedOnce' /\ RecordedOnce'
  BY <1>2, <1>4, <1>8 DEF PlaceInv, ExportedOnce, ReportedOnce, RecordedOnce
<1> QED
  BY <1>6, <1>7, <1>9, <1>10 DEF PlaceInv

\* An exporter hands the result of its batch over.
LEMMA ReportPlace ==
    ASSUME TypeInv, PlaceInv, NEW e \in Exporters, Report(e),
           UNCHANGED <<request, recorded>>
    PROVE  PlaceInv'
<1> DEFINE r == [batch |-> held[e], ok |-> exportOk[e]]
<1>1. /\ summaryChannel \in Seq(Results) /\ Holding(e) /\ held[e] \in Batches
      /\ held \in [Exporters -> Batches \cup {NoBatch}] /\ DOMAIN epc = Exporters
      /\ r \in Results /\ r.batch = held[e]
  BY DEF TypeInv, TypeOK, ChannelType, ExporterType, Located, Report, Holding, Results
<1>2. /\ summaryChannel' = Append(summaryChannel, r)
      /\ held' = [held EXCEPT ![e] = NoBatch] /\ UNCHANGED <<exports, batchChannel>>
      /\ \A f \in Exporters : f # e => epc'[f] = epc[f]
      /\ epc'[e] \in {"recv", "shutdown"}
  BY <1>1 DEF Report, ExporterTo, ExporterReturns, batchVars
<1>3. /\ DOMAIN summaryChannel' = DOMAIN summaryChannel \cup {Len(summaryChannel) + 1}
      /\ Len(summaryChannel) + 1 \notin DOMAIN summaryChannel
      /\ summaryChannel'[Len(summaryChannel) + 1] = r
      /\ \A i \in DOMAIN summaryChannel : summaryChannel'[i] = summaryChannel[i]
  BY <1>1, <1>2, AppendEntries
<1>4. /\ exports[held[e]] = 1
      /\ \A i \in DOMAIN summaryChannel : summaryChannel[i].batch # held[e]
      /\ \A s \in recorded : s.batch # held[e]
  BY <1>1 DEF PlaceInv, HeldOnce
<1>5. Unsent' /\ ExportedOnce' /\ QueuedOnce' /\ RecordedOnce'
  BY <1>2 DEF PlaceInv, Unsent, ExportedOnce, QueuedOnce, RecordedOnce
<1>6. ReportedOnce'
  BY <1>1, <1>2, <1>3, <1>4 DEF PlaceInv, ReportedOnce
<1>7. HeldOnce'
  <2>1. \A f \in Exporters : f # e =>
            /\ held'[f] = held[f] /\ (Holding(f)' <=> Holding(f))
            /\ Holding(f) => held[f] # held[e]
    BY <1>1, <1>2 DEF Holding, PlaceInv, HeldOnce
  <2>2. ~Holding(e)' /\ held'[e] \notin Batches
    BY <1>1, <1>2, BatchParts DEF Holding
  <2> QED
    BY <1>1, <1>2, <1>3, <2>1, <2>2 DEF PlaceInv, HeldOnce
<1> QED
  BY <1>5, <1>6, <1>7 DEF PlaceInv

\* A cancelled exporter drops the batch it holds.
LEMMA CancelPlace ==
    ASSUME TypeInv, PlaceInv, NEW e \in Exporters, ExporterCancelled(e),
           UNCHANGED <<request, recorded>>
    PROVE  PlaceInv'
<1>1. /\ held \in [Exporters -> Batches \cup {NoBatch}] /\ DOMAIN epc = Exporters
  BY DEF TypeInv, TypeOK, ExporterType
<1>2. /\ held' = [held EXCEPT ![e] = NoBatch] /\ epc' = [epc EXCEPT ![e] = "shutdown"]
      /\ UNCHANGED <<exports, batchChannel, summaryChannel>>
  BY DEF ExporterCancelled, ExporterCancelledAt, ExporterReturns, batchVars, resultVars
<1>3. Unsent' /\ ExportedOnce' /\ QueuedOnce' /\ RecordedOnce' /\ ReportedOnce'
  BY <1>2 DEF PlaceInv, Unsent, ExportedOnce, QueuedOnce, RecordedOnce, ReportedOnce
<1>4. HeldOnce'
  <2>1. \A f \in Exporters : f # e => held'[f] = held[f] /\ (Holding(f)' <=> Holding(f))
    BY <1>1, <1>2 DEF Holding
  <2>2. ~Holding(e)' /\ held'[e] \notin Batches
    BY <1>1, <1>2, BatchParts DEF Holding
  <2> QED
    BY <1>1, <1>2, <2>1, <2>2 DEF PlaceInv, HeldOnce
<1> QED
  BY <1>3, <1>4 DEF PlaceInv

\* A result leaves the channel for the statistics.
LEMMA RecordPlace ==
    ASSUME TypeInv, PlaceInv, RecordResult
    PROVE  PlaceInv'
<1> DEFINE r == Head(summaryChannel)
<1>1. /\ summaryChannel \in Seq(Results) /\ summaryChannel # <<>>
      /\ summaryChannel' = Tail(summaryChannel) /\ recorded' = recorded \cup {r}
      /\ UNCHANGED <<request, exports, batchChannel, held, epc>>
  BY DEF TypeInv, TypeOK, ChannelType, RecordResult, producerVars, exporterVars, batchVars,
         historyVars
<1>2. /\ 1 \in DOMAIN summaryChannel /\ summaryChannel[1] = r
      /\ \A i \in DOMAIN summaryChannel' :
            /\ i + 1 \in DOMAIN summaryChannel /\ i + 1 # 1
            /\ summaryChannel'[i] = summaryChannel[i + 1]
      /\ \A i, j \in DOMAIN summaryChannel' : i + 1 = j + 1 => i = j
  BY <1>1, TailEntries
<1>3. /\ exports[r.batch] = 1
      /\ \A s \in recorded : s.batch # r.batch
      /\ \A i \in DOMAIN summaryChannel' : summaryChannel'[i].batch # r.batch
  BY <1>2 DEF PlaceInv, ReportedOnce
<1>4. Unsent' /\ ExportedOnce' /\ QueuedOnce'
  BY <1>1 DEF PlaceInv, Unsent, ExportedOnce, QueuedOnce
<1>5. ReportedOnce'
  BY <1>1, <1>2, <1>3 DEF PlaceInv, ReportedOnce
<1>6. RecordedOnce'
  BY <1>1, <1>3 DEF PlaceInv, RecordedOnce
<1>7. HeldOnce'
  <2>1. \A f \in Exporters : Holding(f)' <=> Holding(f)
    BY <1>1 DEF Holding
  <2> QED
    BY <1>1, <1>2, <2>1 DEF PlaceInv, HeldOnce
<1> QED
  BY <1>4, <1>5, <1>6, <1>7 DEF PlaceInv

\* Other steps move no batch; a producer may go on to its next request.
LEMMA OtherPlace ==
    ASSUME TypeInv, PlaceInv, UNCHANGED <<batchChannel, exports, held, summaryChannel, recorded>>,
           \A p \in Producers : request'[p] >= request[p] /\ request'[p] \in Nat,
           \A e \in Exporters : Holding(e)' <=> Holding(e)
    PROVE  PlaceInv'
<1>1. Unsent'
  <2>1. \A b \in Batches : b[2] >= request'[b[1]] => b[2] >= request[b[1]]
    <3> SUFFICES ASSUME NEW b \in Batches, b[2] >= request'[b[1]]
                 PROVE  b[2] >= request[b[1]]
      OBVIOUS
    <3>1. b[1] \in Producers /\ b[2] \in Nat
      BY BatchParts, BoundsAreNat
    <3>2. request[b[1]] \in Nat
      BY <3>1, BoundsAreNat DEF TypeInv, TypeOK, ProducerType
    <3>3. request'[b[1]] \in Nat /\ request'[b[1]] >= request[b[1]]
      BY <3>1
    <3> QED
      BY <3>1, <3>2, <3>3
  <2> QED
    BY <2>1 DEF PlaceInv, Unsent
<1>2. ExportedOnce' /\ QueuedOnce' /\ RecordedOnce' /\ ReportedOnce'
  BY DEF PlaceInv, ExportedOnce, QueuedOnce, RecordedOnce, ReportedOnce
<1>3. HeldOnce'
  BY DEF PlaceInv, HeldOnce
<1> QED
  BY <1>1, <1>2, <1>3 DEF PlaceInv

-----------------------------------------------------------------------------
(* What a step does to the batches. *)

counted == <<recorded, stats>>
moved   == <<batchChannel, exports, held, summaryChannel, counted>>

\* a step that moves no batch: a producer may go on to its next request, and an exporter
\* may end without having been cancelled and without a failed export
Idle ==
    /\ UNCHANGED moved
    /\ \A p \in Producers : request'[p] \in Nat /\ request'[p] >= request[p]
    /\ \A e \in Exporters : Holding(e)' <=> Holding(e)
    /\ Ended("canceled")' = Ended("canceled") /\ Ended("export")' = Ended("export")

\* the steps that may move a batch
Moving ==
    \/ \E p \in Producers :
          Send(p) /\ UNCHANGED <<exports, held, epc, eerr, summaryChannel, counted>>
    \/ \E e \in Exporters :
          (Receive(e) \/ Report(e) \/ ExporterCancelled(e)) /\ UNCHANGED <<request, counted>>
    \/ RecordResult

LEMMA ProducerMoves ==
    ASSUME TypeInv, NEW p \in Producers, ProducerStep(p)
    PROVE  Idle \/ Moving
<1>1. UNCHANGED <<exports, held, epc, eerr, summaryChannel, counted>>
  BY DEF ProducerStep, exporterVars, resultVars, statsVars, counted
<1>2. CASE Send(p)
  BY <1>1, <1>2 DEF Moving
<1>3. CASE UNCHANGED batchChannel
          /\ \A q \in Producers : request'[q] \in Nat /\ request'[q] >= request[q]
  BY <1>1, <1>3 DEF Idle, moved, Holding, Ended
<1>4. CASE ProcessEmpty(p)
  <2>1. request \in [Producers -> Nat]
    BY BoundsAreNat DEF TypeInv, TypeOK, ProducerType
  <2>2. request' = [request EXCEPT ![p] = @ + 1] /\ UNCHANGED batchChannel
    BY <1>4 DEF ProcessEmpty, NextRequest, batchVars
  <2> QED
    BY <1>3, <2>1, <2>2
<1>5. CASE UNCHANGED <<batchChannel, request>>
  <2>1. \A q \in Producers : request[q] \in Nat
    BY BoundsAreNat DEF TypeInv, TypeOK, ProducerType
  <2> QED
    BY <1>3, <1>5, <2>1
<1> QED
  BY <1>2, <1>4, <1>5
     DEF ProducerStep, RampUpOver, IntervalOver, CheckEnd, CheckGo, BeginRequest, ProcessBatch,
         ProcessFails, ProducerCancelled, ProducerCancelledAt, ProducerDone, batchVars

LEMMA ExporterMoves ==
    ASSUME TypeInv, Unended, NEW e \in Exporters, ExporterStep(e)
    PROVE  Unended' /\ (Idle \/ Moving)
<1>0. /\ epc \in [Exporters -> {"init", "recv", "export", "report", "shutdown",
                                "returning", "done"}]
      /\ eerr \in [Exporters -> {"none", "canceled", "init", "export"}]
      /\ UNCHANGED <<request, counted>>
      /\ \A p \in Producers : request[p] \in Nat
  BY BoundsAreNat
     DEF TypeInv, TypeOK, ExporterType, ProducerType, ExporterStep, producerVars, statsVars,
         counted
<1>1. CASE Receive(e) \/ Report(e) \/ ExporterCancelled(e)
  <2>1. Unended'
    BY <1>0, <1>1 DEF Receive, Report, ExporterCancelled, ExporterCancelledAt, ExporterTo,
                      ExporterReturns, Unended, Leaving
  <2> QED
    BY <1>0, <1>1, <2>1 DEF Moving
<1>2. ASSUME UNCHANGED <<batchChannel, exports, held, summaryChannel>>,
             \A f \in Exporters : Holding(f)' <=> Holding(f),
             \A f \in Exporters, err \in {"canceled", "export"} :
                eerr'[f] = err <=> eerr[f] = err
      PROVE  Idle
  BY <1>0, <1>2 DEF Idle, moved, Ended
<1> USE <1>0 DEF ExporterTo, ExporterReturns, Unended, Leaving, Holding, batchVars, resultVars
<1>3. CASE NewExporter(e)
  BY <1>2, <1>3 DEF NewExporter
<1>4. CASE NewExporterFails(e)
  BY <1>2, <1>4 DEF NewExporterFails
<1>5. CASE ReceiveClosed(e)
  BY <1>2, <1>5 DEF ReceiveClosed
<1>6. CASE ExportReturns(e)
  BY <1>2, <1>6 DEF ExportReturns
<1>7. CASE Shutdown(e)
  BY <1>2, <1>7 DEF Shutdown
<1>8. CASE ExporterDone(e)
  BY <1>2, <1>8 DEF ExporterDone
<1> QED
  BY <1>1, <1>3, <1>4, <1>5, <1>6, <1>7, <1>8 DEF ExporterStep

LEMMA Moves ==
    ASSUME TypeInv, Unended, [Next]_vars
    PROVE  Unended' /\ (Idle \/ Moving)
<1>1. CASE \E p \in Producers : ProducerStep(p)
  BY <1>1, ProducerMoves DEF ProducerStep, exporterVars, Unended, Leaving
<1>2. CASE \E e \in Exporters : ExporterStep(e)
  BY <1>2, ExporterMoves
<1>3. CASE RecordResult
  BY <1>3 DEF RecordResult, exporterVars, Unended, Leaving, Moving
<1>4. CASE CancelParent \/ Expire \/ CloseBatches \/ CloseSummaries \/ PublishSummary
           \/ RunReturns \/ Terminated \/ UNCHANGED vars
  <2>1. UNCHANGED <<batchChannel, exports, held, summaryChannel, recorded, stats, request,
                    epc, eerr>>
    BY <1>4 DEF CancelParent, Expire, CloseBatches, CloseBatchesWhen, CloseSummaries,
                PublishSummary, PublishSummaryWhen, RunReturns, Terminated, vars, batchVars,
                historyVars, exporterVars, resultVars, statsVars, producerVars
  <2>2. \A p \in Producers : request[p] \in Nat
    BY BoundsAreNat DEF TypeInv, TypeOK, ProducerType
  <2> QED
    BY <2>1, <2>2 DEF Idle, moved, counted, Ended, Holding, Unended, Leaving
<1> QED
  BY <1>1, <1>2, <1>3, <1>4 DEF Next

LEMMA PlaceStep ==
    ASSUME TypeInv, PlaceInv, Idle \/ Moving
    PROVE  PlaceInv'
<1>1. CASE Idle
  BY <1>1, OtherPlace DEF Idle, moved, counted
<1>2. CASE Moving
  BY <1>2, SendPlace, ReceivePlace, ReportPlace, CancelPlace, RecordPlace DEF Moving, counted
<1> QED
  BY <1>1, <1>2

-----------------------------------------------------------------------------
(* What is counted. *)

LEMMA CountStep ==
    ASSUME TypeInv, PlaceInv, CountInv, Idle \/ Moving
    PROVE  CountInv'
<1>1. CASE UNCHANGED counted
  BY <1>1 DEF CountInv, counted, Failures
<1>2. CASE RecordResult
  <2> DEFINE r == Head(summaryChannel)
  <2>1. /\ recorded' = recorded \cup {r} /\ stats' = Count(stats, r.ok)
        /\ stats \in Counters /\ r \in Results /\ r \notin recorded
    <3>1. summaryChannel \in Seq(Results) /\ summaryChannel # <<>>
      BY <1>2 DEF TypeInv, TypeOK, ChannelType, RecordResult
    <3>2. 1 \in DOMAIN summaryChannel /\ summaryChannel[1] = r /\ r \in Results
      BY <3>1, TailEntries, HeadTailProperties
    <3> QED
      BY <1>2, <3>2 DEF RecordResult, TypeInv, TypeOK, StatsType, PlaceInv, ReportedOnce
  <2>2. r.ok \in BOOLEAN
    BY <2>1 DEF Results
  <2>3. /\ IsFiniteSet(Failures(recorded))
        /\ Failures(recorded') = IF r.ok THEN Failures(recorded) ELSE Failures(recorded) \cup {r}
        /\ r \notin Failures(recorded)
    BY <2>1, <2>2, FS_Subset DEF Failures, CountInv
  <2>4. /\ IsFiniteSet(recorded) /\ Cardinality(recorded) \in Nat
        /\ Cardinality(Failures(recorded)) \in Nat
    BY <2>3, FS_CardinalityType DEF CountInv
  <2>5. IsFiniteSet(recorded') /\ Cardinality(recorded') = Cardinality(recorded) + 1
    BY <2>1, <2>4, FS_AddElement
  <2>6. /\ stats'.total = stats.total + 1
        /\ stats'.successes = stats.successes + (IF r.ok THEN 1 ELSE 0)
        /\ stats'.failures = stats.failures + (IF r.ok THEN 0 ELSE 1)
        /\ stats.total \in Nat /\ stats.successes \in Nat /\ stats.failures \in Nat
    BY <2>1 DEF Count, Counters
  <2>7. CASE r.ok
    <3>1. Failures(recorded') = Failures(recorded)
      BY <2>3, <2>7
    <3>2. /\ stats'.total = stats.total + 1 /\ stats'.successes = stats.successes + 1
          /\ stats'.failures = stats.failures
      BY <2>6, <2>7
    <3>3. stats'.total = Cardinality(recorded')
      BY <2>4, <2>5, <3>2 DEF CountInv
    <3>4. stats'.failures = Cardinality(Failures(recorded'))
      BY <2>4, <3>1, <3>2 DEF CountInv
    <3>5. stats'.total = stats'.successes + stats'.failures
      BY <2>6, <3>2 DEF CountInv
    <3> QED
      BY <2>5, <3>3, <3>4, <3>5 DEF CountInv, Failures
  <2>8. CASE ~r.ok
    <3>1. Cardinality(Failures(recorded')) = Cardinality(Failures(recorded)) + 1
      BY <2>3, <2>8, FS_AddElement
    <3>2. /\ stats'.total = stats.total + 1 /\ stats'.successes = stats.successes
          /\ stats'.failures = stats.failures + 1
      BY <2>6, <2>8
    <3>3. stats'.total = Cardinality(recorded')
      BY <2>4, <2>5, <3>2 DEF CountInv
    <3>4. stats'.failures = Cardinality(Failures(recorded'))
      BY <2>4, <3>1, <3>2 DEF CountInv
    <3>5. stats'.total = stats'.successes + stats'.failures
      BY <2>6, <3>2 DEF CountInv
    <3> QED
      BY <2>5, <3>3, <3>4, <3>5 DEF CountInv, Failures
  <2> QED
    BY <2>7, <2>8
<1> QED
  BY <1>1, <1>2 DEF Idle, Moving, moved

LEMMA Finiteness ==
    /\ IsFiniteSet(Batches)
    /\ \A err : IsFiniteSet(Ended(err)) /\ IsFiniteSet(Ended(err)')
    /\ \A err : Cardinality(Ended(err)) \in Nat /\ Cardinality(Ended(err)) <= Cardinality(Exporters)
    /\ IsFiniteSet(LostBatches) /\ IsFiniteSet(LostBatches')
<1>1. IsFiniteSet(0 .. Bound - 1)
  BY BoundsAreNat, FS_Interval
<1>2. IsFiniteSet(Batches)
  BY <1>1, PipelineAssumption, FS_Product DEF Batches
<1>3. \A err : Ended(err) \subseteq Exporters /\ Ended(err)' \subseteq Exporters
  BY DEF Ended
<1>4. LostBatches \subseteq Batches /\ LostBatches' \subseteq Batches
  BY DEF LostBatches
<1> QED
  BY <1>2, <1>3, <1>4, PipelineAssumption, FS_Subset, FS_CardinalityType

-----------------------------------------------------------------------------
(* What is lost. *)

\* An exported batch is lost when no exporter holds it and no result of it is left.
Tracked(b) ==
    \/ \E e \in Exporters : held[e] = b
    \/ \E i \in DOMAIN summaryChannel : summaryChannel[i].batch = b
    \/ \E r \in recorded : r.batch = b

Untracked == {b \in Batches : exports[b] > 0 /\ ~Tracked(b)}

LEMMA LostAreUntracked == TypeInv /\ CountInv => LostBatches = Untracked
<1> SUFFICES ASSUME TypeInv, CountInv, NEW b \in Batches
             PROVE  /\ Carriers(b) = {} <=> ~\E e \in Exporters : held[e] = b
                    /\ Reported(b) = 0 <=>
                          ~\E i \in DOMAIN summaryChannel : summaryChannel[i].batch = b
                    /\ Recorded(b) = 0 <=> ~\E r \in recorded : r.batch = b
  BY DEF LostBatches, Untracked, Tracked
<1> DEFINE I == {i \in DOMAIN summaryChannel : summaryChannel[i].batch = b}
           R == {r \in recorded : r.batch = b}
<1>1. DOMAIN summaryChannel = 1 .. Len(summaryChannel) /\ Len(summaryChannel) \in Nat
  BY LenProperties DEF TypeInv, TypeOK, ChannelType
<1>2. I \subseteq 1 .. Len(summaryChannel)
  BY <1>1
<1>3. IsFiniteSet(I)
  <2>1. IsFiniteSet(1 .. Len(summaryChannel))
    BY <1>1, FS_Interval
  <2> QED
    BY <1>2, <2>1, FS_Subset
<1>4. R \subseteq recorded /\ IsFiniteSet(recorded)
  BY DEF CountInv
<1>5. IsFiniteSet(R)
  BY <1>4, FS_Subset
<1>6. Reported(b) = 0 <=> I = {}
  BY <1>3, FS_EmptySet DEF Reported
<1>7. Recorded(b) = 0 <=> R = {}
  BY <1>5, FS_EmptySet DEF Recorded
<1>8. Carriers(b) = {} <=> ~\E e \in Exporters : held[e] = b
  BY DEF Carriers
<1> QED
  BY <1>6, <1>7, <1>8

LEMMA LostAreUntrackedNext == (TypeInv /\ CountInv => LostBatches = Untracked)'
BY LostAreUntracked, PTL

LEMMA LostLess ==
    ASSUME LossInv, LostBatches' \subseteq LostBatches,
           Ended("canceled") \subseteq Ended("canceled")'
    PROVE  LossInv'
<1>1. /\ Cardinality(LostBatches') <= Cardinality(LostBatches)
      /\ Cardinality(Ended("canceled")) <= Cardinality(Ended("canceled")')
      /\ Cardinality(LostBatches') \in Nat /\ Cardinality(LostBatches) \in Nat
      /\ Cardinality(Ended("canceled")) \in Nat /\ Cardinality(Ended("canceled")') \in Nat
  BY Finiteness, FS_Subset, FS_CardinalityType
<1>2. Cardinality(LostBatches') <= Cardinality(Ended("canceled")')
  BY <1>1 DEF LossInv
<1> QED
  BY <1>2 DEF LossInv, LostBatches, Carriers, Reported, Recorded, Ended

\* A cancelled exporter loses the batch it holds, if it holds one.
LEMMA LostByCancel ==
    ASSUME LossInv, NEW b, LostBatches' \subseteq LostBatches \cup {b},
           NEW e \in Exporters, e \notin Ended("canceled"),
           Ended("canceled")' = Ended("canceled") \cup {e}
    PROVE  LossInv'
<1>1. /\ Cardinality(LostBatches') <= Cardinality(LostBatches) + 1
      /\ Cardinality(LostBatches') \in Nat /\ Cardinality(LostBatches) \in Nat
  <2>1. /\ IsFiniteSet(LostBatches \cup {b})
        /\ Cardinality(LostBatches \cup {b}) <= Cardinality(LostBatches) + 1
        /\ Cardinality(LostBatches) \in Nat
    <3>1. IsFiniteSet(LostBatches)
      BY Finiteness
    <3>2. CASE b \in LostBatches
      <4>1. LostBatches \cup {b} = LostBatches
        BY <3>2
      <4>2. Cardinality(LostBatches) \in Nat
        BY <3>1, FS_CardinalityType
      <4>3. Cardinality(LostBatches) <= Cardinality(LostBatches) + 1
        BY <4>2
      <4> QED
        BY <3>1, <4>1, <4>2, <4>3
    <3>3. CASE b \notin LostBatches
      <4>1. /\ IsFiniteSet(LostBatches \cup {b})
            /\ Cardinality(LostBatches \cup {b}) = Cardinality(LostBatches) + 1
        BY <3>1, <3>3, FS_AddElement
      <4> QED
        BY <3>1, <4>1, FS_CardinalityType
    <3> QED
      BY <3>2, <3>3
  <2>2. /\ Cardinality(LostBatches') <= Cardinality(LostBatches \cup {b})
        /\ Cardinality(LostBatches') \in Nat /\ Cardinality(LostBatches \cup {b}) \in Nat
    BY <2>1, Finiteness, FS_Subset, FS_CardinalityType
  <2> QED
    BY <2>1, <2>2
<1>2. /\ Cardinality(Ended("canceled")') = Cardinality(Ended("canceled")) + 1
      /\ Cardinality(Ended("canceled")) \in Nat
  BY Finiteness, FS_AddElement
<1>3. Cardinality(LostBatches') <= Cardinality(Ended("canceled")')
  BY <1>1, <1>2 DEF LossInv
<1> QED
  BY <1>3 DEF LossInv, LostBatches, Carriers, Reported, Recorded, Ended

LEMMA LossStep ==
    ASSUME TypeInv, TypeInv', Unended, PlaceInv, CountInv, CountInv', LossInv, Idle \/ Moving
    PROVE  LossInv'
<1>0. /\ LostBatches = Untracked /\ LostBatches' = Untracked'
      /\ held \in [Exporters -> Batches \cup {NoBatch}] /\ DOMAIN eerr = Exporters
      /\ summaryChannel \in Seq(Results)
      /\ exports \in [Batches -> Nat]
  BY LostAreUntracked, LostAreUntrackedNext
     DEF TypeInv, TypeOK, ChannelType, ExporterType, StatsType
<1>1. CASE UNCHANGED <<exports, held, summaryChannel, recorded>>
           /\ Ended("canceled")' = Ended("canceled")
  <2>1. LostBatches' = LostBatches
    BY <1>1 DEF LostBatches, Carriers, Reported, Recorded
  <2> QED
    BY <1>1, <2>1, LostLess
<1>2. ASSUME \A b \in Batches : Tracked(b) => Tracked(b)',
             \A b \in Batches : exports'[b] > 0 => exports[b] > 0 \/ Tracked(b)',
             Ended("canceled") \subseteq Ended("canceled")'
      PROVE  LossInv'
  <2>1. Untracked' \subseteq Untracked
    BY <1>2 DEF Untracked
  <2> QED
    BY <1>0, <1>2, <2>1, LostLess
<1>3. CASE Idle
  BY <1>1, <1>3 DEF Idle, moved, counted
<1>4. ASSUME NEW p \in Producers, Send(p),
             UNCHANGED <<exports, held, epc, eerr, summaryChannel, counted>>
      PROVE  LossInv'
  BY <1>1, <1>4 DEF counted, Ended
<1>5. ASSUME NEW e \in Exporters, Receive(e), UNCHANGED counted
      PROVE  LossInv'
  <2> DEFINE b == Head(batchChannel)
  <2>1. /\ held' = [held EXCEPT ![e] = b] /\ exports' = [exports EXCEPT ![b] = @ + 1]
        /\ UNCHANGED <<summaryChannel, recorded, eerr>> /\ epc[e] = "recv"
    BY <1>5 DEF Receive, ExporterTo, resultVars, counted
  <2>2. held[e] \notin Batches
    BY <2>1 DEF PlaceInv, HeldOnce, Holding
  <2>3. \A c \in Batches : Tracked(c) => Tracked(c)'
    BY <1>0, <2>1, <2>2 DEF Tracked
  <2>4. \A c \in Batches : Tracked(c)' \/ exports'[c] = exports[c]
    BY <1>0, <2>1 DEF Tracked
  <2> QED
    BY <1>2, <2>1, <2>3, <2>4 DEF Ended
<1>6. ASSUME NEW e \in Exporters, Report(e), UNCHANGED counted
      PROVE  LossInv'
  <2> DEFINE r == [batch |-> held[e], ok |-> exportOk[e]]
  <2>1. /\ held' = [held EXCEPT ![e] = NoBatch] /\ summaryChannel' = Append(summaryChannel, r)
        /\ UNCHANGED <<exports, recorded>> /\ epc[e] = "report"
        /\ eerr' = eerr \/ eerr' = [eerr EXCEPT ![e] = "export"]
    BY <1>6 DEF Report, ExporterTo, ExporterReturns, batchVars, counted
  <2>2. r \in Results
    BY <2>1 DEF Results, TypeInv, TypeOK, ExporterType, Located
  <2>3. /\ DOMAIN summaryChannel' = DOMAIN summaryChannel \cup {Len(summaryChannel) + 1}
        /\ summaryChannel'[Len(summaryChannel) + 1] = r
        /\ \A i \in DOMAIN summaryChannel : summaryChannel'[i] = summaryChannel[i]
    BY <1>0, <2>1, <2>2, AppendEntries
  <2>4. \A c \in Batches : Tracked(c) => Tracked(c)'
    <3>1. \A c : c = held[e] => Tracked(c)'
      BY <2>3 DEF Tracked
    <3>2. \A c : c # held[e] /\ Tracked(c) => Tracked(c)'
      BY <1>0, <2>1, <2>3 DEF Tracked
    <3> QED
      BY <3>1, <3>2
  <2>5. Ended("canceled") \subseteq Ended("canceled")'
    <3>1. eerr[e] = "none"
      BY <2>1 DEF Unended, Leaving
    <3> QED
      BY <1>0, <2>1, <3>1 DEF Ended
  <2> QED
    BY <1>2, <2>1, <2>4, <2>5
<1>7. ASSUME NEW e \in Exporters, ExporterCancelled(e), UNCHANGED counted
      PROVE  LossInv'
  <2>1. /\ held' = [held EXCEPT ![e] = NoBatch] /\ epc[e] \in {"recv", "report"}
        /\ eerr' = [eerr EXCEPT ![e] = "canceled"]
        /\ UNCHANGED <<exports, summaryChannel, recorded>>
    BY <1>7 DEF ExporterCancelled, ExporterCancelledAt, ExporterReturns, resultVars, counted
  <2>2. eerr[e] = "none"
    BY <2>1 DEF Unended, Leaving
  <2>3. e \notin Ended("canceled") /\ Ended("canceled")' = Ended("canceled") \cup {e}
    BY <1>0, <2>1, <2>2 DEF Ended
  <2>4. \A c : c # held[e] /\ Tracked(c) => Tracked(c)'
    BY <1>0, <2>1 DEF Tracked
  <2>5. Untracked' \subseteq Untracked \cup {held[e]}
    BY <2>1, <2>4 DEF Untracked
  <2> QED
    BY <1>0, <2>3, <2>5, LostByCancel
<1>8. ASSUME RecordResult
      PROVE  LossInv'
  <2> DEFINE r == Head(summaryChannel)
  <2>1. /\ summaryChannel # <<>> /\ summaryChannel' = Tail(summaryChannel)
        /\ recorded' = recorded \cup {r} /\ UNCHANGED <<held, exports, eerr>>
    BY <1>8 DEF RecordResult, exporterVars, historyVars
  <2>2. /\ summaryChannel[1] = r
        /\ \A i \in DOMAIN summaryChannel : i # 1 =>
              i - 1 \in DOMAIN summaryChannel' /\ summaryChannel'[i - 1] = summaryChannel[i]
    BY <1>0, <2>1, TailEntries
  <2>3. \A c \in Batches : Tracked(c) => Tracked(c)'
    BY <2>1, <2>2 DEF Tracked
  <2> QED
    BY <1>2, <2>1, <2>3 DEF Ended
<1> QED
  BY <1>3, <1>4, <1>5, <1>6, <1>7, <1>8 DEF Moving

-----------------------------------------------------------------------------
(* Failures and the exporters that return them. *)

LEMMA FailureStep ==
    ASSUME TypeInv, TypeInv', Unended, PlaceInv, FailureInv, Idle \/ Moving
    PROVE  FailureInv'
<1> DEFINE F == Failures(recorded \cup Reports)
<1>0. /\ summaryChannel \in Seq(Results) /\ recorded \subseteq Results
      /\ DOMAIN eerr = Exporters
      /\ IsFiniteSet(F) /\ Cardinality(F) = Cardinality(Ended("export"))
  BY DEF TypeInv, TypeOK, ChannelType, ExporterType, StatsType, FailureInv
<1>1. ASSUME F' = F, Ended("export")' = Ended("export")
      PROVE  FailureInv'
  <2>1. IsFiniteSet(F') /\ Cardinality(F') = Cardinality(Ended("export")')
    BY <1>0, <1>1
  <2> QED
    BY <2>1 DEF FailureInv, Failures
<1>2. CASE Idle
  BY <1>1, <1>2 DEF Idle, moved, counted, Failures, Reports
<1>3. ASSUME NEW p \in Producers, Send(p),
             UNCHANGED <<exports, held, epc, eerr, summaryChannel, counted>>
      PROVE  FailureInv'
  BY <1>1, <1>3 DEF counted, Ended, Failures, Reports
<1>4. ASSUME NEW e \in Exporters, Receive(e), UNCHANGED counted
      PROVE  FailureInv'
  BY <1>1, <1>4 DEF Receive, ExporterTo, resultVars, counted, Ended, Failures, Reports
<1>5. ASSUME NEW e \in Exporters, ExporterCancelled(e), UNCHANGED counted
      PROVE  FailureInv'
  <2>1. /\ eerr' = [eerr EXCEPT ![e] = "canceled"] /\ epc[e] \in {"recv", "report"}
        /\ UNCHANGED <<summaryChannel, recorded>>
    BY <1>5 DEF ExporterCancelled, ExporterCancelledAt, ExporterReturns, resultVars, counted
  <2>2. eerr[e] = "none"
    BY <2>1 DEF Unended, Leaving
  <2>3. Ended("export")' = Ended("export")
    BY <1>0, <2>1, <2>2 DEF Ended
  <2> QED
    BY <1>1, <2>1, <2>3 DEF Failures, Reports
<1>6. ASSUME NEW e \in Exporters, Report(e), UNCHANGED counted
      PROVE  FailureInv'
  <2> DEFINE r == [batch |-> held[e], ok |-> exportOk[e]]
  <2>1. /\ summaryChannel' = Append(summaryChannel, r) /\ epc[e] = "report"
        /\ UNCHANGED recorded
        /\ IF r.ok THEN eerr' = eerr ELSE eerr' = [eerr EXCEPT ![e] = "export"]
    BY <1>6 DEF Report, ExporterTo, ExporterReturns, counted
  <2>2. r \in Results /\ r.batch = held[e] /\ r.ok \in BOOLEAN /\ eerr[e] = "none"
    BY <2>1 DEF Results, TypeInv, TypeOK, ExporterType, Located, Unended, Leaving
  <2>3. /\ DOMAIN summaryChannel' = DOMAIN summaryChannel \cup {Len(summaryChannel) + 1}
        /\ summaryChannel'[Len(summaryChannel) + 1] = r
        /\ \A i \in DOMAIN summaryChannel : summaryChannel'[i] = summaryChannel[i]
    BY <1>0, <2>1, <2>2, AppendEntries
  <2>4. Reports' = Reports \cup {r}
    BY <2>2, <2>3 DEF Reports
  <2>5. F' = Failures(recorded \cup Reports \cup {r})
    BY <2>1, <2>4 DEF Failures
  <2>6. CASE r.ok
    <3>1. F' = F
      BY <2>5, <2>6 DEF Failures
    <3>2. Ended("export")' = Ended("export")
      BY <2>1, <2>6 DEF Ended
    <3> QED
      BY <1>1, <3>1, <3>2
  <2>7. CASE ~r.ok
    <3>1. F' = F \cup {r}
      BY <2>5, <2>7 DEF Failures
    <3>2. r \notin F
      <4>1. /\ \A i \in DOMAIN summaryChannel : summaryChannel[i].batch # held[e]
            /\ \A s \in recorded : s.batch # held[e]
        BY <2>1 DEF PlaceInv, HeldOnce, Holding
      <4> QED
        BY <2>2, <4>1 DEF Failures, Reports
    <3>3. Ended("export")' = Ended("export") \cup {e} /\ e \notin Ended("export")
      BY <1>0, <2>1, <2>2, <2>7 DEF Ended
    <3>4. IsFiniteSet(F') /\ Cardinality(F') = Cardinality(F) + 1
      BY <1>0, <3>1, <3>2, FS_AddElement
    <3>5. Cardinality(Ended("export")') = Cardinality(Ended("export")) + 1
      BY <3>3, Finiteness, FS_AddElement
    <3>6. Cardinality(F') = Cardinality(Ended("export")')
      BY <1>0, <3>4, <3>5
    <3> QED
      BY <3>4, <3>6 DEF FailureInv, Failures
  <2> QED
    BY <2>2, <2>6, <2>7
<1>7. ASSUME RecordResult
      PROVE  FailureInv'
  <2> DEFINE r == Head(summaryChannel)
  <2>1. /\ summaryChannel # <<>> /\ summaryChannel' = Tail(summaryChannel)
        /\ recorded' = recorded \cup {r} /\ UNCHANGED eerr
    BY <1>7 DEF RecordResult, exporterVars
  <2>2. /\ 1 \in DOMAIN summaryChannel /\ summaryChannel[1] = r
        /\ \A i \in DOMAIN summaryChannel' :
              i + 1 \in DOMAIN summaryChannel /\ summaryChannel'[i] = summaryChannel[i + 1]
        /\ \A i \in DOMAIN summaryChannel : i # 1 =>
              i - 1 \in DOMAIN summaryChannel' /\ summaryChannel'[i - 1] = summaryChannel[i]
    BY <1>0, <2>1, TailEntries
  <2>3. Reports = Reports' \cup {r}
    <3>1. r \in Reports
      BY <1>0, <2>1, <2>2, HeadTailProperties DEF Reports
    <3>2. Reports' \subseteq Reports
      BY <2>2 DEF Reports
    <3>3. Reports \subseteq Reports' \cup {r}
      BY <2>2 DEF Reports
    <3> QED
      BY <3>1, <3>2, <3>3
  <2>4. (recorded \cup Reports)' = recorded \cup Reports
    BY <2>1, <2>3
  <2> QED
    BY <1>1, <2>1, <2>4 DEF Ended, Failures
<1> QED
  BY <1>2, <1>3, <1>4, <1>5, <1>6, <1>7 DEF Moving

-----------------------------------------------------------------------------
(* What is known at the ends of goroutines. *)

LEMMA ProducerEnds ==
    ASSUME SafetyInv, EndInv, NEW p \in Producers, ProducerStep(p)
    PROVE  EndInv'
<1>0. /\ ppc \in [Producers -> {"rampUp", "check", "process", "send", "interval",
                                "returning", "done"}]
      /\ perr \in [Producers -> {"none", "canceled", "stage"}]
      /\ request \in [Producers -> 0 .. Bound]
      /\ batchClosed => \A q \in Producers : ProducerGone(q)
      /\ firstErr \in Errors
  BY DEF SafetyInv, TypeInv, TypeOK, ProducerType, GroupType, Closing
<1>1. UNCHANGED <<epc, eerr, summaryChannel, stats, summary, expired, returned>>
  BY DEF ProducerStep, exporterVars, resultVars, statsVars
<1>2. /\ batchClosed' = batchClosed
      /\ batchClosed => batchChannel' = batchChannel
      /\ ppc[p] # "done"
      /\ \A q \in Producers : q # p =>
            ppc'[q] = ppc[q] /\ perr'[q] = perr[q] /\ request'[q] = request[q]
  BY <1>0 DEF ProducerStep, RampUpOver, IntervalOver, CheckEnd, CheckGo, BeginRequest,
     ProcessBatch, ProcessEmpty, ProcessFails, Send, ProducerCancelled, ProducerCancelledAt,
     ProducerDone, ProducerTo, ProducerReturns, NextRequest, batchVars, ProducerGone
<1>3. CASE ProducerDone(p)
  <2>1. /\ ppc[p] = "returning" /\ ppc' = [ppc EXCEPT ![p] = "done"]
        /\ UNCHANGED <<perr, request>>
        /\ firstErr' = IF firstErr = "none" THEN perr[p] ELSE firstErr
    BY <1>3 DEF ProducerDone, ProducerTo, GroupReturn
  <2>2. ErrorsKept'
    <3>1. firstErr # "none" \/ perr[p] # "none" => firstErr' # "none"
      BY <2>1
    <3>2. \A q \in Producers : ppc'[q] = "done" /\ perr'[q] # "none" => firstErr' # "none"
      BY <1>0, <2>1, <3>1 DEF EndInv, ErrorsKept
    <3>3. \A e \in Exporters : epc'[e] = "done" /\ eerr'[e] # "none" => firstErr' # "none"
      BY <1>1, <3>1 DEF EndInv, ErrorsKept
    <3>4. firstErr' = "export" => firstErr = "export"
      BY <1>0, <2>1
    <3> QED
      BY <1>1, <3>2, <3>3, <3>4 DEF EndInv, ErrorsKept, Ended
  <2>3. Quota'
    BY <1>0, <1>1, <2>1 DEF EndInv, Quota, ProducerGone, LimitReached
  <2> QED
    BY <1>1, <1>2, <2>2, <2>3 DEF EndInv, Drained, Leaving, SummaryFinal, AllEnded, Over
<1>4. ASSUME UNCHANGED groupVars, ~ProducerDone(p)
      PROVE  EndInv'
  <2>1. firstErr' = firstErr /\ ppc'[p] # "done"
    BY <1>0, <1>4 DEF ProducerStep, RampUpOver, IntervalOver, CheckEnd, CheckGo, BeginRequest,
       ProcessBatch, ProcessEmpty, ProcessFails, Send, ProducerCancelled, ProducerCancelledAt,
       ProducerDone, ProducerTo, ProducerReturns, NextRequest, groupVars
  <2>2. ErrorsKept'
    BY <1>1, <1>2, <2>1 DEF EndInv, ErrorsKept, Ended
  <2>3. ProducerGone(p)' /\ perr'[p] = "none" =>
           request'[p] = request[p] /\ (expired \/ LimitReached(p))
    BY <1>0, <1>4 DEF ProducerStep, RampUpOver, IntervalOver, CheckEnd, CheckGo, BeginRequest,
       ProcessBatch, ProcessEmpty, ProcessFails, Send, ProducerCancelled, ProducerCancelledAt,
       ProducerDone, ProducerTo, ProducerReturns, NextRequest, ProducerGone
  <2>4. Quota'
    BY <1>1, <1>2, <2>3 DEF EndInv, Quota, ProducerGone, LimitReached
  <2> QED
    BY <1>1, <1>2, <2>2, <2>4 DEF EndInv, Drained, Leaving, SummaryFinal, AllEnded, Over
<1> QED
  BY <1>3, <1>4 DEF ProducerStep

LEMMA ExporterEnds ==
    ASSUME SafetyInv, Unended, EndInv, NEW e \in Exporters, ExporterStep(e)
    PROVE  EndInv'
<1>0. /\ epc \in [Exporters -> {"init", "recv", "export", "report", "shutdown",
                                "returning", "done"}]
      /\ eerr \in [Exporters -> {"none", "canceled", "init", "export"}]
      /\ summary # NoSummary => \A f \in Exporters : ExporterGone(f)
      /\ firstErr \in Errors
  BY DEF SafetyInv, TypeInv, TypeOK, ExporterType, GroupType, Closing
<1>1. UNCHANGED <<ppc, perr, request, stats, summary, expired, returned>>
  BY DEF ExporterStep, producerVars, statsVars
<1>2. /\ batchClosed' = batchClosed
      /\ batchChannel = <<>> => batchChannel' = batchChannel
      /\ ExporterGone(e) => summaryChannel' = summaryChannel
      /\ epc[e] # "done"
      /\ \A f \in Exporters : f # e => epc'[f] = epc[f] /\ eerr'[f] = eerr[f]
  BY <1>0 DEF ExporterStep, NewExporter, NewExporterFails, Receive, ReceiveClosed, ExportReturns,
     Report, ExporterCancelled, ExporterCancelledAt, Shutdown, ExporterDone, ExporterTo,
     ExporterReturns, batchVars, resultVars, ExporterGone
<1>3. Drained'
  <2>1. Leaving(e)' /\ eerr'[e] = "none" => batchClosed /\ batchChannel = <<>>
    <3>1. Leaving(e) /\ eerr[e] = "none" => batchClosed /\ batchChannel = <<>>
      BY DEF EndInv, Drained
    <3> QED
      BY <1>0, <3>1 DEF ExporterStep, NewExporter, NewExporterFails, Receive, ReceiveClosed,
         ExportReturns, Report, ExporterCancelled, ExporterCancelledAt, Shutdown, ExporterDone,
         ExporterTo, ExporterReturns, Leaving
  <2> QED
    BY <1>2, <2>1 DEF EndInv, Drained, Leaving
<1>4. Quota' /\ SummaryFinal' /\ AllEnded'
  BY <1>0, <1>1, <1>2 DEF EndInv, Quota, SummaryFinal, AllEnded, Over, ProducerGone, LimitReached
<1>5. ErrorsKept'
  <2>1. CASE ExporterDone(e)
    <3>1. /\ epc[e] = "returning" /\ epc' = [epc EXCEPT ![e] = "done"] /\ UNCHANGED eerr
          /\ firstErr' = IF firstErr = "none" THEN eerr[e] ELSE firstErr
      BY <2>1 DEF ExporterDone, ExporterTo, GroupReturn
    <3>2. firstErr # "none" \/ eerr[e] # "none" => firstErr' # "none"
      BY <3>1
    <3>3. \A f \in Exporters : epc'[f] = "done" /\ eerr'[f] # "none" => firstErr' # "none"
      BY <1>0, <3>1, <3>2 DEF EndInv, ErrorsKept
    <3>4. \A q \in Producers : ppc'[q] = "done" /\ perr'[q] # "none" => firstErr' # "none"
      BY <1>1, <3>2 DEF EndInv, ErrorsKept
    <3>5. firstErr' = "export" => Ended("export")' # {}
      BY <1>0, <3>1 DEF EndInv, ErrorsKept, Ended
    <3> QED
      BY <3>3, <3>4, <3>5 DEF ErrorsKept, Ended
  <2>2. ASSUME UNCHANGED groupVars, ~ExporterDone(e)
        PROVE  ErrorsKept'
    <3>1. firstErr' = firstErr /\ epc'[e] # "done" /\ (eerr[e] = "export" => eerr'[e] = "export")
      BY <1>0, <2>2 DEF ExporterStep, NewExporter, NewExporterFails, Receive, ReceiveClosed,
         ExportReturns, Report, ExporterCancelled, ExporterCancelledAt, Shutdown, ExporterDone,
         ExporterTo, ExporterReturns, groupVars, Unended, Leaving
    <3> QED
      BY <1>1, <1>2, <3>1 DEF EndInv, ErrorsKept, Ended
  <2> QED
    BY <2>1, <2>2 DEF ExporterStep
<1> QED
  BY <1>3, <1>4, <1>5 DEF EndInv

LEMMA EndStep ==
    ASSUME SafetyInv, Unended, EndInv, [Next]_vars
    PROVE  EndInv'
<1>1. CASE \E p \in Producers : ProducerStep(p)
  BY <1>1, ProducerEnds
<1>2. CASE \E e \in Exporters : ExporterStep(e)
  BY <1>2, ExporterEnds
<1> USE DEF EndInv, ErrorsKept, Drained, Quota, SummaryFinal, AllEnded, Over, Ended, Leaving,
            ProducerGone, LimitReached, vars, batchVars, historyVars, exporterVars, resultVars,
            statsVars, producerVars, groupVars
<1>3. CASE CancelParent \/ Terminated \/ UNCHANGED vars
  BY <1>3 DEF CancelParent, Terminated
<1>4. CASE Expire
  BY <1>4 DEF Expire
<1>5. CASE CloseBatches \/ CloseSummaries
  BY <1>5 DEF CloseBatches, CloseBatchesWhen, CloseSummaries
<1>6. CASE RecordResult
  BY <1>6 DEF RecordResult
<1>7. CASE PublishSummary
  BY <1>7 DEF PublishSummary, PublishSummaryWhen
<1>8. CASE RunReturns
  BY <1>8 DEF RunReturns
<1> QED
  BY <1>1, <1>2, <1>3, <1>4, <1>5, <1>6, <1>7, <1>8 DEF Next

-----------------------------------------------------------------------------
(* DeliveryInv is an invariant. *)

LEMMA InitDeliveryInv == Init => DeliveryInv
<1> SUFFICES ASSUME Init PROVE DeliveryInv
  OBVIOUS
<1>1. /\ exports = [b \in Batches |-> 0] /\ stats = NewStats /\ recorded = {}
      /\ eerr = [e \in Exporters |-> "none"] /\ epc = [e \in Exporters |-> "init"]
      /\ summaryChannel = <<>> /\ summary = NoSummary /\ firstErr = "none"
      /\ expired = FALSE /\ returned = FALSE
      /\ \A p \in Producers : ppc[p] \in {"rampUp", "check"}
  BY DEF Init
<1>2. Unended
  BY <1>1 DEF Unended
<1>3. PlaceInv
  BY PlaceInit
<1>4. CountInv
  <2>1. Failures(recorded) = {}
    BY <1>1 DEF Failures
  <2> QED
    BY <1>1, <2>1, FS_EmptySet DEF CountInv, NewStats
<1>5. LossInv
  <2>1. LostBatches = {} /\ Ended("canceled") = {}
    BY <1>1 DEF LostBatches, Ended
  <2> QED
    BY <2>1, FS_EmptySet DEF LossInv
<1>6. FailureInv
  <2>1. Failures(recorded \cup Reports) = {} /\ Ended("export") = {}
    BY <1>1 DEF Failures, Reports, Ended
  <2> QED
    BY <2>1, FS_EmptySet DEF FailureInv
<1>7. EndInv
  BY <1>1 DEF EndInv, ErrorsKept, Drained, Quota, SummaryFinal, AllEnded, Leaving, ProducerGone
<1> QED
  BY <1>2, <1>3, <1>4, <1>5, <1>6, <1>7 DEF DeliveryInv

LEMMA DeliveryInvInductive == SafetyInv /\ SafetyInv' /\ DeliveryInv /\ [Next]_vars => DeliveryInv'
<1> SUFFICES ASSUME SafetyInv, SafetyInv', DeliveryInv, [Next]_vars
             PROVE  DeliveryInv'
  OBVIOUS
<1>0. TypeInv /\ TypeInv'
  BY DEF SafetyInv
<1>1. Unended' /\ (Idle \/ Moving)
  BY <1>0, Moves DEF DeliveryInv
<1>2. PlaceInv' /\ CountInv'
  BY <1>0, <1>1, PlaceStep, CountStep DEF DeliveryInv
<1>3. LossInv'
  BY <1>0, <1>1, <1>2, LossStep DEF DeliveryInv
<1>4. FailureInv'
  BY <1>0, <1>1, FailureStep DEF DeliveryInv
<1>5. EndInv'
  BY EndStep DEF DeliveryInv
<1> QED
  BY <1>1, <1>2, <1>3, <1>4, <1>5 DEF DeliveryInv

\* DeliveryInv holds in every state of a run.
THEOREM DeliveryInvariance == Spec => []DeliveryInv
  BY InitDeliveryInv, DeliveryInvInductive, SafetyInvariance, PTL DEF Spec

-----------------------------------------------------------------------------
(* What follows from it. *)

LEMMA PlacesAreFew ==
    ASSUME TypeInv, PlaceInv, NEW b \in Batches
    PROVE  /\ Queued(b) = IF \E i \in DOMAIN batchChannel : batchChannel[i] = b THEN 1 ELSE 0
           /\ Cardinality(Carriers(b)) = IF \E e \in Exporters : held[e] = b THEN 1 ELSE 0
           /\ Reported(b) =
                IF \E i \in DOMAIN summaryChannel : summaryChannel[i].batch = b THEN 1 ELSE 0
           /\ Recorded(b) = IF \E r \in recorded : r.batch = b THEN 1 ELSE 0
<1> DEFINE Q == {i \in DOMAIN batchChannel : batchChannel[i] = b}
           C == {e \in Exporters : held[e] = b}
           S == {i \in DOMAIN summaryChannel : summaryChannel[i].batch = b}
           R == {r \in recorded : r.batch = b}
<1>1. /\ \A x, y \in Q : x = y
      /\ \A x, y \in C : x = y
      /\ \A x, y \in S : x = y
      /\ \A x, y \in R : x = y
  BY DEF PlaceInv, QueuedOnce, HeldOnce, ReportedOnce, RecordedOnce
<1>2. /\ Cardinality(Q) = IF Q = {} THEN 0 ELSE 1
      /\ Cardinality(C) = IF C = {} THEN 0 ELSE 1
      /\ Cardinality(S) = IF S = {} THEN 0 ELSE 1
      /\ Cardinality(R) = IF R = {} THEN 0 ELSE 1
  <2> HIDE DEF Q, C, S, R
  <2> QED
    BY <1>1, AtMostOne
<1> QED
  BY <1>2 DEF Queued, Carriers, Reported, Recorded

\* However many workers there are, a batch is exported at most once, is in one place at a
\* time, and is counted at most once.
THEOREM BatchesOnce == Spec => []ExactlyOnce
<1>1. SafetyInv /\ DeliveryInv => ExactlyOnce
  <2> SUFFICES ASSUME TypeInv, PlaceInv, CountInv PROVE ExactlyOnce
    BY DEF SafetyInv, DeliveryInv
  <2>1. stats.total = Cardinality(recorded) /\ stats.total = stats.successes + stats.failures
    BY DEF CountInv
  <2>2. ASSUME NEW b \in Batches
        PROVE  /\ exports[b] + Queued(b) <= 1
               /\ Queued(b) + Cardinality(Carriers(b)) + Reported(b) + Recorded(b) <= 1
    <3>1. exports[b] \in {0, 1}
      BY DEF PlaceInv, ExportedOnce
    <3>2. (\E i \in DOMAIN batchChannel : batchChannel[i] = b) => exports[b] = 0
      BY DEF PlaceInv, QueuedOnce
    <3>3. (\E e \in Exporters : held[e] = b) =>
             /\ exports[b] = 1
             /\ ~\E i \in DOMAIN summaryChannel : summaryChannel[i].batch = b
             /\ ~\E r \in recorded : r.batch = b
      BY DEF PlaceInv, HeldOnce
    <3>4. (\E i \in DOMAIN summaryChannel : summaryChannel[i].batch = b) =>
             exports[b] = 1 /\ ~\E r \in recorded : r.batch = b
      BY DEF PlaceInv, ReportedOnce
    <3>5. (\E r \in recorded : r.batch = b) => exports[b] = 1
      BY DEF PlaceInv, RecordedOnce
    <3> QED
      BY <3>1, <3>2, <3>3, <3>4, <3>5, PlacesAreFew
  <2> QED
    BY <2>1, <2>2 DEF ExactlyOnce
<1> QED
  BY <1>1, SafetyInvariance, DeliveryInvariance, PTL

\* The results that are lost are as few as the exporters that were cancelled.
THEOREM LossesAreFew == Spec => []LossBounded
<1>1. SafetyInv /\ DeliveryInv => LossBounded
  <2> SUFFICES ASSUME SafetyInv, LossInv PROVE LossBounded
    BY DEF DeliveryInv
  <2>1. /\ Cardinality(LostBatches) <= Cardinality(Ended("canceled"))
        /\ Cardinality(Ended("canceled")) <= Cardinality(Exporters)
        /\ Cardinality(LostBatches) \in Nat /\ Cardinality(Ended("canceled")) \in Nat
        /\ Cardinality(Exporters) \in Nat
    BY Finiteness, PipelineAssumption, FS_CardinalityType DEF LossInv
  <2>2. ASSUME LostBatches # {} PROVE cancelled
    <3>1. Cardinality(LostBatches) # 0
      BY <2>2, Finiteness, FS_EmptySet
    <3>2. Cardinality(Ended("canceled")) # 0
      BY <2>1, <3>1
    <3>3. Ended("canceled") # {}
      BY <3>2, FS_EmptySet
    <3> QED
      BY <3>3 DEF Ended, SafetyInv, Causes
  <2>3. Cardinality(LostBatches) <= Cardinality(Exporters)
    BY <2>1
  <2> QED
    BY <2>2, <2>3 DEF LossBounded
<1> QED
  BY <1>1, SafetyInvariance, DeliveryInvariance, PTL

LEMMA FinalFailures ==
    ASSUME DeliveryInv, Over
    PROVE  /\ summaryChannel = <<>> /\ summary = stats
           /\ summary.failures = Cardinality(Ended("export"))
<1>1. summaryChannel = <<>> /\ summary = stats
  BY DEF DeliveryInv, EndInv, Over, SummaryFinal
<1>2. recorded \cup Reports = recorded
  BY <1>1 DEF Reports
<1> QED
  BY <1>1, <1>2 DEF DeliveryInv, CountInv, FailureInv

\* When Run returns, the failures of its summary and its error tell the same.
THEOREM FailuresAreTold == Spec => []FailuresAreReported
<1>1. SafetyInv /\ DeliveryInv => FailuresAreReported
  <2> SUFFICES ASSUME SafetyInv, DeliveryInv, returned
               PROVE  /\ firstErr = "export" => summary.failures > 0
                      /\ summary.failures > 0 => firstErr # "none"
                      /\ summary.failures <= Cardinality(Exporters)
    BY DEF FailuresAreReported
  <2>1. /\ summary.failures = Cardinality(Ended("export"))
        /\ Cardinality(Ended("export")) \in Nat
        /\ Cardinality(Ended("export")) <= Cardinality(Exporters)
    BY FinalFailures, Finiteness DEF DeliveryInv, EndInv, AllEnded
  <2>2. Cardinality(Ended("export")) = 0 <=> Ended("export") = {}
    BY Finiteness, FS_EmptySet
  <2>3. firstErr = "export" => Ended("export") # {}
    BY DEF DeliveryInv, EndInv, ErrorsKept
  <2>4. Ended("export") # {} => firstErr # "none"
    BY DEF DeliveryInv, EndInv, ErrorsKept, AllEnded, Over, Ended
  <2> QED
    BY <2>1, <2>2, <2>3, <2>4
<1> QED
  BY <1>1, SafetyInvariance, DeliveryInvariance, PTL

LEMMA RecordedBatches ==
    ASSUME IsFiniteSet(recorded), RecordedOnce, NEW S,
           \A b : b \in S <=> \E r \in recorded : r.batch = b
    PROVE  Cardinality(recorded) = Cardinality(S)
<1> DEFINE f == [r \in recorded |-> r.batch]
<1>1. f \in Bijection(recorded, S)
  BY DEF RecordedOnce, Bijection, Injection, Surjection, IsInjective
<1> QED
  BY <1>1, FS_Bijection DEF ExistsBijection

LEMMA ExportersExist == Exporters # {}
  BY PipelineAssumption, FS_EmptySet

\* when everybody has ended and there is no error, no batch is left behind
LEMMA NothingLeft ==
    ASSUME SafetyInv, DeliveryInv, Over, firstErr = "none"
    PROVE  /\ \A p \in Producers : perr[p] = "none"
           /\ batchChannel = <<>> /\ summaryChannel = <<>>
           /\ Failures(recorded) = {}
           /\ \A b \in Batches : exports[b] = 1 => \E r \in recorded : r.batch = b
<1>1. /\ \A p \in Producers : ppc[p] = "done" /\ perr[p] = "none"
      /\ \A e \in Exporters : epc[e] = "done" /\ eerr[e] = "none"
  BY DEF DeliveryInv, EndInv, Over, ErrorsKept
<1>2. batchChannel = <<>>
  BY <1>1, ExportersExist DEF DeliveryInv, EndInv, Drained, Leaving
<1>3. Ended("export") = {} /\ Ended("canceled") = {}
  BY <1>1 DEF Ended
<1>4. summaryChannel = <<>>
  BY FinalFailures
<1>5. Failures(recorded) = {}
  <2>1. recorded \cup Reports = recorded
    BY <1>4 DEF Reports
  <2> QED
    BY <1>3, <2>1, FS_EmptySet DEF DeliveryInv, FailureInv
<1>6. LostBatches = {}
  <2>1. Cardinality(LostBatches) <= 0 /\ Cardinality(LostBatches) \in Nat
    BY <1>3, Finiteness, FS_EmptySet, FS_CardinalityType DEF DeliveryInv, LossInv
  <2>2. Cardinality(LostBatches) = 0
    BY <2>1
  <2> QED
    BY <2>2, Finiteness, FS_EmptySet
<1>7. ASSUME NEW b \in Batches, exports[b] = 1 PROVE \E r \in recorded : r.batch = b
  <2>1. exports[b] > 0 /\ b \notin Untracked
    BY <1>6, <1>7, LostAreUntracked DEF SafetyInv, DeliveryInv
  <2>2. Tracked(b)
    BY <2>1 DEF Untracked
  <2>3. \A e \in Exporters : held[e] # b
    BY <1>1 DEF DeliveryInv, PlaceInv, HeldOnce, Holding
  <2>4. DOMAIN summaryChannel = {}
    BY <1>4
  <2> QED
    BY <2>2, <2>3, <2>4 DEF Tracked
<1> QED
  BY <1>1, <1>2, <1>4, <1>5, <1>7

\* When Run returns nil, everything that was to be sent was exported, with success, and is
\* in the summary.
THEOREM CleanRun == Spec => []CleanRunIsComplete
<1>1. SafetyInv /\ DeliveryInv => CleanRunIsComplete
  <2> SUFFICES ASSUME SafetyInv, DeliveryInv, returned, firstErr = "none"
               PROVE  /\ batchChannel = <<>> /\ summaryChannel = <<>>
                      /\ summary.failures = 0
                      /\ summary.total = Cardinality({b \in Batches : exports[b] = 1})
                      /\ ~HasDeadline => \A p \in Producers : request[p] = Requests
    BY DEF CleanRunIsComplete
  <2> DEFINE Exported == {b \in Batches : exports[b] = 1}
  <2>1. Over
    BY DEF DeliveryInv, EndInv, AllEnded
  <2>2. batchChannel = <<>> /\ summaryChannel = <<>> /\ Failures(recorded) = {}
    BY <2>1, NothingLeft
  <2>3. summary.failures = 0
    BY <2>1, <2>2, FinalFailures, FS_EmptySet DEF DeliveryInv, CountInv
  <2>4. \A b : b \in Exported <=> \E r \in recorded : r.batch = b
    <3>1. \A r \in recorded : r.batch \in Batches /\ exports[r.batch] = 1
      BY DEF SafetyInv, TypeInv, TypeOK, StatsType, Results, DeliveryInv, PlaceInv, RecordedOnce
    <3> QED
      BY <2>1, <3>1, NothingLeft
  <2>5. summary.total = Cardinality(Exported)
    <3> HIDE DEF Exported
    <3>1. Cardinality(recorded) = Cardinality(Exported)
      BY <2>4, RecordedBatches DEF DeliveryInv, CountInv, PlaceInv
    <3> QED
      BY <2>1, <3>1, FinalFailures DEF DeliveryInv, CountInv
  <2>6. ASSUME ~HasDeadline, NEW p \in Producers PROVE request[p] = Requests
    <3>1. LimitReached(p)
      BY <2>1, <2>6, NothingLeft DEF DeliveryInv, EndInv, Quota, ProducerGone, Over
    <3>2. request[p] \in 0 .. Bound /\ Requests \in Nat
      BY PipelineAssumption DEF SafetyInv, TypeInv, TypeOK, ProducerType
    <3> QED
      BY <3>1, <3>2 DEF LimitReached, Bound
  <2> QED
    BY <2>2, <2>3, <2>5, <2>6
<1> QED
  BY <1>1, SafetyInvariance, DeliveryInvariance, PTL

-----------------------------------------------------------------------------
(* Refinement. *)

Inv == SafetyInv /\ DeliveryInv

Outcome(ok) == IF ok THEN "ok" ELSE "failed"
Counted(ok) == IF ok THEN "countedOk" ELSE "countedFailed"

InChannel(b) == \E i \in DOMAIN batchChannel : batchChannel[i] = b

\* what is known of a batch in each part of its life
At(b, l) ==
    \/ \E r \in recorded : r.batch = b /\ l = Counted(r.ok)
    \/ \E i \in DOMAIN summaryChannel :
          summaryChannel[i].batch = b /\ l = Outcome(summaryChannel[i].ok)
    \/ \E e \in Exporters : held[e] = b /\ epc[e] = "report" /\ l = Outcome(exportOk[e])
    \/ \E e \in Exporters : held[e] = b /\ epc[e] = "export" /\ l = "exporting"
    \/ exports[b] = 1 /\ ~Tracked(b) /\ l = "lost"
    \/ InChannel(b) /\ l = "queued"
    \/ exports[b] = 0 /\ ~InChannel(b) /\ l = "none"

\* the parts of a batch's life exclude one another, and Life says which it is
LEMMA LifeIsWhereItIs == Inv => \A b \in Batches : \A l : At(b, l) <=> l = Life(b)
<1> SUFFICES ASSUME Inv, NEW b \in Batches
             PROVE  \A l : At(b, l) <=> l = Life(b)
  OBVIOUS
<1> DEFINE has(ok) == [batch |-> b, ok |-> ok]
           reported(ok) == \E i \in DOMAIN summaryChannel : summaryChannel[i] = has(ok)
           carried(locs, oks) == \E e \in Carriers(b) : epc[e] \in locs /\ exportOk[e] \in oks
           countedOk     == has(TRUE) \in recorded
           countedFailed == has(FALSE) \in recorded
           ok            == reported(TRUE) \/ carried({"report"}, {TRUE})
           failed        == reported(FALSE) \/ carried({"report"}, {FALSE})
           exporting     == carried({"export"}, BOOLEAN)
           lost          == b \in LostBatches
           queued        == Queued(b) > 0
           life ==
             CASE countedOk -> "countedOk" [] countedFailed -> "countedFailed"
               [] ok -> "ok" [] failed -> "failed" [] exporting -> "exporting"
               [] lost -> "lost" [] queued -> "queued" [] OTHER -> "none"
           is(l) ==
             \/ countedOk /\ l = "countedOk"
             \/ countedFailed /\ l = "countedFailed"
             \/ ok /\ l = "ok"
             \/ failed /\ l = "failed"
             \/ exporting /\ l = "exporting"
             \/ lost /\ l = "lost"
             \/ queued /\ l = "queued"
             \/ exports[b] = 0 /\ ~queued /\ l = "none"
<1>1. Life(b) = life
  BY DEF Life
<1>2. /\ TypeInv /\ PlaceInv /\ CountInv
      /\ recorded \subseteq Results /\ summaryChannel \in Seq(Results)
      /\ exportOk \in [Exporters -> BOOLEAN] /\ exports[b] \in {0, 1}
  BY DEF Inv, SafetyInv, DeliveryInv, TypeInv, TypeOK, StatsType, ChannelType, ExporterType,
         PlaceInv, ExportedOnce
<1>3. \A i \in DOMAIN summaryChannel : summaryChannel[i] \in Results
  BY <1>2, LenProperties
<1>4. /\ \A r \in Results : r = [batch |-> r.batch, ok |-> r.ok] /\ r.ok \in BOOLEAN
      /\ \A v \in BOOLEAN : has(v).batch = b /\ has(v).ok = v
  BY DEF Results
<1>5. queued <=> InChannel(b)
  BY <1>2, PlacesAreFew DEF InChannel
<1>6. lost <=> exports[b] = 1 /\ ~Tracked(b)
  BY <1>2, LostAreUntracked DEF Untracked
<1>7. /\ countedOk <=> \E r \in recorded : r.batch = b /\ r.ok
      /\ countedFailed <=> \E r \in recorded : r.batch = b /\ ~r.ok
  BY <1>2, <1>4
<1>8. /\ ok <=>
            \/ \E i \in DOMAIN summaryChannel :
                  summaryChannel[i].batch = b /\ summaryChannel[i].ok
            \/ \E e \in Exporters : held[e] = b /\ epc[e] = "report" /\ exportOk[e]
      /\ failed <=>
            \/ \E i \in DOMAIN summaryChannel :
                  summaryChannel[i].batch = b /\ ~summaryChannel[i].ok
            \/ \E e \in Exporters : held[e] = b /\ epc[e] = "report" /\ ~exportOk[e]
  <2>1. /\ reported(TRUE) <=> \E i \in DOMAIN summaryChannel :
                                summaryChannel[i].batch = b /\ summaryChannel[i].ok
        /\ reported(FALSE) <=> \E i \in DOMAIN summaryChannel :
                                summaryChannel[i].batch = b /\ ~summaryChannel[i].ok
    BY <1>3, <1>4
  <2>2. /\ carried({"report"}, {TRUE}) <=>
              \E e \in Exporters : held[e] = b /\ epc[e] = "report" /\ exportOk[e]
        /\ carried({"report"}, {FALSE}) <=>
              \E e \in Exporters : held[e] = b /\ epc[e] = "report" /\ ~exportOk[e]
    BY <1>2 DEF Carriers
  <2> HIDE DEF reported, carried
  <2> QED
    BY <2>1, <2>2
<1>9. exporting <=> \E e \in Exporters : held[e] = b /\ epc[e] = "export"
  BY <1>2 DEF Carriers
<1> HIDE DEF has, reported, carried, countedOk, countedFailed, ok, failed, exporting, lost, queued
<1>10. \A l : At(b, l) <=> is(l)
  <2>1. \A l : (\E r \in recorded : r.batch = b /\ l = Counted(r.ok)) <=>
                   (countedOk /\ l = "countedOk") \/ (countedFailed /\ l = "countedFailed")
    BY <1>2, <1>4, <1>7 DEF Counted
  <2>2. \A l :
          (\/ \E i \in DOMAIN summaryChannel :
                 summaryChannel[i].batch = b /\ l = Outcome(summaryChannel[i].ok)
           \/ \E e \in Exporters :
                 held[e] = b /\ epc[e] = "report" /\ l = Outcome(exportOk[e]))
          <=> (ok /\ l = "ok") \/ (failed /\ l = "failed")
    BY <1>2, <1>3, <1>4, <1>8 DEF Outcome
  <2> QED
    BY <1>5, <1>6, <1>9, <2>1, <2>2 DEF At
<1>11. /\ countedOk => ~countedFailed /\ ~ok /\ ~failed /\ ~exporting /\ ~lost /\ ~queued
       /\ countedFailed => ~ok /\ ~failed /\ ~exporting /\ ~lost /\ ~queued
       /\ ok => ~failed /\ ~exporting /\ ~lost /\ ~queued
       /\ failed => ~exporting /\ ~lost /\ ~queued
       /\ exporting => ~lost /\ ~queued
       /\ lost => ~queued
       /\ exports[b] = 0 <=>
             ~countedOk /\ ~countedFailed /\ ~ok /\ ~failed /\ ~exporting /\ ~lost
  <2>1. (countedOk \/ countedFailed) =>
            /\ exports[b] = 1 /\ Tracked(b) /\ ~(countedOk /\ countedFailed)
            /\ \A e \in Exporters : held[e] # b
            /\ \A i \in DOMAIN summaryChannel : summaryChannel[i].batch # b
    BY <1>2, <1>7 DEF PlaceInv, RecordedOnce, HeldOnce, ReportedOnce, Tracked
  <2>2. /\ exporting => exports[b] = 1 /\ Tracked(b)
        /\ (ok \/ failed) => exports[b] = 1 /\ Tracked(b)
        /\ ~(ok /\ failed) /\ ~(ok /\ exporting) /\ ~(failed /\ exporting)
    BY <1>2, <1>8, <1>9 DEF PlaceInv, RecordedOnce, HeldOnce, ReportedOnce, Tracked
  <2>3. queued => exports[b] = 0
    BY <1>2, <1>5 DEF PlaceInv, QueuedOnce, InChannel
  <2>4. Tracked(b) => countedOk \/ countedFailed \/ ok \/ failed \/ exporting
    BY <1>2, <1>7, <1>8, <1>9 DEF PlaceInv, HeldOnce, Holding, Tracked
  <2> QED
    BY <1>2, <1>6, <1>8, <1>9, <2>1, <2>2, <2>3, <2>4
<1> HIDE DEF life
<1>12. \A l : l = life <=> is(l)
  <2>1. /\ countedOk => life = "countedOk"
        /\ countedFailed => life = "countedFailed"
        /\ ok => life = "ok"
        /\ failed => life = "failed"
        /\ exporting => life = "exporting"
        /\ lost => life = "lost"
        /\ queued => life = "queued"
        /\ exports[b] = 0 /\ ~queued => life = "none"
    BY <1>11 DEF life
  <2> QED
    BY <1>11, <2>1
<1> QED
  BY <1>1, <1>10, <1>12

LEMMA LifeIsWhereItIsNext == (Inv => \A b \in Batches : \A l : At(b, l) <=> l = Life(b))'
BY LifeIsWhereItIs, PTL

LEMMA LifeStays ==
    ASSUME Inv, Inv', NEW b \in Batches, \A l : At(b, l) => At(b, l)'
    PROVE  Life(b)' = Life(b)
BY LifeIsWhereItIs, LifeIsWhereItIsNext

-----------------------------------------------------------------------------
(* What a step does to the lives of the batches. *)

\* a step that changes nothing that At is about
LEMMA StillStep ==
    ASSUME Inv, Inv', UNCHANGED <<recorded, summaryChannel, exports, batchChannel, held>>,
           \A e \in Exporters : Holding(e) => epc'[e] = epc[e] /\ exportOk'[e] = exportOk[e]
    PROVE  \A b \in Batches : Life(b)' = Life(b)
<1> SUFFICES ASSUME NEW b \in Batches, NEW l, At(b, l)
             PROVE  At(b, l)'
  BY LifeStays
<1>1. /\ Tracked(b)' = Tracked(b) /\ InChannel(b)' = InChannel(b)
  BY DEF Tracked, InChannel
<1> QED
  BY <1>1 DEF At, Holding

\* a step that moves one batch on
MovesOn(b, from, to) ==
    /\ b \in Batches
    /\ Life(b) = from /\ Life(b)' = to
    /\ \A c \in Batches : c # b => Life(c)' = Life(c)

LEMMA MovesOnRule ==
    ASSUME Inv, Inv', NEW b \in Batches, NEW from, NEW to, At(b, from), At(b, to)',
           \A c \in Batches : c # b => \A l : At(c, l) => At(c, l)'
    PROVE  MovesOn(b, from, to)
BY LifeStays, LifeIsWhereItIs, LifeIsWhereItIsNext DEF MovesOn

LEMMA SendLife ==
    ASSUME Inv, Inv', NEW p \in Producers, Send(p),
           UNCHANGED <<exports, held, epc, exportOk, summaryChannel, recorded>>
    PROVE  \E b : MovesOn(b, "none", "queued")
<1>1. PICK b : b = <<p, request[p]>>
  OBVIOUS
<1>2. /\ b \in Batches /\ batchChannel \in Seq(Batches)
      /\ batchChannel' = Append(batchChannel, b)
  <2>1. request[p] \in 0 .. Bound /\ request[p] < Bound /\ batchChannel \in Seq(Batches)
    BY DEF Inv, SafetyInv, TypeInv, TypeOK, ChannelType, ProducerType, Located, Send
  <2>2. request[p] \in 0 .. Bound - 1
    BY <2>1, BoundsAreNat
  <2> QED
    BY <1>1, <2>1, <2>2, BatchParts DEF Send
<1>3. /\ DOMAIN batchChannel' = DOMAIN batchChannel \cup {Len(batchChannel) + 1}
      /\ batchChannel'[Len(batchChannel) + 1] = b
      /\ \A i \in DOMAIN batchChannel : batchChannel'[i] = batchChannel[i]
  BY <1>2, AppendEntries
<1>4. \A c : c # b => (InChannel(c)' <=> InChannel(c))
  BY <1>3 DEF InChannel
<1>5. At(b, "none") /\ At(b, "queued")'
  <2>1. exports[b] = 0 /\ ~InChannel(b)
    <3>1. b[1] = p /\ b[2] = request[p] /\ request[p] >= request[p]
      BY <1>1, BoundsAreNat DEF Inv, SafetyInv, TypeInv, TypeOK, ProducerType
    <3> QED
      BY <1>2, <3>1 DEF Inv, DeliveryInv, PlaceInv, Unsent, InChannel
  <2>2. InChannel(b)'
    BY <1>3 DEF InChannel
  <2> QED
    BY <2>1, <2>2 DEF At
<1>6. ASSUME NEW c \in Batches, c # b, NEW l, At(c, l)
      PROVE  At(c, l)'
  <2>1. Tracked(c)' = Tracked(c)
    BY DEF Tracked
  <2> QED
    BY <1>4, <1>6, <2>1 DEF At
<1> QED
  BY <1>2, <1>5, <1>6, MovesOnRule

LEMMA ReceiveLife ==
    ASSUME Inv, Inv', NEW e \in Exporters, Receive(e), UNCHANGED recorded
    PROVE  \E b : MovesOn(b, "queued", "exporting")
<1>1. PICK b : b = Head(batchChannel)
  OBVIOUS
<1>2. /\ batchChannel \in Seq(Batches) /\ b \in Batches /\ batchChannel # <<>>
      /\ exports \in [Batches -> Nat]
      /\ held \in [Exporters -> Batches \cup {NoBatch}] /\ epc[e] = "recv"
      /\ epc' = [epc EXCEPT ![e] = "export"] /\ DOMAIN epc = Exporters
      /\ DOMAIN exportOk = Exporters
  BY <1>1, HeadTailProperties
     DEF Inv, SafetyInv, TypeInv, TypeOK, ChannelType, ExporterType, StatsType, Receive, ExporterTo
<1>3. /\ batchChannel' = Tail(batchChannel)
      /\ held' = [held EXCEPT ![e] = b]
      /\ exportOk' = [exportOk EXCEPT ![e] = TRUE]
      /\ exports' = [exports EXCEPT ![b] = @ + 1] /\ UNCHANGED summaryChannel
  BY <1>1 DEF Receive, resultVars
<1>4. /\ 1 \in DOMAIN batchChannel /\ batchChannel[1] = b
      /\ \A i \in DOMAIN batchChannel' :
            i + 1 \in DOMAIN batchChannel /\ batchChannel'[i] = batchChannel[i + 1]
      /\ \A i \in DOMAIN batchChannel : i # 1 =>
            i - 1 \in DOMAIN batchChannel' /\ batchChannel'[i - 1] = batchChannel[i]
  BY <1>1, <1>2, <1>3, TailEntries
<1>5. At(b, "queued") /\ At(b, "exporting")'
  <2>1. InChannel(b) /\ held'[e] = b /\ epc'[e] = "export"
    BY <1>2, <1>3, <1>4 DEF InChannel
  <2> QED
    BY <2>1 DEF At
<1>6. ASSUME NEW c \in Batches, c # b, NEW l, At(c, l)
      PROVE  At(c, l)'
  <2>1. InChannel(c)' <=> InChannel(c)
    BY <1>4, <1>6 DEF InChannel
  <2>2. held[e] # c
    BY <1>2, <1>6 DEF Inv, DeliveryInv, PlaceInv, HeldOnce, Holding
  <2>3. \A f \in Exporters : held'[f] = c <=> held[f] = c
    BY <1>2, <1>3, <1>6, <2>2
  <2>4. Tracked(c)' <=> Tracked(c)
    BY <1>3, <2>3 DEF Tracked
  <2>5. exports'[c] = exports[c]
    BY <1>2, <1>3, <1>6
  <2>6. \A f \in Exporters : f # e => epc'[f] = epc[f] /\ exportOk'[f] = exportOk[f]
    BY <1>2, <1>3
  <2> QED
    BY <1>3, <1>6, <2>1, <2>2, <2>3, <2>4, <2>5, <2>6 DEF At
<1> QED
  BY <1>2, <1>5, <1>6, MovesOnRule

LEMMA ExportLife ==
    ASSUME Inv, Inv', NEW e \in Exporters, ExportReturns(e), UNCHANGED recorded
    PROVE  \E b : \E ok \in BOOLEAN : MovesOn(b, "exporting", Outcome(ok))
<1>1. PICK b : b = held[e]
  OBVIOUS
<1>2. PICK ok \in BOOLEAN : exportOk' = [exportOk EXCEPT ![e] = ok]
  BY DEF ExportReturns
<1>3. /\ epc[e] = "export" /\ epc' = [epc EXCEPT ![e] = "report"] /\ DOMAIN epc = Exporters
      /\ DOMAIN exportOk = Exporters
      /\ UNCHANGED <<held, exports, batchChannel, summaryChannel>>
  BY DEF ExportReturns, ExporterTo, batchVars, resultVars, Inv, SafetyInv, TypeInv, TypeOK,
         ExporterType
<1>4. b \in Batches /\ \A f \in Exporters : held[f] = b => f = e
  BY <1>1, <1>3 DEF Inv, DeliveryInv, PlaceInv, HeldOnce, Holding
<1>5. At(b, "exporting")
  BY <1>1, <1>3 DEF At
<1>6. At(b, Outcome(ok))'
  <2>1. held'[e] = b /\ epc'[e] = "report" /\ exportOk'[e] = ok
    BY <1>1, <1>2, <1>3
  <2>2. Outcome(ok)' = Outcome(exportOk'[e])
    BY <2>1 DEF Outcome
  <2> QED
    BY <2>1, <2>2 DEF At, Outcome
<1>7. ASSUME NEW c \in Batches, c # b, NEW l, At(c, l)
      PROVE  At(c, l)'
  <2>1. \A f \in Exporters : held[f] = c => epc'[f] = epc[f] /\ exportOk'[f] = exportOk[f]
    BY <1>1, <1>2, <1>3, <1>7
  <2>2. (Tracked(c)' <=> Tracked(c)) /\ (InChannel(c)' <=> InChannel(c))
    BY <1>3 DEF Tracked, InChannel
  <2> QED
    BY <1>3, <1>7, <2>1, <2>2 DEF At
<1>8. MovesOn(b, "exporting", Outcome(ok))
  BY <1>4, <1>5, <1>6, <1>7, MovesOnRule DEF Outcome
<1> QED
  BY <1>8

LEMMA ReportLife ==
    ASSUME Inv, Inv', NEW e \in Exporters, Report(e), UNCHANGED recorded
    PROVE  \A b \in Batches : Life(b)' = Life(b)
<1> DEFINE r == [batch |-> held[e], ok |-> exportOk[e]]
<1>1. /\ summaryChannel' = Append(summaryChannel, r) /\ epc[e] = "report"
      /\ held' = [held EXCEPT ![e] = NoBatch]
      /\ summaryChannel \in Seq(Results) /\ r \in Results
      /\ UNCHANGED <<exports, batchChannel, exportOk>>
      /\ \A f \in Exporters : f # e => epc'[f] = epc[f]
      /\ held \in [Exporters -> Batches \cup {NoBatch}] /\ held[e] \in Batches
  BY DEF Report, ExporterTo, ExporterReturns, batchVars, Inv, SafetyInv, TypeInv, TypeOK,
         ChannelType, ExporterType, Located, Results
<1>2. /\ DOMAIN summaryChannel' = DOMAIN summaryChannel \cup {Len(summaryChannel) + 1}
      /\ summaryChannel'[Len(summaryChannel) + 1] = r
      /\ \A i \in DOMAIN summaryChannel : summaryChannel'[i] = summaryChannel[i]
  BY <1>1, AppendEntries
<1>3. ASSUME NEW b \in Batches, b = held[e], NEW l, At(b, l)
      PROVE  At(b, l)'
  <2>1. At(b, Outcome(exportOk[e]))
    BY <1>1, <1>3 DEF At
  <2>2. l = Outcome(exportOk[e])
    BY <1>3, <2>1, LifeIsWhereItIs
  <2>3. l = Outcome(exportOk'[e])
    BY <1>1, <2>2
  <2> QED
    BY <1>1, <1>2, <1>3, <2>3 DEF At, Outcome
<1>4. ASSUME NEW b \in Batches, b # held[e], NEW l, At(b, l)
      PROVE  At(b, l)'
  <2>1. \A f \in Exporters : held'[f] = b <=> held[f] = b
    BY <1>1, <1>4, BatchParts
  <2>2. \A i \in DOMAIN summaryChannel' :
           summaryChannel'[i].batch = b =>
               i \in DOMAIN summaryChannel /\ summaryChannel'[i] = summaryChannel[i]
    BY <1>2, <1>4
  <2>3. (Tracked(b)' <=> Tracked(b)) /\ (InChannel(b)' <=> InChannel(b))
    BY <1>1, <1>2, <2>1, <2>2 DEF Tracked, InChannel
  <2> QED
    BY <1>1, <1>2, <1>4, <2>1, <2>3 DEF At, Outcome
<1> QED
  BY <1>3, <1>4, LifeStays

LEMMA CancelLife ==
    ASSUME Inv, Inv', NEW e \in Exporters, ExporterCancelled(e), UNCHANGED recorded
    PROVE  \/ \A b \in Batches : Life(b)' = Life(b)
           \/ \E b : \E ok \in BOOLEAN : MovesOn(b, Outcome(ok), "lost")
<1>1. PICK b, ok : b = held[e] /\ ok = exportOk[e]
  OBVIOUS
<1>2. /\ epc[e] \in {"recv", "report"} /\ held' = [held EXCEPT ![e] = NoBatch]
      /\ UNCHANGED <<exports, batchChannel, summaryChannel, exportOk>>
      /\ \A f \in Exporters : f # e => epc'[f] = epc[f]
      /\ held \in [Exporters -> Batches \cup {NoBatch}] /\ ok \in BOOLEAN
  BY <1>1 DEF ExporterCancelled, ExporterCancelledAt, ExporterReturns, batchVars, resultVars,
     Inv, SafetyInv, TypeInv, TypeOK, ExporterType
<1>3. CASE epc[e] = "recv"
  <2>1. held[e] = NoBatch
    BY <1>2, <1>3 DEF Inv, DeliveryInv, PlaceInv, HeldOnce, Holding
  <2>2. UNCHANGED held
    BY <1>2, <2>1
  <2> QED
    BY <1>2, <1>3, <2>2, StillStep DEF Holding
<1>4. CASE epc[e] = "report"
  <2>1. /\ b \in Batches /\ exports[b] = 1 /\ \A f \in Exporters : held[f] = b => f = e
        /\ \A i \in DOMAIN summaryChannel : summaryChannel[i].batch # b
        /\ \A r \in recorded : r.batch # b
    BY <1>1, <1>4 DEF Inv, DeliveryInv, PlaceInv, HeldOnce, Holding
  <2>2. At(b, Outcome(ok))
    BY <1>1, <1>4 DEF At
  <2>3. ~Tracked(b)'
    BY <1>2, <2>1, BatchParts DEF Tracked
  <2>4. At(b, "lost")'
    BY <1>2, <2>1, <2>3 DEF At
  <2>5. ASSUME NEW c \in Batches, c # b, NEW l, At(c, l)
        PROVE  At(c, l)'
    <3>1. \A f \in Exporters : held'[f] = c <=> held[f] = c
      BY <1>1, <1>2, <2>5, BatchParts
    <3>2. (Tracked(c)' <=> Tracked(c)) /\ (InChannel(c)' <=> InChannel(c))
      BY <1>2, <3>1 DEF Tracked, InChannel
    <3> QED
      BY <1>1, <1>2, <2>5, <3>1, <3>2 DEF At, Outcome
  <2>6. MovesOn(b, Outcome(ok), "lost")
    BY <2>1, <2>2, <2>4, <2>5, MovesOnRule
  <2> QED
    BY <1>2, <2>6
<1> QED
  BY <1>2, <1>3, <1>4

LEMMA RecordLife ==
    ASSUME Inv, Inv', RecordResult
    PROVE  \E b : \E ok \in BOOLEAN : MovesOn(b, Outcome(ok), Counted(ok))
<1>1. PICK r : r = Head(summaryChannel)
  OBVIOUS
<1>2. /\ summaryChannel \in Seq(Results) /\ summaryChannel # <<>> /\ r \in Results
      /\ summaryChannel' = Tail(summaryChannel) /\ recorded' = recorded \cup {r}
      /\ UNCHANGED <<exports, batchChannel, held, epc, exportOk>>
  BY <1>1, HeadTailProperties
     DEF Inv, SafetyInv, TypeInv, TypeOK, ChannelType, RecordResult, exporterVars, batchVars,
         historyVars
<1>3. /\ 1 \in DOMAIN summaryChannel /\ summaryChannel[1] = r
      /\ \A i \in DOMAIN summaryChannel' :
            i + 1 \in DOMAIN summaryChannel /\ summaryChannel'[i] = summaryChannel[i + 1]
      /\ \A i \in DOMAIN summaryChannel : i # 1 =>
            i - 1 \in DOMAIN summaryChannel' /\ summaryChannel'[i - 1] = summaryChannel[i]
  BY <1>1, <1>2, TailEntries
<1>4. r.batch \in Batches /\ r.ok \in BOOLEAN
  BY <1>2 DEF Results
<1>5. At(r.batch, Outcome(r.ok))
  BY <1>3 DEF At
<1>6. At(r.batch, Counted(r.ok))'
  BY <1>2 DEF At, Counted
<1>7. ASSUME NEW c \in Batches, c # r.batch, NEW l, At(c, l)
      PROVE  At(c, l)'
  <2>1. \A s : s.batch = c => (s \in recorded' <=> s \in recorded)
    BY <1>2, <1>7
  <2>2. (\E i \in DOMAIN summaryChannel' : summaryChannel'[i].batch = c) <=>
        (\E i \in DOMAIN summaryChannel : summaryChannel[i].batch = c)
    BY <1>3, <1>7
  <2>3. (Tracked(c)' <=> Tracked(c)) /\ (InChannel(c)' <=> InChannel(c))
    BY <1>2, <2>1, <2>2 DEF Tracked, InChannel
  <2> QED
    BY <1>2, <1>3, <1>7, <2>1, <2>3 DEF At, Outcome, Counted
<1>8. MovesOn(r.batch, Outcome(r.ok), Counted(r.ok))
  BY <1>4, <1>5, <1>6, <1>7, MovesOnRule DEF Outcome, Counted
<1> QED
  BY <1>4, <1>8

-----------------------------------------------------------------------------
(* The steps of Run, as steps of LoadRun. *)

Advance ==
    \/ \A b \in Batches : Life(b)' = Life(b)
    \/ \E b : MovesOn(b, "none", "queued")
    \/ \E b : MovesOn(b, "queued", "exporting")
    \/ \E b : \E ok \in BOOLEAN : MovesOn(b, "exporting", Outcome(ok))
    \/ \E b : \E ok \in BOOLEAN : MovesOn(b, Outcome(ok), Counted(ok))
    \/ \E b : \E ok \in BOOLEAN : MovesOn(b, Outcome(ok), "lost")

LEMMA AdvanceStep ==
    ASSUME Inv, Inv', [Next]_vars
    PROVE  Advance
<1>1. ASSUME NEW p \in Producers, ProducerStep(p)
      PROVE  Advance
  <2>1. UNCHANGED <<exports, held, epc, exportOk, summaryChannel, recorded>>
    BY <1>1 DEF ProducerStep, exporterVars, resultVars, statsVars
  <2>2. CASE Send(p)
    BY <2>1, <2>2, SendLife DEF Advance
  <2>3. CASE ~Send(p)
    <3>1. UNCHANGED batchChannel
      BY <1>1, <2>3 DEF ProducerStep, RampUpOver, IntervalOver, CheckEnd, CheckGo, BeginRequest,
         ProcessBatch, ProcessEmpty, ProcessFails, ProducerCancelled, ProducerCancelledAt,
         ProducerDone, batchVars
    <3> QED
      BY <2>1, <3>1, StillStep DEF Advance
  <2> QED
    BY <2>2, <2>3
<1>2. ASSUME NEW e \in Exporters, ExporterStep(e)
      PROVE  Advance
  <2>1. UNCHANGED recorded /\ DOMAIN epc = Exporters /\ DOMAIN exportOk = Exporters
    BY <1>2 DEF ExporterStep, statsVars, Inv, SafetyInv, TypeInv, TypeOK, ExporterType
  <2>2. CASE Receive(e)
    BY <2>1, <2>2, ReceiveLife DEF Advance
  <2>3. CASE ExportReturns(e)
    BY <2>1, <2>3, ExportLife DEF Advance
  <2>4. CASE Report(e)
    BY <2>1, <2>4, ReportLife DEF Advance
  <2>5. CASE ExporterCancelled(e)
    BY <2>1, <2>5, CancelLife DEF Advance
  <2>6. CASE NewExporter(e) \/ NewExporterFails(e) \/ ReceiveClosed(e) \/ Shutdown(e)
             \/ ExporterDone(e)
    <3>1. /\ UNCHANGED <<summaryChannel, exports, batchChannel, held, exportOk>>
          /\ \A f \in Exporters : Holding(f) => epc'[f] = epc[f]
      BY <2>1, <2>6 DEF NewExporter, NewExporterFails, ReceiveClosed, Shutdown, ExporterDone,
         ExporterTo, ExporterReturns, batchVars, resultVars, Holding
    <3> QED
      BY <2>1, <3>1, StillStep DEF Advance
  <2> QED
    BY <1>2, <2>2, <2>3, <2>4, <2>5, <2>6 DEF ExporterStep
<1>3. CASE RecordResult
  BY <1>3, RecordLife DEF Advance
<1>4. CASE CancelParent \/ Expire \/ CloseBatches \/ CloseSummaries \/ PublishSummary
           \/ RunReturns \/ Terminated \/ UNCHANGED vars
  <2>1. UNCHANGED <<batchChannel, exports, held, summaryChannel, recorded, epc, exportOk>>
    BY <1>4 DEF CancelParent, Expire, CloseBatches, CloseBatchesWhen, CloseSummaries,
       PublishSummary, PublishSummaryWhen, RunReturns, Terminated, vars, batchVars, historyVars,
       exporterVars, resultVars, statsVars
  <2> QED
    BY <2>1, StillStep DEF Advance
<1> QED
  BY <1>1, <1>2, <1>3, <1>4 DEF Next

\* nothing happens after Run has returned
LEMMA OverStays ==
    ASSUME Inv, returned, [Next]_vars
    PROVE  UNCHANGED vars
<1>1. /\ \A p \in Producers : ppc[p] = "done"
      /\ \A e \in Exporters : epc[e] = "done"
      /\ batchClosed /\ summaryClosed /\ summary # NoSummary /\ summaryChannel = <<>>
  BY DEF Inv, SafetyInv, Closing, DeliveryInv, EndInv, AllEnded, Over, SummaryFinal
<1>2. \A p \in Producers : ~ProducerStep(p)
  BY <1>1 DEF ProducerStep, RampUpOver, IntervalOver, CheckEnd, CheckGo, BeginRequest,
     ProcessBatch, ProcessEmpty, ProcessFails, Send, ProducerCancelled, ProducerCancelledAt,
     ProducerDone
<1>3. \A e \in Exporters : ~ExporterStep(e)
  BY <1>1 DEF ExporterStep, NewExporter, NewExporterFails, Receive, ReceiveClosed, ExportReturns,
     Report, ExporterCancelled, ExporterCancelledAt, Shutdown, ExporterDone
<1>4. ~CancelParent /\ ~Expire /\ ~CloseBatches /\ ~CloseSummaries /\ ~RecordResult
      /\ ~PublishSummary /\ ~RunReturns
  BY <1>1 DEF CancelParent, Expire, CloseBatches, CloseBatchesWhen, CloseSummaries, RecordResult,
     PublishSummary, PublishSummaryWhen, RunReturns
<1> QED
  BY <1>2, <1>3, <1>4 DEF Next, Terminated

LEMMA ReturnedIsKept ==
    ASSUME [Next]_vars, ~RunReturns
    PROVE  UNCHANGED returned
BY DEF Next, ProducerStep, ExporterStep, CancelParent, Expire, CloseBatches, CloseBatchesWhen,
       CloseSummaries, RecordResult, PublishSummary, PublishSummaryWhen, Terminated, vars

\* the verdict agrees with what became of the batches
LEMMA VerdictIsTrue ==
    ASSUME Inv, RunReturns
    PROVE  /\ \A b \in Batches : Life(b) \notin {"exporting", "ok", "failed"}
           /\ firstErr = "none" => \A b \in Batches : Life(b) \in {"none", "countedOk"}
           /\ firstErr = "export" => \E b \in Batches : Life(b) = "countedFailed"
<1>1. /\ \A e \in Exporters : epc[e] = "done"
      /\ Over /\ summaryChannel = <<>> /\ DOMAIN summaryChannel = {}
      /\ SafetyInv /\ DeliveryInv /\ recorded \subseteq Results
  BY DEF RunReturns, Over, Inv, DeliveryInv, EndInv, SummaryFinal, SafetyInv, TypeInv, TypeOK,
         StatsType
<1>2. ASSUME NEW b \in Batches
      PROVE  \/ \E r \in recorded : r.batch = b /\ Life(b) = Counted(r.ok)
             \/ exports[b] = 1 /\ ~Tracked(b) /\ Life(b) = "lost"
             \/ InChannel(b) /\ Life(b) = "queued"
             \/ Life(b) = "none"
  <2>1. At(b, Life(b))
    BY LifeIsWhereItIs
  <2> QED
    BY <1>1, <2>1 DEF At
<1>3. \A b \in Batches : Life(b) \notin {"exporting", "ok", "failed"}
  BY <1>2 DEF Counted
<1>4. ASSUME firstErr = "none", NEW b \in Batches
      PROVE  Life(b) \in {"none", "countedOk"}
  <2>1. \A r \in recorded : r.ok
    BY <1>1, <1>4, NothingLeft DEF Failures
  <2>2. ~InChannel(b)
    BY <1>1, <1>4, NothingLeft DEF InChannel
  <2>3. exports[b] = 1 => Tracked(b)
    BY <1>1, <1>4, NothingLeft DEF Tracked
  <2> QED
    BY <1>2, <2>1, <2>2, <2>3 DEF Counted
<1>5. ASSUME firstErr = "export"
      PROVE  \E b \in Batches : Life(b) = "countedFailed"
  <2>1. Ended("export") # {}
    BY <1>1, <1>5 DEF DeliveryInv, EndInv, ErrorsKept
  <2>2. recorded \cup Reports = recorded
    BY <1>1 DEF Reports
  <2>3. Cardinality(Failures(recorded)) = Cardinality(Ended("export"))
    BY <1>1, <2>2 DEF DeliveryInv, FailureInv
  <2>4. Failures(recorded) # {}
    <3>1. Cardinality(Ended("export")) # 0
      BY <2>1, Finiteness, FS_EmptySet
    <3> QED
      BY <2>3, <3>1, FS_EmptySet
  <2>5. PICK r \in recorded : ~r.ok
    BY <2>4 DEF Failures
  <2>6. r.batch \in Batches
    BY <1>1 DEF Results
  <2>7. At(r.batch, "countedFailed")
    BY <2>5 DEF At, Counted
  <2> QED
    BY <2>6, <2>7, LifeIsWhereItIs DEF Inv
<1> QED
  BY <1>3, <1>4, <1>5

-----------------------------------------------------------------------------
(* Run implements LoadRun. *)

LEMMA PromiseInit == Init => Promise!Init
<1> SUFFICES ASSUME Init PROVE Promise!Init
  OBVIOUS
<1>1. Inv
  BY InitSafetyInv, InitDeliveryInv DEF Inv
<1>2. ASSUME NEW b \in Batches PROVE Life(b) = "none"
  <2>1. exports[b] = 0 /\ ~InChannel(b)
    BY DEF Init, InChannel
  <2>2. At(b, "none")
    BY <2>1 DEF At
  <2> QED
    BY <1>1, <2>2, LifeIsWhereItIs
<1>3. ~returned
  BY DEF Init
<1> QED
  BY <1>2, <1>3 DEF Promise!Init

LEMMA PromiseMove ==
    ASSUME NEW b, NEW from, NEW to, MovesOn(b, from, to), ~returned, ~returned'
    PROVE  Promise!Move(b, from, to)
BY DEF MovesOn, Promise!Move

LEMMA PromiseStep == Inv /\ Inv' /\ [Next]_vars => [Promise!Next]_(Promise!vars)
<1> SUFFICES ASSUME Inv, Inv', [Next]_vars
             PROVE  [Promise!Next]_(Promise!vars)
  OBVIOUS
<1>0. returned \in BOOLEAN /\ returned' \in BOOLEAN /\ firstErr \in Errors
  BY DEF Inv, SafetyInv, TypeInv, TypeOK, GroupType
<1>1. CASE returned
  <2>1. UNCHANGED vars
    BY <1>1, OverStays
  <2>2. UNCHANGED <<returned, firstErr, recorded, summaryChannel, exports, batchChannel, held,
                    epc, exportOk>>
    BY <2>1 DEF vars, groupVars, statsVars, resultVars, historyVars, batchVars, exporterVars
  <2>3. \A b \in Batches : Life(b)' = Life(b)
    BY <2>2, StillStep
  <2> QED
    BY <2>2, <2>3 DEF Promise!vars
<1>2. CASE ~returned /\ RunReturns
  <2>1. /\ returned' /\ UNCHANGED firstErr
        /\ UNCHANGED <<recorded, summaryChannel, exports, batchChannel, held, epc, exportOk>>
    BY <1>2 DEF RunReturns, groupVars, statsVars, resultVars, historyVars, batchVars, exporterVars
  <2>2. \A b \in Batches : Life(b)' = Life(b)
    BY <2>1, StillStep
  <2>3. Promise!End(firstErr)
    BY <1>2, <2>1, <2>2, VerdictIsTrue DEF Promise!End, Promise!InFlight
  <2> QED
    BY <1>0, <2>3 DEF Promise!Next, Errors
<1>3. CASE ~returned /\ ~RunReturns
  <2>1. ~returned'
    BY <1>3, ReturnedIsKept
  <2>2. CASE \A b \in Batches : Life(b)' = Life(b)
    BY <1>3, <2>1, <2>2 DEF Promise!vars
  <2>3. ASSUME NEW b, MovesOn(b, "none", "queued")
        PROVE  Promise!Next
    <3>1. b \in Batches /\ Promise!Move(b, "none", "queued")
      BY <1>3, <2>1, <2>3, PromiseMove DEF MovesOn
    <3> QED
      BY <3>1 DEF Promise!Next, Promise!Queue
  <2>4. ASSUME NEW b, MovesOn(b, "queued", "exporting")
        PROVE  Promise!Next
    <3>1. b \in Batches /\ Promise!Move(b, "queued", "exporting")
      BY <1>3, <2>1, <2>4, PromiseMove DEF MovesOn
    <3> QED
      BY <3>1 DEF Promise!Next, Promise!Export
  <2>5. ASSUME NEW b, NEW ok \in BOOLEAN, MovesOn(b, "exporting", Outcome(ok))
        PROVE  Promise!Next
    <3>1. b \in Batches /\ Promise!Move(b, "exporting", Outcome(ok))
      BY <1>3, <2>1, <2>5, PromiseMove DEF MovesOn, Outcome
    <3>2. Promise!Answer(b)
      BY <3>1 DEF Outcome, Promise!Answer
    <3> QED
      BY <3>1, <3>2 DEF Promise!Next
  <2>6. ASSUME NEW b, NEW ok \in BOOLEAN, MovesOn(b, Outcome(ok), Counted(ok))
        PROVE  Promise!Next
    <3>1. b \in Batches /\ Promise!Move(b, Outcome(ok), Counted(ok))
      BY <1>3, <2>1, <2>6, PromiseMove DEF MovesOn, Outcome, Counted
    <3>2. Promise!Tally(b)
      BY <3>1 DEF Outcome, Counted, Promise!Tally
    <3> QED
      BY <3>1, <3>2 DEF Promise!Next
  <2>7. ASSUME NEW b, NEW ok \in BOOLEAN, MovesOn(b, Outcome(ok), "lost")
        PROVE  Promise!Next
    <3>1. b \in Batches /\ Promise!Move(b, Outcome(ok), "lost")
      BY <1>3, <2>1, <2>7, PromiseMove DEF MovesOn, Outcome
    <3>2. Promise!Drop(b)
      BY <3>1 DEF Outcome, Promise!Drop
    <3> QED
      BY <3>1, <3>2 DEF Promise!Next
  <2> QED
    BY <2>2, <2>3, <2>4, <2>5, <2>6, <2>7, AdvanceStep DEF Advance
<1> QED
  BY <1>1, <1>2, <1>3

\* Every behaviour of Run is one of LoadRun: its batches live as LoadRun lets them, and the
\* error it returns is a verdict that LoadRun allows.
THEOREM RunKeepsItsPromise == Spec => ImplementsLoadRun
<1>1. Spec => []Inv
  BY SafetyInvariance, DeliveryInvariance, PTL DEF Inv
<1> QED
  BY <1>1, PromiseInit, PromiseStep, PTL DEF Spec, ImplementsLoadRun, Promise!Spec

-----------------------------------------------------------------------------
(* Progress. *)

\* how far the goroutines are: a producer passes these places with each request, and
\* every request brings it further; an exporter goes on to the next place but for a new batch
ProducerPlace(l) ==
    CASE l \in {"rampUp", "interval"} -> 0
      [] l = "check" -> 1
      [] l = "process" -> 2
      [] l = "send" -> 3
      [] l = "returning" -> 4
      [] l = "done" -> 5

ExporterPlace(l) ==
    CASE l = "init" -> 0
      [] l = "export" -> 1
      [] l = "report" -> 2
      [] l = "recv" -> 3
      [] l = "shutdown" -> 4
      [] l = "returning" -> 5
      [] l = "done" -> 6

LastPlace == 6 * Bound + 5
ProducersAt == [p \in Producers |-> 6 * request[p] + ProducerPlace(ppc[p])]
ExportersAt == [e \in Exporters |-> ExporterPlace(epc[e])]

\* the places up to top that the members of S have before them
Before(S, at, top) == {x \in S \X (1 .. top) : x[2] > at[x[1]]}

Unexported == {b \in Batches : exports[b] = 0}

Once(happened) == IF happened THEN 0 ELSE 1
Events ==
    Once(parentDone) + Once(expired) + Once(batchClosed) + Once(summaryClosed)
    + Once(summary # NoSummary) + Once(returned)

\* what is still to do: batches to export, with what else an exporter has to do for each;
\* then results to record, and events that happen once
Rank == <<Cardinality(Unexported), Cardinality(Before(Producers, ProducersAt, LastPlace)),
          Cardinality(Before(Exporters, ExportersAt, 6)), Len(summaryChannel) + Events>>

LEMMA BeforeIsFinite ==
    ASSUME NEW S, IsFiniteSet(S), NEW at, NEW top \in Nat
    PROVE  IsFiniteSet(Before(S, at, top)) /\ Cardinality(Before(S, at, top)) \in Nat
<1>1. IsFiniteSet(S \X (1 .. top))
  <2>1. IsFiniteSet(1 .. top)
    BY FS_Interval
  <2> QED
    BY <2>1, FS_Product
<1>2. Before(S, at, top) \in SUBSET (S \X (1 .. top))
  BY DEF Before
<1> QED
  BY <1>1, <1>2, FS_Subset, FS_CardinalityType

LEMMA BeforeShrinks ==
    ASSUME NEW S, IsFiniteSet(S), NEW top \in Nat, NEW at, NEW next,
           \A s \in S : at[s] \in Nat /\ next[s] \in 0 .. top /\ next[s] >= at[s],
           NEW s \in S, next[s] > at[s]
    PROVE  Cardinality(Before(S, next, top)) < Cardinality(Before(S, at, top))
<1>1. Before(S, next, top) \in SUBSET Before(S, at, top)
  <2> SUFFICES ASSUME NEW r \in S, NEW k \in 1 .. top, k > next[r]
               PROVE  k > at[r]
    BY DEF Before
  <2>1. at[r] \in Nat /\ next[r] \in Nat /\ next[r] >= at[r]
    OBVIOUS
  <2> QED
    BY <2>1
<1>2. <<s, next[s]>> \in Before(S, at, top)
  <2>1. next[s] \in 1 .. top
    OBVIOUS
  <2> QED
    BY <2>1 DEF Before
<1>3. <<s, next[s]>> \notin Before(S, next, top)
  <2>1. next[s] \in Nat /\ ~(next[s] > next[s])
    OBVIOUS
  <2> QED
    BY <2>1 DEF Before
<1>4. /\ Cardinality(Before(S, next, top)) <= Cardinality(Before(S, at, top))
      /\ Cardinality(Before(S, at, top)) # Cardinality(Before(S, next, top))
  BY <1>1, <1>2, <1>3, BeforeIsFinite, FS_Subset
<1> QED
  BY <1>4, BeforeIsFinite

PlacesType ==
    /\ LastPlace \in Nat
    /\ \A p \in Producers : ProducersAt[p] \in 0 .. LastPlace
    /\ \A e \in Exporters : ExportersAt[e] \in 0 .. 6

LEMMA PlacesAreTyped == TypeInv => PlacesType
<1> SUFFICES ASSUME TypeInv PROVE PlacesType
  OBVIOUS
<1>1. PICK B \in Nat : B = Bound
  BY BoundsAreNat
<1>2. ASSUME NEW p \in Producers
      PROVE  ProducersAt[p] \in 0 .. LastPlace
  <2>1. PICK r \in 0 .. B : r = request[p]
    BY <1>1 DEF TypeInv, TypeOK, ProducerType
  <2>2. ppc[p] \in {"rampUp", "check", "process", "send", "interval", "returning", "done"}
    BY DEF TypeInv, TypeOK, ProducerType
  <2>3. PICK k \in 0 .. 5 : k = ProducerPlace(ppc[p])
    BY <2>2 DEF ProducerPlace
  <2>4. ProducersAt[p] = 6 * r + k
    BY <2>1, <2>3 DEF ProducersAt
  <2> QED
    BY <1>1, <2>1, <2>3, <2>4 DEF LastPlace
<1>3. ASSUME NEW e \in Exporters
      PROVE  ExportersAt[e] \in 0 .. 6
  <2>1. epc[e] \in {"init", "recv", "export", "report", "shutdown", "returning", "done"}
    BY DEF TypeInv, TypeOK, ExporterType
  <2> QED
    BY <2>1 DEF ExportersAt, ExporterPlace
<1> QED
  BY <1>1, <1>2, <1>3 DEF LastPlace, PlacesType

LEMMA PlacesAreTypedNext == (TypeInv => PlacesType)'
BY PlacesAreTyped, PTL

LEMMA EventsType == Events \in Nat
<1>1. \A x : Once(x) \in Nat
  BY DEF Once
<1> HIDE DEF Once
<1> QED
  BY <1>1 DEF Events

LEMMA UnexportedIsFinite == Unexported \in SUBSET Batches /\ IsFiniteSet(Unexported)
<1>1. Unexported \in SUBSET Batches
  BY DEF Unexported
<1> QED
  BY <1>1, Finiteness, FS_Subset

LEMMA RankType ==
    ASSUME TypeInv
    PROVE  Rank \in Ranks
<1>1. Cardinality(Unexported) \in Nat
  BY UnexportedIsFinite, FS_CardinalityType
<1>2. Cardinality(Before(Producers, ProducersAt, LastPlace)) \in Nat
  BY PlacesAreTyped, BeforeIsFinite, PipelineAssumption DEF PlacesType
<1>3. Cardinality(Before(Exporters, ExportersAt, 6)) \in Nat
  BY BeforeIsFinite, PipelineAssumption
<1>4. Len(summaryChannel) + Events \in Nat
  BY EventsType, LenProperties DEF TypeInv, TypeOK, ChannelType
<1> QED
  BY <1>1, <1>2, <1>3, <1>4 DEF Rank, Ranks

\* a producer's step brings it further, and nobody else back
LEMMA ProducerDescends ==
    ASSUME TypeInv, TypeInv', NEW p \in Producers, ProducerStep(p)
    PROVE  Lower(Rank', Rank)
<1>1. /\ ppc \in [Producers -> {"rampUp", "check", "process", "send", "interval",
                                "returning", "done"}]
      /\ request \in [Producers -> Nat] /\ exports' = exports
  BY BoundsAreNat DEF TypeInv, TypeOK, ProducerType, ProducerStep
<1>2. /\ \A q \in Producers : q # p => ppc'[q] = ppc[q] /\ request'[q] = request[q]
      /\ \/ request'[p] = request[p] /\ ProducerPlace(ppc'[p]) > ProducerPlace(ppc[p])
         \/ request'[p] = request[p] + 1 /\ ppc'[p] \in {"interval", "check"}
  <2> USE <1>1 DEF ProducerTo, ProducerReturns, NextRequest, ProducerPlace
  <2>1. CASE RampUpOver(p) \/ IntervalOver(p)
    BY <2>1 DEF RampUpOver, IntervalOver
  <2>2. CASE CheckEnd(p)
    BY <2>2 DEF CheckEnd
  <2>3. CASE CheckGo(p)
    BY <2>3 DEF CheckGo, BeginRequest
  <2>4. CASE ProcessBatch(p)
    BY <2>4 DEF ProcessBatch
  <2>5. CASE ProcessEmpty(p)
    BY <2>5 DEF ProcessEmpty
  <2>6. CASE ProcessFails(p)
    BY <2>6 DEF ProcessFails
  <2>7. CASE Send(p)
    BY <2>7 DEF Send
  <2>8. CASE ProducerCancelled(p)
    BY <2>8 DEF ProducerCancelled, ProducerCancelledAt
  <2>9. CASE ProducerDone(p)
    BY <2>9 DEF ProducerDone
  <2> QED
    BY <2>1, <2>2, <2>3, <2>4, <2>5, <2>6, <2>7, <2>8, <2>9 DEF ProducerStep
<1>3. PICK next : next = ProducersAt'
  OBVIOUS
<1>4. /\ \A q \in Producers : ProducersAt[q] = 6 * request[q] + ProducerPlace(ppc[q])
      /\ \A q \in Producers : next[q] = 6 * request'[q] + ProducerPlace(ppc'[q])
  BY <1>3 DEF ProducersAt
<1>5. \A q \in Producers : ProducerPlace(ppc[q]) \in 0 .. 5
  BY <1>1 DEF ProducerPlace
<1>6. ppc'[p] \in {"interval", "check"} => ProducerPlace(ppc'[p]) \in {0, 1}
  BY DEF ProducerPlace
<1>7. LastPlace \in Nat /\ \A q \in Producers : ProducersAt[q] \in Nat /\ next[q] \in 0 .. LastPlace
  <2>1. \A q \in Producers : ProducersAt[q] \in 0 .. LastPlace
    BY PlacesAreTyped DEF PlacesType
  <2>2. (LastPlace \in Nat /\ \A q \in Producers : ProducersAt[q] \in 0 .. LastPlace)'
    BY PlacesAreTypedNext DEF PlacesType
  <2>3. LastPlace' = LastPlace
    BY DEF LastPlace, Bound
  <2> QED
    BY <1>3, <2>1, <2>2, <2>3
<1>8. next[p] > ProducersAt[p]
  <2>1. PICK r \in Nat, k \in 0 .. 5 : r = request[p] /\ k = ProducerPlace(ppc[p])
    BY <1>1, <1>5
  <2>2. ProducersAt[p] = 6 * r + k
    BY <1>4, <2>1
  <2>3. CASE request'[p] = r /\ ProducerPlace(ppc'[p]) > k
    <3>1. next[p] = 6 * r + ProducerPlace(ppc'[p])
      BY <1>4, <2>3
    <3>2. next[p] \in Nat
      BY <1>7
    <3>3. ProducerPlace(ppc'[p]) \in Int
      BY <1>1, <2>1, <2>3 DEF ProducerPlace, TypeInv, TypeOK, ProducerType
    <3> QED
      BY <2>1, <2>2, <2>3, <3>1, <3>3
  <2>4. CASE request'[p] = r + 1 /\ ppc'[p] \in {"interval", "check"}
    <3>1. PICK j \in {0, 1} : j = ProducerPlace(ppc'[p])
      BY <1>6, <2>4
    <3>2. next[p] = 6 * (r + 1) + j
      BY <1>4, <2>4, <3>1
    <3> QED
      BY <2>1, <2>2, <3>1, <3>2
  <2> QED
    BY <1>2, <2>1, <2>3, <2>4
<1>9. \A q \in Producers : next[q] >= ProducersAt[q]
  <2>1. \A q \in Producers : q # p => next[q] = ProducersAt[q]
    BY <1>2, <1>4
  <2> QED
    BY <1>7, <1>8, <2>1
<1>10. Cardinality(Before(Producers, next, LastPlace))
         < Cardinality(Before(Producers, ProducersAt, LastPlace))
  BY <1>7, <1>8, <1>9, BeforeShrinks, PipelineAssumption
<1>11. Rank'[1] = Rank[1]
  BY <1>1 DEF Rank, Unexported, Batches, Bound
<1>12. Rank'[2] = Cardinality(Before(Producers, next, LastPlace))
  BY <1>3 DEF Rank, Before, LastPlace, Bound
<1>13. Rank[2] = Cardinality(Before(Producers, ProducersAt, LastPlace))
  BY DEF Rank
<1> QED
  BY <1>10, <1>11, <1>12, <1>13 DEF Lower

\* a batch is exported once: an exporter that takes one leaves fewer
LEMMA ReceiveDescends ==
    ASSUME TypeInv, DeliveryInv, NEW e \in Exporters, Receive(e)
    PROVE  Lower(Rank', Rank)
<1>1. PICK b : b = Head(batchChannel)
  OBVIOUS
<1>2. b \in Batches /\ exports[b] = 0 /\ exports \in [Batches -> Nat]
  <2>1. batchChannel \in Seq(Batches) /\ batchChannel # <<>>
    BY DEF Receive, TypeInv, TypeOK, ChannelType
  <2>2. 1 \in DOMAIN batchChannel /\ batchChannel[1] = b
    BY <1>1, <2>1, TailEntries
  <2>3. b \in Batches
    BY <2>1, <2>2
  <2> QED
    BY <2>2, <2>3 DEF DeliveryInv, PlaceInv, QueuedOnce, TypeInv, TypeOK, StatsType
<1>3. exports' = [exports EXCEPT ![b] = @ + 1]
  BY <1>1 DEF Receive
<1>4. b \in Unexported /\ b \notin Unexported' /\ Unexported' \in SUBSET Unexported
  BY <1>2, <1>3 DEF Unexported, Batches, Bound
<1>5. PICK U : U = Unexported'
  OBVIOUS
<1>6. Cardinality(U) <= Cardinality(Unexported) /\ Cardinality(U) # Cardinality(Unexported)
      /\ Cardinality(U) \in Nat /\ Cardinality(Unexported) \in Nat
  BY <1>4, <1>5, UnexportedIsFinite, FS_Subset, FS_CardinalityType
<1>7. Rank[1] = Cardinality(Unexported) /\ Rank'[1] = Cardinality(U)
  BY <1>5 DEF Rank
<1> QED
  BY <1>6, <1>7 DEF Lower

\* every other step of an exporter brings it further
LEMMA ExporterDescends ==
    ASSUME TypeInv, TypeInv', DeliveryInv, NEW e \in Exporters, ExporterStep(e)
    PROVE  Lower(Rank', Rank)
<1>1. CASE Receive(e)
  BY <1>1, ReceiveDescends
<1>2. CASE ~Receive(e)
  <2>1. /\ epc \in [Exporters -> {"init", "recv", "export", "report", "shutdown",
                                  "returning", "done"}]
        /\ UNCHANGED <<request, ppc>>
    BY DEF TypeInv, TypeOK, ExporterType, ExporterStep, producerVars
  <2>2. /\ exports' = exports
        /\ \A f \in Exporters : f # e => epc'[f] = epc[f]
        /\ ExporterPlace(epc'[e]) > ExporterPlace(epc[e])
    <3> USE <2>1 DEF ExporterTo, ExporterReturns, ExporterPlace
    <3>1. CASE NewExporter(e)
      BY <3>1 DEF NewExporter
    <3>2. CASE NewExporterFails(e)
      BY <3>2 DEF NewExporterFails
    <3>3. CASE ReceiveClosed(e)
      BY <3>3 DEF ReceiveClosed
    <3>4. CASE ExportReturns(e)
      BY <3>4 DEF ExportReturns
    <3>5. CASE Report(e)
      BY <3>5 DEF Report
    <3>6. CASE ExporterCancelled(e)
      BY <3>6 DEF ExporterCancelled, ExporterCancelledAt
    <3>7. CASE Shutdown(e)
      BY <3>7 DEF Shutdown
    <3>8. CASE ExporterDone(e)
      BY <3>8 DEF ExporterDone
    <3> QED
      BY <1>2, <3>1, <3>2, <3>3, <3>4, <3>5, <3>6, <3>7, <3>8 DEF ExporterStep
  <2>3. PICK next : next = ExportersAt'
    OBVIOUS
  <2>4. \A f \in Exporters : ExportersAt[f] \in 0 .. 6
    BY PlacesAreTyped DEF PlacesType
  <2>5. \A f \in Exporters : next[f] \in 0 .. 6
    <3>1. (\A f \in Exporters : ExportersAt[f] \in 0 .. 6)'
      BY PlacesAreTypedNext DEF PlacesType
    <3> QED
      BY <2>3, <3>1
  <2>6. next[e] > ExportersAt[e] /\ \A f \in Exporters : f # e => next[f] = ExportersAt[f]
    BY <2>2, <2>3 DEF ExportersAt
  <2>7. Cardinality(Before(Exporters, next, 6)) < Cardinality(Before(Exporters, ExportersAt, 6))
    <3>1. \A f \in Exporters :
             ExportersAt[f] \in Nat /\ next[f] \in 0 .. 6 /\ next[f] >= ExportersAt[f]
      BY <2>4, <2>5, <2>6
    <3> QED
      BY <2>6, <3>1, BeforeShrinks, PipelineAssumption
  <2>8. Rank'[1] = Rank[1] /\ Rank'[2] = Rank[2]
    BY <2>1, <2>2 DEF Rank, Unexported, Batches, Bound, Before, ProducersAt, LastPlace
  <2>9. Rank'[3] = Cardinality(Before(Exporters, next, 6))
    BY <2>3 DEF Rank, Before
  <2>10. Rank[3] = Cardinality(Before(Exporters, ExportersAt, 6))
    BY DEF Rank
  <2> QED
    BY <2>7, <2>8, <2>9, <2>10 DEF Lower
<1> QED
  BY <1>1, <1>2

\* the other goroutines record a result, or do what is done once
LEMMA RunDescendsToo ==
    ASSUME TypeInv,
           \/ CancelParent \/ Expire \/ CloseBatches \/ CloseSummaries
           \/ RecordResult \/ PublishSummary \/ RunReturns
    PROVE  Lower(Rank', Rank)
<1>1. UNCHANGED <<request, ppc, epc, exports>>
  BY DEF CancelParent, Expire, CloseBatches, CloseBatchesWhen, CloseSummaries, RecordResult,
         PublishSummary, PublishSummaryWhen, RunReturns, producerVars, exporterVars, historyVars
<1>2. Rank'[1] = Rank[1] /\ Rank'[2] = Rank[2] /\ Rank'[3] = Rank[3]
  BY <1>1 DEF Rank, Unexported, Batches, Bound, Before, ProducersAt, ExportersAt, LastPlace
<1>3. Len(summaryChannel) \in Nat /\ Len(summaryChannel') \in Nat
  <2>1. CASE RecordResult
    BY <2>1, HeadTailProperties, LenProperties DEF RecordResult, TypeInv, TypeOK, ChannelType
  <2>2. CASE summaryChannel' = summaryChannel
    BY <2>2, LenProperties DEF TypeInv, TypeOK, ChannelType
  <2> QED
    BY <2>1, <2>2
       DEF CancelParent, Expire, CloseBatches, CloseBatchesWhen, CloseSummaries,
           PublishSummary, PublishSummaryWhen, RunReturns, resultVars
<1>4. Len(summaryChannel') + Events' < Len(summaryChannel) + Events
  <2>1. CASE RecordResult
    <3>1. Len(summaryChannel') < Len(summaryChannel)
      BY <2>1, HeadTailProperties, LenProperties DEF RecordResult, TypeInv, TypeOK, ChannelType
    <3>2. Events' = Events
      BY <2>1 DEF RecordResult, Events, groupVars, batchVars
    <3> QED
      BY <1>3, <3>1, <3>2, EventsType
  <2>2. CASE ~RecordResult
    <3>1. summaryChannel' = summaryChannel
      BY <2>2 DEF CancelParent, Expire, CloseBatches, CloseBatchesWhen, CloseSummaries,
                  PublishSummary, PublishSummaryWhen, RunReturns, resultVars
    <3>2. PICK c1, c2, c3, c4, c5, c6 :
             /\ c1 = Once(parentDone) /\ c2 = Once(expired) /\ c3 = Once(batchClosed)
             /\ c4 = Once(summaryClosed) /\ c5 = Once(summary # NoSummary) /\ c6 = Once(returned)
      OBVIOUS
    <3>3. PICK d1, d2, d3, d4, d5, d6 :
             /\ d1 = Once(parentDone)' /\ d2 = Once(expired)' /\ d3 = Once(batchClosed)'
             /\ d4 = Once(summaryClosed)' /\ d5 = Once(summary # NoSummary)'
             /\ d6 = Once(returned)'
      OBVIOUS
    <3>4. \/ c1 = 1 /\ d1 = 0 /\ d2 = c2 /\ d3 = c3 /\ d4 = c4 /\ d5 = c5 /\ d6 = c6
          \/ c2 = 1 /\ d2 = 0 /\ d1 = c1 /\ d3 = c3 /\ d4 = c4 /\ d5 = c5 /\ d6 = c6
          \/ c3 = 1 /\ d3 = 0 /\ d1 = c1 /\ d2 = c2 /\ d4 = c4 /\ d5 = c5 /\ d6 = c6
          \/ c4 = 1 /\ d4 = 0 /\ d1 = c1 /\ d2 = c2 /\ d3 = c3 /\ d5 = c5 /\ d6 = c6
          \/ c5 = 1 /\ d5 = 0 /\ d1 = c1 /\ d2 = c2 /\ d3 = c3 /\ d4 = c4 /\ d6 = c6
          \/ c6 = 1 /\ d6 = 0 /\ d1 = c1 /\ d2 = c2 /\ d3 = c3 /\ d4 = c4 /\ d5 = c5
      <4> USE <3>2, <3>3 DEF Once, groupVars, batchVars, resultVars, statsVars
      <4>1. CASE CancelParent
        BY <4>1 DEF CancelParent
      <4>2. CASE Expire
        BY <4>2 DEF Expire
      <4>3. CASE CloseBatches
        BY <4>3 DEF CloseBatches, CloseBatchesWhen
      <4>4. CASE CloseSummaries
        BY <4>4 DEF CloseSummaries
      <4>5. CASE PublishSummary
        <5>1. summary = NoSummary /\ summary' # NoSummary
          BY <4>5 DEF PublishSummary, PublishSummaryWhen, TypeInv, TypeOK, StatsType, Counters,
                      NoSummary
        <5> QED
          BY <4>5, <5>1 DEF PublishSummary, PublishSummaryWhen
      <4>6. CASE RunReturns
        BY <4>6 DEF RunReturns
      <4> QED
        BY <2>2, <4>1, <4>2, <4>3, <4>4, <4>5, <4>6
    <3>5. c1 \in Nat /\ c2 \in Nat /\ c3 \in Nat /\ c4 \in Nat /\ c5 \in Nat /\ c6 \in Nat
      BY <3>2 DEF Once
    <3>6. Events = c1 + c2 + c3 + c4 + c5 + c6 /\ Events' = d1 + d2 + d3 + d4 + d5 + d6
      BY <3>2, <3>3 DEF Events
    <3>7. Events' < Events /\ Events' \in Nat
      BY <3>4, <3>5, <3>6
    <3> QED
      BY <1>3, <3>1, <3>7, EventsType
  <2> QED
    BY <2>1, <2>2
<1>5. Rank'[4] = Len(summaryChannel') + Events' /\ Rank[4] = Len(summaryChannel) + Events
  BY DEF Rank
<1> QED
  BY <1>2, <1>4, <1>5 DEF Lower

\* Run does only finitely many steps within the request limit, however its goroutines
\* interleave and whatever fails: each step lowers the rank, which cannot go on for ever
\* (NoEndlessDescent).
THEOREM RunDescends == Spec => [](Rank \in Ranks) /\ [][Lower(Rank', Rank)]_vars
<1>1. SafetyInv => Rank \in Ranks
  BY RankType DEF SafetyInv
<1>2. ASSUME SafetyInv, SafetyInv', DeliveryInv, [Next]_vars
      PROVE  [Lower(Rank', Rank)]_vars
  <2>1. TypeInv /\ TypeInv'
    BY <1>2 DEF SafetyInv
  <2>2. CASE \E p \in Producers : ProducerStep(p)
    BY <2>1, <2>2, ProducerDescends
  <2>3. CASE \E e \in Exporters : ExporterStep(e)
    BY <1>2, <2>1, <2>3, ExporterDescends
  <2>4. CASE \/ CancelParent \/ Expire \/ CloseBatches \/ CloseSummaries
             \/ RecordResult \/ PublishSummary \/ RunReturns
    BY <2>1, <2>4, RunDescendsToo
  <2>5. CASE UNCHANGED vars
    BY <2>5
  <2> QED
    BY <1>2, <2>2, <2>3, <2>4, <2>5 DEF Next, Terminated
<1> QED
  BY <1>1, <1>2, SafetyInvariance, DeliveryInvariance, PTL DEF Spec

-----------------------------------------------------------------------------
(* No hang. *)

\* a producer, or an exporter, has a step to take: the guards of its selects
ProducerCanGo(p) ==
    \/ ppc[p] \in {"rampUp", "interval", "process", "returning"}
    \/ ppc[p] = "check" /\ (Requests > 0 \/ request[p] < MaxRequests \/ expired \/ cancelled)
    \/ ppc[p] = "send" /\ (Len(batchChannel) < BatchCap \/ cancelled)

ExporterCanGo(e) ==
    \/ epc[e] \in {"init", "export", "shutdown", "returning"}
    \/ epc[e] = "recv" /\ (batchChannel # <<>> \/ batchClosed \/ cancelled)
    \/ epc[e] = "report" /\ (Len(summaryChannel) < SummaryCap \/ cancelled)

\* the goroutines that close, count and wait, and the deadline
OthersCanGo ==
    \/ ~batchClosed /\ \A p \in Producers : ProducerGone(p)
    \/ ~summaryClosed /\ \A e \in Exporters : ExporterGone(e)
    \/ summaryChannel # <<>>
    \/ summary = NoSummary /\ summaryClosed /\ summaryChannel = <<>>
    \/ Over /\ summaryClosed
    \/ HasDeadline /\ ~expired

SomebodyCanGo ==
    returned \/ OthersCanGo \/ (\E p \in Producers : ProducerCanGo(p))
             \/ (\E e \in Exporters : ExporterCanGo(e))

\* the errgroup's error comes with the cancellation
ErrorCancels == firstErr # "none" => cancelled

LEMMA ErrorCancelsAlways == Spec => []ErrorCancels
<1>1. Init => ErrorCancels
  BY DEF Init, ErrorCancels
<1>2. ASSUME SafetyInv, ErrorCancels, [Next]_vars
      PROVE  ErrorCancels'
  <2> USE <1>2 DEF ErrorCancels
  <2>1. CASE UNCHANGED groupVars
    BY <2>1 DEF groupVars
  <2>2. ASSUME NEW err, GroupReturn(err)
        PROVE  ErrorCancels'
    <3>1. cancelled \in BOOLEAN
      BY DEF SafetyInv, TypeInv, TypeOK, GroupType
    <3>2. CASE err = "none"
      BY <2>2, <3>1, <3>2 DEF GroupReturn
    <3>3. CASE err # "none"
      BY <2>2, <3>1, <3>3 DEF GroupReturn
    <3> QED
      BY <3>2, <3>3
  <2>3. CASE CancelParent
    BY <2>3 DEF CancelParent
  <2>4. CASE \E p \in Producers : ProducerStep(p)
    BY <2>1, <2>2, <2>4 DEF ProducerStep, ProducerDone
  <2>5. CASE \E e \in Exporters : ExporterStep(e)
    BY <2>1, <2>2, <2>5 DEF ExporterStep, ExporterDone
  <2> QED
    BY <1>2, <2>1, <2>3, <2>4, <2>5
       DEF Next, Expire, CloseBatches, CloseBatchesWhen, CloseSummaries, RecordResult,
           PublishSummary, PublishSummaryWhen, RunReturns, Terminated, vars
<1> QED
  BY <1>1, <1>2, SafetyInvariance, PTL DEF Spec

LEMMA RoomExists == Len(<<>>) < BatchCap /\ Len(<<>>) < SummaryCap
<1>1. Cardinality(Producers) \in Nat /\ Cardinality(Producers) # 0
  BY PipelineAssumption, FS_EmptySet, FS_CardinalityType
<1>2. PICK n \in Nat : n = Cardinality(Producers)
  BY <1>1
<1> QED
  BY <1>1, <1>2, EmptySeq DEF BatchCap, SummaryCap

\* with a request limit or a deadline a producer outside a send has a step to take, or the
\* deadline has
LEMMA ProducersGoOn ==
    ASSUME TypeInv, Requests > 0 \/ HasDeadline, ~SomebodyCanGo, NEW p \in Producers
    PROVE  ppc[p] = "done" \/ (ppc[p] = "send" /\ ~(Len(batchChannel) < BatchCap) /\ ~cancelled)
<1>1. ~ProducerCanGo(p) /\ ~(HasDeadline /\ ~expired)
  BY DEF SomebodyCanGo, OthersCanGo
<1>2. ppc[p] \in {"rampUp", "check", "process", "send", "interval", "returning", "done"}
  BY DEF TypeInv, TypeOK, ProducerType
<1> QED
  BY <1>1, <1>2 DEF ProducerCanGo

LEMMA ExportersGoOn ==
    ASSUME TypeInv, ~SomebodyCanGo, NEW e \in Exporters
    PROVE  \/ epc[e] = "done"
           \/ epc[e] = "recv" /\ batchChannel = <<>> /\ ~batchClosed /\ ~cancelled
<1>1. ~ExporterCanGo(e) /\ summaryChannel = <<>>
  BY DEF SomebodyCanGo, OthersCanGo
<1>2. epc[e] \in {"init", "recv", "export", "report", "shutdown", "returning", "done"}
  BY DEF TypeInv, TypeOK, ExporterType
<1>3. Len(summaryChannel) < SummaryCap
  BY <1>1, RoomExists
<1> QED
  BY <1>1, <1>2, <1>3 DEF ExporterCanGo

\* Run never hangs: until it has returned, one of its goroutines has a step to take,
\* whatever goroutines have ended with whatever errors and however full the channels are.
THEOREM RunNeverHangs ==
    ASSUME Requests > 0 \/ HasDeadline
    PROVE  Spec => []SomebodyCanGo
<1>1. ASSUME SafetyInv, DeliveryInv, ErrorCancels, ~SomebodyCanGo
      PROVE  FALSE
  <2>1. /\ ~returned /\ summaryChannel = <<>>
        /\ ~(~batchClosed /\ \A p \in Producers : ProducerGone(p))
        /\ ~(~summaryClosed /\ \A e \in Exporters : ExporterGone(e))
        /\ ~(summary = NoSummary /\ summaryClosed /\ summaryChannel = <<>>)
        /\ ~(Over /\ summaryClosed)
    BY <1>1 DEF SomebodyCanGo, OthersCanGo
  <2>2. TypeInv
    BY <1>1 DEF SafetyInv
  <2>3. \A p \in Producers : ppc[p] = "done"
    <3> SUFFICES ASSUME NEW p \in Producers, ppc[p] # "done"
                 PROVE  FALSE
      OBVIOUS
    <3>1. ppc[p] = "send" /\ ~(Len(batchChannel) < BatchCap) /\ ~cancelled
      BY <1>1, <2>2, ProducersGoOn
    <3>2. batchChannel # <<>>
      BY <3>1, RoomExists
    <3>3. \A e \in Exporters : epc[e] = "done"
      BY <1>1, <2>2, <3>2, ExportersGoOn
    <3>4. PICK e \in Exporters : epc[e] = "done"
      BY <3>3, ExportersExist
    <3>5. eerr[e] = "none"
      BY <1>1, <3>1, <3>4 DEF ErrorCancels, DeliveryInv, EndInv, ErrorsKept
    <3>6. batchChannel = <<>>
      BY <1>1, <3>4, <3>5 DEF DeliveryInv, EndInv, Drained, Leaving
    <3> QED
      BY <3>2, <3>6
  <2>4. batchClosed
    BY <2>1, <2>3 DEF ProducerGone
  <2>5. \A e \in Exporters : epc[e] = "done"
    BY <1>1, <2>2, <2>4, ExportersGoOn
  <2>6. summaryClosed
    BY <2>1, <2>5 DEF ExporterGone
  <2>7. summary # NoSummary
    BY <2>1, <2>6
  <2> QED
    BY <2>1, <2>3, <2>4, <2>5, <2>6, <2>7 DEF Over
<1>2. SafetyInv /\ DeliveryInv /\ ErrorCancels => SomebodyCanGo
  BY <1>1
<1> QED
  BY <1>2, SafetyInvariance, DeliveryInvariance, ErrorCancelsAlways, PTL
=============================================================================
