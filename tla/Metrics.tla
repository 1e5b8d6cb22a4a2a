------------------------------- MODULE Metrics -------------------------------
(***************************************************************************)
(* metrics.Stats of internal/metrics/stats.go, with the trace IDs that     *)
(* sampleTraceIDs of internal/pipeline/pipeline.go takes from a batch.     *)
(* Results arrive in the order in which concurrent exporters happened to   *)
(* send them; Summary reports counters, latencies, the failures by class,  *)
(* and a few samples of everything.  Summarize does the same for several   *)
(* Stats, each of which saw a part of the results.                         *)
(*                                                                         *)
(* An error is what classifyError looks at: whether it wraps one of the    *)
(* context's errors, whether it is a net.Error that timed out, its gRPC    *)
(* code, the words its message holds, and the message itself.              *)
(***************************************************************************)
EXTENDS Integers, SequencesExt

CONSTANTS
    Shards,                    \* the number of Stats
    Results,                   \* the results that may be recorded
    TraceIDSampleLimit,        \* --summary-trace-ids-limit; 0 takes no samples
    MaxFailureSamplesPerClass, \* the source's constant, 3
    MaxResults                 \* bound on the results of a behaviour

ASSUME MetricsAssumption ==
    /\ {Shards, TraceIDSampleLimit, MaxFailureSamplesPerClass} \subseteq Nat
    /\ \A r \in Results : r.batch \in Seq(Range(r.batch)) /\ r.duration \in Nat

VARIABLES
    stats,  \* the Stats
    log     \* history: the results each of them recorded

vars == <<stats, log>>

Classes == {"timeout", "canceled", "connection_refused", "unavailable",
            "unauthenticated", "permission_denied", "dns", "tls", "other"}

\* a nil error
NoError == [ctx |-> "nil", netTimeout |-> FALSE, code |-> "none", words |-> {}, message |-> ""]

\* the tests of classifyError in their order; the first that holds decides.  A word of
\* err.words stands for all the phrases that one case of the last switch looks for.
Rules(err) == <<
    <<err.ctx = "deadline",                            "timeout">>,
    <<err.ctx = "canceled",                            "canceled">>,
    <<err.netTimeout,                                  "timeout">>,
    <<err.code = "DeadlineExceeded",                   "timeout">>,
    <<err.code = "Canceled",                           "canceled">>,
    <<err.code = "Unavailable" /\ "refused" \in err.words, "connection_refused">>,
    <<err.code = "Unavailable",                        "unavailable">>,
    <<err.code = "Unauthenticated",                    "unauthenticated">>,
    <<err.code = "PermissionDenied",                   "permission_denied">>,
    <<"timeout" \in err.words,                         "timeout">>,
    <<"refused" \in err.words,                         "connection_refused">>,
    <<"no such host" \in err.words,                    "dns">>,
    <<"tls" \in err.words,                             "tls">>,
    <<"401" \in err.words,                             "unauthenticated">>,
    <<"403" \in err.words,                             "permission_denied">>,
    <<"unavailable" \in err.words,                     "unavailable">>,
    <<TRUE,                                            "other">> >>

ClassifyError(err) == Rules(err)[SelectInSeq(Rules(err), LAMBDA r : r[1])][2]

-----------------------------------------------------------------------------
(* Samples: the first distinct values, up to a limit. *)

\* the samples double as the set of what was seen: both grow in the same branch
AddSample(samples, limit, x) ==
    IF Len(samples) < limit /\ x \notin Range(samples) THEN Append(samples, x) ELSE samples

AddSamples(samples, limit, xs) ==
    LET added[k \in 0 .. Len(xs)] ==
            IF k = 0 THEN samples ELSE AddSample(added[k - 1], limit, xs[k])
    IN  added[Len(xs)]

\* Mutated: the first spans of the batch, and not its first traces
SampleTraceIDsOfFirstSpans(batch) ==
    AddSamples(<<>>, TraceIDSampleLimit,
               SubSeq(batch, 1, IF Len(batch) < TraceIDSampleLimit THEN Len(batch)
                                ELSE TraceIDSampleLimit))

\* batch is the sequence of its spans' trace IDs
SampleTraceIDs(batch) == AddSamples(<<>>, TraceIDSampleLimit, batch)

\* Mutated: no look at what is there
MergeStringSamplesUnseen(dst, src, limit) ==
    SubSeq(dst \o src, 1, IF limit = 0 \/ Len(dst \o src) < limit THEN Len(dst \o src)
                          ELSE limit)

\* here a limit of 0 is no limit
MergeStringSamples(dst, src, limit) ==
    AddSamples(dst, IF limit = 0 THEN Len(dst) + Len(src) ELSE limit, src)

MergeSamples(dst, src) ==
    [c \in Classes |-> AddSamples(dst[c], MaxFailureSamplesPerClass, src[c])]

MergeBreakdown(dst, src) == [c \in Classes |-> dst[c] + src[c]]

-----------------------------------------------------------------------------
(* Recording. *)

NewStats ==
    [durations |-> <<>>, successes |-> 0, failures |-> 0,
     breakdown |-> [c \in Classes |-> 0],
     failureSamples |-> [c \in Classes |-> <<>>],
     traceIDSamples |-> <<>>, failedTraceIDSamples |-> <<>>]

RecordFailure(s, err) ==
    LET class == ClassifyError(err)
    IN  [s EXCEPT
            !.failures = @ + 1,
            !.breakdown[class] = @ + 1,
            !.failureSamples[class] =
                IF err.message = "" THEN @
                ELSE AddSample(@, MaxFailureSamplesPerClass, err.message)]

RecordTraceIDs(s, ids, failed) ==
    [s EXCEPT
        !.traceIDSamples = AddSamples(@, TraceIDSampleLimit, ids),
        !.failedTraceIDSamples =
            IF failed THEN AddSamples(@, TraceIDSampleLimit, ids) ELSE @]

RecordWithTraceIDs(s, r) ==
    LET failed  == r.err # NoError
        timed   == [s EXCEPT !.durations = Append(@, r.duration)]
        counted == IF failed THEN RecordFailure(timed, r.err)
                   ELSE [timed EXCEPT !.successes = @ + 1]
    IN  RecordTraceIDs(counted, SampleTraceIDs(r.batch), failed)

-----------------------------------------------------------------------------
(* Reporting. *)

Sum(xs) ==
    LET sum[k \in 0 .. Len(xs)] == IF k = 0 THEN 0 ELSE sum[k - 1] + xs[k]
    IN  sum[Len(xs)]

Avg(durations) == IF durations = <<>> THEN 0 ELSE Sum(durations) \div Len(durations)

\* sort.Slice: the k-th is the one with fewer than k below it, and k that are not above it
Sorted(durations) ==
    [k \in DOMAIN durations |->
        CHOOSE d \in Range(durations) :
            /\ Cardinality({i \in DOMAIN durations : durations[i] < d}) < k
            /\ Cardinality({i \in DOMAIN durations : durations[i] <= d}) >= k]

\* Mutated: the durations are not sorted
P95Unsorted(durations) ==
    IF durations = <<>> THEN 0
    ELSE durations[((Len(durations) - 1) * 95) \div 100 + 1]

P95(durations) ==
    IF durations = <<>> THEN 0
    ELSE Sorted(durations)[((Len(durations) - 1) * 95) \div 100 + 1]

Summary(s) ==
    [total |-> Len(s.durations), successes |-> s.successes, failures |-> s.failures,
     avg |-> Avg(s.durations), p95 |-> P95(s.durations),
     breakdown |-> s.breakdown, failureSamples |-> s.failureSamples,
     traceIDSamples |-> s.traceIDSamples, failedTraceIDSamples |-> s.failedTraceIDSamples]

\* what Summarize has gathered when it comes to one more of the Stats
Merge(acc, s) ==
    [durations |-> acc.durations \o s.durations,
     successes |-> acc.successes + s.successes,
     failures |-> acc.failures + s.failures,
     breakdown |-> MergeBreakdown(acc.breakdown, s.breakdown),
     failureSamples |-> MergeSamples(acc.failureSamples, s.failureSamples),
     traceIDSamples |->
        MergeStringSamples(acc.traceIDSamples, s.traceIDSamples, TraceIDSampleLimit),
     failedTraceIDSamples |->
        MergeStringSamples(acc.failedTraceIDSamples, s.failedTraceIDSamples,
                           TraceIDSampleLimit)]

\* ss is a sequence of Stats with the same limit; the figures are those of Summary
Summarize(ss) ==
    LET merged[k \in 0 .. Len(ss)] ==
            IF k = 0 THEN NewStats ELSE Merge(merged[k - 1], ss[k])
    IN  Summary(merged[Len(ss)])

-----------------------------------------------------------------------------
Init ==
    /\ stats = [i \in 1 .. Shards |-> NewStats]
    /\ log = [i \in 1 .. Shards |-> <<>>]

Record(i, r) ==
    /\ Len(FlattenSeq(log)) < MaxResults
    /\ stats' = [stats EXCEPT ![i] = RecordWithTraceIDs(@, r)]
    /\ log' = [log EXCEPT ![i] = Append(@, r)]

Next == \E i \in 1 .. Shards, r \in Results : Record(i, r)

Spec == Init /\ [][Next]_vars

-----------------------------------------------------------------------------
(* Properties. *)

\* samples are the first limit distinct values of seq, in their order: a value is left out
\* only where there are limit others, all of which come before it
AreFirstOf(samples, limit, seq) ==
    LET first(x) == Min({k \in DOMAIN seq : seq[k] = x})
    IN  /\ Len(samples) <= limit /\ Range(samples) \subseteq Range(seq)
        /\ \A i, j \in DOMAIN samples : i < j => first(samples[i]) < first(samples[j])
        /\ \A x \in Range(seq) \ Range(samples) :
              Len(samples) = limit /\ \A i \in DOMAIN samples : first(samples[i]) < first(x)

\* all that the results rs hold, from the first to the last of them
TraceIDs(rs) == FlattenSeq([k \in DOMAIN rs |-> rs[k].batch])
FailedTraceIDs(rs) ==
    FlattenSeq([k \in DOMAIN rs |-> IF rs[k].err # NoError THEN rs[k].batch ELSE <<>>])
Messages(rs, class) ==
    FlattenSeq([k \in DOMAIN rs |->
        LET err == rs[k].err
        IN  IF err # NoError /\ ClassifyError(err) = class /\ err.message # ""
            THEN <<err.message>> ELSE <<>>])

\* The trace IDs of the summary are the first distinct ones of all spans recorded, and
\* the failed ones the first of the failed batches, although each batch was cut to the
\* limit before it was recorded; so are the messages of each class of failures.
SamplesAreFirst ==
    \A i \in 1 .. Shards :
        /\ AreFirstOf(stats[i].traceIDSamples, TraceIDSampleLimit, TraceIDs(log[i]))
        /\ AreFirstOf(stats[i].failedTraceIDSamples, TraceIDSampleLimit,
                      FailedTraceIDs(log[i]))
        /\ \A c \in Classes :
              AreFirstOf(stats[i].failureSamples[c], MaxFailureSamplesPerClass,
                         Messages(log[i], c))

Replay(rs) ==
    LET replayed[k \in 0 .. Len(rs)] ==
            IF k = 0 THEN NewStats ELSE RecordWithTraceIDs(replayed[k - 1], rs[k])
    IN  replayed[Len(rs)]

\* a summary without the choice of its samples
Figures(s) ==
    [s EXCEPT !.failureSamples = [c \in Classes |-> Len(s.failureSamples[c])],
              !.traceIDSamples = Len(s.traceIDSamples),
              !.failedTraceIDSamples = Len(s.failedTraceIDSamples)]

\* Exporters race for summaryChannel: the order of the results decides which samples
\* the summary shows, but neither how many nor any count or latency.
OrderOnlyPicksSamples ==
    \A i \in 1 .. Shards :
        \A order \in SetToSeqs(DOMAIN log[i]) :
            Figures(Summary(stats[i]))
              = Figures(Summary(Replay([k \in DOMAIN order |-> log[i][order[k]]])))

\* Summarize of several Stats is the summary of one Stats that recorded the results of
\* the first, then those of the second, and so on: no sample is lost by cutting early.
MergeIsWhole == Summarize(stats) = Summary(Replay(FlattenSeq(log)))

=============================================================================
