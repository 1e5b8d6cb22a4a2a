------------------------------ MODULE MCMetrics ------------------------------
EXTENDS Metrics

Err(ctx, code, words, message) ==
    [ctx |-> ctx, netTimeout |-> FALSE, code |-> code, words |-> words, message |-> message]

Result(batch, err, duration) == [batch |-> batch, err |-> err, duration |-> duration]

\* two classes, three messages in one of them, one without a message; batches that
\* hold a trace twice, share traces, or have more traces than the limit
SomeResults == {
    Result(<<"t1", "t1", "t2">>, NoError, 1),
    Result(<<"t3">>, NoError, 5),
    Result(<<"t2", "t2", "t3", "t1">>, Err("deadline", "none", {"timeout"}, "m1"), 9),
    Result(<<"t3", "t1">>, Err("none", "DeadlineExceeded", {}, "m2"), 7),
    Result(<<"t4">>, Err("none", "none", {"timeout", "refused"}, "m3"), 3),
    Result(<<"t1">>, Err("none", "Unavailable", {"refused"}, "m1"), 2),
    Result(<<"t2">>, Err("none", "none", {}, ""), 4) }
=============================================================================
