-------------------------- MODULE MCSpanConversion --------------------------
(* SpanConversion with batches that vary in their resources, and batches    *)
(* that vary in their parents, cycles included, and clocks.                 *)
EXTENDS SpanConversion, TLC

CONSTANT TreeSize   \* bound: the spans of a batch whose parents vary

Value(text, type) == [text |-> <<text>>, type |-> type]
MCParts == {"host", "service", "env", "1", "STRING", "INT64"} \cup Separators
MCNames == <<"host", "service">>
MCNewIds == [i \in 1 .. TreeSize |-> 100 + i]
MCEnvResource == ("host" :> Value("env", "STRING"))

Frontend == ("service" :> Value("1", "STRING"))
Numbered == ("service" :> Value("1", "INT64"))
Hosted   == ("host" :> Value("1", "STRING")) @@ Frontend
Empty    == <<>>

\* a host whose text reads like the rest of Hosted's key
Unescaped ==
    "host" :> [text |-> <<"1", "|", "STRING", ";", "service", "=", "1">>, type |-> "STRING"]

Span(id, parent, start, resource) ==
    [id |-> id, parent |-> parent, start |-> start, resource |-> resource]

Unknown == 99

ResourceBatches ==
    {[i \in 1 .. 4 |-> Span(i, IF i = 1 THEN NoSpan ELSE 1, 0, r[i])] :
        r \in [1 .. 4 -> {Frontend, Numbered, Hosted, Unescaped, Empty}]}

TreeBatches ==
    {[i \in 1 .. TreeSize |->
        Span(i, p[i], t[i], IF i % 2 = 0 THEN Frontend ELSE Hosted)] :
        p \in [1 .. TreeSize -> 0 .. TreeSize \cup {Unknown}],
        t \in [1 .. TreeSize -> 0 .. 1]}

MCBatches == ResourceBatches \cup TreeBatches
=============================================================================
