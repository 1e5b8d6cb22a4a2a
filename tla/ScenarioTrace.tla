---------------------------- MODULE ScenarioTrace ----------------------------
(***************************************************************************)
(* One scenario, from its file to one batch: validateDAG of internal/      *)
(* scenario/config.go, which rejects a graph of nodes with a cycle, and    *)
(* GenerateBatch with estimateDuration and emitFromNode of generator.go,   *)
(* which walks the accepted graph from its root.  The recursion of         *)
(* emitFromNode is a stack of frames.  Times are in milliseconds.  Names,  *)
(* attributes and IDs are left out: a span is its index in the batch, an   *)
(* edge its index in the file, and the edge a span was made for stands for *)
(* its name, its service and its attributes.                               *)
(***************************************************************************)
EXTENDS Integers, Sequences, FiniteSets, Functions

CONSTANTS
    Nodes,      \* the nodes of the graph
    Root,       \* its root
    MaxEdges,   \* bound: a graph has 1 to MaxEdges edges
    Shapes      \* <<repeat, duration, spans>>: what an edge may be; it makes two
                \* spans (client and server, producer and consumer), or one if internal

ASSUME ScenarioAssumption ==
    /\ IsFiniteSet(Nodes) /\ Root \in Nodes /\ MaxEdges \in Nat \ {0}
    /\ Shapes \subseteq (Nat \ {0}) \X (Nat \ {0}) \X {1, 2}

VARIABLES
    edges,      \* the edges in the order of the file
    phase,      \* "count", "validate", then "rejected", or "emit" and "done"
    indegree,   \* validateDAG's: edges into a node from nodes not yet visited
    queue,      \* validateDAG's
    visited,    \* validateDAG's
    child,      \* validateDAG's: the next edge of the node it visits, or past the last
    spans,      \* the batch so far
    cursor,     \* the start of the next span
    stack       \* the calls of emitFromNode, the innermost last

vars == <<edges, phase, indegree, queue, visited, child, spans, cursor, stack>>
validation == <<indegree, queue, visited, child>>
emission   == <<spans, cursor, stack>>

EdgeSet == {[from |-> f, to |-> t, repeat |-> s[1], duration |-> s[2], size |-> s[3]] :
                f \in Nodes, t \in Nodes, s \in Shapes}

\* adjacency and outgoing hold the edges of a node in the order of the file: the first
\* edge from n after edge i
Outgoing(n, i) ==
    LET later == {j \in DOMAIN edges : j > i /\ edges[j].from = n}
    IN  IF later = {} THEN Len(edges) + 1
        ELSE CHOOSE j \in later : \A k \in later : j <= k

Init ==
    /\ edges \in UNION {[1 .. k -> EdgeSet] : k \in 1 .. MaxEdges}
    /\ phase = "count"
    /\ indegree = [n \in Nodes |-> Cardinality({i \in DOMAIN edges : edges[i].to = n})]
    /\ queue = <<>> /\ visited = 0 /\ child = Len(edges) + 1
    /\ spans = <<>> /\ cursor = 0 /\ stack = <<>>

-----------------------------------------------------------------------------
(* validateDAG *)

Sources == {n \in Nodes : indegree[n] = 0}

\* Mutated: the walk begins at the root alone
QueueRoot ==
    /\ phase = "count"
    /\ queue' = IF Root \in Sources THEN <<Root>> ELSE <<>>
    /\ phase' = "validate"
    /\ UNCHANGED <<edges, indegree, visited, child, emission>>

\* the range over the map indegree yields its keys in any order
QueueSources ==
    /\ phase = "count"
    /\ queue' \in Bijection(1 .. Cardinality(Sources), Sources)
    /\ phase' = "validate"
    /\ UNCHANGED <<edges, indegree, visited, child, emission>>

\* the loop over the children of a node has ended
NodeDone == phase = "validate" /\ child > Len(edges)

\* one node leaves the queue
Visit ==
    /\ NodeDone /\ queue # <<>>
    /\ queue' = Tail(queue)
    /\ visited' = visited + 1
    /\ child' = Outgoing(Head(queue), 0)
    /\ UNCHANGED <<edges, phase, indegree, emission>>

\* one of its edges is taken away; the child joins the queue when it was the last
TakeChild ==
    /\ phase = "validate" /\ child <= Len(edges)
    /\ LET n == edges[child].to
       IN  /\ indegree' = [indegree EXCEPT ![n] = @ - 1]
           /\ queue' = IF indegree'[n] = 0 THEN Append(queue, n) ELSE queue
    /\ child' = Outgoing(edges[child].from, child)
    /\ UNCHANGED <<edges, phase, visited, emission>>

Reject ==
    /\ NodeDone /\ queue = <<>> /\ visited # Cardinality(Nodes)
    /\ phase' = "rejected"
    /\ UNCHANGED <<edges, validation, emission>>

-----------------------------------------------------------------------------
(* GenerateBatch *)

\* what the first k edges of the file add for n, if edge i costs cost[i] and what is
\* below its target, each repetition anew
Sums(n, cost, below) ==
    LET sum[k \in 0 .. Len(edges)] ==
            IF k = 0 THEN 0
            ELSE sum[k - 1] + (IF edges[k].from = n
                               THEN edges[k].repeat * (cost[k] + below[edges[k].to]) ELSE 0)
    IN  sum

\* the walk over all paths from a node
Walk(cost) == LET walk[n \in Nodes] == Sums(n, cost, walk)[Len(edges)] IN walk

Length == [i \in DOMAIN edges |-> edges[i].duration + 1]

\* Mutated: the gap between two spans is forgotten
EstimateNoGap(n) ==
    LET total == Walk([i \in DOMAIN edges |-> edges[i].duration])[n]
    IN  IF total <= 0 THEN 1 ELSE total

\* estimateDuration; the memo changes nothing but the work
Estimate(n) == LET total == Walk(Length)[n] IN IF total <= 0 THEN 1 ELSE total

\* newSpan, for an edge or for the root (edge 0).  A producer counts as a client here, and
\* a consumer or a database as a server.
Span(parent, edge, kind, start, duration) ==
    [parent |-> parent, edge |-> edge, kind |-> kind, start |-> start, end |-> start + duration]

\* a call of emitFromNode: its node and parent span, its edge and repetition
Frame(node, parent) ==
    [node |-> node, parent |-> parent, edge |-> Outgoing(node, 0), done |-> 0]

Accept ==
    /\ NodeDone /\ queue = <<>> /\ visited = Cardinality(Nodes)
    /\ phase' = "emit"
    /\ spans' = <<Span(0, 0, "internal", 0, Estimate(Root))>>
    /\ cursor' = 1
    /\ stack' = <<Frame(Root, 1)>>
    /\ UNCHANGED <<edges, validation>>

Call     == stack[Len(stack)]
CallEdge == edges[Call.edge]
HasEdge  == stack # <<>> /\ Call.edge <= Len(edges)

\* the spans of one call: one of the target node, or one of the source node and one of the
\* target below it
EdgeSpans ==
    LET made(parent, kind) == Span(parent, Call.edge, kind, cursor, CallEdge.duration)
    IN  IF CallEdge.size = 1 THEN <<made(Call.parent, "internal")>>
        ELSE <<made(Call.parent, "client"), made(Len(spans) + 1, "server")>>

\* Mutated: the calls of the target node are made under the client's span
TargetIsClient == Len(spans) + 1

\* the span of the target node, under which the node's own calls are made
Target == Len(spans) + CallEdge.size

\* Mutated: the next span starts as soon as this one ends
EmitEdgeTight ==
    /\ phase = "emit" /\ HasEdge /\ Call.done < CallEdge.repeat
    /\ spans' = spans \o EdgeSpans
    /\ stack' = Append([stack EXCEPT ![Len(stack)].done = @ + 1], Frame(CallEdge.to, Target))
    /\ cursor' = cursor + CallEdge.duration
    /\ UNCHANGED <<edges, phase, validation>>

\* one repetition of an edge: its span or pair of spans, then the target node's call
EmitEdge ==
    /\ phase = "emit" /\ HasEdge /\ Call.done < CallEdge.repeat
    /\ spans' = spans \o EdgeSpans
    /\ stack' = Append([stack EXCEPT ![Len(stack)].done = @ + 1], Frame(CallEdge.to, Target))
    /\ cursor' = cursor + CallEdge.duration + 1
    /\ UNCHANGED <<edges, phase, validation>>

NextEdge ==
    /\ phase = "emit" /\ HasEdge /\ Call.done >= CallEdge.repeat
    /\ stack' = [stack EXCEPT ![Len(stack)].edge = Outgoing(Call.node, Call.edge),
                              ![Len(stack)].done = 0]
    /\ UNCHANGED <<edges, phase, validation, spans, cursor>>

Return ==
    /\ phase = "emit" /\ stack # <<>> /\ ~HasEdge
    /\ stack' = SubSeq(stack, 1, Len(stack) - 1)
    /\ phase' = IF Len(stack) = 1 THEN "done" ELSE "emit"
    /\ UNCHANGED <<edges, validation, spans, cursor>>

Ended == phase \in {"rejected", "done"} /\ UNCHANGED vars

Next ==
    \/ QueueSources \/ Visit \/ TakeChild \/ Reject \/ Accept
    \/ EmitEdge \/ NextEdge \/ Return
    \/ Ended

Spec == Init /\ [][Next]_vars

-----------------------------------------------------------------------------
(* Properties. *)

Targets(S) == {edges[i].to : i \in {j \in DOMAIN edges : edges[j].from \in S}}

\* the nodes reached from n over one edge or more
Reach(n) ==
    LET step[k \in 0 .. Cardinality(Nodes)] ==
            IF k = 0 THEN Targets({n}) ELSE step[k - 1] \cup Targets(step[k - 1])
    IN  step[Cardinality(Nodes)]

\* validateDAG accepts a graph exactly if it has no cycle, also with several edges
\* between two nodes, with nodes the root does not reach, and in every order of the map.
AcceptsExactlyDAGs ==
    /\ phase = "rejected" => \E n \in Nodes : n \in Reach(n)
    /\ phase \in {"emit", "done"} => \A n \in Nodes : n \notin Reach(n)

\* The root span, whose duration is estimated before any other span is made, starts
\* before all of them and ends exactly with the last.
RootCoversTrace ==
    phase = "done" /\ Len(spans) > 1 =>
        /\ \A i \in 2 .. Len(spans) : spans[1].start < spans[i].start
                                      /\ spans[i].end <= spans[1].end
        /\ \E i \in 2 .. Len(spans) : spans[i].end = spans[1].end

\* the spans that were made for edge e directly under span i
Made(i, e) == {j \in DOMAIN spans : spans[j].parent = i /\ spans[j].edge = e}

\* the node a span is of; a client's is the source of its edge
NodeOf(s) ==
    IF s.edge = 0 THEN Root
    ELSE IF s.kind = "client" THEN edges[s.edge].from ELSE edges[s.edge].to

\* how many there have to be: one per repetition of an edge that leaves the span's node;
\* below a client, its server and nothing else
Wanted(s, e) ==
    IF s.kind = "client" THEN IF e = s.edge THEN 1 ELSE 0
    ELSE IF edges[e].from = NodeOf(s) THEN edges[e].repeat ELSE 0

\* what kind of span an edge makes under s
KindUnder(s, e) ==
    IF edges[e].size = 1 THEN "internal" ELSE IF s.kind = "client" THEN "server" ELSE "client"

\* The finished batch is the graph unfolded from the root, path by path: there is one root,
\* every other span hangs below an earlier one, and below the span of a node there are the
\* spans of each edge that leaves the node, as often as it repeats, and no others.  So each
\* path is walked once for each combination of its repetitions, a node that several paths
\* reach is walked again for each, and no path is walked in the place of another.
EveryPathOnce ==
    phase = "done" =>
        /\ spans[1].parent = 0 /\ spans[1].edge = 0 /\ spans[1].kind = "internal"
        /\ \A j \in 2 .. Len(spans) :
              /\ spans[j].parent \in 1 .. (j - 1) /\ spans[j].edge \in DOMAIN edges
              /\ spans[j].kind = KindUnder(spans[spans[j].parent], spans[j].edge)
        /\ \A i \in DOMAIN spans, e \in DOMAIN edges :
              Cardinality(Made(i, e)) = Wanted(spans[i], e)

\* The calls of a trace follow each other: two spans of different edges, or of different
\* repetitions, never overlap, so the last span of the batch is also the last in time.
CallsDoNotOverlap ==
    \A i, j \in 2 .. Len(spans) : i < j =>
        \/ spans[i].end < spans[j].start
        \/ spans[j].parent = i /\ spans[j].start = spans[i].start
                               /\ spans[j].end = spans[i].end
=============================================================================
