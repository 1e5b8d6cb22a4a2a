------------------------------ MODULE TraceGen ------------------------------
(***************************************************************************)
(* The random trace of one batch: emitTrace of internal/tracegen/          *)
(* generator.go over the SpanBuilders of trace_builder.go.  A span is its  *)
(* index in builder.nodes; its parent as the tracer sees it (span.Parent)  *)
(* is the span it was started under; AddChild adds further parents, which  *)
(* become links.  Every draw of the random source is a choice.  Names,     *)
(* kinds, statuses and attributes are left out.                            *)
(***************************************************************************)
EXTENDS Integers, Sequences, FiniteSets

CONSTANTS
    MaxDepth,   \* --max-depth
    MaxSpans,   \* --max-spans
    Ticks       \* bound: durations are 1 .. Ticks units of time

ASSUME TraceGenAssumption ==
    MaxDepth \in Nat \ {0} /\ MaxSpans \in Nat \ {0} /\ Ticks \in Nat \ {0}

VARIABLES
    started,    \* the span each span was started under, 0 for the root
    depth,      \* SpanBuilder.depth
    window,     \* start and end of each span
    links,      \* <<s, c>>: AddChild made s a further parent of c
    spanCount,  \* the number of spans drawn for this trace
    remaining,  \* spansRemaining
    ended       \* EndAll has run

traceVars == <<started, depth, window, links, spanCount, remaining, ended>>

Builders == DOMAIN started

\* the parents and children lists of the SpanBuilders
Edges == {<<started[c], c>> : c \in {s \in Builders : started[s] # 0}} \cup links

Parents(s) == {e[1] : e \in {f \in Edges : f[2] = s}}

\* Mutated: only the parents are looked at
HasAncestorNear(s, target) == target \in Parents(s)

\* the parents of a span, their parents and so on: the least set that the recursion over
\* parents cannot leave
HasAncestor(s, target) ==
    \A A \in SUBSET Builders :
        Parents(s) \subseteq A /\ (\A a \in A : Parents(a) \subseteq A) => target \in A

\* randomChildWindow: the latest start that leaves the duration before the end, but not
\* before the beginning; a start up to there; and the end, that long after the start
RandomWindows(w, duration) ==
    LET latest == IF w.end - duration < w.start THEN w.start ELSE w.end - duration
    IN  IF duration <= 0 THEN {[start |-> w.start, end |-> w.start]}
        ELSE IF w.end < w.start THEN {w}
        ELSE {[start |-> w.start + offset, end |-> w.start + offset + duration] :
                 offset \in 0 .. (latest - w.start)}

\* Mutated: the duration is not cut to the parent's
ChildWindowsUncut(w) == UNION {RandomWindows(w, d) : d \in 1 .. Ticks}

\* emitChildSpan: a duration of its own, cut to the parent's, placed at random
ChildWindows(w) ==
    LET cut(d) == IF d > w.end - w.start THEN w.end - w.start ELSE d
    IN  UNION {RandomWindows(w, cut(d)) : d \in 1 .. Ticks}

TraceInit ==
    /\ spanCount \in 1 .. MaxSpans
    /\ remaining = spanCount - 1
    /\ started = <<0>> /\ depth = <<1>> /\ links = {} /\ ended = FALSE
    /\ \E d \in 1 .. Ticks : window = <<[start |-> 0, end |-> d]>>

-----------------------------------------------------------------------------
\* newSpan under a parent, and addChild's depth
AddChildSpan(p, w) ==
    /\ started' = Append(started, p)
    /\ depth' = Append(depth, depth[p] + 1)
    /\ window' = Append(window, w)

\* pickParentIndex and the break that follows it
Eligible == {s \in Builders : depth[s] < MaxDepth}

CanGrow == remaining > 0 /\ ~ended /\ MaxDepth > 1

\* Mutated: a pair is started for the last span too
EmitPairLate(p) ==
    /\ CanGrow
    /\ \E w1 \in ChildWindows(window[p]) : \E w2 \in ChildWindows(w1) :
          /\ started' = started \o <<p, Len(started) + 1>>
          /\ depth' = depth \o <<depth[p] + 1, depth[p] + 2>>
          /\ window' = window \o <<w1, w2>>
    /\ remaining' = remaining - 2
    /\ UNCHANGED <<links, spanCount, ended>>

\* choices 0 and 1: a client and its server, or a producer and its consumer
EmitPair(p) ==
    /\ CanGrow /\ remaining >= 2
    /\ \E w1 \in ChildWindows(window[p]) : \E w2 \in ChildWindows(w1) :
          /\ started' = started \o <<p, Len(started) + 1>>
          /\ depth' = depth \o <<depth[p] + 1, depth[p] + 2>>
          /\ window' = window \o <<w1, w2>>
    /\ remaining' = remaining - 2
    /\ UNCHANGED <<links, spanCount, ended>>

\* choice 2: a database call
EmitChild(p) ==
    /\ CanGrow
    /\ \E w \in ChildWindows(window[p]) : AddChildSpan(p, w)
    /\ remaining' = remaining - 1
    /\ UNCHANGED <<links, spanCount, ended>>

\* choice 3: pickLinkCandidate, then AddChild.  addChild has set child.depth to
\* s.depth + 1 when AddChild compares them, so that bumpDepth is never called.
Link(p, c) ==
    /\ CanGrow
    /\ c # p /\ ~HasAncestor(p, c)
    /\ depth[p] + 1 <= depth[c]
    /\ <<p, c>> \notin Edges
    /\ links' = links \cup {<<p, c>>}
    /\ depth' = [depth EXCEPT ![c] = depth[p] + 1]
    /\ UNCHANGED <<started, window, spanCount, remaining, ended>>

\* no span is left to draw, or the picked parent is at the maximum depth
EndAll ==
    /\ ~ended
    /\ remaining <= 0 \/ MaxDepth <= 1
    /\ ended' = TRUE
    /\ UNCHANGED <<started, depth, window, links, spanCount, remaining>>

\* not a step of the program: a finished trace stays as it is
TraceFinished == ended /\ UNCHANGED traceVars

TraceNext ==
    \/ \E p \in Eligible : EmitPair(p) \/ EmitChild(p) \/ \E c \in Builders : Link(p, c)
    \/ EndAll
    \/ TraceFinished

TraceSpec == TraceInit /\ [][TraceNext]_traceVars

-----------------------------------------------------------------------------
\* The number of spans on the way from the root, along the parents the tracer sees
TreeDepth[s \in Nat] ==
    IF started[s] = 0 THEN 1 ELSE TreeDepth[started[s]] + 1

\* The links and parents of a trace form a graph without cycles, although a link may
\* lead from a later span to an earlier one and lowers the depth of its target.
Acyclic == \A S \in (SUBSET Builders) \ {{}} : \E s \in S : Parents(s) \cap S = {}

\* A span takes some time, and lies within the time of the span it was started under and
\* so of every span above that one: what is cut and clamped at one level is what the
\* arithmetic of the next begins with.
Nested ==
    \A s \in Builders :
        /\ window[s].start < window[s].end
        /\ started[s] # 0 => /\ window[started[s]].start <= window[s].start
                             /\ window[s].end <= window[started[s]].end

\* A finished trace has the number of spans that was drawn, unless the maximum depth
\* leaves no room for a child; two-span choices never overshoot it.
SpanCount ==
    /\ Len(started) + remaining = spanCount
    /\ ended => Len(started) = IF MaxDepth > 1 THEN spanCount ELSE 1

\* cmd/tercios/main.go:67, "maximum span depth per trace": no exported trace is deeper
\* than --max-depth.
MaxDepthKept == \A s \in Builders : TreeDepth[s] <= MaxDepth
=============================================================================
