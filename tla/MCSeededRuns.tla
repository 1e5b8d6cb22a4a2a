---------------------------- MODULE MCSeededRuns ----------------------------
(* SeededRuns with three producers that are model values: many batches      *)
(* without chaos, or a few with it.                                         *)
EXTENDS SeededRuns

CONSTANTS p1, p2, p3

Setup(active, calls, spans, policies, mode) ==
    [active |-> active, calls |-> calls, spans |-> spans, policies |-> policies,
     mode |-> mode]

MCSetups ==
    {Setup({p1, p2, p3}, 5, 1, 0, "all"),
     Setup({p1, p2}, 3, 2, 1, "all"), Setup({p1, p2}, 2, 1, 2, "all"),
     Setup({p1, p2}, 2, 1, 2, "first_match")}
    \cup {Setup({p1}, 2, 2, 2, m) : m \in {"all", "first_match"}}
=============================================================================
