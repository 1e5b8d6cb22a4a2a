----------------------------- MODULE MCPipeline -----------------------------
(* Pipeline with workers that are model values, for TLC. *)
EXTENDS Pipeline, TLC

CONSTANTS p1, p2, e1, e2

\* without ramp-up workers differ in nothing, and no property names one
WorkerSymmetry == Permutations(Producers) \cup Permutations(Exporters)
=============================================================================
