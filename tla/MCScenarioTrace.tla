--------------------------- MODULE MCScenarioTrace ---------------------------
(* ScenarioTrace over three nodes; an edge is a single pair, or an internal span of *)
(* another duration that is repeated.                                               *)
EXTENDS ScenarioTrace

CONSTANTS a, b, c

TwoShapes == {<<1, 1, 2>>, <<2, 2, 1>>}
=============================================================================
