------------------------------ MODULE MCCostLayers ------------------------------
(* Small instances of CostLayers: two layers, two units and two requests.      *)
EXTENDS CostLayers, TLC

CONSTANTS r1, r2, p1

Swap == Permutations(Requests)
=============================================================================
