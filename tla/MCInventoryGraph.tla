------------------------- MODULE MCInventoryGraph --------------------------
(* Instances of InventoryGraph for TLC: the syncs, and the rebuilds, are
   interchangeable. *)
EXTENDS InventoryGraph, TLC

Alike == Permutations(Runs) \cup Permutations(Builders)
============================================================================
