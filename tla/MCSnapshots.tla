----------------------------- MODULE MCSnapshots -----------------------------
(* Snapshots of a small library: see MCSnapshots.cfg.                       *)
EXTENDS Snapshots, TLC

Symmetry == Permutations(Assets) \cup Permutations(Commands) \cup Permutations(Targets)
=============================================================================
