--------------------------- MODULE MCPairedDevice ---------------------------
(* Instances of the accounts with a paired extension for TLC. *)
EXTENDS PairedDevice, TLC

(* Users, browsers, tabs and pairings are interchangeable. *)
Symmetry ==
    Permutations(Users) \cup Permutations(Tabs) \cup Permutations(Browsers) \cup Permutations(Pairings)
=============================================================================
