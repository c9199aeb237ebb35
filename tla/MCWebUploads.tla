---------------------------- MODULE MCWebUploads -----------------------------
(* Tabs of one browser and its accounts, with one file and one link of      *)
(* which an execution takes one (MCWebUploads.cfg), or with a single link   *)
(* (MCWebUploadsLink.cfg).                                                  *)
EXTENDS WebUploadsRefinement, TLC

Symmetry == Permutations(Tabs) \cup Permutations(Users)
=============================================================================
