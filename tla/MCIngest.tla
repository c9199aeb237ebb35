------------------------------ MODULE MCIngest ------------------------------
(* Instances of the save boundary for TLC. *)
EXTENDS IngestRefinement, TLC

(* Requests of one kind are interchangeable, and so are owners, keys and   *)
(* contents: none of them is named by a definition.                        *)
Symmetry == Permutations(Savers) \cup Permutations(Purgers) \cup Permutations(Readers)
            \cup Permutations(Owners) \cup Permutations(Keys) \cup Permutations(Contents)
=============================================================================
