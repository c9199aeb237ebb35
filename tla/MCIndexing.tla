------------------------------ MODULE MCIndexing ------------------------------
(* Instances of the indexing queue: see MCIndexing.cfg, for two processes    *)
(* whose lives overlap, and MCIndexingSnapshot.cfg, for a restored library.  *)
EXTENDS Indexing
=============================================================================
