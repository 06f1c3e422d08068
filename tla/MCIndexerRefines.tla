-------------------------- MODULE MCIndexerRefines --------------------------
(* The repositories of MCIndexer for Indexer and its refinement of IndexSpec. *)
EXTENDS MCIndexer, IndexerRefines
=============================================================================
