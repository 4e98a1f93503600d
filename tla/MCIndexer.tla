----------------------------- MODULE MCIndexer -----------------------------
(* Instances of Indexer for TLC: a second poll may start while one runs.   *)
EXTENDS Indexer
TwoPolls == {1, 2}
=============================================================================
