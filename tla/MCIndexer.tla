----------------------------- MODULE MCIndexer -----------------------------
(* Instances of Indexer for TLC *)
EXTENDS Indexer, TLC

(* Workers are interchangeable: no action or property tells them apart *)
WorkerSymmetry == Permutations(Workers)
=============================================================================
