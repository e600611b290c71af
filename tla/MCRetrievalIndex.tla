-------------------------- MODULE MCRetrievalIndex --------------------------
(* Model checking of RetrievalIndex, and of ChunkText over all short texts.*)
(* The threads, and the documents with text, are interchangeable.          *)
EXTENDS RetrievalIndex, ChunkText, TLC

Symmetry == Permutations(Workers) \cup Permutations(Docs \ Textless)

(* Safety, of texts alone and so evaluated before the first request: the   *)
(* chunks of a document leave out no character, and keep every word that   *)
(* is shorter than a chunk in one piece: "overlapping chunks on whitespace *)
(* boundaries" (ingestion.py:41-59).                                       *)
CutsKeepText ==
    requests = 0 => \A t \in Texts : Covered(t) /\ WordsWhole(t)
=============================================================================
