------------------------- MODULE MCIndexingPipeline -------------------------
(* Symmetry of the model values of IndexingPipeline, for TLC.               *)
EXTENDS IndexingPipeline, TLC

Symmetry ==
  Permutations(Documents) \cup Permutations(Workers) \cup Permutations(Pollers)
=============================================================================
