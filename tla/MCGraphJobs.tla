---------------------------- MODULE MCGraphJobs ----------------------------
(* GraphJobs on small instances.  Workers, loops and chunks are alike.       *)
EXTENDS GraphJobs, TLC

Symmetry == Permutations(Workers) \cup Permutations(Pollers) \cup Permutations(Chunks)
=============================================================================
