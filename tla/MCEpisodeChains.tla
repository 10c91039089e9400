--------------------------- MODULE MCEpisodeChains ---------------------------
(* EpisodeChains for TLC: the episodes are interchangeable, and so are the   *)
(* requests.                                                                *)
EXTENDS EpisodeChains, TLC

Symmetry == Permutations(Episodes) \cup Permutations(Requests)
=============================================================================
