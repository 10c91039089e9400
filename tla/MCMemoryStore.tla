--------------------------- MODULE MCMemoryStore ---------------------------
(* MemoryStore for TLC: episodes, patterns, keys and requests are each       *)
(* interchangeable, and a deployment uses the endpoints that meet.          *)
EXTENDS MemoryStore, TLC

MCScores == {-1, 1}

MCDeployments ==
  {{"outcome", "judge"}, {"outcome", "replace"}, {"judge", "replace"},
   {"outcome", "attempt", "delete"},
   {"outcome", "import"},
   {"attempt", "retain", "retire"}, {"import", "retain"},
   {"create", "forget_hard"}, {"create", "forget_soft", "delete"},
   {"hold", "delete", "forget_hard"}, {"hold", "retain"}}

MCSymmetry ==
  UNION {Permutations(Episodes), Permutations(Patterns), Permutations(Requests)}
=============================================================================
