-------------------------- MODULE MCEvidenceGraph --------------------------
(* EvidenceGraph for TLC: one relation x -> y, documents interchangeable. *)
EXTENDS EvidenceGraph, TLC

CONSTANTS x, y

MCEntities == {x, y}
MCRelations == {<<x, y>>}
MCSymmetry == Permutations(Documents)
=============================================================================
