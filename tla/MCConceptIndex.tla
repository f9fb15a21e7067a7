-------------------------- MODULE MCConceptIndex --------------------------
(* Instances of ConceptIndex for TLC. *)
EXTENDS ConceptIndex

CONSTANTS m1, m2, c1, c2, w1, w2, b1
=============================================================================
