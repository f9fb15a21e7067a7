--------------------------- MODULE MCMemoryStore ---------------------------
(***************************************************************************)
(* A long text in two spellings, a short one, and one that is longer than  *)
(* a memory may be: the sanitizer leaves the first of it.                  *)
(***************************************************************************)
EXTENDS MemoryStore

CONSTANTS a, A, b, aa, m1, m2, m3

MCSanitized == [t \in Texts |-> IF t = aa THEN a ELSE t]

MCFold == [t \in Texts |-> IF t = A THEN a ELSE t]
=============================================================================
