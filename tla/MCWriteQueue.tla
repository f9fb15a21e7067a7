--------------------------- MODULE MCWriteQueue ----------------------------
(* Instances of WriteQueue for TLC. *)
EXTENDS WriteQueue

CONSTANTS c1, c2, c3, c4
=============================================================================
