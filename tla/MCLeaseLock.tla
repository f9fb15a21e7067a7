---------------------------- MODULE MCLeaseLock ----------------------------
(* Instances of LeaseLock for TLC: the holders are model values. *)
EXTENDS LeaseLock

CONSTANTS a, b, c
=============================================================================
