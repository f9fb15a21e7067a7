--------------------------- MODULE MCEngineClient ---------------------------
(* Instances of EngineClient for TLC. *)
EXTENDS EngineClient

CONSTANTS a, b, s
=============================================================================
