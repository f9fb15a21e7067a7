----------------------------- MODULE MCTerminal -----------------------------
(* Instances of Terminal for TLC. *)
EXTENDS Terminal, TLC

CONSTANTS s1, s2, a, b, c, f1, f2

Anyone == Permutations(Clients) \cup Permutations(Sessions)
=============================================================================
