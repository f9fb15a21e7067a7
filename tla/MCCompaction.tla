---------------------------- MODULE MCCompaction ----------------------------
(* An instance of Compaction for TLC. Neither memories nor processes are     *)
(* told apart.                                                               *)
EXTENDS Compaction, TLC

CONSTANTS m1, m2, m3, p1, p2

Alike == Permutations(Memories) \cup Permutations(Processes)
=============================================================================
