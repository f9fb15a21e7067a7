---------------------------- MODULE MCCodeIndex ----------------------------
(* Instances of CodeIndex for TLC. *)
EXTENDS CodeIndex

CONSTANTS s1, r1, u1

MCHome == [c \in Calls |-> s1]

\* Every edit makes a tree that was not there before.
MCSignature == [n \in States |-> n]

\* A repository with a watcher, and a directory without either.
MCSites == {[git |-> {r1}, unwatchable |-> {}],
            [git |-> {}, unwatchable |-> {r1}]}

\* A delete leaves no tombstone, or the process ends.
MCMark == [k \in Faults |-> CASE k \in {"suppress", "resolve"} -> "untombed"
                              [] k = "crash" -> "crash"
                              [] OTHER -> "none"]
=============================================================================
