---------------------------- MODULE MCCodeLinks ----------------------------
(* Instances of CodeLinks for TLC. *)
EXTENDS CodeLinks

CONSTANTS r1, u1, k1, w1, w2, m1, m2

\* The page of a scope passes over the entities of the other.
MCHome == <<m1, m2, m1>>

\* An edit takes a symbol away and brings one; the last entity has several at
\* first.
MCSymbol == [n \in States |->
               IF n = 0 THEN <<"a", "a", Ambiguous>> ELSE <<None, None, "b">>]

\* A refresh is never queued or settled too late, a delete does not clean up,
\* or the process ends.
MCMark == [k \in Faults |->
             CASE k \in {"clear", "enqueue", "build", "stall"} -> "forgotten"
               [] k = "clean" -> "uncleaned"
               [] k = "crash" -> "crash"
               [] OTHER -> "none"]
=============================================================================
