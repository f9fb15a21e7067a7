-------------------------------- MODULE Gate --------------------------------
(***************************************************************************)
(* What the users of a lease rely on: an abstract gate. LeaseLock shows    *)
(* that the lock row and its heartbeats are one; ConceptIndex, CodeIndex   *)
(* and CodeLinks use their lock as one and nothing else of it, which is    *)
(* why they need no clock.                                                 *)
(*                                                                         *)
(* An operation is inside while the body that the lease guards runs. It is *)
(* told apart by Prompt: one whose lease is renewed in time, so that the   *)
(* gate stays shut behind it.                                              *)
(***************************************************************************)
CONSTANTS Operations, Prompt

VARIABLES
    inside,   \* the operations in their guarded body
    shut      \* nobody else gets in

gate == <<inside, shut>>

GateInit == inside = {} /\ shut = FALSE

\* The gate is open, and shuts behind a prompt operation at least.
Enter(o) ==
    /\ ~shut /\ o \notin inside
    /\ inside' = inside \cup {o}
    /\ shut' \in BOOLEAN
    /\ o \in Prompt => shut'

\* Operations leave, by themselves or with their process, and the gate opens
\* or stays shut for a while; or it opens under one that was not prompt. A
\* prompt operation that stays inside keeps it as it is.
Pass ==
    /\ inside' \subseteq inside
    /\ shut' \in BOOLEAN
    /\ inside' \cap Prompt # {} => shut' = shut

GateNext == Pass \/ \E o \in Operations : Enter(o)

GateSpec == GateInit /\ [][GateNext]_gate

-----------------------------------------------------------------------------
\* Two operations whose leases are renewed are never inside together.
OneInside == \A o, p \in Prompt \cap inside : o = p

\* The inductive invariant behind it: the gate is shut on a prompt operation.
GateInv ==
    /\ inside \subseteq Operations /\ shut \in BOOLEAN
    /\ inside \cap Prompt # {} => shut
    /\ OneInside
=============================================================================
