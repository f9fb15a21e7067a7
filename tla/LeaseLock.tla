----------------------------- MODULE LeaseLock -----------------------------
(***************************************************************************)
(* The cross-process lease that guards a shared store: core/lease_lock.py  *)
(* and its two facades, core/concept_build_lock.py (the concept graph) and *)
(* core/graph_index_lock.py (the code index).  The lock is one row in      *)
(* SQLite, (holder, expires_at); each statement on it is one atomic step.  *)
(*                                                                         *)
(* A holder is one operation: every acquisition takes a fresh uuid, so an  *)
(* element of Holders is used once.  Two styles of use exist.              *)
(*   - InThread: gate_sync and run_exclusive acquire, work and release in  *)
(*     one thread that nothing can cancel.                                 *)
(*   - the others: the concept_build_lock context manager acquires and     *)
(*     releases in a coroutine while asyncio.to_thread does the work; a    *)
(*     cancelled coroutine releases and leaves the thread running.         *)
(*                                                                         *)
(* Time is the integer clock `now`, bounded by MaxTime.  A Prompt holder   *)
(* runs its heartbeat on schedule and its renewals reach the database; the *)
(* heartbeat of any other holder may stall for any time or raise.          *)
(*                                                                         *)
(* The definitions named Slip... are plausible slips of the code, each of  *)
(* which breaks one of the properties.                                     *)
(***************************************************************************)
EXTENDS Integers

CONSTANTS
    Holders,    \* one element per try_acquire call (a fresh uuid)
    InThread,   \* the holders that work in the thread that owns the lease
    Heeding,    \* the holders whose work polls `lost` between two writes
    Prompt,     \* the holders whose heartbeat is never late and never fails
    TTL,        \* ttl_seconds
    Beat,       \* heartbeat_interval(ttl_seconds)
    MaxTime,    \* bound on the clock
    NoHolder    \* the table has no row

ASSUME HoldersAssumption ==
    /\ InThread \subseteq Holders
    /\ Heeding \subseteq Holders
    /\ Prompt \subseteq Holders
    /\ NoHolder \notin Holders

\* heartbeat_interval is max(0.5, ttl / 3) and ttl_seconds is at least one
\* second, so a beat is always due before the lease it renews has expired.
ASSUME TimeAssumption ==
    /\ TTL \in Nat /\ Beat \in Nat /\ MaxTime \in Nat
    /\ 0 < Beat /\ Beat < TTL

VARIABLES
    now,      \* the wall clock all processes share
    row,      \* the one row of the lock table
    owner,    \* the code that acquires and releases
    work,     \* the code that writes the guarded store
    beat,     \* the heartbeat
    stamp,    \* clock value of the try_acquire or renew in progress, else 0
    wake,     \* when the heartbeat's sleep ends, 0 when it is not asleep
    renewed,  \* keep_alive's last_renewed, 0 once the heartbeat is over
    lost      \* Lease.lost

vars == <<now, row, owner, work, beat, stamp, wake, renewed, lost>>

NoRow == [holder |-> NoHolder, exp |-> 0]

OwnerStates == {"idle", "asking", "held", "stopping", "releasing", "done"}
WorkStates == {"idle", "next", "writing", "ended"}
BeatStates == {"off", "asleep", "asking", "granted", "denied"}

\* The body of the with block is running.
Attached(h) == owner[h] \in {"held", "stopping"}

Init ==
    /\ now = 0
    /\ row = NoRow
    /\ owner = [h \in Holders |-> "idle"]
    /\ work = [h \in Holders |-> "idle"]
    /\ beat = [h \in Holders |-> "off"]
    /\ stamp = [h \in Holders |-> 0]
    /\ wake = [h \in Holders |-> 0]
    /\ renewed = [h \in Holders |-> 0]
    /\ lost = [h \in Holders |-> FALSE]

-----------------------------------------------------------------------------
(* try_acquire reads the clock before BEGIN IMMEDIATE, so the transaction   *)
(* may run later than the time it compares with and writes.                 *)

Ask(h) ==
    /\ owner[h] = "idle"
    /\ owner' = [owner EXCEPT ![h] = "asking"]
    /\ stamp' = [stamp EXCEPT ![h] = now]
    /\ UNCHANGED <<now, row, work, beat, wake, renewed, lost>>

LiveAt(t) == row.holder # NoHolder /\ row.exp > t

\* The first beat after the whole lease.
SlipStartBeat(h) ==
    /\ beat' = [beat EXCEPT ![h] = "asleep"]
    /\ wake' = [wake EXCEPT ![h] = now + TTL]
    /\ renewed' = [renewed EXCEPT ![h] = now]

\* The heartbeat, asleep for its first interval.
StartBeat(h) ==
    /\ beat' = [beat EXCEPT ![h] = "asleep"]
    /\ wake' = [wake EXCEPT ![h] = now + Beat]
    /\ renewed' = [renewed EXCEPT ![h] = now]

\* The heartbeat is over. One that is inside renew is not waited for: its
\* statement is already on its way to the database.
StopBeat(h) ==
    /\ beat' = [beat EXCEPT ![h] = IF @ = "asking" THEN @ ELSE "off"]
    /\ wake' = [wake EXCEPT ![h] = 0]
    /\ renewed' = [renewed EXCEPT ![h] = 0]

Acquire(h) ==
    /\ owner[h] = "asking"
    /\ ~LiveAt(stamp[h])
    /\ row' = [holder |-> h, exp |-> stamp[h] + TTL]
    /\ owner' = [owner EXCEPT ![h] = "held"]
    /\ stamp' = [stamp EXCEPT ![h] = 0]
    /\ StartBeat(h)
    /\ UNCHANGED <<now, work, lost>>

\* ConceptBuildBusy, GraphIndexBusy: no caller waits.
Refuse(h) ==
    /\ owner[h] = "asking"
    /\ LiveAt(stamp[h])
    /\ owner' = [owner EXCEPT ![h] = "done"]
    /\ stamp' = [stamp EXCEPT ![h] = 0]
    /\ UNCHANGED <<now, row, work, beat, wake, renewed, lost>>

-----------------------------------------------------------------------------
(* The heartbeat. *)

Due(h) == beat[h] = "asleep" /\ now >= wake[h]

\* An interval missed is taken for a lease lost.
SlipStale(h) == h \notin InThread /\ now - renewed[h] > Beat

\* keep_alive looks at its own clock before it asks; the heartbeat thread of
\* gate_sync does not.
Stale(h) == h \notin InThread /\ now - renewed[h] >= TTL

BeatStale(h) ==
    /\ Due(h) /\ Stale(h)
    /\ lost' = [lost EXCEPT ![h] = TRUE]
    /\ StopBeat(h)
    /\ UNCHANGED <<now, row, owner, work, stamp>>

BeatAsk(h) ==
    /\ Due(h) /\ ~Stale(h)
    /\ beat' = [beat EXCEPT ![h] = "asking"]
    /\ wake' = [wake EXCEPT ![h] = 0]
    /\ stamp' = [stamp EXCEPT ![h] = now]
    /\ UNCHANGED <<now, row, owner, work, renewed, lost>>

\* What renew does with the row, and the answer it gives.
RenewWith(h, ours, until) ==
    /\ beat[h] = "asking"
    /\ row' = IF ours THEN [holder |-> h, exp |-> until] ELSE row
    /\ beat' = [beat EXCEPT ![h] = CASE ~Attached(h) -> "off"
                                     [] ours -> "granted"
                                     [] OTHER -> "denied"]
    /\ stamp' = [stamp EXCEPT ![h] = 0]
    /\ UNCHANGED <<now, owner, work, wake, renewed, lost>>

\* An upsert; an extension of what is left.
SlipRenew(h) == RenewWith(h, TRUE, stamp[h] + TTL)
SlipExtend(h) ==
    RenewWith(h, row.holder = h /\ row.exp > stamp[h], row.exp + TTL)

\* The UPDATE of renew and the number of rows it changed. Nobody hears the
\* answer when the hold ended while the statement was on its way.
Renew(h) ==
    RenewWith(h, row.holder = h /\ row.exp > stamp[h], stamp[h] + TTL)

\* renew raised: logged, and tried again an interval later. last_renewed does
\* not move.
RenewError(h) ==
    /\ beat[h] = "asking"
    /\ h \notin Prompt
    /\ beat' = [beat EXCEPT ![h] = IF Attached(h) THEN "asleep" ELSE "off"]
    /\ wake' = [wake EXCEPT ![h] = IF Attached(h) THEN now + Beat ELSE 0]
    /\ stamp' = [stamp EXCEPT ![h] = 0]
    /\ UNCHANGED <<now, row, owner, work, renewed, lost>>

BeatGranted(h) ==
    /\ beat[h] = "granted"
    /\ StartBeat(h)
    /\ UNCHANGED <<now, row, owner, work, stamp, lost>>

BeatDenied(h) ==
    /\ beat[h] = "denied"
    /\ lost' = [lost EXCEPT ![h] = TRUE]
    /\ StopBeat(h)
    /\ UNCHANGED <<now, row, owner, work, stamp>>

-----------------------------------------------------------------------------
(* The work done under the lease: writes, with a look at `lost` before each. *)

WorkMoves(h, from, to) ==
    /\ work[h] = from
    /\ work' = [work EXCEPT ![h] = to]
    /\ UNCHANGED <<now, row, owner, beat, stamp, wake, renewed, lost>>

StartWork(h) == owner[h] = "held" /\ WorkMoves(h, "idle", "next")

BeginWrite(h) == ~(h \in Heeding /\ lost[h]) /\ WorkMoves(h, "next", "writing")

EndWrite(h) == WorkMoves(h, "writing", "next")

\* Nothing left to write, an error, or `lost` was seen.
EndWork(h) == WorkMoves(h, "next", "ended")

-----------------------------------------------------------------------------
(* The end of the hold. *)

\* The finally block: the heartbeat is stopped, then the row is released.
Unwind(h) ==
    /\ Attached(h)
    /\ owner' = [owner EXCEPT ![h] = "releasing"]
    /\ StopBeat(h)
    /\ UNCHANGED <<now, row, work, stamp, lost>>

\* The body of the with block returned, its work over.
Leave(h) == work[h] \in {"idle", "ended"} /\ Unwind(h)

\* The coroutine that holds the lease is cancelled, by worker.stop after its
\* grace period or by the event loop: the thread it awaits goes on.
\* run_exclusive shields its task, so a holder InThread is out of reach.
Cancel(h) == h \notin InThread /\ Unwind(h)

\* ConceptIndexWorker.stop raises `lost` before it waits and cancels.
Stop(h) ==
    /\ owner[h] = "held"
    /\ h \notin InThread
    /\ owner' = [owner EXCEPT ![h] = "stopping"]
    /\ lost' = [lost EXCEPT ![h] = TRUE]
    /\ UNCHANGED <<now, row, work, beat, stamp, wake, renewed>>

\* The row is deleted, whosever it is.
SlipRelease(h) ==
    /\ owner[h] = "releasing"
    /\ row' = NoRow
    /\ owner' = [owner EXCEPT ![h] = "done"]
    /\ UNCHANGED <<now, work, beat, stamp, wake, renewed, lost>>

Release(h) ==
    /\ owner[h] = "releasing"
    /\ row' = IF row.holder = h THEN NoRow ELSE row
    /\ owner' = [owner EXCEPT ![h] = "done"]
    /\ UNCHANGED <<now, work, beat, stamp, wake, renewed, lost>>

\* release raised; it is logged and the row stays until it expires.
ReleaseError(h) ==
    /\ owner[h] = "releasing"
    /\ owner' = [owner EXCEPT ![h] = "done"]
    /\ UNCHANGED <<now, row, work, beat, stamp, wake, renewed, lost>>

\* The process dies: thread, heartbeat and coroutine with it, the row stays.
Crash(h) ==
    /\ owner[h] \in {"held", "stopping", "releasing"}
    /\ owner' = [owner EXCEPT ![h] = "done"]
    /\ work' = [work EXCEPT ![h] = "ended"]
    /\ beat' = [beat EXCEPT ![h] = "off"]
    /\ stamp' = [stamp EXCEPT ![h] = 0]
    /\ wake' = [wake EXCEPT ![h] = 0]
    /\ renewed' = [renewed EXCEPT ![h] = 0]
    /\ UNCHANGED <<now, row, lost>>

-----------------------------------------------------------------------------
\* What a Prompt holder never leaves for later: a due beat, an answer to hear,
\* a statement already computed from the clock.
Overdue(h) ==
    /\ h \in Prompt
    /\ \/ owner[h] = "asking"
       \/ beat[h] \notin {"off", "asleep"}
       \/ Due(h)

Tick ==
    /\ now < MaxTime
    /\ \A h \in Holders : ~Overdue(h)
    /\ now' = now + 1
    /\ UNCHANGED <<row, owner, work, beat, stamp, wake, renewed, lost>>

HolderStep(h) ==
    \/ Ask(h) \/ Acquire(h) \/ Refuse(h)
    \/ BeatStale(h) \/ BeatAsk(h) \/ Renew(h) \/ RenewError(h)
    \/ BeatGranted(h) \/ BeatDenied(h)
    \/ StartWork(h) \/ BeginWrite(h) \/ EndWrite(h) \/ EndWork(h)
    \/ Leave(h) \/ Stop(h) \/ Cancel(h)
    \/ Release(h) \/ ReleaseError(h) \/ Crash(h)

Next == Tick \/ \E h \in Holders : HolderStep(h)

Spec == Init /\ [][Next]_vars

-----------------------------------------------------------------------------
TypeOK ==
    /\ now \in 0 .. MaxTime
    /\ row \in [holder : Holders \cup {NoHolder}, exp : 0 .. MaxTime + TTL]
    /\ owner \in [Holders -> OwnerStates]
    /\ work \in [Holders -> WorkStates]
    /\ beat \in [Holders -> BeatStates]
    /\ stamp \in [Holders -> 0 .. MaxTime]
    /\ wake \in [Holders -> 0 .. MaxTime + Beat]
    /\ renewed \in [Holders -> 0 .. MaxTime]
    /\ lost \in [Holders -> BOOLEAN]

\* The operation owns the store at this moment, as the row says.
Covered(h) == row.holder = h /\ row.exp > now

\* Two operations whose heartbeats keep up, and whose owning code has not been
\* cancelled, never write the guarded store together: the promise of a lock
\* that renews itself ("the TTL bounds how long a crashed holder blocks
\* others", concept_build_lock.py), whatever other holders stall, crash,
\* get cancelled or fail to renew or release.
WritersExclusive ==
    \A g, h \in Prompt :
        g # h /\ work[g] = "writing" /\ work[h] = "writing"
              /\ Attached(g) /\ Attached(h) => FALSE

\* `lost` is never a false alarm: a build that is told to stop because its
\* lease is gone (and was not stopped on purpose) is no longer covered by it,
\* by the staleness check as well as by a refused renewal.
LostIsTrue ==
    \A h \in Holders : lost[h] /\ owner[h] = "held" => ~Covered(h)

\* Nobody takes a live hold away: a row that has not expired changes hands
\* only when its own holder releases it. A stale acquisition, a late renewal
\* or the release of an earlier holder never removes it.
LiveHoldIsSafe ==
    [][\A h \in Holders :
         Covered(h) /\ row'.holder # h => owner[h] = "releasing"]_vars

\* What was lost is never had back: once an operation no longer holds the row
\* its heartbeat cannot re-create the hold over a newer owner's.
LostForGood ==
    [][\A h \in Holders :
         Attached(h) /\ row.holder # h => row'.holder # h]_vars

\* The same promise without the exception for a cancelled owner, as
\* build_for_memory_ids states it: "the worker and a manual marm_concept_build
\* can never write the concept DB concurrently" (endpoints/concepts.py).
NeverConcurrent ==
    \A g, h \in Prompt :
        g # h => ~(work[g] = "writing" /\ work[h] = "writing")

-----------------------------------------------------------------------------
(* The abstract gate that the lease implements. *)

Lease == INSTANCE Gate WITH
            Operations <- Holders, inside <- {h \in Holders : Attached(h)},
            shut <- LiveAt(now)

\* To those who use it the lease is a gate without a clock: whatever expires,
\* is renewed too late, released by others or left behind by a crash, it never
\* opens while an operation whose heartbeat keeps up is inside.
LeaseIsAGate == Lease!GateSpec

-----------------------------------------------------------------------------
(* The inductive invariant behind these properties. *)

\* Clock values in hand are never ahead of the clock; those of a Prompt holder
\* are never behind it. A lease never reaches further than TTL ahead, which is
\* what a crashed holder can cost the others.
StampsInv ==
    /\ row.exp <= now + TTL
    /\ \A h \in Holders :
        /\ stamp[h] <= now
        /\ renewed[h] <= now
        /\ h \in Prompt /\ (owner[h] = "asking" \/ beat[h] = "asking")
              => stamp[h] = now

\* An operation that does not hold the lock yet has left no trace of itself.
FreshInv ==
    \A h \in Holders :
        owner[h] \in {"idle", "asking"} =>
            /\ row.holder # h
            /\ beat[h] = "off"
            /\ work[h] = "idle"
            /\ ~lost[h]

\* A Prompt holder owns the row for as long as the body of its with block
\* runs, and its next beat comes before the row expires.
PromptInv ==
    \A h \in Prompt : Attached(h) =>
        /\ row.holder = h
        /\ beat[h] \in {"asleep", "asking", "granted"}
        /\ beat[h] = "asleep" => /\ now <= wake[h]
                                 /\ wake[h] = renewed[h] + Beat
                                 /\ row.exp = renewed[h] + TTL
        /\ beat[h] = "asking" => row.exp > now
        /\ beat[h] = "granted" => row.exp = now + TTL

\* What the heartbeat knows: the row expires no later than TTL after
\* last_renewed, and after `lost` or a refusal the hold is over.
HeartbeatInv ==
    \A h \in Holders : Attached(h) =>
        /\ beat[h] \in {"asleep", "asking"} /\ row.holder = h
              => row.exp <= renewed[h] + TTL
        /\ beat[h] = "denied" => ~Covered(h)
        /\ lost[h] /\ owner[h] = "held" => beat[h] = "off" /\ ~Covered(h)

\* The thread of a holder InThread is at work only between its own acquisition
\* and its own release.
ThreadInv ==
    \A h \in InThread : work[h] \in {"next", "writing"} => Attached(h)

IInv ==
    TypeOK /\ StampsInv /\ FreshInv /\ PromptInv /\ HeartbeatInv /\ ThreadInv
=============================================================================
