---------------------------- MODULE ConceptIndex ----------------------------
(***************************************************************************)
(* The concept indexing pipeline.  Writers commit a memory and its queue   *)
(* row in one transaction; background workers (core/concept_worker.py) and *)
(* manual builds (endpoints/concepts.py) extract memories into the concept *)
(* graph, a second database, and settle the rows.                          *)
(*                                                                         *)
(* The memory database and the concept database are separate files, each   *)
(* statement or transaction on one of them is one atomic step, and every   *)
(* agent may be in a process of its own.  The build lock is the row that   *)
(* LeaseLock studies: here it is its holder, and losing it is a fault.     *)
(*                                                                         *)
(* A content hash identifies a content, so a hash is modelled by the       *)
(* content itself; what an extraction of content c yields (entities and    *)
(* relationships) is one fact, named by c, or none for a Barren content.   *)
(* graph[m] is the set of facts that cite memory m.                        *)
(*                                                                         *)
(* Faults names what may go wrong, MaxFaults how often; MaxWrites bounds   *)
(* the writes of content.  The definitions named Slip... are plausible     *)
(* slips of the code, each of which breaks one of the properties.          *)
(***************************************************************************)
EXTENDS Integers, FiniteSets

CONSTANTS
    Memories,     \* memory ids a build may see
    Contents,     \* contents, each standing for its hash
    Barren,       \* contents with no entity in them
    Workers,      \* one ConceptIndexWorker per process
    Builders,     \* one per marm_concept_build call
    None,
    BatchSize,    \* CONCEPT_INDEX_BATCH_SIZE
    MaxAttempts,  \* CONCEPT_INDEX_MAX_ATTEMPTS
    Deletes,      \* the memories a user may delete
    Faults, MaxFaults, MaxWrites

FaultKinds == {"extract", "retract", "raise", "crash", "stop", "detach",
               "stall", "reset", "overlap", "replace"}

ASSUME ConceptAssumption ==
    /\ Barren \subseteq Contents /\ Deletes \subseteq Memories
    /\ Workers \cap Builders = {}
    /\ None \notin Contents \cup Memories \cup Workers \cup Builders
    /\ BatchSize \in Nat \ {0} /\ MaxAttempts \in Nat \ {0}
    /\ Faults \subseteq FaultKinds /\ MaxFaults \in Nat /\ MaxWrites \in Nat

VARIABLES
    content,   \* memories.content, None when there is no such row
    gone,      \* ids that were deleted; ids are uuids, none comes back
    row,       \* concept_index_queue
    txn,       \* the open write transaction of a writer
    cleaning,  \* deletes whose concept cleanup is still to come
    replacing, \* console replaces between their cleanup and their write
    graph,     \* the concept database: facts citing each memory
    schema,    \* "current", or "rebuild" when the graph must be rebuilt
    lock,      \* holder of the concept build lock
    pc,        \* the coroutine of an agent
    thread,    \* its extraction thread
    cur,       \* the memory the thread is writing
    page,      \* what the thread has read and not yet processed
    outcome,   \* what the thread reports of each memory
    claimed,   \* a worker's batch: memory to hash at the claim
    live,      \* what current_hashes returned
    scope,     \* the memories a build's session or project selects
    abort,     \* Lease.lost
    rebuilt,   \* builds that reset the graph before they started
    used       \* faults and writes so far, the kinds of those faults, and the
               \* memories whose facts a cleanup that failed left behind

agents == <<pc, thread, cur, page, outcome, claimed, live, scope, abort,
            rebuilt>>
vars == <<content, gone, row, txn, cleaning, replacing, graph, schema, lock,
          agents, used>>

Agents == Workers \cup Builders

FactsOf(c) == IF c \in Barren \cup {None} THEN {} ELSE {c}

NoRow == [state |-> "none", hash |-> None, token |-> None, due |-> FALSE,
          attempts |-> 0, before |-> {}]
NoTxn == [mem |-> None, to |-> None, before |-> {}]
Nothing == [m \in Memories |-> None]
NoOutcome == [m \in Memories |-> "vanished"]

RowSet == [state : {"none", "pending", "leased", "parked"},
           hash : Contents \cup {None}, token : Workers \cup {None},
           due : BOOLEAN, attempts : 0 .. MaxAttempts,
           before : SUBSET Builders]

Init ==
    /\ content = Nothing
    /\ gone = {}
    /\ row = [m \in Memories |-> NoRow]
    /\ txn = NoTxn
    /\ cleaning = {} /\ replacing = {}
    /\ graph = [m \in Memories |-> {}]
    /\ schema = "current"
    /\ lock = None
    /\ pc = [a \in Agents |-> "idle"]
    /\ thread = [a \in Agents |-> "off"]
    /\ cur = [a \in Agents |-> None]
    /\ page = [a \in Agents |-> Nothing]
    /\ outcome = [a \in Agents |-> NoOutcome]
    /\ claimed = [a \in Agents |-> Nothing]
    /\ live = [a \in Agents |-> Nothing]
    /\ scope = [b \in Builders |-> {}]
    /\ abort = [a \in Agents |-> FALSE]
    /\ rebuilt = {}
    /\ used = [faults |-> 0, writes |-> 0, kinds |-> {}, left |-> {}]

Fault(kind) ==
    /\ kind \in Faults
    /\ used.faults < MaxFaults
    /\ used' = [faults |-> used.faults + 1, writes |-> used.writes,
                kinds |-> used.kinds \cup {kind}, left |-> used.left]

-----------------------------------------------------------------------------
(* Writers. *)

\* BEGIN IMMEDIATE, the content, and enqueue, which stamps enqueued_at. Only
\* one such transaction is open; other connections read around it (WAL).
BeginWrite(m, c) ==
    /\ txn = NoTxn
    /\ m \notin gone
    /\ content[m] # c
    /\ used.writes < MaxWrites
    /\ used' = [used EXCEPT !.writes = @ + 1]
    /\ txn' = [mem |-> m, to |-> c, before |-> {}]
    /\ replacing' = replacing \ {m}
    /\ UNCHANGED <<content, gone, row, cleaning, graph, schema, lock, agents>>

\* enqueue is an upsert: whatever the row was, it is pending again with the
\* new hash, claimable at once, owned by nobody, its attempts forgotten.
Enqueued(c, before) ==
    [state |-> "pending", hash |-> c, token |-> None, due |-> TRUE,
     attempts |-> 0, before |-> before]

CommitWrite ==
    /\ txn # NoTxn
    /\ content' = [content EXCEPT ![txn.mem] = txn.to]
    /\ row' = [row EXCEPT ![txn.mem] = Enqueued(txn.to, txn.before)]
    /\ txn' = NoTxn
    /\ UNCHANGED <<gone, cleaning, replacing, graph, schema, lock, agents,
                   used>>

\* console_replace_memory withdraws the provenance of the live memory before
\* it writes the replacement.
ReplaceClean(m) ==
    /\ content[m] # None
    /\ m \notin replacing
    /\ Fault("replace")
    /\ graph' = [graph EXCEPT ![m] = {}]
    /\ replacing' = replacing \cup {m}
    /\ UNCHANGED <<content, gone, row, txn, cleaning, schema, lock, agents>>

\* The write queue refuses or fails the replacement, or the memory is gone.
ReplaceFails(m) ==
    /\ m \in replacing
    /\ replacing' = replacing \ {m}
    /\ UNCHANGED <<content, gone, row, txn, cleaning, graph, schema, lock,
                   agents, used>>

\* The memory and its queue row go in one transaction.
Delete(m) ==
    /\ m \in Deletes
    /\ txn = NoTxn
    /\ content[m] # None
    /\ content' = [content EXCEPT ![m] = None]
    /\ gone' = gone \cup {m}
    /\ row' = [row EXCEPT ![m] = NoRow]
    /\ cleaning' = cleaning \cup {m}
    /\ UNCHANGED <<txn, replacing, graph, schema, lock, agents, used>>

\* cleanup_deleted_memory_provenance. Its callers log an exception, and nobody
\* tries again.
CleansUp(m) ==
    \/ /\ graph' = [graph EXCEPT ![m] = {}]
       /\ used' = [used EXCEPT !.left = @ \ {m}]
    \/ /\ "retract" \in Faults /\ used.faults < MaxFaults
       /\ used' = [used EXCEPT !.faults = @ + 1, !.kinds = @ \cup {"retract"},
                               !.left = @ \cup {m}]
       /\ UNCHANGED graph

\* Then the endpoint cleans the graph, without the build lock.
Cleanup(m) ==
    /\ m \in cleaning
    /\ CleansUp(m)
    /\ cleaning' = cleaning \ {m}
    /\ UNCHANGED <<content, gone, row, txn, replacing, schema, lock, agents>>

Writer ==
    \/ CommitWrite
    \/ \E m \in Memories :
          \/ \E c \in Contents : BeginWrite(m, c)
          \/ ReplaceClean(m) \/ ReplaceFails(m) \/ Delete(m) \/ Cleanup(m)

-----------------------------------------------------------------------------
(* The build lock, and what an agent forgets when it lets go of it. *)

\* Between the acquisition and the end of the with block.
InSession(a) == pc[a] \notin {"idle", "done"}

\* The databases and everything but the agents.
store == <<content, gone, row, txn, cleaning, replacing, graph, schema>>

Goto(a, there) == pc' = [pc EXCEPT ![a] = there]

Acquire(a) ==
    /\ pc[a] = "idle"
    /\ thread[a] = "off"
    /\ lock = None
    /\ lock' = a
    /\ Goto(a, IF a \in Workers THEN "claim" ELSE "stamp")
    /\ UNCHANGED <<store, thread, cur, page, outcome, claimed, live, scope,
                   abort, rebuilt, used>>

\* What goes out of scope with the with block. A worker comes back after its
\* debounce interval, a build call is over. A thread still running keeps its
\* own variables.
Forget(a) ==
    /\ Goto(a, IF a \in Workers THEN "idle" ELSE "done")
    /\ claimed' = [claimed EXCEPT ![a] = Nothing]
    /\ live' = [live EXCEPT ![a] = Nothing]
    /\ rebuilt' = rebuilt \ {a}

ForgetThread(a) ==
    /\ thread' = [thread EXCEPT ![a] = "off"]
    /\ cur' = [cur EXCEPT ![a] = None]
    /\ page' = [page EXCEPT ![a] = Nothing]
    /\ outcome' = [outcome EXCEPT ![a] = NoOutcome]
    /\ scope' = [b \in Builders |-> IF b = a THEN {} ELSE scope[b]]
    /\ abort' = [abort EXCEPT ![a] = FALSE]

\* Only our own hold is released.
Release(a) ==
    /\ pc[a] = "leave"
    /\ lock' = IF lock = a THEN None ELSE lock
    /\ Forget(a)
    /\ ForgetThread(a)
    /\ UNCHANGED <<store, used>>

\* A thread that outlived its coroutine ends, and nobody hears of it.
Reap(a) ==
    /\ ~InSession(a)
    /\ thread[a] \in {"finished", "aborted", "cancelled", "raised"}
    /\ ForgetThread(a)
    /\ UNCHANGED <<store, lock, pc, claimed, live, rebuilt, used>>

-----------------------------------------------------------------------------
(* The extraction thread: _build_for_memory_ids_sync and _run_build. *)

threadOnly == <<content, gone, row, txn, cleaning, replacing, schema, lock,
                pc, claimed, live, scope, abort, rebuilt>>

StartThread(a) == thread' = [thread EXCEPT ![a] = "fetch"]

Batch(w) == {m \in Memories : claimed[w][m] # None}

Fetch(a) ==
    /\ thread[a] = "fetch"
    /\ LET ids == IF a \in Workers THEN Batch(a) ELSE scope[a] IN
       page' = [page EXCEPT ![a] =
                  [m \in Memories |-> IF m \in ids THEN content[m] ELSE None]]
    /\ thread' = [thread EXCEPT ![a] = "next"]
    /\ UNCHANGED <<threadOnly, graph, cur, outcome, used>>

Unread(a) == {m \in Memories : page[a][m] # None}

\* Between two memories: the lease, then the user's request to stop (builds
\* only, at any time), then the next memory or the end.
Check(a) ==
    /\ thread[a] = "next"
    /\ \/ /\ abort[a] /\ Unread(a) # {}
          /\ thread' = [thread EXCEPT ![a] = "aborted"]
          /\ UNCHANGED cur
       \/ /\ ~abort[a] /\ a \in Builders /\ Unread(a) # {}
          /\ thread' = [thread EXCEPT ![a] = "cancelled"]
          /\ UNCHANGED cur
       \/ /\ ~abort[a]
          /\ \E m \in Unread(a) : cur' = [cur EXCEPT ![a] = m]
          /\ thread' = [thread EXCEPT ![a] = "extract"]
       \/ /\ Unread(a) = {}
          /\ thread' = [thread EXCEPT ![a] = "finished"]
          /\ UNCHANGED cur
    /\ UNCHANGED <<threadOnly, graph, page, outcome, used>>

Processed(a, result) ==
    /\ outcome' = [outcome EXCEPT ![a][cur[a]] = result]
    /\ page' = [page EXCEPT ![a][cur[a]] = None]
    /\ cur' = [cur EXCEPT ![a] = None]
    /\ thread' = [thread EXCEPT ![a] = "next"]

\* extract_entities raised or was unavailable, or a write of one of the
\* entities or relationships did; the facts may be there or not, and what
\* the memory said before stays.
ExtractFails(a) ==
    /\ thread[a] = "extract"
    /\ Fault("extract")
    /\ \E wrote \in SUBSET FactsOf(page[a][cur[a]]) :
          graph' = [graph EXCEPT ![cur[a]] = @ \cup wrote]
    /\ Processed(a, "failed")
    /\ UNCHANGED threadOnly

\* get_or_create_entity and store_relationship, each committed at once.
Assert(a) ==
    /\ thread[a] = "extract"
    /\ graph' = [graph EXCEPT ![cur[a]] = @ \cup FactsOf(page[a][cur[a]])]
    /\ thread' = [thread EXCEPT ![a] = "retract"]
    /\ UNCHANGED <<threadOnly, cur, page, outcome, used>>

\* retract_memory_provenance withdraws what this extraction did not repeat.
Retract(a) ==
    /\ thread[a] = "retract"
    /\ graph' = [graph EXCEPT ![cur[a]] = @ \cap FactsOf(page[a][cur[a]])]
    /\ Processed(a, IF page[a][cur[a]] \in Barren THEN "no_entities"
                                                  ELSE "indexed")
    /\ UNCHANGED <<threadOnly, used>>

\* A statement outside the guarded writes raised: the build ends.
Raise(a) ==
    /\ thread[a] \in {"fetch", "next", "retract"}
    /\ Fault("raise")
    /\ thread' = [thread EXCEPT ![a] = "raised"]
    /\ UNCHANGED <<threadOnly, graph, cur, page, outcome>>

Thread(a) ==
    \/ Fetch(a) \/ Check(a)
    \/ ExtractFails(a) \/ Assert(a) \/ Retract(a) \/ Raise(a)

-----------------------------------------------------------------------------
(* The worker: ConceptIndexWorker._drain and _process. *)

\* A row whose worker died is never taken up again.
SlipDue == {m \in Memories : row[m].state = "pending" /\ row[m].due}

Due == {m \in Memories : row[m].state \in {"pending", "leased"} /\ row[m].due}

\* The row is the worker's until leased_until.
Leased(r, w) ==
    [state |-> "leased", hash |-> r.hash, token |-> w, due |-> FALSE,
     attempts |-> r.attempts, before |-> r.before]

\* Any BatchSize of the due rows; the code takes the oldest. With nothing to
\* claim the worker turns to code links and is done with the lease.
Claim(w) ==
    /\ pc[w] = "claim"
    /\ txn = NoTxn
    /\ \E batch \in SUBSET Due :
          /\ Cardinality(batch) = IF Cardinality(Due) < BatchSize
                                    THEN Cardinality(Due) ELSE BatchSize
          /\ row' = [m \in Memories |->
                       IF m \in batch
                         THEN Leased(row[m], w) ELSE row[m]]
          /\ claimed' = [claimed EXCEPT ![w] =
                [m \in Memories |-> IF m \in batch THEN row[m].hash ELSE None]]
          /\ Goto(w, IF batch = {} THEN "leave" ELSE "claimed")
    /\ UNCHANGED <<content, gone, txn, cleaning, replacing, graph, schema,
                   lock, thread, cur, page, outcome, live, scope, abort,
                   rebuilt, used>>

\* build_for_memory_ids refuses a graph that must be rebuilt: the cycle fails
\* and the batch stays leased until its lease runs out.
StartBatch(w) ==
    /\ pc[w] = "claimed"
    /\ IF schema = "rebuild"
         THEN Goto(w, "leave") /\ UNCHANGED thread
         ELSE Goto(w, "build") /\ StartThread(w)
    /\ UNCHANGED <<store, lock, cur, page, outcome, claimed, live, scope,
                   abort, rebuilt, used>>

\* The thread is back. After an abort nothing is settled; otherwise the hashes
\* are read again and every task is settled against them.
EndBatch(w) ==
    /\ pc[w] = "build" /\ w \in Workers
    /\ thread[w] \in {"finished", "aborted", "raised"}
    /\ IF abort[w] \/ thread[w] # "finished"
         THEN Goto(w, "leave") /\ UNCHANGED live
         ELSE /\ Goto(w, "settle")
              /\ live' = [live EXCEPT ![w] = content]
    /\ UNCHANGED <<store, lock, thread, cur, page, outcome, claimed, scope,
                   abort, rebuilt, used>>

Settled(w, m) ==
    /\ claimed' = [claimed EXCEPT ![w][m] = None]
    /\ UNCHANGED <<content, gone, txn, cleaning, replacing, schema, lock, pc,
                   thread, cur, page, outcome, live, scope, abort, rebuilt>>

Settling(w, m) == pc[w] = "settle" /\ m \in Batch(w) /\ txn = NoTxn

\* Only the queue is tidied.
SlipSettleDeleted(w, m) ==
    /\ Settling(w, m)
    /\ live[w][m] = None
    /\ row' = IF row[m].token = w THEN [row EXCEPT ![m] = NoRow] ELSE row
    /\ UNCHANGED <<graph, used>>
    /\ Settled(w, m)

\* Deleted under the extraction: withdraw what it wrote, and drop the task, done
\* or not. The row went with the memory, so the drop finds none.
SettleDeleted(w, m) ==
    /\ Settling(w, m)
    /\ live[w][m] = None
    /\ CleansUp(m)
    /\ row' = IF row[m].token = w THEN [row EXCEPT ![m] = NoRow] ELSE row
    /\ Settled(w, m)

\* Rewritten under the extraction: the writer's row stands.
SettleSuperseded(w, m) ==
    /\ Settling(w, m)
    /\ live[w][m] \notin {None, claimed[w][m]}
    /\ UNCHANGED <<row, graph, used>>
    /\ Settled(w, m)

Unchanged(w, m) == Settling(w, m) /\ live[w][m] = claimed[w][m]

\* Whoever owns it, the row of this memory is done.
SlipCompletes(w, m) == row[m].state # "none"

\* complete: matched on the token and the hash of the claim.
Completes(w, m) == row[m].token = w /\ row[m].hash = claimed[w][m]

SettleIndexed(w, m) ==
    /\ Unchanged(w, m)
    /\ outcome[w][m] \in {"indexed", "no_entities"}
    /\ row' = IF Completes(w, m) THEN [row EXCEPT ![m] = NoRow] ELSE row
    /\ UNCHANGED <<graph, used>>
    /\ Settled(w, m)

\* Tried for ever.
SlipFailed(r) == [r EXCEPT !.attempts = @ + 1, !.state = "pending",
                           !.token = None, !.due = FALSE]

\* fail: one attempt more, parked when they are spent, else held back until
\* its retry is due.
Failed(r) ==
    LET n == r.attempts + 1 IN
    [state |-> IF n >= MaxAttempts THEN "parked" ELSE "pending",
     hash |-> r.hash, token |-> None, due |-> FALSE,
     attempts |-> n, before |-> r.before]

\* The attempt is recorded with the hash of the task, whoever has the row now.
SlipSettleFailed(w, m) ==
    /\ Unchanged(w, m)
    /\ outcome[w][m] = "failed"
    /\ row' = [row EXCEPT ![m] = Failed([@ EXCEPT !.hash = claimed[w][m]])]
    /\ UNCHANGED <<graph, used>>
    /\ Settled(w, m)

SettleFailed(w, m) ==
    /\ Unchanged(w, m)
    /\ outcome[w][m] = "failed"
    /\ row' = IF row[m].token = w THEN [row EXCEPT ![m] = Failed(@)] ELSE row
    /\ UNCHANGED <<graph, used>>
    /\ Settled(w, m)

EndSettle(w) ==
    /\ pc[w] = "settle"
    /\ Batch(w) = {}
    /\ Goto(w, "leave")
    /\ UNCHANGED <<store, lock, thread, cur, page, outcome, claimed, live,
                   scope, abort, rebuilt, used>>

\* A settling statement raised: the rest of the batch stays leased.
SettleRaises(w) ==
    /\ pc[w] = "settle"
    /\ Batch(w) # {}
    /\ Fault("raise")
    /\ Goto(w, "leave")
    /\ UNCHANGED <<store, lock, thread, cur, page, outcome, claimed, live,
                   scope, abort, rebuilt>>

Worker(w) ==
    \/ Claim(w) \/ StartBatch(w) \/ EndBatch(w) \/ EndSettle(w)
    \/ SettleRaises(w)
    \/ \E m \in Memories : \/ SettleDeleted(w, m) \/ SettleSuperseded(w, m)
                           \/ SettleIndexed(w, m) \/ SettleFailed(w, m)

\* keep_claimed: as long as the batch is processed its rows are not due.
RenewRows(w) ==
    LET ours == {m \in Batch(w) : row[m].token = w} IN
    /\ pc[w] \in {"claimed", "build", "settle"}
    /\ \E m \in ours : row[m].due
    /\ row' = [m \in Memories |->
                 IF m \in ours THEN [row[m] EXCEPT !.due = FALSE] ELSE row[m]]
    /\ UNCHANGED <<content, gone, txn, cleaning, replacing, graph, schema,
                   lock, agents, used>>

\* leased_until passes: a backoff is over, or the heartbeat of a batch stopped
\* (its errors are swallowed, so it may fail under a worker that is alive).
RowDue(m) ==
    /\ row[m].state \in {"pending", "leased"}
    /\ ~row[m].due
    /\ row' = [row EXCEPT ![m].due = TRUE]
    /\ UNCHANGED <<content, gone, txn, cleaning, replacing, graph, schema,
                   lock, agents, used>>

-----------------------------------------------------------------------------
(* A manual build: marm_concept_build. *)

\* created_at, after which every write re-stamps its row. A writer that has
\* stamped and not committed yet is older than the build and unseen by it:
\* that overlap is a fault of its own.
Stamp(b) ==
    /\ pc[b] = "stamp"
    /\ IF txn = NoTxn THEN UNCHANGED used ELSE Fault("overlap")
    /\ \E ids \in SUBSET Memories \ {{}} : scope' = [scope EXCEPT ![b] = ids]
    /\ row' = [m \in Memories |->
                 IF row[m] = NoRow THEN NoRow
                 ELSE [row[m] EXCEPT !.before = @ \cup {b}]]
    /\ txn' = IF txn = NoTxn THEN NoTxn ELSE [txn EXCEPT !.before = @ \cup {b}]
    /\ Goto(b, "prepare")
    /\ UNCHANGED <<content, gone, cleaning, replacing, graph, schema, lock,
                   thread, cur, page, outcome, claimed, live, abort, rebuilt>>

\* search_all
Everything(b) == scope[b] = Memories

\* _prepare_build_schema: a graph that must be rebuilt is reset, and only by a
\* build of everything.
Prepare(b) ==
    /\ pc[b] = "prepare"
    /\ \/ /\ schema = "current"
          /\ Goto(b, "build") /\ StartThread(b)
          /\ UNCHANGED <<graph, rebuilt>>
       \/ /\ schema = "rebuild" /\ Everything(b)
          /\ graph' = [m \in Memories |-> {}]
          /\ rebuilt' = rebuilt \cup {b}
          /\ Goto(b, "build") /\ StartThread(b)
       \/ /\ schema = "rebuild" /\ ~Everything(b)
          /\ Goto(b, "leave")
          /\ UNCHANGED <<graph, rebuilt, thread>>
    /\ UNCHANGED <<content, gone, row, txn, cleaning, replacing, schema, lock,
                   cur, page, outcome, claimed, live, scope, abort, used>>

\* lock_lost, cancelled_by_user and build_failed settle nothing.
EndBuild(b) ==
    /\ pc[b] = "build" /\ b \in Builders
    /\ thread[b] \in {"finished", "aborted", "cancelled", "raised"}
    /\ Goto(b, IF thread[b] = "finished" THEN "retire" ELSE "leave")
    /\ UNCHANGED <<store, lock, thread, cur, page, outcome, claimed, live,
                   scope, abort, rebuilt, used>>

\* Every memory the build has indexed.
SlipCovered(b, m) ==
    /\ outcome[b][m] \in {"indexed", "no_entities"}
    /\ row[m].state # "leased"

\* retire_indexed
Covered(b, m) ==
    /\ outcome[b][m] \in {"indexed", "no_entities"}
    /\ row[m].state # "leased"
    /\ b \in row[m].before

Retire(b) ==
    /\ pc[b] = "retire"
    /\ txn = NoTxn
    /\ row' = [m \in Memories |-> IF Covered(b, m) THEN NoRow ELSE row[m]]
    /\ Goto(b, "finish")
    /\ UNCHANGED <<content, gone, txn, cleaning, replacing, graph, schema,
                   lock, thread, cur, page, outcome, claimed, live, scope,
                   abort, rebuilt, used>>

\* The run becomes success unless its cancellation was requested meanwhile;
\* only then is a rebuilt graph marked current.
Finish(b) ==
    /\ pc[b] = "finish"
    /\ \/ schema' = IF b \in rebuilt THEN "current" ELSE schema
       \/ UNCHANGED schema
    /\ Goto(b, "leave")
    /\ UNCHANGED <<content, gone, row, txn, cleaning, replacing, graph, lock,
                   thread, cur, page, outcome, claimed, live, scope, abort,
                   rebuilt, used>>

Builder(b) ==
    Stamp(b) \/ Prepare(b) \/ EndBuild(b) \/ Retire(b) \/ Finish(b)

-----------------------------------------------------------------------------
(* What goes wrong around them. *)

\* The process dies and the lock row stays behind until it expires.
Crash(a) ==
    /\ InSession(a)
    /\ Fault("crash")
    /\ Forget(a)
    /\ ForgetThread(a)
    /\ UNCHANGED <<store, lock>>

\* The lease runs out under the one that holds it: nobody renews it.
SlipExpireLock ==
    /\ lock # None
    /\ lock' = None
    /\ UNCHANGED <<store, agents, used>>

ExpireLock ==
    /\ lock # None
    /\ ~InSession(lock)
    /\ lock' = None
    /\ UNCHANGED <<store, agents, used>>

\* The process stalls for longer than the lease; its heartbeat finds out later.
Stall(a) ==
    /\ InSession(a)
    /\ lock = a
    /\ Fault("stall")
    /\ lock' = None
    /\ UNCHANGED <<store, agents>>

RaiseLost(a) ==
    /\ abort' = [abort EXCEPT ![a] = TRUE]
    /\ UNCHANGED <<store, lock, pc, thread, cur, page, outcome, claimed, live,
                   scope, rebuilt>>

Notice(a) ==
    /\ InSession(a) /\ lock # a /\ ~abort[a]
    /\ RaiseLost(a)
    /\ UNCHANGED used

\* worker.stop: raise `lost`, wait for the thread for a moment, then cancel.
StopWorker(w) ==
    /\ InSession(w) /\ ~abort[w]
    /\ Fault("stop")
    /\ RaiseLost(w)

\* A cancelled coroutine releases the lock and forgets its batch; a thread that
\* has not ended goes on.
Unwind(a) ==
    /\ InSession(a)
    /\ lock' = IF lock = a THEN None ELSE lock
    /\ Forget(a)
    /\ IF thread[a] \in {"fetch", "next", "extract", "retract"}
         THEN UNCHANGED <<thread, cur, page, outcome, scope, abort>>
         ELSE ForgetThread(a)
    /\ UNCHANGED store

CancelWorker(w) ==
    /\ "stop" \in Faults /\ abort[w]
    /\ Unwind(w)
    /\ UNCHANGED used

\* The task of a build call is cancelled; nothing raises `lost` first.
CancelBuild(b) == Fault("detach") /\ Unwind(b)

\* reset_concept_graph, gated and finished inside one thread.
ResetGraph ==
    /\ lock = None
    /\ Fault("reset")
    /\ graph' = [m \in Memories |-> {}]
    /\ schema' = "rebuild"
    /\ UNCHANGED <<content, gone, row, txn, cleaning, replacing, lock, agents>>

Trouble ==
    \/ \E a \in Agents : Crash(a) \/ Stall(a) \/ Notice(a)
    \/ \E w \in Workers : StopWorker(w) \/ CancelWorker(w)
    \/ \E b \in Builders : CancelBuild(b)
    \/ ResetGraph

-----------------------------------------------------------------------------
Next ==
    \/ Writer
    \/ Trouble
    \/ ExpireLock
    \/ \E m \in Memories : RowDue(m)
    \/ \E a \in Agents : Acquire(a) \/ Release(a) \/ Reap(a) \/ Thread(a)
    \/ \E w \in Workers : Worker(w) \/ RenewRows(w)
    \/ \E b \in Builders : Builder(b)

Spec == Init /\ [][Next]_vars

\* Every worker polls after its debounce interval and its coroutine and thread
\* are scheduled; an open transaction commits; leases run out.
Fairness ==
    /\ \A w \in Workers : WF_vars(Acquire(w)) /\ WF_vars(Worker(w))
    /\ \A b \in Builders : WF_vars(Builder(b))
    /\ \A a \in Agents : WF_vars(Release(a)) /\ WF_vars(Thread(a))
                         /\ WF_vars(Reap(a)) /\ WF_vars(Notice(a))
    /\ \A m \in Memories : WF_vars(RowDue(m))
    /\ WF_vars(CommitWrite) /\ WF_vars(ExpireLock)

FairSpec == Spec /\ Fairness

-----------------------------------------------------------------------------
Hashes == [Memories -> Contents \cup {None}]

QueueType ==
    /\ row \in [Memories -> RowSet]
    /\ \A m \in Memories :
          row[m].attempts = MaxAttempts <=> row[m].state = "parked"
    /\ txn \in [mem : Memories \cup {None}, to : Contents \cup {None},
                before : SUBSET Builders]

StoreType ==
    /\ content \in Hashes
    /\ gone \subseteq Memories
    /\ cleaning \subseteq Memories /\ replacing \subseteq Memories
    /\ graph \in [Memories -> SUBSET Contents]
    /\ schema \in {"current", "rebuild"}
    /\ used \in [faults : 0 .. MaxFaults, writes : 0 .. MaxWrites,
                 kinds : SUBSET Faults, left : SUBSET Memories]

AgentType ==
    /\ lock \in Agents \cup {None}
    /\ pc \in [Agents -> {"idle", "claim", "claimed", "build", "settle",
                          "stamp", "prepare", "retire", "finish", "leave",
                          "done"}]
    /\ thread \in [Agents -> {"off", "fetch", "next", "extract", "retract",
                              "finished", "aborted", "cancelled", "raised"}]
    /\ cur \in [Agents -> Memories \cup {None}]
    /\ page \in [Agents -> Hashes]
    /\ outcome \in [Agents -> [Memories ->
                       {"vanished", "indexed", "no_entities", "failed"}]]
    /\ claimed \in [Agents -> Hashes] /\ live \in [Agents -> Hashes]
    /\ scope \in [Builders -> SUBSET Memories]
    /\ abort \in [Agents -> BOOLEAN]
    /\ rebuilt \subseteq Builders

TypeOK == QueueType /\ StoreType /\ AgentType

Queued(m) == row[m] # NoRow
Indexed(m) == graph[m] = FactsOf(content[m])

\* Nothing is forgotten: a memory that is not queued (or parked for a person to
\* look at) is in the graph, as what it says now and nothing it used to say.
\* The outbox promises it: "deleting that row would drop the merged text from
\* the graph permanently" (concept_queue.complete).
NothingForgotten ==
    \A m \in Memories :
        content[m] # None /\ ~Queued(m) /\ schema = "current" => Indexed(m)

\* Writers of the graph keep out of each other's way: no hold was lost or
\* abandoned under a running extraction, no write overlapped the start of a
\* build, no replacement withdrew a memory; and no rebuild went on without a
\* memory it could not extract.
Overlapping == {"stop", "detach", "stall", "overlap", "replace"}
Orderly == used.kinds \cap Overlapping = {}
InTurn == Orderly /\ ~({"reset", "extract"} \subseteq used.kinds)

\* The same promise, for as long as they do. Crashes, errors, deletes and
\* rewrites under an extraction do not make the pipeline forget.
ForgetsNothingInTurn == InTurn => NothingForgotten

\* A queue row always carries the hash of the memory it stands for, whatever
\* workers, builds and writers do to it: no late settle or renewal brings an
\* older row back.
QueueIsCurrent ==
    \A m \in Memories : Queued(m) => row[m].hash = content[m]

\* What the user deleted stays deleted: once a delete has cleaned the graph
\* and no extraction that read the memory is left, nothing cites it ("without
\* this the entities the user asked to be gone reappear", concept_worker). A
\* cleanup that failed, of the delete or of a worker, leaves what it found to
\* the next of them, if there is one.
Busy(m) ==
    \/ m \in cleaning
    \/ \E a \in Agents :
          cur[a] = m \/ page[a][m] # None \/ claimed[a][m] # None

NoPhantom == \A m \in gone \ used.left : ~Busy(m) => graph[m] = {}

\* No batch was abandoned and no manual build has begun.
Calm ==
    /\ used.kinds \subseteq {"extract", "retract", "reset"}
    /\ \A b \in Builders : pc[b] = "idle"

\* The workers keep that promise between them while their batches run to the
\* end, extractions and cleanups of others that fail included.
WorkersLeaveNoPhantom == Calm => NoPhantom

\* A worker retires only the content it claimed: a row leaves the queue in its
\* hands only while the memory still says what the worker was given.
RetiresWhatItClaimed ==
    [][\A m \in Memories, w \in Workers :
         pc[w] = "settle" /\ claimed[w][m] # None /\ claimed'[w][m] = None
           /\ Queued(m) /\ row'[m] = NoRow
         => claimed[w][m] = content[m]]_vars

\* The queue is drained: every row is in the end settled or parked.
EveryRowSettles ==
    \A m \in Memories :
        Queued(m) ~> (~Queued(m) \/ row[m].state = "parked")

\* Workers and builds use concept_build_lock as the abstract gate that LeaseLock
\* implements: unless a process stalls for longer than its lease, it stays shut
\* from the acquisition to the end of the with block, and no other has begun.
BuildLock == INSTANCE Gate WITH
                Operations <- Agents,
                Prompt <- IF "stall" \in Faults THEN {} ELSE Agents,
                inside <- {a \in Agents : InSession(a)}, shut <- lock # None

SessionsUseAGate == BuildLock!GateSpec
-----------------------------------------------------------------------------
(* The inductive invariant behind QueueIsCurrent and RetiresWhatItClaimed. *)

\* A row has an owner exactly while it is leased, and stands for a content.
RowInv ==
    \A m \in Memories :
        /\ row[m].token # None <=> row[m].state = "leased"
        /\ Queued(m) => row[m].hash # None

\* A write in progress is one of a memory that was not deleted.
TxnInv == txn # NoTxn => txn.mem \in Memories \ gone /\ txn.to \in Contents

\* What was deleted has neither content nor queue row, for good.
GoneInv == \A m \in gone : content[m] = None /\ row[m] = NoRow

\* A worker is given memories that had a content, so one that has none now was
\* deleted, and the worker knows it by the hashes it has read again.
ClaimedInv ==
    \A w \in Workers, m \in Memories : claimed[w][m] # None =>
        /\ content[m] # None \/ m \in gone
        /\ pc[w] = "settle" /\ live[w][m] = None => m \in gone

\* A thread that writes the graph has a memory in hand.
CurInv ==
    \A a \in Agents :
        thread[a] \in {"extract", "retract"} => cur[a] \in Memories

IInv ==
    /\ TypeOK /\ CurInv /\ RowInv /\ TxnInv
    /\ QueueIsCurrent /\ GoneInv /\ ClaimedInv
-----------------------------------------------------------------------------
(* What is added to it for WorkersLeaveNoPhantom and ForgetsNothingInTurn. *)

\* What is cleaned up was deleted; a reset and an error leave their mark.
NotedInv ==
    /\ cleaning \subseteq gone
    /\ schema = "rebuild" \/ rebuilt # {} => "reset" \in used.kinds
    /\ \A a \in Agents : thread[a] = "raised" => "raise" \in used.kinds

Extracting(a) == thread[a] \in {"next", "extract", "retract"}

\* The thread runs while its coroutine waits for it, and reads what it was
\* given.
ThreadFits(a) ==
    /\ pc[a] \in {"idle", "done", "claim", "claimed", "stamp", "prepare"}
          => thread[a] = "off"
    /\ pc[a] \in {"settle", "retire", "finish"} => thread[a] = "finished"
    /\ pc[a] = "leave" => thread[a] # "fetch" /\ ~Extracting(a)
    /\ thread[a] \in {"off", "fetch"} => outcome[a] = NoOutcome
    /\ thread[a] \in {"extract", "retract"} => page[a][cur[a]] # None
    /\ Extracting(a) /\ a \in Workers =>
          \A m \in Memories : page[a][m] # None => claimed[a][m] # None

\* Sessions come one at a time, and none is told to stop.
AgentFits(a) ==
    /\ InSession(a) => lock = a
    /\ ~abort[a] /\ thread[a] # "aborted"
    /\ ThreadFits(a)

\* A batch is held within a session, and its rows are there until it is
\* settled.
BatchFits(w) ==
    \A m \in Memories : claimed[w][m] # None =>
        InSession(w) /\ (Queued(m) \/ content[m] = None)

OrderInv ==
    Orderly => /\ txn.before = {}
               /\ \A a \in Agents : AgentFits(a)
               /\ \A w \in Workers : BatchFits(w)

\* A worker holds the memory and will find that it was deleted.
WillFindOut(w, m) ==
    /\ claimed[w][m] # None
    /\ pc[w] = "build" \/ (pc[w] = "settle" /\ live[w][m] = None)

\* A reset graph is empty, and no worker starts on it, until it is rebuilt.
GraphEmpty == \A m \in Memories : graph[m] = {}
Working(w) == pc[w] \in {"build", "settle"}
EmptyUntilRebuilt ==
    schema = "rebuild" => GraphEmpty /\ \A w \in Workers : ~Working(w)

\* A memory whose delete is done is cited only while such a worker is at work.
FoundOut ==
    \A m \in gone \ (cleaning \cup used.left) :
        graph[m] # {} => \E w \in Workers : WillFindOut(w, m)

PhantomInv == Calm => EmptyUntilRebuilt /\ FoundOut

\* The memory has not been written since the worker claimed it, or since the
\* build began.
StillOurs(a, m) ==
    /\ content[m] # None
    /\ IF a \in Workers THEN claimed[a][m] # None /\ row[m].token = a
                         ELSE row[m] = NoRow \/ a \in row[m].before

\* Then what the thread has read is what the memory says, and what it reports
\* as indexed is.
ReportInv(a) ==
    \A m \in Memories : StillOurs(a, m) =>
        /\ outcome[a][m] \in {"indexed", "no_entities"} => Indexed(m)
        /\ Extracting(a) /\ page[a][m] # None => page[a][m] = content[m]
        /\ thread[a] = "retract" /\ cur[a] = m =>
              FactsOf(page[a][m]) \subseteq graph[m]

\* A build that reset the graph goes through everything that is not queued.
RebuildInv(b) ==
    b \in rebuilt =>
      /\ pc[b] \notin {"idle", "stamp", "prepare"}
      /\ thread[b] = "fetch" => scope[b] = Memories
      /\ \A m \in Memories : content[m] # None /\ ~Queued(m) =>
            /\ thread[b] = "finished" => Indexed(m)
            /\ Extracting(b) => page[b][m] # None \/ Indexed(m)

TurnInv ==
    InTurn => /\ \A a \in Agents : ReportInv(a)
              /\ \A b \in Builders : RebuildInv(b)
              /\ NothingForgotten

ForgetInv == IInv /\ NotedInv /\ OrderInv /\ PhantomInv /\ TurnInv
=============================================================================
