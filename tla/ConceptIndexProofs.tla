------------------------- MODULE ConceptIndexProofs -------------------------
(***************************************************************************)
(* Type correctness of the concept indexing pipeline, that its queue       *)
(* always carries what has to be indexed, that a worker retires nothing    *)
(* else, that sessions use the build lock as the abstract gate, and that   *)
(* the graph neither keeps what was deleted nor misses what is not queued  *)
(* while its writers stay out of each other's way: for any number of       *)
(* memories, contents, workers and builds, any batch size and number of    *)
(* attempts, and any faults.                                               *)
(***************************************************************************)
EXTENDS ConceptIndex, TLAPS

USE DEF store, threadOnly, agents

-----------------------------------------------------------------------------
(* Records and constant functions. *)

\* A claimed row keeps its hash and its attempts and has an owner.
LEMMA LeasedRow ==
    ASSUME NEW r \in RowSet, NEW w \in Workers
    PROVE  /\ Leased(r, w) \in RowSet
           /\ Leased(r, w).attempts = r.attempts
           /\ Leased(r, w).hash = r.hash
           /\ Leased(r, w).state = "leased" /\ Leased(r, w).token = w
BY ConceptAssumption DEF Leased, RowSet

\* A failed attempt keeps the hash and parks the row with the last one.
LEMMA FailedRow ==
    ASSUME NEW r \in RowSet, r.attempts < MaxAttempts
    PROVE  /\ Failed(r) \in RowSet
           /\ Failed(r).hash = r.hash /\ Failed(r).token = None
           /\ Failed(r).state \in {"pending", "parked"}
           /\ Failed(r).attempts = MaxAttempts <=> Failed(r).state = "parked"
BY ConceptAssumption DEF Failed, RowSet

\* What enqueue writes is a fresh row of the hash.
LEMMA EnqueuedRow ==
    ASSUME NEW c \in Contents \cup {None}, NEW before \in SUBSET Builders
    PROVE  /\ Enqueued(c, before) \in RowSet
           /\ Enqueued(c, before).attempts = 0
           /\ Enqueued(c, before).hash = c
           /\ Enqueued(c, before).token = None
           /\ Enqueued(c, before).state = "pending"
BY ConceptAssumption DEF Enqueued, RowSet

\* Renewal and expiry touch only `due`.
LEMMA DueRow ==
    ASSUME NEW r \in RowSet, NEW d \in BOOLEAN
    PROVE  LET s == [r EXCEPT !.due = d] IN
           /\ s \in RowSet
           /\ s.state = r.state /\ s.hash = r.hash /\ s.token = r.token
           /\ s.attempts = r.attempts
BY DEF RowSet

\* The start of a build only marks the row as older than it.
LEMMA SeenRow ==
    ASSUME NEW r \in RowSet, NEW b \in Builders
    PROVE  LET s == [r EXCEPT !.before = @ \cup {b}] IN
           /\ s \in RowSet /\ s.before # {}
           /\ s.state = r.state /\ s.hash = r.hash /\ s.token = r.token
           /\ s.attempts = r.attempts
BY DEF RowSet

\* The absent row.
LEMMA NoRowType ==
    /\ NoRow \in RowSet
    /\ NoRow.attempts = 0 /\ NoRow.hash = None /\ NoRow.token = None
    /\ NoRow.state = "none" /\ NoRow.due = FALSE /\ NoRow.before = {}
BY ConceptAssumption DEF NoRow, RowSet

\* The empty batch and the empty report.
LEMMA ConstantsType ==
    /\ Nothing \in Hashes
    /\ NoOutcome \in [Memories ->
                        {"vanished", "indexed", "no_entities", "failed"}]
BY DEF Nothing, NoOutcome, Hashes

\* What is extracted of a content is a fact of that content.
LEMMA FactsType == ASSUME NEW c PROVE FactsOf(c) \subseteq {c}
BY DEF FactsOf

-----------------------------------------------------------------------------
(* Types: of the agents, ... *)

\* Leaving the with block keeps the types of the coroutine.
LEMMA ForgetType ==
    ASSUME AgentType, NEW a \in Agents, Forget(a)
    PROVE  /\ pc' \in [Agents -> {"idle", "claim", "claimed", "build",
                                  "settle", "stamp", "prepare", "retire",
                                  "finish", "leave", "done"}]
           /\ claimed' \in [Agents -> Hashes] /\ live' \in [Agents -> Hashes]
           /\ rebuilt' \subseteq Builders
BY ConstantsType DEF AgentType, Forget, Goto

\* The end of a thread keeps the types of the thread.
LEMMA ForgetThreadType ==
    ASSUME AgentType, NEW a \in Agents, ForgetThread(a)
    PROVE  /\ thread' \in [Agents -> {"off", "fetch", "next", "extract",
                                      "retract", "finished", "aborted",
                                      "cancelled", "raised"}]
           /\ cur' \in [Agents -> Memories \cup {None}]
           /\ page' \in [Agents -> Hashes]
           /\ outcome' \in [Agents -> [Memories ->
                       {"vanished", "indexed", "no_entities", "failed"}]]
           /\ scope' \in [Builders -> SUBSET Memories]
           /\ abort' \in [Agents -> BOOLEAN]
BY ConstantsType DEF AgentType, ForgetThread

\* Acquisitions, releases and what ends an agent's turn.
LEMMA LockAgentType ==
    ASSUME AgentType, NEW a \in Agents,
           \/ Acquire(a) \/ Release(a) \/ Reap(a) \/ Crash(a) \/ Stall(a)
           \/ Notice(a) \/ StopWorker(a) \/ CancelWorker(a) \/ CancelBuild(a)
    PROVE  AgentType'
<1>1. CASE Acquire(a) BY <1>1 DEF Acquire, Goto, AgentType
<1>2. CASE Release(a)
  BY <1>2, ForgetType, ForgetThreadType DEF Release, AgentType
<1>3. CASE Reap(a) BY <1>3, ForgetThreadType DEF Reap, AgentType
<1>4. CASE Crash(a)
  BY <1>4, ForgetType, ForgetThreadType DEF Crash, AgentType
<1>5. CASE Stall(a) BY <1>5 DEF Stall, AgentType
<1>6. CASE Notice(a) \/ StopWorker(a)
  BY <1>6 DEF Notice, StopWorker, RaiseLost, AgentType
<1>7. CASE CancelWorker(a) \/ CancelBuild(a)
  <2>1. Unwind(a) BY <1>7 DEF CancelWorker, CancelBuild
  <2>2. CASE thread[a] \in {"fetch", "next", "extract", "retract"}
    BY <2>1, <2>2, ForgetType DEF Unwind, AgentType
  <2>3. CASE thread[a] \notin {"fetch", "next", "extract", "retract"}
    BY <2>1, <2>3, ForgetType, ForgetThreadType DEF Unwind, AgentType
  <2>4. QED BY <2>2, <2>3
<1>8. QED BY <1>1, <1>2, <1>3, <1>4, <1>5, <1>6, <1>7

\* The steps of an extraction thread.
LEMMA ThreadAgentType ==
    ASSUME AgentType, StoreType, CurInv, NEW a \in Agents, Thread(a)
    PROVE  AgentType'
<1>1. CASE Fetch(a)
  <2>1. page' \in [Agents -> Hashes]
    BY <1>1 DEF Fetch, AgentType, StoreType, Hashes
  <2>2. QED BY <1>1, <2>1 DEF Fetch, AgentType
<1>2. CASE Check(a)
  <2>1. cur' \in [Agents -> Memories \cup {None}]
    BY <1>2 DEF Check, Unread, AgentType
  <2>2. thread' \in [Agents -> {"off", "fetch", "next", "extract", "retract",
                                "finished", "aborted", "cancelled", "raised"}]
    BY <1>2 DEF Check, AgentType
  <2>3. QED BY <1>2, <2>1, <2>2 DEF Check, AgentType
<1>3. ASSUME NEW result \in {"indexed", "no_entities", "failed"},
             cur[a] \in Memories, Processed(a, result),
             UNCHANGED threadOnly
      PROVE  AgentType'
  <2>1. page' \in [Agents -> Hashes]
    BY <1>3 DEF Processed, AgentType, Hashes
  <2>2. outcome' \in [Agents -> [Memories ->
                        {"vanished", "indexed", "no_entities", "failed"}]]
    BY <1>3 DEF Processed, AgentType
  <2>3. QED BY <1>3, <2>1, <2>2 DEF Processed, AgentType
<1>4. CASE ExtractFails(a)
  BY <1>3, <1>4 DEF ExtractFails, CurInv
<1>5. CASE Assert(a) BY <1>5 DEF Assert, AgentType
<1>6. CASE Retract(a)
  BY <1>3, <1>6 DEF Retract, CurInv
<1>7. CASE Raise(a) BY <1>7 DEF Raise, AgentType
<1>8. QED BY <1>1, <1>2, <1>4, <1>5, <1>6, <1>7 DEF Thread

\* Every settling statement takes one memory off the batch.
LEMMA SettledType ==
    ASSUME AgentType, NEW w \in Workers, NEW m \in Memories, Settled(w, m)
    PROVE  AgentType'
<1>1. claimed' \in [Agents -> Hashes]
  BY DEF Settled, AgentType, Hashes, Agents
<1>2. QED BY <1>1 DEF Settled, AgentType

\* The steps of a worker.
LEMMA WorkerAgentType ==
    ASSUME AgentType, QueueType, StoreType, NEW w \in Workers, Worker(w)
    PROVE  AgentType'
<1> USE DEF Agents
<1>1. CASE Claim(w)
  <2>1. claimed' \in [Agents -> Hashes]
    BY <1>1 DEF Claim, AgentType, QueueType, RowSet, Hashes
  <2>2. QED BY <1>1, <2>1 DEF Claim, Goto, AgentType
<1>2. CASE StartBatch(w) BY <1>2 DEF StartBatch, Goto, StartThread, AgentType
<1>3. CASE EndBatch(w)
  <2>1. live' \in [Agents -> Hashes]
    BY <1>3 DEF EndBatch, AgentType, StoreType
  <2>2. pc' \in [Agents -> {"idle", "claim", "claimed", "build", "settle",
                            "stamp", "prepare", "retire", "finish", "leave",
                            "done"}]
    BY <1>3 DEF EndBatch, Goto, AgentType
  <2>3. QED BY <1>3, <2>1, <2>2 DEF EndBatch, AgentType
<1>4. CASE EndSettle(w) \/ SettleRaises(w)
  BY <1>4 DEF EndSettle, SettleRaises, Goto, AgentType
<1>5. ASSUME NEW m \in Memories,
             \/ SettleDeleted(w, m) \/ SettleSuperseded(w, m)
             \/ SettleIndexed(w, m) \/ SettleFailed(w, m)
      PROVE  AgentType'
  BY <1>5, SettledType
     DEF SettleDeleted, SettleSuperseded, SettleIndexed, SettleFailed
<1>6. QED BY <1>1, <1>2, <1>3, <1>4, <1>5 DEF Worker

\* The steps of a manual build.
LEMMA BuilderAgentType ==
    ASSUME AgentType, NEW b \in Builders, Builder(b)
    PROVE  AgentType'
<1> USE DEF Agents, Goto, AgentType
<1>1. CASE Stamp(b) BY <1>1 DEF Stamp
<1>2. CASE Prepare(b) BY <1>2 DEF Prepare, StartThread
<1>3. CASE EndBuild(b) BY <1>3 DEF EndBuild
<1>4. CASE Retire(b) BY <1>4 DEF Retire
<1>5. CASE Finish(b) BY <1>5 DEF Finish
<1>6. QED BY <1>1, <1>2, <1>3, <1>4, <1>5 DEF Builder

\* Steps that touch no agent.
LEMMA OtherAgentType ==
    ASSUME AgentType,
           \/ Writer \/ ExpireLock \/ ResetGraph
           \/ \E m \in Memories : RowDue(m)
           \/ \E w \in Workers : RenewRows(w)
    PROVE  AgentType'
<1>1. CASE Writer
  BY <1>1 DEF Writer, CommitWrite, BeginWrite, ReplaceClean, ReplaceFails,
              Delete, Cleanup, AgentType
<1>2. CASE ExpireLock BY <1>2 DEF ExpireLock, AgentType
<1>3. CASE ResetGraph BY <1>3 DEF ResetGraph, AgentType
<1>4. CASE \E m \in Memories : RowDue(m) BY <1>4 DEF RowDue, AgentType
<1>5. CASE \E w \in Workers : RenewRows(w) BY <1>5 DEF RenewRows, AgentType
<1>6. QED BY <1>1, <1>2, <1>3, <1>4, <1>5

\* All of them.
LEMMA AgentTypeStep ==
    ASSUME TypeOK, CurInv, Next
    PROVE  AgentType'
BY LockAgentType, ThreadAgentType, WorkerAgentType, BuilderAgentType,
   OtherAgentType DEF Next, Trouble, Agents, TypeOK

-----------------------------------------------------------------------------
(* ... of the databases and the counters, ... *)

UsedSet == [faults : 0 .. MaxFaults, writes : 0 .. MaxWrites,
            kinds : SUBSET Faults, left : SUBSET Memories]

\* A fault is counted within its bound.
LEMMA FaultType ==
    ASSUME used \in UsedSet, NEW kind, Fault(kind)
    PROVE  used' \in UsedSet
BY ConceptAssumption DEF Fault, UsedSet

\* A cleanup takes the facts of its memory away or leaves a mark on it.
LEMMA CleansUpDoes ==
    ASSUME StoreType, NEW m \in Memories, CleansUp(m)
    PROVE  /\ used' \in UsedSet
           /\ graph' \in [Memories -> SUBSET Contents]
           /\ \A n \in Memories \ {m} :
                 graph'[n] = graph[n] /\ (n \in used.left => n \in used'.left)
           /\ graph'[m] = {} \/ m \in used'.left
           /\ used.kinds \subseteq used'.kinds
<1> USE DEF StoreType
<1>1. CASE /\ graph' = [graph EXCEPT ![m] = {}]
           /\ used' = [used EXCEPT !.left = @ \ {m}]
  BY <1>1 DEF UsedSet
<1>2. CASE /\ "retract" \in Faults /\ used.faults < MaxFaults
           /\ used' = [used EXCEPT !.faults = @ + 1,
                                   !.kinds = @ \cup {"retract"},
                                   !.left = @ \cup {m}]
           /\ UNCHANGED graph
  <2>1. used.faults + 1 \in 0 .. MaxFaults BY <1>2, ConceptAssumption
  <2>2. QED BY <1>2, <2>1 DEF UsedSet
<1>3. QED BY <1>1, <1>2 DEF CleansUp

\* The steps of writers.
LEMMA WriterStoreType ==
    ASSUME QueueType, StoreType, TxnInv, Writer
    PROVE  StoreType'
<1> USE FaultType DEF StoreType, UsedSet
<1>1. CASE CommitWrite
  <2>1. content' \in Hashes
    BY <1>1 DEF CommitWrite, QueueType, Hashes
  <2>2. QED BY <1>1, <2>1 DEF CommitWrite
<1>2. ASSUME NEW m \in Memories, NEW c \in Contents, BeginWrite(m, c)
      PROVE  StoreType'
  <2>1. used' \in UsedSet
    BY <1>2, ConceptAssumption DEF BeginWrite
  <2>2. QED BY <1>2, <2>1 DEF BeginWrite
<1>3. ASSUME NEW m \in Memories, ReplaceClean(m)
      PROVE  StoreType'
  BY <1>3 DEF ReplaceClean
<1>4. ASSUME NEW m \in Memories, ReplaceFails(m)
      PROVE  StoreType'
  BY <1>4 DEF ReplaceFails
<1>5. ASSUME NEW m \in Memories, Delete(m)
      PROVE  StoreType'
  <2>1. content' \in Hashes
    BY <1>5 DEF Delete, Hashes
  <2>2. QED BY <1>5, <2>1 DEF Delete
<1>6. ASSUME NEW m \in Memories, Cleanup(m)
      PROVE  StoreType'
  BY <1>6, CleansUpDoes DEF Cleanup
<1>7. QED BY <1>1, <1>2, <1>3, <1>4, <1>5, <1>6 DEF Writer

\* The extraction thread writes facts of the contents it has read.
LEMMA ThreadStoreType ==
    ASSUME AgentType, StoreType, CurInv, NEW a \in Agents, Thread(a)
    PROVE  StoreType'
<1>1. ASSUME thread[a] \in {"extract", "retract"}
      PROVE  /\ cur[a] \in Memories
             /\ FactsOf(page[a][cur[a]]) \subseteq Contents
  BY <1>1, FactsType DEF CurInv, AgentType, Hashes, FactsOf
<1>2. CASE Fetch(a) \/ Check(a) BY <1>2 DEF Fetch, Check, StoreType
<1>3. CASE ExtractFails(a)
  <2>1. graph' \in [Memories -> SUBSET Contents]
    BY <1>1, <1>3 DEF ExtractFails, StoreType
  <2>2. QED BY <1>3, <2>1, FaultType DEF ExtractFails, StoreType, UsedSet
<1>4. CASE Assert(a)
  <2>1. graph' \in [Memories -> SUBSET Contents]
    BY <1>1, <1>4 DEF Assert, StoreType
  <2>2. QED BY <1>4, <2>1 DEF Assert, StoreType
<1>5. CASE Retract(a) BY <1>1, <1>5 DEF Retract, StoreType
<1>6. CASE Raise(a) BY <1>6, FaultType DEF Raise, StoreType, UsedSet
<1>7. QED BY <1>2, <1>3, <1>4, <1>5, <1>6 DEF Thread

\* The steps of a worker.
LEMMA WorkerStoreType ==
    ASSUME StoreType, NEW w \in Workers, Worker(w) \/ RenewRows(w)
    PROVE  StoreType'
<1> USE DEF StoreType
<1>1. CASE Claim(w) \/ StartBatch(w) \/ EndBatch(w) \/ EndSettle(w)
  BY <1>1 DEF Claim, StartBatch, EndBatch, EndSettle
<1>2. CASE SettleRaises(w) BY <1>2, FaultType DEF SettleRaises, UsedSet
<1>3. ASSUME NEW m \in Memories,
             \/ SettleDeleted(w, m) \/ SettleSuperseded(w, m)
             \/ SettleIndexed(w, m) \/ SettleFailed(w, m)
      PROVE  StoreType'
  BY <1>3, CleansUpDoes
     DEF SettleDeleted, SettleSuperseded, SettleIndexed, SettleFailed,
         Settled, UsedSet
<1>4. CASE RenewRows(w) BY <1>4 DEF RenewRows
<1>5. QED BY <1>1, <1>2, <1>3, <1>4 DEF Worker

\* The steps of a manual build.
LEMMA BuilderStoreType ==
    ASSUME StoreType, NEW b \in Builders, Builder(b)
    PROVE  StoreType'
<1> USE DEF StoreType
<1>1. CASE Stamp(b)
  <2>1. used' \in UsedSet BY <1>1, FaultType DEF Stamp, UsedSet
  <2>2. QED BY <1>1, <2>1 DEF Stamp, UsedSet
<1>2. CASE Prepare(b) BY <1>2 DEF Prepare
<1>3. CASE EndBuild(b) \/ Retire(b) \/ Finish(b)
  BY <1>3 DEF EndBuild, Retire, Finish
<1>4. QED BY <1>1, <1>2, <1>3 DEF Builder

\* The other steps.
LEMMA OtherStoreType ==
    ASSUME StoreType,
           \/ Trouble \/ ExpireLock
           \/ \E m \in Memories : RowDue(m)
           \/ \E a \in Agents : Acquire(a) \/ Release(a) \/ Reap(a)
    PROVE  StoreType'
<1> USE FaultType DEF StoreType, UsedSet
<1>1. CASE \E a \in Agents : Crash(a) \/ Stall(a) \/ Notice(a)
  BY <1>1 DEF Crash, Stall, Notice, RaiseLost
<1>2. CASE \E w \in Workers : StopWorker(w) \/ CancelWorker(w)
  BY <1>2 DEF StopWorker, CancelWorker, RaiseLost, Unwind
<1>3. CASE \E b \in Builders : CancelBuild(b)
  BY <1>3 DEF CancelBuild, Unwind
<1>4. CASE ResetGraph BY <1>4 DEF ResetGraph
<1>5. CASE ExpireLock BY <1>5 DEF ExpireLock
<1>6. CASE \E m \in Memories : RowDue(m) BY <1>6 DEF RowDue
<1>7. CASE \E a \in Agents : Acquire(a) \/ Release(a) \/ Reap(a)
  BY <1>7 DEF Acquire, Release, Reap
<1>8. QED
  BY <1>1, <1>2, <1>3, <1>4, <1>5, <1>6, <1>7 DEF Trouble

\* All of them.
LEMMA StoreTypeStep ==
    ASSUME TypeOK, CurInv, TxnInv, Next
    PROVE  StoreType'
BY WriterStoreType, ThreadStoreType, WorkerStoreType, BuilderStoreType,
   OtherStoreType DEF Next, TypeOK

-----------------------------------------------------------------------------
(* ... and of the queue, with what its rows promise.  Apart from the       *)
(* writers, a step leaves a row, drops it, or moves it to another state    *)
(* with the same hash.                                                     *)

Moves(r, s) ==
    \/ s = r
    \/ s = NoRow
    \/ /\ r # NoRow /\ s # NoRow
       /\ s.hash = r.hash
       /\ s.attempts = MaxAttempts <=> s.state = "parked"
       /\ s.token # None <=> s.state = "leased"

RowsMove ==
    /\ row' \in [Memories -> RowSet]
    /\ \A m \in Memories : Moves(row[m], row'[m])

RowsInv == RowInv /\ QueueIsCurrent /\ GoneInv

\* Such a step keeps what the rows promise.
LEMMA MovesKeep ==
    ASSUME QueueType, RowsInv, RowsMove, UNCHANGED <<content, gone>>,
           StoreType
    PROVE  /\ RowsInv'
           /\ \A m \in Memories :
                 row'[m].attempts = MaxAttempts <=> row'[m].state = "parked"
<1> SUFFICES ASSUME NEW m \in Memories
             PROVE  /\ row'[m].attempts = MaxAttempts
                           <=> row'[m].state = "parked"
                    /\ row'[m].token # None <=> row'[m].state = "leased"
                    /\ row'[m] # NoRow => /\ row'[m].hash # None
                                          /\ row'[m].hash = content[m]
                    /\ m \in gone => content[m] = None /\ row'[m] = NoRow
  BY DEF RowsInv, RowInv, QueueIsCurrent, GoneInv, Queued, StoreType
<1>1. Moves(row[m], row'[m]) BY DEF RowsMove
<1>2. CASE row'[m] = row[m]
  BY <1>2 DEF QueueType, RowsInv, RowInv, QueueIsCurrent, GoneInv, Queued
<1>3. CASE row'[m] = NoRow
  BY <1>3, NoRowType, ConceptAssumption
     DEF RowsInv, GoneInv
<1>4. CASE /\ row[m] # NoRow /\ row'[m] # NoRow
           /\ row'[m].hash = row[m].hash
           /\ row'[m].attempts = MaxAttempts <=> row'[m].state = "parked"
           /\ row'[m].token # None <=> row'[m].state = "leased"
  BY <1>4 DEF RowsInv, RowInv, QueueIsCurrent, GoneInv, Queued
<1>5. QED BY <1>1, <1>2, <1>3, <1>4 DEF Moves

\* A step that leaves the queue alone is one.
LEMMA StillMoves == QueueType /\ UNCHANGED row => RowsMove
BY DEF QueueType, RowsMove, Moves

\* A worker's steps are.
LEMMA WorkerMoves ==
    ASSUME QueueType, RowsInv, NEW w \in Workers,
           Worker(w) \/ RenewRows(w)
    PROVE  RowsMove
<1> USE DEF QueueType
<1>1. CASE Claim(w)
  <2>1. PICK batch \in SUBSET Due :
          row' = [m \in Memories |->
                    IF m \in batch THEN Leased(row[m], w) ELSE row[m]]
    BY <1>1 DEF Claim
  <2>2. \A m \in Memories : Leased(row[m], w) \in RowSet
    BY LeasedRow
  <2>3. row' \in [Memories -> RowSet]
    BY <2>1, <2>2
  <2>4. \A m \in Memories :
           \/ row'[m] = row[m]
           \/ m \in Due /\ row'[m] = Leased(row[m], w)
    BY <2>1
  <2>5. ASSUME NEW m \in Memories, m \in Due, row'[m] = Leased(row[m], w)
        PROVE  Moves(row[m], row'[m])
    BY <2>5, LeasedRow, NoRowType, ConceptAssumption DEF Moves, Due
  <2>6. QED BY <2>3, <2>4, <2>5 DEF RowsMove, Moves
<1>2. CASE StartBatch(w) \/ EndBatch(w) \/ EndSettle(w) \/ SettleRaises(w)
  BY <1>2, StillMoves DEF StartBatch, EndBatch, EndSettle, SettleRaises
<1>3. ASSUME NEW m \in Memories,
             UNCHANGED row \/ row' = [row EXCEPT ![m] = NoRow]
      PROVE  RowsMove
  BY <1>3, NoRowType DEF RowsMove, Moves
<1>4. ASSUME NEW m \in Memories, SettleFailed(w, m)
      PROVE  RowsMove
  <2>1. CASE row[m].token = w
    <3>1. row[m].state = "leased"
      BY <2>1, ConceptAssumption DEF RowsInv, RowInv
    <3>2. row[m].attempts < MaxAttempts
      BY <3>1, ConceptAssumption DEF RowSet
    <3>3. row' = [row EXCEPT ![m] = Failed(row[m])]
      BY <1>4, <2>1 DEF SettleFailed
    <3>4. Failed(row[m]) # NoRow /\ row[m] # NoRow
      BY <3>1, <3>2, FailedRow, NoRowType
    <3>5. Moves(row[m], Failed(row[m]))
      BY <3>2, <3>4, FailedRow DEF Moves
    <3>6. QED BY <3>2, <3>3, <3>5, FailedRow DEF RowsMove, Moves
  <2>2. CASE row[m].token # w
    BY <1>4, <2>2, StillMoves DEF SettleFailed
  <2>3. QED BY <2>1, <2>2
<1>5. ASSUME NEW m \in Memories,
             \/ SettleDeleted(w, m) \/ SettleSuperseded(w, m)
             \/ SettleIndexed(w, m)
      PROVE  RowsMove
  BY <1>3, <1>5 DEF SettleDeleted, SettleSuperseded, SettleIndexed
<1>6. CASE RenewRows(w)
  <2>1. \A m \in Memories :
          \/ row'[m] = row[m]
          \/ row[m].token = w /\ row'[m] = [row[m] EXCEPT !.due = FALSE]
    BY <1>6 DEF RenewRows
  <2>2. row' = [m \in Memories |-> row'[m]]
    BY <1>6 DEF RenewRows
  <2>3. ASSUME NEW m \in Memories, row[m].token = w,
               row'[m] = [row[m] EXCEPT !.due = FALSE]
        PROVE  Moves(row[m], row'[m]) /\ row'[m] \in RowSet
    <3>1. row[m] \in RowSet OBVIOUS
    <3>2. /\ row'[m] \in RowSet /\ row'[m].state = row[m].state
          /\ row'[m].hash = row[m].hash /\ row'[m].token = row[m].token
          /\ row'[m].attempts = row[m].attempts
      BY ONLY <2>3, <3>1, DueRow
    <3>3. row[m].state = "leased"
      BY <2>3, ConceptAssumption DEF RowsInv, RowInv
    <3>4. QED BY <3>2, <3>3, NoRowType DEF Moves, RowsInv, RowInv
  <2>4. QED BY <2>1, <2>2, <2>3 DEF RowsMove, Moves
<1>7. QED BY <1>1, <1>2, <1>4, <1>5, <1>6 DEF Worker

\* So is the end of a row's lease or backoff.
LEMMA RowDueMoves ==
    ASSUME QueueType, RowsInv, NEW m \in Memories, RowDue(m)
    PROVE  RowsMove
<1> DEFINE s == [row[m] EXCEPT !.due = TRUE]
<1>1. row[m] \in RowSet BY DEF QueueType
<1>2. /\ s \in RowSet
      /\ s.state = row[m].state /\ s.hash = row[m].hash
      /\ s.token = row[m].token /\ s.attempts = row[m].attempts
  BY <1>1, DueRow
<1>3. row' = [row EXCEPT ![m] = s] BY DEF RowDue
<1>4. row[m] # NoRow /\ s # NoRow
  BY <1>2, NoRowType DEF RowDue
<1>5. Moves(row[m], s)
  BY <1>2, <1>4 DEF Moves, QueueType, RowsInv, RowInv
<1> HIDE DEF s
<1>6. QED BY <1>2, <1>3, <1>5 DEF QueueType, RowsMove, Moves

\* So are a build's steps.
LEMMA BuilderMoves ==
    ASSUME QueueType, RowsInv, NEW b \in Builders, Builder(b)
    PROVE  RowsMove
<1>1. CASE Stamp(b)
  <2>1. \A m \in Memories :
          \/ row'[m] = row[m]
          \/ /\ row[m] # NoRow
             /\ row'[m] = [row[m] EXCEPT !.before = @ \cup {b}]
    BY <1>1 DEF Stamp
  <2>2. row' = [m \in Memories |-> row'[m]]
    BY <1>1 DEF Stamp
  <2>3. ASSUME NEW m \in Memories, row[m] # NoRow,
               row'[m] = [row[m] EXCEPT !.before = @ \cup {b}]
        PROVE  Moves(row[m], row'[m]) /\ row'[m] \in RowSet
    <3>1. /\ row'[m] \in RowSet /\ row'[m].state = row[m].state
          /\ row'[m].hash = row[m].hash /\ row'[m].token = row[m].token
          /\ row'[m].attempts = row[m].attempts /\ row'[m].before # {}
      BY <2>3, SeenRow DEF QueueType
    <3>2. QED
      BY <2>3, <3>1, NoRowType DEF Moves, QueueType, RowsInv, RowInv
  <2>4. QED BY <2>1, <2>2, <2>3 DEF RowsMove, Moves, QueueType
<1>2. CASE Prepare(b) \/ EndBuild(b) \/ Finish(b)
  BY <1>2, StillMoves DEF Prepare, EndBuild, Finish
<1>3. CASE Retire(b)
  BY <1>3, NoRowType DEF Retire, RowsMove, Moves, QueueType
<1>4. QED BY <1>1, <1>2, <1>3 DEF Builder

\* What the steps of writers, and the start of a build, make of the queue.
TxnType == txn \in [mem : Memories \cup {None}, to : Contents \cup {None},
                    before : SUBSET Builders]

\* A committed write puts the current hash in the queue.
LEMMA CommitQueue ==
    ASSUME QueueType, StoreType, RowsInv, TxnInv, CommitWrite
    PROVE  QueueType' /\ RowsInv' /\ TxnInv'
<1> DEFINE s == Enqueued(txn.to, txn.before)
<1>1. /\ txn.mem \in Memories /\ txn.mem \notin gone
      /\ txn.to \in Contents /\ txn.before \in SUBSET Builders
  BY DEF QueueType, TxnInv, CommitWrite
<1>2. /\ s \in RowSet /\ s.attempts = 0 /\ s.hash = txn.to
      /\ s.token = None /\ s.state = "pending" /\ s # NoRow
  BY <1>1, EnqueuedRow, NoRowType
<1> HIDE DEF s
<1>3. /\ row' = [row EXCEPT ![txn.mem] = s]
      /\ content' = [content EXCEPT ![txn.mem] = txn.to]
      /\ txn' = NoTxn /\ gone' = gone
  BY DEF CommitWrite, s
<1>4. TxnInv' /\ TxnType'
  BY <1>3 DEF TxnInv, TxnType, NoTxn
<1>5. row' \in [Memories -> RowSet]
  BY <1>1, <1>2, <1>3 DEF QueueType
<1>6. ASSUME NEW m \in Memories, m # txn.mem
      PROVE  row'[m] = row[m] /\ content'[m] = content[m]
  BY <1>1, <1>3, <1>6 DEF QueueType, StoreType, Hashes
<1>7. row'[txn.mem] = s /\ content'[txn.mem] = txn.to
  BY <1>1, <1>3 DEF QueueType, StoreType, Hashes
<1>8. \A m \in Memories :
         row'[m].attempts = MaxAttempts <=> row'[m].state = "parked"
  BY <1>2, <1>6, <1>7, ConceptAssumption DEF QueueType
<1>9. RowInv'
  BY <1>1, <1>2, <1>6, <1>7, ConceptAssumption
     DEF RowsInv, RowInv, Queued
<1>10. QueueIsCurrent'
  BY <1>2, <1>6, <1>7 DEF RowsInv, QueueIsCurrent, Queued
<1>11. GoneInv'
  BY <1>1, <1>3, <1>6 DEF RowsInv, GoneInv, StoreType
<1>12. QED
  BY <1>4, <1>5, <1>8, <1>9, <1>10, <1>11 DEF QueueType, TxnType, RowsInv

\* A delete takes the row with the memory.
LEMMA DeleteQueue ==
    ASSUME QueueType, StoreType, RowsInv, TxnInv,
           NEW m \in Memories, Delete(m)
    PROVE  QueueType' /\ RowsInv' /\ TxnInv'
<1>1. /\ row' = [row EXCEPT ![m] = NoRow] /\ txn' = txn /\ txn = NoTxn
      /\ content' = [content EXCEPT ![m] = None] /\ gone' = gone \cup {m}
  BY DEF Delete
<1>2. ASSUME NEW n \in Memories, n # m
      PROVE  row'[n] = row[n] /\ content'[n] = content[n]
  BY <1>1, <1>2 DEF QueueType, StoreType, Hashes
<1>3. row'[m] = NoRow /\ content'[m] = None
  BY <1>1 DEF QueueType, StoreType, Hashes
<1>4. TxnInv' BY <1>1 DEF TxnInv
<1>5. row' \in [Memories -> RowSet]
  BY <1>1, NoRowType DEF QueueType
<1>6. \A n \in Memories :
         row'[n].attempts = MaxAttempts <=> row'[n].state = "parked"
  BY <1>2, <1>3, NoRowType, ConceptAssumption DEF QueueType
<1>7. RowInv' /\ QueueIsCurrent'
  BY <1>2, <1>3, NoRowType DEF RowsInv, RowInv, QueueIsCurrent, Queued
<1>8. GoneInv'
  BY <1>1, <1>2, <1>3 DEF RowsInv, GoneInv, StoreType
<1>9. QED
  BY <1>1, <1>4, <1>5, <1>6, <1>7, <1>8 DEF QueueType, RowsInv

\* Only BeginWrite opens a transaction, and Stamp marks the open one.
LEMMA TxnStep ==
    ASSUME QueueType, TxnInv, UNCHANGED gone,
           \/ UNCHANGED txn
           \/ \E m \in Memories, c \in Contents : BeginWrite(m, c)
           \/ \E b \in Builders : Stamp(b)
    PROVE  TxnType' /\ TxnInv'
<1> USE DEF TxnType, TxnInv, QueueType
<1>1. CASE UNCHANGED txn BY <1>1
<1>2. ASSUME NEW m \in Memories, NEW c \in Contents, BeginWrite(m, c)
      PROVE  TxnType' /\ TxnInv'
  BY <1>2 DEF BeginWrite
<1>3. ASSUME NEW b \in Builders, Stamp(b)
      PROVE  TxnType' /\ TxnInv'
  <2>1. \/ txn = NoTxn /\ txn' = txn
        \/ txn # NoTxn /\ txn' = [txn EXCEPT !.before = @ \cup {b}]
    BY <1>3 DEF Stamp
  <2>2. CASE txn # NoTxn /\ txn' = [txn EXCEPT !.before = @ \cup {b}]
    BY <2>2
  <2>3. QED BY <2>1, <2>2
<1>4. QED BY <1>1, <1>2, <1>3

\* Every step keeps the queue.
LEMMA QueueStep ==
    ASSUME TypeOK, RowsInv, TxnInv, Next
    PROVE  QueueType' /\ RowsInv' /\ TxnInv'
<1> USE DEF TypeOK
<1>1. CASE CommitWrite BY <1>1, CommitQueue
<1>2. ASSUME NEW m \in Memories, Delete(m)
      PROVE  QueueType' /\ RowsInv' /\ TxnInv'
  BY <1>2, DeleteQueue
<1>3. ASSUME RowsMove, UNCHANGED <<content, gone>>, TxnType', TxnInv'
      PROVE  QueueType' /\ RowsInv' /\ TxnInv'
  <2>1. QueueType'
    BY <1>3, MovesKeep DEF RowsMove, QueueType, TxnType
  <2>2. QED BY <1>3, <2>1, MovesKeep
<1>4. ASSUME UNCHANGED <<content, gone, row>>,
             \/ UNCHANGED txn
             \/ \E m \in Memories, c \in Contents : BeginWrite(m, c)
      PROVE  QueueType' /\ RowsInv' /\ TxnInv'
  BY <1>3, <1>4, StillMoves, TxnStep
<1>5. ASSUME NEW m \in Memories,
             \/ \E c \in Contents : BeginWrite(m, c)
             \/ ReplaceClean(m) \/ ReplaceFails(m) \/ Cleanup(m)
      PROVE  QueueType' /\ RowsInv' /\ TxnInv'
  BY <1>4, <1>5 DEF BeginWrite, ReplaceClean, ReplaceFails, Cleanup
<1>6. CASE Trouble
  BY <1>4, <1>6
     DEF Trouble, Crash, Stall, Notice, StopWorker, RaiseLost, CancelWorker,
         CancelBuild, Unwind, ResetGraph
<1>7. CASE ExpireLock BY <1>4, <1>7 DEF ExpireLock
<1>8. ASSUME NEW m \in Memories, RowDue(m)
      PROVE  QueueType' /\ RowsInv' /\ TxnInv'
  BY <1>3, <1>8, RowDueMoves, TxnStep DEF RowDue
<1>9. ASSUME NEW a \in Agents,
             Acquire(a) \/ Release(a) \/ Reap(a) \/ Thread(a)
      PROVE  QueueType' /\ RowsInv' /\ TxnInv'
  BY <1>4, <1>9
     DEF Acquire, Release, Reap, Thread, Fetch, Check, ExtractFails, Assert,
         Retract, Raise
<1>10. ASSUME NEW w \in Workers, Worker(w) \/ RenewRows(w)
       PROVE  QueueType' /\ RowsInv' /\ TxnInv'
  <2>1. UNCHANGED <<content, gone, txn>>
    BY <1>10
       DEF Worker, Claim, StartBatch, EndBatch, EndSettle, SettleRaises,
           SettleDeleted, SettleSuperseded, SettleIndexed, SettleFailed,
           Settled, RenewRows
  <2>2. QED BY <1>3, <1>10, <2>1, WorkerMoves, TxnStep
<1>11. ASSUME NEW b \in Builders, Builder(b)
       PROVE  QueueType' /\ RowsInv' /\ TxnInv'
  <2>1. /\ UNCHANGED <<content, gone>>
        /\ UNCHANGED txn \/ Stamp(b)
    BY <1>11 DEF Builder, Stamp, Prepare, EndBuild, Retire, Finish
  <2>2. QED BY <1>3, <1>11, <2>1, BuilderMoves, TxnStep
<1>12. QED
  BY <1>1, <1>2, <1>5, <1>6, <1>7, <1>8, <1>9, <1>10, <1>11
     DEF Next, Writer

-----------------------------------------------------------------------------
(* What a worker holds in its hands. *)

\* A memory never loses its content but by a delete, and for good.
LEMMA ContentKept ==
    ASSUME TypeOK, TxnInv, Next, NEW m \in Memories
    PROVE  /\ m \in gone => m \in gone'
           /\ content[m] # None \/ m \in gone
                => content'[m] # None \/ m \in gone'
<1> USE DEF TypeOK, StoreType, Hashes
<1>1. CASE CommitWrite
  BY <1>1, ConceptAssumption DEF CommitWrite, TxnInv
<1>2. ASSUME NEW n \in Memories, Delete(n)
      PROVE  /\ gone \subseteq gone'
             /\ content'[m] = content[m] \/ m \in gone'
  BY <1>2 DEF Delete
<1>3. CASE UNCHANGED <<content, gone>> BY <1>3
<1>4. CASE \E n \in Memories :
              \/ \E c \in Contents : BeginWrite(n, c)
              \/ ReplaceClean(n) \/ ReplaceFails(n) \/ Cleanup(n) \/ RowDue(n)
  BY <1>3, <1>4 DEF BeginWrite, ReplaceClean, ReplaceFails, Cleanup, RowDue
<1>5. CASE Trouble \/ ExpireLock
  BY <1>3, <1>5
     DEF Trouble, Crash, Stall, Notice, StopWorker, RaiseLost, CancelWorker,
         CancelBuild, Unwind, ResetGraph, ExpireLock
<1>6. CASE \E a \in Agents : Acquire(a) \/ Release(a) \/ Reap(a) \/ Thread(a)
  BY <1>3, <1>6
     DEF Acquire, Release, Reap, Thread, Fetch, Check, ExtractFails, Assert,
         Retract, Raise
<1>7. CASE \E w \in Workers : Worker(w) \/ RenewRows(w)
  BY <1>3, <1>7
     DEF Worker, Claim, StartBatch, EndBatch, EndSettle, SettleRaises,
         SettleDeleted, SettleSuperseded, SettleIndexed, SettleFailed,
         Settled, RenewRows
<1>8. CASE \E b \in Builders : Builder(b)
  BY <1>3, <1>8 DEF Builder, Stamp, Prepare, EndBuild, Retire, Finish
<1>9. QED
  BY <1>1, <1>2, <1>4, <1>5, <1>6, <1>7, <1>8 DEF Next, Writer

\* A worker's batch only shrinks, and what it read of it stays, but for the
\* two steps that fill them.
Handed(w, m) == claimed[w][m] # None

HandsKeep ==
    \A w \in Workers, m \in Memories : Handed(w, m)' =>
        /\ Handed(w, m)
        /\ pc'[w] = "settle" => pc[w] = "settle" /\ live'[w] = live[w]

LEMMA AgentsKeep == UNCHANGED <<claimed, live, pc>> => HandsKeep
BY DEF HandsKeep, Handed

LEMMA ForgetKeeps ==
    ASSUME AgentType, NEW a \in Agents, Forget(a)
    PROVE  HandsKeep
BY DEF HandsKeep, Handed, Forget, Goto, AgentType, Agents, Nothing

LEMMA GotoKeeps ==
    ASSUME AgentType, NEW a \in Agents, NEW there, Goto(a, there),
           there # "settle", UNCHANGED <<claimed, live>>
    PROVE  HandsKeep
BY DEF HandsKeep, Handed, Goto, AgentType

LEMMA SettledKeeps ==
    ASSUME AgentType, NEW w \in Workers, NEW m \in Memories, Settled(w, m)
    PROVE  HandsKeep
<1>1. \A v \in Workers, n \in Memories :
        claimed'[v][n] = claimed[v][n] \/ claimed'[v][n] = None
  BY DEF Settled, AgentType, Agents, Hashes
<1>2. QED BY <1>1 DEF HandsKeep, Handed, Settled

\* Those two are the claim and the second read of the hashes.
LEMMA HandsStep ==
    ASSUME AgentType, Next
    PROVE  \/ HandsKeep
           \/ \E w \in Workers : Claim(w) \/ EndBatch(w)
<1>1. CASE Writer \/ ExpireLock \/ ResetGraph
           \/ \E m \in Memories : RowDue(m)
  BY <1>1, AgentsKeep
     DEF Writer, CommitWrite, BeginWrite, ReplaceClean, ReplaceFails, Delete,
         Cleanup, ExpireLock, ResetGraph, RowDue
<1>2. CASE \E a \in Agents : Stall(a) \/ Notice(a) \/ Reap(a) \/ Thread(a)
  BY <1>2, AgentsKeep
     DEF Stall, Notice, RaiseLost, Reap, Thread, Fetch, Check, ExtractFails,
         Assert, Retract, Raise
<1>3. CASE \E a \in Agents : Release(a) \/ Crash(a)
  BY <1>3, ForgetKeeps DEF Release, Crash
<1>4. CASE \E w \in Workers : StopWorker(w) \/ RenewRows(w)
  BY <1>4, AgentsKeep DEF StopWorker, RaiseLost, RenewRows
<1>5. CASE \/ \E w \in Workers : CancelWorker(w)
           \/ \E b \in Builders : CancelBuild(b)
  BY <1>5, ForgetKeeps DEF CancelWorker, CancelBuild, Unwind, Agents
<1>6. CASE \E a \in Agents : Acquire(a)
  <2>1. PICK a \in Agents, there \in {"claim", "stamp"} :
          Goto(a, there) /\ UNCHANGED <<claimed, live>>
    BY <1>6 DEF Acquire
  <2>2. QED BY <2>1, GotoKeeps
<1>7. CASE \E w \in Workers :
             StartBatch(w) \/ EndSettle(w) \/ SettleRaises(w)
  <2>1. PICK w \in Workers, there \in {"leave", "build"} :
          Goto(w, there) /\ UNCHANGED <<claimed, live>>
    BY <1>7 DEF StartBatch, EndSettle, SettleRaises
  <2>2. QED BY <2>1, GotoKeeps DEF Agents
<1>8. CASE \E w \in Workers, m \in Memories :
             \/ SettleDeleted(w, m) \/ SettleSuperseded(w, m)
             \/ SettleIndexed(w, m) \/ SettleFailed(w, m)
  BY <1>8, SettledKeeps
     DEF SettleDeleted, SettleSuperseded, SettleIndexed, SettleFailed
<1>9. CASE \E b \in Builders : Builder(b)
  <2>1. PICK b \in Builders,
             there \in {"prepare", "build", "leave", "retire", "finish"} :
          Goto(b, there) /\ UNCHANGED <<claimed, live>>
    BY <1>9 DEF Builder, Stamp, Prepare, EndBuild, Retire, Finish
  <2>2. QED BY <2>1, GotoKeeps DEF Agents
<1>10. QED
  BY <1>1, <1>2, <1>3, <1>4, <1>5, <1>6, <1>7, <1>8, <1>9
     DEF Next, Trouble, Worker

\* What a worker was given exists or was deleted.
LEMMA ClaimedStep ==
    ASSUME TypeOK, RowsInv, TxnInv, ClaimedInv, Next
    PROVE  ClaimedInv'
<1> SUFFICES ASSUME NEW w \in Workers, NEW m \in Memories, Handed(w, m)'
             PROVE  /\ content'[m] # None \/ m \in gone'
                    /\ pc'[w] = "settle" /\ live'[w][m] = None => m \in gone'
  BY DEF ClaimedInv, Handed
<1>1. CASE HandsKeep
  BY <1>1, ContentKept DEF HandsKeep, Handed, ClaimedInv
<1>2. ASSUME NEW v \in Workers, Claim(v)
      PROVE  /\ content'[m] # None \/ m \in gone'
             /\ pc'[w] = "settle" /\ live'[w][m] = None => m \in gone'
  <2>1. CASE w = v
    <3>1. claimed'[w][m] = row[m].hash \/ claimed'[w][m] = None
      BY <1>2, <2>1 DEF Claim, TypeOK, AgentType, Agents
    <3>2. row[m].hash # None BY <3>1 DEF Handed
    <3>3. content[m] # None
      BY <3>2, NoRowType DEF RowsInv, QueueIsCurrent, Queued
    <3>4. pc'[w] # "settle"
      BY <1>2, <2>1 DEF Claim, Goto, TypeOK, AgentType, Agents
    <3>5. QED BY <3>3, <3>4, ContentKept
  <2>2. CASE w # v
    <3>1. /\ claimed'[w] = claimed[w] /\ live'[w] = live[w]
          /\ pc'[w] = pc[w]
      BY <1>2, <2>2 DEF Claim, Goto, TypeOK, AgentType, Agents
    <3>2. QED BY <3>1, ContentKept DEF Handed, ClaimedInv
  <2>3. QED BY <2>1, <2>2
<1>3. ASSUME NEW v \in Workers, EndBatch(v)
      PROVE  /\ content'[m] # None \/ m \in gone'
             /\ pc'[w] = "settle" /\ live'[w][m] = None => m \in gone'
  <2>1. claimed' = claimed /\ content' = content /\ gone' = gone
    BY <1>3 DEF EndBatch
  <2>2. content[m] # None \/ m \in gone
    BY <2>1 DEF Handed, ClaimedInv
  <2>3. CASE w = v /\ pc'[w] = "settle"
    <3>1. live'[w] = content
      BY <1>3, <2>3 DEF EndBatch, Goto, TypeOK, AgentType, Agents
    <3>2. QED BY <2>1, <2>2, <3>1
  <2>4. CASE w # v
    <3>1. live'[w] = live[w] /\ pc'[w] = pc[w]
      BY <1>3, <2>4 DEF EndBatch, Goto, TypeOK, AgentType, Agents
    <3>2. QED BY <2>1, <2>2, <3>1 DEF Handed, ClaimedInv
  <2>5. QED BY <2>1, <2>2, <2>3, <2>4
<1>4. QED BY <1>1, <1>2, <1>3, HandsStep DEF TypeOK

-----------------------------------------------------------------------------
(* A thread that writes has a memory in hand. *)

CurKeeps ==
    \A a \in Agents :
        thread'[a] \in {"extract", "retract"} =>
            thread[a] \in {"extract", "retract"} /\ cur'[a] = cur[a]

\* Check takes a memory in hand before the thread writes.
LEMMA CurStep ==
    ASSUME AgentType, CurInv, Next
    PROVE  CurInv'
<1>1. ASSUME CurKeeps PROVE CurInv'
  BY <1>1 DEF CurInv, CurKeeps
<1>2. CASE UNCHANGED <<thread, cur>>
  BY <1>2 DEF CurInv
<1>3. ASSUME NEW a \in Agents, ForgetThread(a) PROVE CurInv'
  BY <1>1, <1>3 DEF CurKeeps, ForgetThread, AgentType
<1>4. ASSUME NEW a \in Agents, NEW there, there \notin {"extract", "retract"},
             thread' = [thread EXCEPT ![a] = there], UNCHANGED cur
      PROVE  CurInv'
  BY <1>1, <1>4 DEF CurKeeps, AgentType
<1>5. ASSUME NEW a \in Agents, NEW result, Processed(a, result)
      PROVE  CurInv'
  BY <1>1, <1>5 DEF CurKeeps, Processed, AgentType
<1>6. CASE Writer \/ ExpireLock \/ ResetGraph
           \/ \E m \in Memories : RowDue(m)
  BY <1>2, <1>6
     DEF Writer, CommitWrite, BeginWrite, ReplaceClean, ReplaceFails, Delete,
         Cleanup, ExpireLock, ResetGraph, RowDue
<1>7. CASE \E a \in Agents : Release(a) \/ Crash(a) \/ Reap(a)
  BY <1>3, <1>7 DEF Release, Crash, Reap
<1>8. CASE \/ \E a \in Agents : Stall(a) \/ Notice(a) \/ Acquire(a)
           \/ \E w \in Workers : StopWorker(w) \/ RenewRows(w)
  BY <1>2, <1>8 DEF Stall, Notice, Acquire, StopWorker, RaiseLost, RenewRows
<1>9. ASSUME NEW a \in Agents, Unwind(a) PROVE CurInv'
  BY <1>2, <1>3, <1>9 DEF Unwind
<1>10. CASE \/ \E w \in Workers : CancelWorker(w)
            \/ \E b \in Builders : CancelBuild(b)
  BY <1>9, <1>10 DEF CancelWorker, CancelBuild, Agents
<1>11. ASSUME NEW a \in Agents, Thread(a) PROVE CurInv'
  <2>1. CASE Fetch(a)
    BY <1>4, <2>1 DEF Fetch
  <2>2. CASE Check(a)
    <3>1. CASE \E m \in Unread(a) : cur' = [cur EXCEPT ![a] = m]
      BY <2>2, <3>1 DEF Check, Unread, CurInv, AgentType
    <3>2. CASE /\ UNCHANGED cur
               /\ \E there \in {"aborted", "cancelled", "finished"} :
                    thread' = [thread EXCEPT ![a] = there]
      BY <1>4, <3>2
    <3>3. QED BY <2>2, <3>1, <3>2 DEF Check
  <2>3. CASE ExtractFails(a) \/ Retract(a)
    BY <1>5, <2>3 DEF ExtractFails, Retract
  <2>4. CASE Assert(a)
    BY <1>1, <2>4 DEF Assert, CurKeeps, AgentType
  <2>5. CASE Raise(a) BY <1>4, <2>5 DEF Raise
  <2>6. QED BY <1>11, <2>1, <2>2, <2>3, <2>4, <2>5 DEF Thread
<1>12. ASSUME NEW w \in Workers, Worker(w) PROVE CurInv'
  <2>1. CASE StartBatch(w)
    BY <1>2, <1>4, <2>1 DEF StartBatch, StartThread, Agents
  <2>2. CASE ~StartBatch(w)
    BY <1>2, <1>12, <2>2
       DEF Worker, Claim, EndBatch, EndSettle, SettleRaises, SettleDeleted,
           SettleSuperseded, SettleIndexed, SettleFailed, Settled
  <2>3. QED BY <2>1, <2>2
<1>13. ASSUME NEW b \in Builders, Builder(b) PROVE CurInv'
  <2>1. CASE Prepare(b)
    BY <1>2, <1>4, <2>1 DEF Prepare, StartThread, Agents
  <2>2. CASE ~Prepare(b)
    BY <1>2, <1>13, <2>2 DEF Builder, Stamp, EndBuild, Retire, Finish
  <2>3. QED BY <2>1, <2>2
<1>14. QED
  BY <1>6, <1>7, <1>8, <1>10, <1>11, <1>12, <1>13 DEF Next, Trouble

-----------------------------------------------------------------------------
(* The inductive invariant and what follows from it. *)

\* It holds at the start ...
LEMMA InitInv == Init => IInv
<1> SUFFICES ASSUME Init PROVE IInv
  OBVIOUS
<1> USE ConceptAssumption, NoRowType, ConstantsType DEF Init
<1>1. QueueType BY DEF QueueType, NoTxn
<1>2. StoreType BY DEF StoreType, Nothing, Hashes
<1>3. AgentType BY DEF AgentType, Agents
<1>4. RowInv /\ QueueIsCurrent /\ GoneInv
  BY DEF RowInv, QueueIsCurrent, GoneInv, Queued
<1>5. TxnInv /\ CurInv BY DEF TxnInv, CurInv
<1>6. ClaimedInv BY DEF ClaimedInv, Nothing, Agents
<1>7. QED
  BY <1>1, <1>2, <1>3, <1>4, <1>5, <1>6 DEF IInv, TypeOK

\* ... and every step keeps it.
LEMMA StepInv == IInv /\ [Next]_vars => IInv'
<1> SUFFICES ASSUME IInv, [Next]_vars PROVE IInv'
  OBVIOUS
<1>1. CASE Next
  BY <1>1, AgentTypeStep, StoreTypeStep, QueueStep, ClaimedStep, CurStep
     DEF IInv, TypeOK, RowsInv
<1>2. CASE UNCHANGED vars
  BY <1>2
     DEF vars, IInv, TypeOK, QueueType, StoreType, AgentType, RowInv, TxnInv,
         GoneInv, ClaimedInv, CurInv, QueueIsCurrent, Queued
<1>3. QED BY <1>1, <1>2

\* The inductive invariant holds throughout.
THEOREM Invariance == Spec => []IInv
BY InitInv, StepInv, PTL DEF Spec

\* Every variable of the pipeline keeps its type; a row is parked exactly when
\* its attempts are spent (concept_queue.fail).
THEOREM TypeCorrect == Spec => []TypeOK
<1>1. IInv => TypeOK BY DEF IInv
<1>2. QED BY <1>1, Invariance, PTL

\* A queue row always carries the hash of what its memory says now, whatever
\* claims, settles, renewals, retirements, crashes and stalls come between
\* (enqueue in the transaction of the write; no other statement of
\* concept_queue sets a hash).
THEOREM QueueCurrent == Spec => []QueueIsCurrent
<1>1. IInv => QueueIsCurrent BY DEF IInv
<1>2. QED BY <1>1, Invariance, PTL

\* A worker takes a row off the queue only while the memory still says what
\* the worker was given, be the row deleted or completed (ConceptIndexWorker.
\* _process, concept_queue.complete).
THEOREM Retires == Spec => RetiresWhatItClaimed
<1> DEFINE Retired(w, m) ==
             /\ pc[w] = "settle" /\ claimed[w][m] # None
             /\ claimed'[w][m] = None /\ Queued(m) /\ row'[m] = NoRow
<1>1. ASSUME IInv, Next, NEW w \in Workers, NEW m \in Memories, Retired(w, m)
      PROVE  claimed[w][m] = content[m]
  <2> USE <1>1 DEF IInv
  <2>1. row'[m] # row[m] BY DEF Queued
  <2>2. ASSUME NEW v \in Workers, NEW n \in Memories,
               \/ SettleDeleted(v, n) \/ SettleIndexed(v, n)
        PROVE  claimed[w][m] = content[m]
    <3>1. v = w /\ n = m
      BY <2>1, <2>2 DEF SettleDeleted, SettleIndexed, Settled, TypeOK,
                        QueueType, AgentType, Agents, Hashes
    <3>2. CASE SettleDeleted(w, m)
      <4>1. m \in gone
        BY <3>2 DEF SettleDeleted, Settling, ClaimedInv
      <4>2. QED BY <4>1 DEF GoneInv, Queued
    <3>3. CASE SettleIndexed(w, m)
      BY <2>1, <3>3 DEF SettleIndexed, Completes, QueueIsCurrent
    <3>4. QED BY <2>2, <3>1, <3>2, <3>3
  <2>3. ASSUME NEW v \in Workers, NEW n \in Memories, SettleFailed(v, n)
        PROVE  FALSE
    <3>1. v = w /\ n = m
      BY <2>3 DEF SettleFailed, Settled, TypeOK, AgentType, Agents, Hashes
    <3>2. row[m] \in RowSet /\ row[m].token = w
      BY <2>1, <2>3, <3>1 DEF SettleFailed, TypeOK, QueueType
    <3>3. row[m].attempts < MaxAttempts
      BY <3>2, ConceptAssumption
         DEF RowInv, TypeOK, QueueType, RowSet
    <3>4. row'[m] = Failed(row[m])
      BY <2>3, <3>1, <3>2 DEF SettleFailed, TypeOK, QueueType
    <3>5. QED BY <3>2, <3>3, <3>4, FailedRow, NoRowType
  <2>4. ASSUME NEW v \in Workers, Claim(v)
        PROVE  FALSE
    BY <2>4 DEF Claim, TypeOK, AgentType, Agents
  <2>5. ~UNCHANGED row /\ ~UNCHANGED claimed
    BY <2>1
  <2>6. CASE Writer \/ ExpireLock \/ \E n \in Memories : RowDue(n)
    BY <2>5, <2>6
       DEF Writer, CommitWrite, BeginWrite, ReplaceClean, ReplaceFails,
           Delete, Cleanup, ExpireLock, RowDue
  <2>7. CASE Trouble
    BY <2>5, <2>7
       DEF Trouble, Crash, Stall, Notice, StopWorker, RaiseLost, CancelWorker,
           CancelBuild, Unwind, ResetGraph
  <2>8. CASE \E a \in Agents :
               Acquire(a) \/ Release(a) \/ Reap(a) \/ Thread(a)
    BY <2>5, <2>8
       DEF Acquire, Release, Reap, Thread, Fetch, Check, ExtractFails, Assert,
           Retract, Raise
  <2>9. CASE \E b \in Builders : Builder(b)
    BY <2>5, <2>9 DEF Builder, Stamp, Prepare, EndBuild, Retire, Finish
  <2>10. CASE \E v \in Workers : Worker(v) \/ RenewRows(v)
    BY <2>2, <2>3, <2>4, <2>5, <2>10
       DEF Worker, StartBatch, EndBatch, EndSettle, SettleRaises,
           SettleSuperseded, RenewRows
  <2>11. QED BY <2>6, <2>7, <2>8, <2>9, <2>10, <1>1 DEF Next
<1>2. IInv /\ [Next]_vars =>
        [\A m \in Memories, w \in Workers :
           pc[w] = "settle" /\ claimed[w][m] # None /\ claimed'[w][m] = None
             /\ Queued(m) /\ row'[m] = NoRow
           => claimed[w][m] = content[m]]_vars
  BY <1>1 DEF Retired
<1>3. QED BY <1>2, Invariance, PTL DEF Spec, RetiresWhatItClaimed

-----------------------------------------------------------------------------
(* Sessions and the gate.                                                   *)

\* Whoever is in a with block holds the lock, when no process stalls.
SessionInv ==
    "stall" \notin Faults => \A a \in Agents : InSession(a) => lock = a

\* Nobody enters, and nobody who stays inside loses the lock.
OnlyLeave ==
    \A a \in Agents : InSession(a)' =>
        InSession(a) /\ (lock = a => lock' = a)

LEMMA ForgetLeaves ==
    ASSUME AgentType, NEW a \in Agents, Forget(a),
           lock' = lock \/ (lock = a /\ lock' = None)
    PROVE  OnlyLeave
<1>1. pc'[a] \in {"idle", "done"}
  BY DEF Forget, Goto, AgentType
<1>2. \A b \in Agents : b # a => pc'[b] = pc[b]
  BY DEF Forget, Goto, AgentType
<1>3. QED BY <1>1, <1>2 DEF OnlyLeave, InSession

\* Inside a with block an agent goes from step to step.
LEMMA GotoStays ==
    ASSUME AgentType, NEW a \in Agents, NEW there, InSession(a),
           Goto(a, there), UNCHANGED lock
    PROVE  OnlyLeave
BY DEF OnlyLeave, InSession, Goto, AgentType

LEMMA StillLeaves == ASSUME UNCHANGED <<pc, lock>> PROVE OnlyLeave
BY DEF OnlyLeave, InSession

LEMMA WorkerLeaves ==
    ASSUME AgentType, NEW w \in Workers, Worker(w) PROVE OnlyLeave
<1>1. CASE Claim(w)
  BY <1>1, GotoStays DEF Claim, InSession, Agents
<1>2. CASE StartBatch(w)
  BY <1>2, GotoStays DEF StartBatch, InSession, Agents
<1>3. CASE EndBatch(w)
  BY <1>3, GotoStays DEF EndBatch, InSession, Agents
<1>4. CASE EndSettle(w)
  BY <1>4, GotoStays DEF EndSettle, InSession, Agents
<1>5. CASE SettleRaises(w)
  BY <1>5, GotoStays DEF SettleRaises, InSession, Agents
<1>6. CASE \E m \in Memories : \/ SettleDeleted(w, m) \/ SettleSuperseded(w, m)
                               \/ SettleIndexed(w, m) \/ SettleFailed(w, m)
  BY <1>6, StillLeaves
     DEF SettleDeleted, SettleSuperseded, SettleIndexed, SettleFailed, Settled
<1>7. QED BY <1>1, <1>2, <1>3, <1>4, <1>5, <1>6 DEF Worker

LEMMA BuilderLeaves ==
    ASSUME AgentType, NEW b \in Builders, Builder(b) PROVE OnlyLeave
<1>1. CASE Stamp(b)
  BY <1>1, GotoStays DEF Stamp, InSession, Agents
<1>2. CASE Prepare(b)
  BY <1>2, GotoStays DEF Prepare, InSession, Agents
<1>3. CASE EndBuild(b)
  BY <1>3, GotoStays DEF EndBuild, InSession, Agents
<1>4. CASE Retire(b)
  BY <1>4, GotoStays DEF Retire, InSession, Agents
<1>5. CASE Finish(b)
  BY <1>5, GotoStays DEF Finish, InSession, Agents
<1>6. QED BY <1>1, <1>2, <1>3, <1>4, <1>5 DEF Builder

\* Every step is an acquisition, a stall, or leaves the sessions as they are
\* or fewer.
LEMMA SessionsMove ==
    ASSUME AgentType, Next
    PROVE  \/ \E a \in Agents : Acquire(a) \/ Stall(a)
           \/ OnlyLeave
<1>1. CASE Writer \/ ResetGraph \/ \E m \in Memories : RowDue(m)
  BY <1>1, StillLeaves
     DEF Writer, CommitWrite, BeginWrite, ReplaceClean, ReplaceFails, Delete,
         Cleanup, ResetGraph, RowDue
<1>2. CASE ExpireLock
  BY <1>2 DEF ExpireLock, OnlyLeave, InSession
<1>3. CASE \E a \in Agents : Notice(a) \/ Reap(a) \/ Thread(a)
  BY <1>3, StillLeaves
     DEF Notice, RaiseLost, Reap, Thread, Fetch, Check, ExtractFails, Assert,
         Retract, Raise
<1>4. CASE \E w \in Workers : StopWorker(w) \/ RenewRows(w)
  BY <1>4, StillLeaves DEF StopWorker, RaiseLost, RenewRows
<1>5. CASE \E a \in Agents : Crash(a) \/ Release(a)
  BY <1>5, ForgetLeaves DEF Crash, Release
<1>6. ASSUME NEW a \in Agents, Unwind(a) PROVE OnlyLeave
  BY <1>6, ForgetLeaves DEF Unwind
<1>7. CASE \/ \E w \in Workers : CancelWorker(w)
           \/ \E b \in Builders : CancelBuild(b)
  BY <1>6, <1>7 DEF CancelWorker, CancelBuild, Agents
<1>8. CASE \/ \E w \in Workers : Worker(w)
           \/ \E b \in Builders : Builder(b)
  BY <1>8, WorkerLeaves, BuilderLeaves
<1>9. QED
  BY <1>1, <1>2, <1>3, <1>4, <1>5, <1>7, <1>8 DEF Next, Trouble

LEMMA SessionStep ==
    ASSUME AgentType, SessionInv, [Next]_vars PROVE SessionInv'
<1>1. CASE \E a \in Agents : Acquire(a)
  BY <1>1, ConceptAssumption
     DEF Acquire, Goto, SessionInv, InSession, AgentType, Agents
<1>2. CASE \E a \in Agents : Stall(a)
  BY <1>2 DEF Stall, Fault, SessionInv
<1>3. CASE OnlyLeave
  BY <1>3 DEF OnlyLeave, SessionInv
<1>4. CASE UNCHANGED vars
  BY <1>4, StillLeaves, <1>3 DEF vars
<1>5. QED BY <1>1, <1>2, <1>3, <1>4, SessionsMove

\* An acquisition is an entry: the gate was open and is shut behind it.
LEMMA AcquireEnters ==
    ASSUME AgentType, NEW a \in Agents, Acquire(a)
    PROVE  BuildLock!Enter(a)
<1>1. lock = None /\ lock' # None
  BY ConceptAssumption DEF Acquire, Agents
<1>2. \A b \in Agents : InSession(b)' <=> InSession(b) \/ b = a
  BY DEF Acquire, Goto, InSession, AgentType
<1>3. ~InSession(a)
  BY DEF Acquire, InSession
<1>4. QED BY <1>1, <1>2, <1>3 DEF BuildLock!Enter

\* Any other step passes: who stays inside holds the lock before and after.
LEMMA OthersPass ==
    ASSUME SessionInv, SessionInv',
           \A a \in Agents : InSession(a)' => InSession(a)
    PROVE  BuildLock!Pass
<1>1. {a \in Agents : InSession(a)'} \subseteq {a \in Agents : InSession(a)}
  OBVIOUS
<1>2. CASE "stall" \in Faults
  BY <1>1, <1>2 DEF BuildLock!Pass
<1>3. CASE "stall" \notin Faults
  <2>1. ASSUME NEW a \in Agents, InSession(a)'
        PROVE  lock' = a /\ lock = a /\ a # None
    BY <2>1, <1>3, ConceptAssumption DEF SessionInv, Agents
  <2>2. QED BY <1>1, <2>1 DEF BuildLock!Pass
<1>4. QED BY <1>2, <1>3

\* Whatever crashes, is cancelled, errs or overlaps, workers and builds use
\* concept_build_lock as LeaseLock's gate is meant to be used: it stays shut
\* from each acquisition to the end of the with block (no stalls), and none
\* begins while it is shut (_drain, marm_concept_build).
THEOREM SessionsFitTheGate == Spec => SessionsUseAGate
<1>1. Init => BuildLock!GateInit
  BY DEF Init, BuildLock!GateInit, InSession
<1>2. Init => SessionInv
  BY DEF Init, SessionInv, InSession
<1>3. AgentType /\ SessionInv /\ SessionInv' /\ [Next]_vars
        => [BuildLock!GateNext]_BuildLock!gate
  <2> SUFFICES ASSUME AgentType, SessionInv, SessionInv', [Next]_vars
               PROVE  [BuildLock!GateNext]_BuildLock!gate
    OBVIOUS
  <2>1. CASE \E a \in Agents : Acquire(a)
    BY <2>1, AcquireEnters DEF BuildLock!GateNext
  <2>2. CASE \E a \in Agents : Stall(a)
    <3>1. \A a \in Agents : InSession(a)' => InSession(a)
      BY <2>2 DEF Stall, InSession
    <3>2. QED BY <3>1, OthersPass DEF BuildLock!GateNext
  <2>3. CASE OnlyLeave
    BY <2>3, OthersPass DEF OnlyLeave, BuildLock!GateNext
  <2>4. CASE UNCHANGED vars
    BY <2>4, StillLeaves, <2>3 DEF vars
  <2>5. QED BY <2>1, <2>2, <2>3, <2>4, SessionsMove
<1>4. IInv => AgentType
  BY DEF IInv, TypeOK
<1>5. SessionInv /\ AgentType /\ [Next]_vars => SessionInv'
  BY SessionStep
<1>6. QED
  BY <1>1, <1>2, <1>3, <1>4, <1>5, Invariance, PTL
     DEF Spec, SessionsUseAGate, BuildLock!GateSpec

-----------------------------------------------------------------------------
(* What has happened so far only grows. *)

KindsGrow == used.kinds \subseteq used'.kinds

\* A fault is remembered, and no step forgets one.
LEMMA FaultNoted ==
    ASSUME NEW kind, Fault(kind)
    PROVE  KindsGrow /\ kind \in used'.kinds
BY DEF Fault, KindsGrow

LEMMA SameUsed == ASSUME UNCHANGED used PROVE KindsGrow
BY DEF KindsGrow

LEMMA KindsStep ==
    ASSUME StoreType, Next
    PROVE  KindsGrow
<1> USE SameUsed, FaultNoted
<1>1. ASSUME NEW m \in Memories, NEW c \in Contents, BeginWrite(m, c)
      PROVE  KindsGrow
  BY <1>1 DEF BeginWrite, KindsGrow, StoreType
<1>2. CASE \/ CommitWrite
           \/ \E m \in Memories : \/ ReplaceClean(m) \/ ReplaceFails(m)
                                  \/ Delete(m) \/ Cleanup(m)
  BY <1>2, CleansUpDoes
     DEF CommitWrite, ReplaceClean, ReplaceFails, Delete, Cleanup, KindsGrow
<1>3. CASE ExpireLock \/ ResetGraph \/ \E m \in Memories : RowDue(m)
  BY <1>3 DEF ExpireLock, ResetGraph, RowDue
<1>4. CASE \E a \in Agents : Crash(a) \/ Stall(a) \/ Notice(a)
  BY <1>4 DEF Crash, Stall, Notice
<1>5. CASE \/ \E w \in Workers : StopWorker(w) \/ CancelWorker(w)
           \/ \E b \in Builders : CancelBuild(b)
  BY <1>5 DEF StopWorker, CancelWorker, CancelBuild
<1>6. CASE \E a \in Agents : Acquire(a) \/ Release(a) \/ Reap(a) \/ Thread(a)
  BY <1>6 DEF Acquire, Release, Reap, Thread, Fetch, Check, ExtractFails,
              Assert, Retract, Raise
<1>7. ASSUME NEW w \in Workers, Worker(w) \/ RenewRows(w) PROVE KindsGrow
  <2>1. ASSUME NEW m \in Memories, SettleDeleted(w, m) PROVE KindsGrow
    BY <2>1, CleansUpDoes DEF SettleDeleted, KindsGrow
  <2>2. QED
    BY <1>7, <2>1
       DEF Worker, Claim, StartBatch, EndBatch, EndSettle, SettleRaises,
           SettleSuperseded, SettleIndexed, SettleFailed, RenewRows
<1>8. ASSUME NEW b \in Builders, Builder(b) PROVE KindsGrow
  BY <1>8 DEF Builder, Stamp, Prepare, EndBuild, Retire, Finish
<1>9. QED
  BY <1>1, <1>2, <1>3, <1>4, <1>5, <1>6, <1>7, <1>8
     DEF Next, Writer, Trouble

\* A delete comes before its cleanup, a reset before a rebuild, an error before
\* the thread it ends.
LEMMA NotedStep ==
    ASSUME TypeOK, NotedInv, Next
    PROVE  NotedInv'
<1> USE DEF TypeOK
<1>1. KindsGrow BY KindsStep
<1>2. ASSUME cleaning' \subseteq cleaning, UNCHANGED <<gone, schema>>,
             rebuilt' \subseteq rebuilt,
             \A a \in Agents : thread'[a] = "raised" =>
                 thread[a] = "raised" \/ "raise" \in used'.kinds
      PROVE  NotedInv'
  BY <1>1, <1>2 DEF NotedInv, KindsGrow
<1>3. ASSUME NEW m \in Memories, Delete(m) PROVE NotedInv'
  BY <1>1, <1>3 DEF Delete, NotedInv, KindsGrow
<1>4. CASE \/ CommitWrite
           \/ \E m \in Memories :
                \/ \E c \in Contents : BeginWrite(m, c)
                \/ ReplaceClean(m) \/ ReplaceFails(m) \/ Cleanup(m)
  BY <1>2, <1>4 DEF CommitWrite, BeginWrite, ReplaceClean, ReplaceFails,
                    Cleanup
<1>5. CASE ResetGraph
  BY <1>1, <1>5, FaultNoted DEF ResetGraph, NotedInv, KindsGrow
<1>6. CASE ExpireLock \/ \E m \in Memories : RowDue(m)
  BY <1>2, <1>6 DEF ExpireLock, RowDue
<1>7. ASSUME NEW a, ForgetThread(a)
      PROVE  \A b \in Agents : thread'[b] = "raised" => thread[b] = "raised"
  BY <1>7 DEF ForgetThread, AgentType
<1>8. ASSUME NEW a \in Agents,
             \/ Crash(a) \/ Stall(a) \/ Notice(a) \/ StopWorker(a)
             \/ Acquire(a) \/ Release(a) \/ Reap(a)
      PROVE  NotedInv'
  BY <1>2, <1>7, <1>8 DEF Crash, Stall, Notice, StopWorker, RaiseLost, Acquire,
                          Release, Reap, Forget
<1>9. ASSUME NEW a \in Agents, CancelWorker(a) \/ CancelBuild(a)
      PROVE  NotedInv'
  BY <1>2, <1>7, <1>9 DEF CancelWorker, CancelBuild, Unwind, Forget
<1>10. ASSUME NEW a \in Agents, Thread(a) PROVE NotedInv'
  <2>1. CASE Raise(a)
    BY <1>2, <2>1, FaultNoted DEF Raise
  <2>2. ASSUME UNCHANGED threadOnly,
               NEW there, there # "raised",
               thread' = [thread EXCEPT ![a] = there]
        PROVE  NotedInv'
    BY <1>2, <2>2 DEF AgentType
  <2>3. CASE Fetch(a) BY <2>2, <2>3 DEF Fetch
  <2>4. CASE Check(a) BY <2>2, <2>4 DEF Check
  <2>5. CASE ExtractFails(a) \/ Assert(a) \/ Retract(a)
    BY <2>2, <2>5 DEF ExtractFails, Assert, Retract, Processed
  <2>6. QED BY <1>10, <2>1, <2>3, <2>4, <2>5 DEF Thread
<1>11. ASSUME NEW w \in Workers, Worker(w) \/ RenewRows(w) PROVE NotedInv'
  <2>1. CASE StartBatch(w)
    BY <1>2, <2>1 DEF StartBatch, StartThread, AgentType, Agents
  <2>2. CASE ~StartBatch(w)
    BY <1>2, <1>11, <2>2
       DEF Worker, Claim, EndBatch, EndSettle, SettleRaises, SettleDeleted,
           SettleSuperseded, SettleIndexed, SettleFailed, Settled, RenewRows
  <2>3. QED BY <2>1, <2>2
<1>12. ASSUME NEW b \in Builders, Builder(b) PROVE NotedInv'
  <2>1. CASE Prepare(b)
    <3>1. \A a \in Agents : thread'[a] = "raised" => thread[a] = "raised"
      BY <2>1 DEF Prepare, StartThread, AgentType, Agents
    <3>2. UNCHANGED <<gone, schema, cleaning>> BY <2>1 DEF Prepare
    <3>3. rebuilt' \subseteq rebuilt \/ schema = "rebuild"
      BY <2>1 DEF Prepare
    <3>4. QED BY <1>1, <3>1, <3>2, <3>3 DEF NotedInv, KindsGrow
  <2>2. CASE Finish(b)
    BY <1>1, <2>2 DEF Finish, NotedInv, KindsGrow
  <2>3. CASE Stamp(b) \/ EndBuild(b) \/ Retire(b)
    BY <1>2, <2>3 DEF Stamp, EndBuild, Retire
  <2>4. QED BY <1>12, <2>1, <2>2, <2>3 DEF Builder
<1>13. QED
  BY <1>3, <1>4, <1>5, <1>6, <1>8, <1>9, <1>10, <1>11, <1>12
     DEF Next, Writer, Trouble, Agents

-----------------------------------------------------------------------------
(* In order, a step is one agent's, or touches neither agents nor lock, or *)
(* gives up the lock of an agent that is gone.                             *)

Own(a) ==
    \/ Acquire(a) \/ Release(a) \/ Reap(a) \/ Crash(a) \/ Thread(a)
    \/ a \in Workers /\ Worker(a)
    \/ a \in Builders /\ Builder(a)

Outside ==
    \/ CommitWrite \/ ResetGraph
    \/ \E m \in Memories : \/ \E c \in Contents : BeginWrite(m, c)
                           \/ ReplaceFails(m) \/ Delete(m) \/ Cleanup(m)
                           \/ RowDue(m)
    \/ \E w \in Workers : RenewRows(w)

\* The overlapping kinds are faults.
LEMMA NoOverlap ==
    ASSUME Orderly', NEW kind \in Overlapping, Fault(kind) PROVE FALSE
BY FaultNoted DEF Orderly

LEMMA OrderlyStep ==
    ASSUME StoreType, OrderInv, Next, Orderly'
    PROVE  /\ Orderly
           /\ Outside \/ ExpireLock \/ \E a \in Agents : Own(a)
           /\ \A b \in Builders : Stamp(b) => txn = NoTxn
<1>1. Orderly
  BY KindsStep DEF KindsGrow, Orderly
<1>2. \A m \in Memories : ~ReplaceClean(m)
  BY NoOverlap DEF ReplaceClean, Overlapping
<1>3. \A a \in Agents : ~Stall(a)
  BY NoOverlap DEF Stall, Overlapping
<1>4. \A w \in Workers : ~StopWorker(w)
  BY NoOverlap DEF StopWorker, Overlapping
<1>5. \A b \in Builders : ~CancelBuild(b)
  BY NoOverlap DEF CancelBuild, Overlapping
<1>6. \A b \in Builders : Stamp(b) => txn = NoTxn
  BY NoOverlap DEF Stamp, Overlapping
<1>7. \A w \in Workers : ~CancelWorker(w)
  BY <1>1 DEF CancelWorker, OrderInv, AgentFits, Agents
<1>8. \A a \in Agents : ~Notice(a)
  BY <1>1 DEF Notice, OrderInv, AgentFits
<1>9. QED
  BY <1>1, <1>2, <1>3, <1>4, <1>5, <1>6, <1>7, <1>8
     DEF Next, Writer, Trouble, Own, Outside, Agents

\* The others do not notice.
Alone(a) ==
    \A b \in Agents \ {a} :
        /\ pc'[b] = pc[b] /\ thread'[b] = thread[b] /\ cur'[b] = cur[b]
        /\ page'[b] = page[b] /\ outcome'[b] = outcome[b]
        /\ claimed'[b] = claimed[b] /\ live'[b] = live[b]
        /\ abort'[b] = abort[b]
        /\ lock = b => lock' = b

LEMMA WorkerAlone ==
    ASSUME AgentType, NEW w \in Workers, Worker(w) PROVE Alone(w)
<1> USE DEF Alone, AgentType, Goto
<1>1. CASE Claim(w) BY <1>1 DEF Claim
<1>2. CASE StartBatch(w) BY <1>2 DEF StartBatch, StartThread
<1>3. CASE EndBatch(w) BY <1>3 DEF EndBatch
<1>4. CASE EndSettle(w) \/ SettleRaises(w)
  BY <1>4 DEF EndSettle, SettleRaises
<1>5. CASE \E m \in Memories : \/ SettleDeleted(w, m) \/ SettleSuperseded(w, m)
                               \/ SettleIndexed(w, m) \/ SettleFailed(w, m)
  BY <1>5 DEF SettleDeleted, SettleSuperseded, SettleIndexed, SettleFailed,
              Settled
<1>6. QED BY <1>1, <1>2, <1>3, <1>4, <1>5 DEF Worker

LEMMA BuilderAlone ==
    ASSUME AgentType, NEW b \in Builders, Builder(b) PROVE Alone(b)
<1> USE DEF Alone, AgentType, Goto
<1>1. CASE Stamp(b) BY <1>1 DEF Stamp
<1>2. CASE Prepare(b) BY <1>2 DEF Prepare, StartThread
<1>3. CASE EndBuild(b) BY <1>3 DEF EndBuild
<1>4. CASE Retire(b) \/ Finish(b) BY <1>4 DEF Retire, Finish
<1>5. QED BY <1>1, <1>2, <1>3, <1>4 DEF Builder

LEMMA OwnAlone ==
    ASSUME AgentType, NEW a \in Agents, Own(a) PROVE Alone(a)
<1> USE DEF Alone, AgentType, Goto
<1>1. CASE Acquire(a)
  BY <1>1, ConceptAssumption DEF Acquire, Agents
<1>2. CASE Release(a) \/ Crash(a)
  BY <1>2 DEF Release, Crash, Forget, ForgetThread
<1>3. CASE Reap(a) BY <1>3 DEF Reap, ForgetThread
<1>4. CASE Thread(a)
  <2>1. CASE Fetch(a) \/ Raise(a) BY <2>1 DEF Fetch, Raise
  <2>2. CASE Check(a) BY <2>2 DEF Check
  <2>3. CASE Assert(a) BY <2>3 DEF Assert
  <2>4. CASE ExtractFails(a) \/ Retract(a)
    BY <2>4 DEF ExtractFails, Retract, Processed
  <2>5. QED BY <1>4, <2>1, <2>2, <2>3, <2>4 DEF Thread
<1>5. QED
  BY <1>1, <1>2, <1>3, <1>4, WorkerAlone, BuilderAlone DEF Own

LEMMA OutsideStill ==
    ASSUME Outside PROVE UNCHANGED <<agents, lock>>
BY DEF Outside, CommitWrite, ResetGraph, BeginWrite, ReplaceFails, Delete,
       Cleanup, RowDue, RenewRows

\* An agent between two sessions has nothing running and nothing reported.
LEMMA Resting ==
    ASSUME NEW a \in Agents, AgentFits(a), ~InSession(a)
    PROVE  thread[a] = "off" /\ outcome[a] = NoOutcome
BY DEF AgentFits, ThreadFits, InSession

-----------------------------------------------------------------------------
(* Coroutine and thread fit, in order. *)

\* A thread that runs is waited for.
LEMMA RunningBuilds ==
    ASSUME AgentType, NEW a \in Agents, AgentFits(a),
           thread[a] = "fetch" \/ Extracting(a)
    PROVE  pc[a] = "build" /\ lock = a
BY DEF AgentFits, ThreadFits, Extracting, InSession, AgentType

LEMMA ForgetFits ==
    ASSUME AgentType, NEW a \in Agents, ForgetThread(a),
           pc'[a] \in {"idle", "done"}
    PROVE  AgentFits(a)'
BY DEF AgentType, ForgetThread, AgentFits, ThreadFits, InSession, Extracting

LEMMA ThreadStepFits ==
    ASSUME AgentType, NEW a \in Agents, AgentFits(a), Thread(a), CurInv
    PROVE  AgentFits(a)'
<1>1. thread[a] \in {"fetch", "next", "extract", "retract"}
  BY DEF Thread, Fetch, Check, ExtractFails, Assert, Retract, Raise
<1>2. pc[a] = "build" /\ lock = a
  BY <1>1, RunningBuilds DEF Extracting
<1>3. pc' = pc /\ lock' = lock /\ abort' = abort /\ claimed' = claimed
  BY DEF Thread, Fetch, Check, ExtractFails, Assert, Retract, Raise
<1> USE DEF AgentType
<1>4. ASSUME /\ thread'[a] \notin {"off", "fetch", "aborted"}
             /\ thread'[a] \in {"extract", "retract"}
                   => page'[a][cur'[a]] # None
             /\ Extracting(a)' /\ a \in Workers =>
                   \A m \in Memories :
                      page'[a][m] # None => claimed[a][m] # None
      PROVE  AgentFits(a)'
  BY <1>2, <1>3, <1>4 DEF AgentFits, ThreadFits, InSession, Extracting
<1>5. CASE Fetch(a)
  <2>1. thread'[a] = "next" BY <1>5 DEF Fetch
  <2>2. ASSUME a \in Workers, NEW m \in Memories, page'[a][m] # None
        PROVE  claimed[a][m] # None
    BY <1>5, <2>2 DEF Fetch, Batch
  <2>3. QED BY <1>4, <2>1, <2>2
<1>6. CASE Check(a)
  <2>1. page' = page /\ thread[a] = "next" BY <1>6 DEF Check
  <2>2. thread'[a] \in {"cancelled", "extract", "finished"}
    BY <1>6 DEF Check, AgentFits
  <2>3. ASSUME thread'[a] = "extract"
        PROVE  page[a][cur'[a]] # None
    BY <1>6, <2>3 DEF Check, Unread
  <2>4. QED BY <1>4, <2>1, <2>2, <2>3 DEF AgentFits, ThreadFits, Extracting
<1>7. ASSUME NEW result, Processed(a, result), Extracting(a)
      PROVE  AgentFits(a)'
  <2>1. thread'[a] = "next" BY <1>7 DEF Processed
  <2>2. \A m \in Memories : page'[a][m] # None => page[a][m] # None
    BY <1>7 DEF Processed, Hashes
  <2>3. QED BY <1>4, <1>7, <2>1, <2>2 DEF AgentFits, ThreadFits
<1>8. CASE ExtractFails(a) \/ Retract(a)
  BY <1>7, <1>8 DEF ExtractFails, Retract, Extracting
<1>9. CASE Assert(a)
  <2>1. thread[a] = "extract" /\ thread'[a] = "retract"
        /\ UNCHANGED <<page, cur>>
    BY <1>9 DEF Assert
  <2>2. QED BY <1>4, <2>1 DEF AgentFits, ThreadFits, Extracting
<1>10. CASE Raise(a)
  <2>1. thread'[a] = "raised" BY <1>10 DEF Raise
  <2>2. QED BY <1>4, <2>1 DEF Extracting
<1>11. QED BY <1>5, <1>6, <1>8, <1>9, <1>10 DEF Thread

LEMMA WorkerStepFits ==
    ASSUME AgentType, NEW w \in Workers, AgentFits(w), Worker(w)
    PROVE  AgentFits(w)'
<1> USE DEF Agents, AgentType
<1>1. InSession(w)
  BY DEF InSession, Worker, Claim, StartBatch, EndBatch, EndSettle,
         SettleRaises, SettleDeleted, SettleSuperseded, SettleIndexed,
         SettleFailed, Settling, Unchanged
<1>2. /\ UNCHANGED <<lock, abort, outcome, page, cur>>
  BY DEF Worker, Claim, StartBatch, EndBatch, EndSettle, SettleRaises,
         SettleDeleted, SettleSuperseded, SettleIndexed, SettleFailed, Settled
<1> USE <1>1, <1>2 DEF AgentFits, ThreadFits, InSession, Extracting
<1>3. CASE Claim(w)
  <2>1. pc'[w] \in {"leave", "claimed"} /\ thread[w] = "off"
        /\ thread' = thread
    BY <1>3 DEF Claim, Goto
  <2>2. QED BY <2>1
<1>4. CASE StartBatch(w)
  <2>1. \/ pc'[w] = "leave" /\ thread'[w] = "off"
        \/ pc'[w] = "build" /\ thread'[w] = "fetch"
    BY <1>4 DEF StartBatch, Goto, StartThread
  <2>2. outcome[w] = NoOutcome BY <1>4 DEF StartBatch
  <2>3. QED BY <2>1, <2>2
<1>5. CASE EndBatch(w)
  <2>1. /\ thread' = thread /\ claimed' = claimed
        /\ thread[w] \in {"finished", "raised"}
        /\ pc'[w] = "leave" \/ (pc'[w] = "settle" /\ thread[w] = "finished")
    BY <1>5 DEF EndBatch, Goto
  <2>2. QED BY <2>1
<1>6. CASE EndSettle(w) \/ SettleRaises(w)
  <2>1. pc[w] = "settle" /\ pc'[w] = "leave" /\ UNCHANGED <<thread, claimed>>
    BY <1>6 DEF EndSettle, SettleRaises, Goto
  <2>2. QED BY <2>1
<1>7. ASSUME NEW m \in Memories,
             \/ SettleDeleted(w, m) \/ SettleSuperseded(w, m)
             \/ SettleIndexed(w, m) \/ SettleFailed(w, m)
      PROVE  AgentFits(w)'
  <2>1. pc[w] = "settle" /\ UNCHANGED <<pc, thread>>
    BY <1>7 DEF SettleDeleted, SettleSuperseded, SettleIndexed, SettleFailed,
                Settled, Settling, Unchanged
  <2>2. QED BY <2>1
<1>8. QED BY <1>3, <1>4, <1>5, <1>6, <1>7 DEF Worker

LEMMA BuilderStepFits ==
    ASSUME AgentType, NEW b \in Builders, AgentFits(b), Builder(b)
    PROVE  AgentFits(b)'
<1> USE DEF Agents, AgentType
<1>1. InSession(b)
  BY DEF InSession, Builder, Stamp, Prepare, EndBuild, Retire, Finish
<1>2. UNCHANGED <<lock, abort, outcome, page, cur, claimed>>
  BY DEF Builder, Stamp, Prepare, EndBuild, Retire, Finish
<1> USE <1>1, <1>2, ConceptAssumption
    DEF AgentFits, ThreadFits, InSession, Extracting
<1>3. CASE Stamp(b)
  <2>1. pc[b] = "stamp" /\ pc'[b] = "prepare" /\ thread' = thread
    BY <1>3 DEF Stamp, Goto
  <2>2. QED BY <2>1
<1>4. CASE Prepare(b)
  <2>1. \/ pc'[b] = "leave" /\ thread'[b] = "off"
        \/ pc'[b] = "build" /\ thread'[b] = "fetch"
    BY <1>4 DEF Prepare, Goto, StartThread
  <2>2. outcome[b] = NoOutcome BY <1>4 DEF Prepare
  <2>3. QED BY <2>1, <2>2
<1>5. CASE EndBuild(b)
  <2>1. /\ thread' = thread
        /\ thread[b] \in {"finished", "cancelled", "raised"}
        /\ pc'[b] = "leave" \/ (pc'[b] = "retire" /\ thread[b] = "finished")
    BY <1>5 DEF EndBuild, Goto
  <2>2. QED BY <2>1
<1>6. CASE Retire(b) \/ Finish(b)
  <2>1. pc[b] \in {"retire", "finish"} /\ pc'[b] \in {"finish", "leave"}
        /\ thread' = thread
    BY <1>6 DEF Retire, Finish, Goto
  <2>2. QED BY <2>1
<1>7. QED BY <1>3, <1>4, <1>5, <1>6 DEF Builder

\* The agent whose step it is fits after it, ...
LEMMA OwnFits ==
    ASSUME AgentType, NEW a \in Agents, AgentFits(a), CurInv, Own(a)
    PROVE  AgentFits(a)'
<1>1. CASE Acquire(a)
  <2>1. /\ pc'[a] \in {"claim", "stamp"} /\ lock' = a /\ thread[a] = "off"
        /\ UNCHANGED <<thread, outcome, page, cur, claimed, abort>>
    BY <1>1 DEF Acquire, Goto, AgentType
  <2>2. QED BY <2>1 DEF AgentFits, ThreadFits, InSession, Extracting
<1>2. CASE Release(a) \/ Crash(a)
  BY <1>2, ForgetFits DEF Release, Crash, Forget, Goto, AgentType
<1>3. CASE Reap(a)
  BY <1>3, ForgetFits DEF Reap, InSession, AgentType
<1>4. QED
  BY <1>1, <1>2, <1>3, ThreadStepFits, WorkerStepFits, BuilderStepFits
     DEF Own

\* ... and so do the others.
LEMMA FitsStep ==
    ASSUME TypeOK, CurInv, \A a \in Agents : AgentFits(a),
           Outside \/ ExpireLock \/ \E a \in Agents : Own(a)
    PROVE  \A a \in Agents : AgentFits(a)'
<1>1. CASE Outside
  BY <1>1, OutsideStill DEF AgentFits, ThreadFits, InSession, Extracting
<1>2. CASE ExpireLock
  <2>1. \A a \in Agents : ~InSession(a)
    BY <1>2 DEF ExpireLock, AgentFits
  <2>2. QED
    BY <1>2, <2>1 DEF ExpireLock, AgentFits, ThreadFits, InSession, Extracting
<1>3. ASSUME NEW a \in Agents, Own(a), NEW b \in Agents \ {a}
      PROVE  AgentFits(b)'
  <2>1. Alone(a) BY <1>3, OwnAlone DEF TypeOK
  <2>2. QED
    BY <2>1 DEF Alone, AgentFits, ThreadFits, InSession, Extracting
<1>4. QED BY <1>1, <1>2, <1>3, OwnFits DEF TypeOK

-----------------------------------------------------------------------------
(* The rows of a batch stay until they are settled, in order. *)

\* Around the agents no row leaves the queue but with its memory, and no
\* memory gets a content without one.
RowsStay ==
    \A m \in Memories :
        /\ Queued(m) => Queued(m)' \/ content'[m] = None
        /\ content[m] = None => Queued(m)' \/ content'[m] = None

LEMMA StillStay == ASSUME UNCHANGED <<row, content>> PROVE RowsStay
BY DEF RowsStay, Queued

\* A row that is pending, leased or parked is one.
LEMMA RowState ==
    ASSUME NEW r, r.state # "none" PROVE r # NoRow
BY DEF NoRow

LEMMA DueKeepsRow ==
    ASSUME NEW r \in RowSet, NEW d \in BOOLEAN, r.state # "none"
    PROVE  [r EXCEPT !.due = d] # NoRow
BY DueRow, RowState

LEMMA OutsideStays ==
    ASSUME TypeOK, RowsInv, TxnInv, Outside PROVE RowsStay
<1> USE DEF TypeOK, QueueType, StoreType, Hashes
<1>1. CASE CommitWrite
  <2>1. Enqueued(txn.to, txn.before) # NoRow
    BY RowState DEF Enqueued
  <2>2. row'[txn.mem] # NoRow
    BY <1>1, <2>1 DEF CommitWrite, TxnInv
  <2>3. \A m \in Memories \ {txn.mem} :
          row'[m] = row[m] /\ content'[m] = content[m]
    BY <1>1 DEF CommitWrite
  <2>4. QED BY <2>2, <2>3 DEF RowsStay, Queued
<1>2. ASSUME NEW m \in Memories, Delete(m) PROVE RowsStay
  <2>1. content'[m] = None /\ \A n \in Memories \ {m} :
          row'[n] = row[n] /\ content'[n] = content[n]
    BY <1>2 DEF Delete
  <2>2. QED BY <2>1 DEF RowsStay, Queued
<1>3. CASE \/ ResetGraph
           \/ \E m \in Memories : \/ \E c \in Contents : BeginWrite(m, c)
                                  \/ ReplaceFails(m) \/ Cleanup(m)
  BY <1>3, StillStay DEF ResetGraph, BeginWrite, ReplaceFails, Cleanup
<1>4. ASSUME NEW m \in Memories, RowDue(m) PROVE RowsStay
  <2>1. row[m].state # "none" /\ content' = content
    BY <1>4 DEF RowDue
  <2>2. [row[m] EXCEPT !.due = TRUE] # NoRow
    BY <2>1, DueKeepsRow
  <2>3. row' = [row EXCEPT ![m] = [row[m] EXCEPT !.due = TRUE]]
    BY <1>4 DEF RowDue
  <2>4. \A n \in Memories : row'[n] = row[n] \/ row'[n] # NoRow
    BY <2>2, <2>3
  <2>5. QED BY <2>1, <2>4 DEF RowsStay, Queued
<1>5. ASSUME NEW w \in Workers, RenewRows(w) PROVE RowsStay
  <2>1. ASSUME NEW m \in Memories
        PROVE  row'[m] = row[m] \/ row'[m] # NoRow
    <3>1. \/ row'[m] = row[m]
          \/ row[m].token = w /\ row'[m] = [row[m] EXCEPT !.due = FALSE]
      BY <1>5 DEF RenewRows
    <3>2. row[m].token = w => row[m].state # "none"
      BY ConceptAssumption DEF RowsInv, RowInv
    <3>3. QED BY <3>1, <3>2, DueKeepsRow
  <2>2. content' = content BY <1>5 DEF RenewRows
  <2>3. QED BY <2>1, <2>2 DEF RowsStay, Queued
<1>6. QED BY <1>1, <1>2, <1>3, <1>4, <1>5 DEF Outside

\* A step that keeps rows, batch and session.
LEMMA BatchKept ==
    ASSUME NEW w \in Workers, BatchFits(w), RowsStay,
           claimed'[w] = claimed[w], InSession(w) => InSession(w)'
    PROVE  BatchFits(w)'
BY DEF BatchFits, RowsStay, Queued

\* Outside its session a worker has no batch.
LEMMA NoBatch ==
    ASSUME NEW w \in Workers, BatchFits(w), ~InSession(w),
           claimed'[w] = claimed[w]
    PROVE  BatchFits(w)'
BY DEF BatchFits

\* The worker whose step it is takes rows off only as it settles them.
LEMMA OwnBatch ==
    ASSUME TypeOK, RowsInv, NEW w \in Workers, BatchFits(w), Own(w)
    PROVE  BatchFits(w)'
<1> USE DEF TypeOK, AgentType, QueueType, Agents, Hashes
<1>1. CASE Acquire(w) \/ Reap(w)
  BY <1>1, NoBatch DEF Acquire, Reap, InSession
<1>2. CASE Release(w) \/ Crash(w)
  BY <1>2 DEF Release, Crash, Forget, Nothing, BatchFits
<1>3. CASE Thread(w)
  BY <1>3, BatchKept, StillStay
     DEF Thread, Fetch, Check, ExtractFails, Assert, Retract, Raise, InSession
<1>4. CASE Claim(w)
  <2>1. PICK batch \in SUBSET Due :
          /\ row' = [m \in Memories |->
                       IF m \in batch THEN Leased(row[m], w) ELSE row[m]]
          /\ claimed' = [claimed EXCEPT ![w] =
                [m \in Memories |-> IF m \in batch THEN row[m].hash ELSE None]]
          /\ Goto(w, IF batch = {} THEN "leave" ELSE "claimed")
    BY <1>4 DEF Claim
  <2>2. ASSUME NEW m \in Memories, claimed'[w][m] # None
        PROVE  InSession(w)' /\ Queued(m)'
    <3>1. m \in batch BY <2>1, <2>2
    <3>2. Leased(row[m], w) # NoRow BY RowState DEF Leased
    <3>3. row'[m] # NoRow BY <2>1, <3>1, <3>2
    <3>4. QED BY <2>1, <3>3 DEF Goto, InSession, Queued
  <2>3. QED BY <2>2 DEF BatchFits
<1>5. CASE StartBatch(w) \/ EndBatch(w) \/ EndSettle(w) \/ SettleRaises(w)
  <2>1. UNCHANGED <<row, content, claimed>> /\ InSession(w)'
    BY <1>5 DEF StartBatch, EndBatch, EndSettle, SettleRaises, Goto, InSession
  <2>2. QED BY <2>1, BatchKept, StillStay
<1>6. ASSUME NEW m \in Memories,
             \/ SettleDeleted(w, m) \/ SettleSuperseded(w, m)
             \/ SettleIndexed(w, m) \/ SettleFailed(w, m)
      PROVE  BatchFits(w)'
  <2>1. Settled(w, m)
    BY <1>6 DEF SettleDeleted, SettleSuperseded, SettleIndexed, SettleFailed
  <2>2. claimed'[w][m] = None /\ \A n \in Memories \ {m} :
          claimed'[w][n] = claimed[w][n]
    BY <2>1 DEF Settled
  <2>3. \A n \in Memories \ {m} : row'[n] = row[n]
    BY <1>6 DEF SettleDeleted, SettleSuperseded, SettleIndexed, SettleFailed
  <2>4. content' = content /\ pc' = pc BY <2>1 DEF Settled
  <2>5. QED BY <2>2, <2>3, <2>4 DEF BatchFits, Queued, InSession
<1>7. QED
  BY <1>1, <1>2, <1>3, <1>4, <1>5, <1>6, ConceptAssumption DEF Own, Worker

\* Every step keeps what a session is entitled to.
LEMMA BatchStep ==
    ASSUME TypeOK, RowsInv, TxnInv, \A a \in Agents : AgentFits(a),
           \A w \in Workers : BatchFits(w),
           Outside \/ ExpireLock \/ \E a \in Agents : Own(a)
    PROVE  \A w \in Workers : BatchFits(w)'
<1> SUFFICES ASSUME NEW w \in Workers PROVE BatchFits(w)'
  OBVIOUS
<1>1. CASE Outside
  BY <1>1, OutsideStill, OutsideStays, BatchKept DEF InSession
<1>2. CASE ExpireLock
  BY <1>2, StillStay, BatchKept DEF ExpireLock, InSession
<1>3. CASE Own(w) BY <1>3, OwnBatch
<1>4. ASSUME NEW a \in Agents \ {w}, Own(a) PROVE BatchFits(w)'
  <2>1. claimed'[w] = claimed[w] /\ pc'[w] = pc[w]
    BY <1>4, OwnAlone DEF Alone, TypeOK, Agents
  <2>2. CASE ~InSession(w) BY <2>1, <2>2, NoBatch
  <2>3. CASE InSession(w)
    <3>1. lock = w /\ ~InSession(a)
      BY <2>3 DEF AgentFits, Agents
    <3>2. Acquire(a) \/ Reap(a)
      BY <1>4, <3>1, RunningBuilds
         DEF Own, InSession, Release, Crash, Thread, Fetch, Check,
             ExtractFails, Assert, Retract, Raise, Worker, Claim, StartBatch,
             EndBatch, EndSettle, SettleRaises, SettleDeleted,
             SettleSuperseded, SettleIndexed, SettleFailed, Settling,
             Unchanged, Builder, Stamp, Prepare, EndBuild, Retire, Finish,
             AgentFits, ThreadFits, TypeOK
    <3>3. UNCHANGED <<row, content>> BY <3>2 DEF Acquire, Reap
    <3>4. QED BY <2>1, <3>3, StillStay, BatchKept DEF InSession
  <2>4. QED BY <2>2, <2>3
<1>5. QED BY <1>1, <1>2, <1>3, <1>4

\* A transaction that no build has seen stays so when none starts under it.
LEMMA TxnUnseen ==
    ASSUME txn.before = {}, \A b \in Builders : Stamp(b) => txn = NoTxn,
           Outside \/ ExpireLock \/ \E a \in Agents : Own(a)
    PROVE  txn'.before = {}
<1>1. NoTxn.before = {} BY DEF NoTxn
<1>2. CASE UNCHANGED txn BY <1>2
<1>3. CASE CommitWrite BY <1>1, <1>3 DEF CommitWrite
<1>4. CASE \E m \in Memories, c \in Contents : BeginWrite(m, c)
  BY <1>4 DEF BeginWrite
<1>5. CASE \E b \in Builders : Stamp(b) BY <1>1, <1>5 DEF Stamp
<1>6. CASE \/ ResetGraph \/ ExpireLock
           \/ \E m \in Memories :
                 ReplaceFails(m) \/ Delete(m) \/ Cleanup(m) \/ RowDue(m)
           \/ \E w \in Workers : RenewRows(w)
  BY <1>2, <1>6 DEF ResetGraph, ExpireLock, ReplaceFails, Delete, Cleanup,
                    RowDue, RenewRows
<1>7. ASSUME NEW a \in Agents, Own(a), ~(a \in Builders /\ Stamp(a))
      PROVE  txn' = txn
  BY <1>7
     DEF Own, Acquire, Release, Reap, Crash, Thread, Fetch, Check,
         ExtractFails, Assert, Retract, Raise, Worker, Claim, StartBatch,
         EndBatch, EndSettle, SettleRaises, SettleDeleted, SettleSuperseded,
         SettleIndexed, SettleFailed, Settled, Builder, Prepare, EndBuild,
         Retire, Finish
<1>8. QED BY <1>2, <1>3, <1>4, <1>5, <1>6, <1>7 DEF Outside

\* All of it.
LEMMA OrderStep ==
    ASSUME IInv, OrderInv, Next
    PROVE  OrderInv'
<1> SUFFICES ASSUME Orderly' PROVE OrderInv'
  BY DEF OrderInv
<1>1. /\ Orderly
      /\ Outside \/ ExpireLock \/ \E a \in Agents : Own(a)
      /\ \A b \in Builders : Stamp(b) => txn = NoTxn
  BY OrderlyStep DEF IInv, TypeOK
<1>2. /\ txn.before = {}
      /\ \A a \in Agents : AgentFits(a)
      /\ \A w \in Workers : BatchFits(w)
  BY <1>1 DEF OrderInv
<1>3. RowsInv BY DEF IInv, RowsInv
<1>4. txn'.before = {} BY <1>1, <1>2, TxnUnseen
<1>5. \A a \in Agents : AgentFits(a)'
  BY <1>1, <1>2, FitsStep DEF IInv
<1>6. \A w \in Workers : BatchFits(w)'
  BY <1>1, <1>2, <1>3, BatchStep DEF IInv
<1>7. QED BY <1>4, <1>5, <1>6 DEF OrderInv

-----------------------------------------------------------------------------
(* What is deleted stays out of the graph, with workers alone. *)

\* A build that has begun is never idle again.
LEMMA BuildersBegin ==
    ASSUME AgentType, NEW b \in Builders, pc'[b] = "idle",
           Outside \/ ExpireLock \/ \E a \in Agents : Own(a)
    PROVE  pc[b] = "idle"
<1> USE DEF AgentType, Agents
<1>1. CASE Outside \/ ExpireLock
  BY <1>1, OutsideStill DEF ExpireLock
<1>2. ASSUME NEW a \in Agents, a # b, Own(a) PROVE pc[b] = "idle"
  BY <1>2, OwnAlone DEF Alone
<1>3. CASE Own(b)
  <2>1. CASE Thread(b) \/ Reap(b)
    BY <2>1 DEF Thread, Fetch, Check, ExtractFails, Assert, Retract, Raise,
                Reap
  <2>2. CASE Acquire(b) BY <2>2 DEF Acquire
  <2>3. CASE Release(b) \/ Crash(b)
    BY <2>3, ConceptAssumption DEF Release, Crash, Forget, Goto
  <2>4. CASE Builder(b)
    BY <2>4 DEF Builder, Stamp, Prepare, EndBuild, Retire, Finish, Goto
  <2>5. QED BY <1>3, <2>1, <2>2, <2>3, <2>4, ConceptAssumption DEF Own
<1>4. QED BY <1>1, <1>2, <1>3

\* In a calm, only workers take steps, and their batches run to the end.
LEMMA CalmStep ==
    ASSUME TypeOK, NotedInv, OrderInv, Next, Calm'
    PROVE  /\ Calm
           /\ \A a \in Agents : AgentFits(a) /\ thread[a] # "raised"
           /\ \A w \in Workers : BatchFits(w)
           /\ \/ Outside \/ ExpireLock
              \/ \E w \in Workers : /\ Own(w)
                                    /\ ~Crash(w) /\ ~Raise(w)
                                    /\ ~SettleRaises(w)
<1> USE DEF TypeOK
<1>1. used'.kinds \subseteq {"extract", "retract", "reset"} /\ KindsGrow
  BY KindsStep DEF Calm
<1>2. Orderly' BY <1>1 DEF Orderly, Overlapping
<1>3. /\ Orderly
      /\ Outside \/ ExpireLock \/ \E a \in Agents : Own(a)
  BY <1>2, OrderlyStep
<1>4. /\ \A a \in Agents : AgentFits(a)
      /\ \A w \in Workers : BatchFits(w)
  BY <1>3 DEF OrderInv
<1>5. \A b \in Builders : pc[b] = "idle"
  BY <1>3, BuildersBegin DEF Calm
<1>6. \A a \in Agents : thread[a] # "raised"
  BY <1>1 DEF NotedInv, KindsGrow
<1>7. ASSUME NEW b \in Builders, Own(b) PROVE FALSE
  <2>1. thread[b] = "off" /\ pc[b] = "idle" /\ pc'[b] = "idle"
    BY <1>4, <1>5, Resting DEF InSession, Agents, Calm
  <2>2. ~Thread(b) /\ ~Reap(b)
    BY <2>1 DEF Thread, Fetch, Check, ExtractFails, Assert, Retract, Raise,
                Reap
  <2>3. ~Acquire(b)
    BY <2>1 DEF Acquire, Goto, AgentType, Agents
  <2>4. ~Release(b) /\ ~Crash(b)
    BY <2>1 DEF Release, Crash, InSession
  <2>5. ~Builder(b)
    BY <2>1 DEF Builder, Stamp, Prepare, EndBuild, Retire, Finish
  <2>6. QED BY <1>7, <2>2, <2>3, <2>4, <2>5, ConceptAssumption DEF Own
<1>8. \A a \in Agents : ~Crash(a) /\ ~Raise(a) /\ ~SettleRaises(a)
  BY <1>1, FaultNoted DEF Crash, Raise, SettleRaises
<1>9. QED
  BY <1>1, <1>3, <1>4, <1>5, <1>6, <1>7, <1>8 DEF Calm, KindsGrow, Agents

\* Who will find out is in a session of its own.
LEMMA FinderHolds ==
    ASSUME NEW w \in Workers, AgentFits(w), NEW m, WillFindOut(w, m)
    PROVE  InSession(w) /\ lock = w
BY DEF AgentFits, WillFindOut, InSession

\* Only a cleanup marks a memory, or clears its mark.
LeftStays == used'.left = used.left

LEMMA LeftBy == ASSUME UNCHANGED used \/ \E kind : Fault(kind) PROVE LeftStays
BY DEF Fault, LeftStays

\* Outside the agents the graph is only emptied.
LEMMA OutsidePhantom ==
    ASSUME TypeOK, \A a \in Agents : AgentFits(a), Outside, FoundOut,
           EmptyUntilRebuilt
    PROVE  FoundOut' /\ EmptyUntilRebuilt'
<1> USE DEF TypeOK, StoreType
<1>1. \A w \in Workers : /\ Working(w)' <=> Working(w)
                         /\ \A m : WillFindOut(w, m)' <=> WillFindOut(w, m)
  BY OutsideStill DEF Working, WillFindOut
<1>2. ASSUME UNCHANGED <<graph, schema>>, LeftStays,
             gone' \ cleaning' \subseteq gone \ cleaning
      PROVE  FoundOut' /\ EmptyUntilRebuilt'
  BY <1>1, <1>2 DEF FoundOut, EmptyUntilRebuilt, GraphEmpty, LeftStays
<1>3. CASE \/ CommitWrite
           \/ \E m \in Memories : \/ \E c \in Contents : BeginWrite(m, c)
                                  \/ ReplaceFails(m) \/ Delete(m) \/ RowDue(m)
           \/ \E w \in Workers : RenewRows(w)
  BY <1>2, <1>3, LeftBy
     DEF CommitWrite, BeginWrite, ReplaceFails, Delete, RowDue, RenewRows,
         LeftStays
<1>4. CASE ResetGraph
  <2>1. \A w \in Workers : ~Working(w)
    BY <1>4, ConceptAssumption
       DEF ResetGraph, AgentFits, Working, InSession, Agents
  <2>2. GraphEmpty' BY <1>4 DEF ResetGraph, GraphEmpty
  <2>3. gone' \subseteq Memories BY <1>4 DEF ResetGraph
  <2>4. QED
    BY <1>1, <2>1, <2>2, <2>3 DEF EmptyUntilRebuilt, GraphEmpty, FoundOut
<1>5. ASSUME NEW m \in Memories, Cleanup(m)
      PROVE  FoundOut' /\ EmptyUntilRebuilt'
  <2>1. /\ graph'[m] = {} \/ m \in used'.left
        /\ \A n \in Memories \ {m} :
              graph'[n] = graph[n] /\ (n \in used.left => n \in used'.left)
        /\ gone' = gone /\ cleaning' = cleaning \ {m} /\ schema' = schema
    BY <1>5, CleansUpDoes DEF Cleanup
  <2>2. GraphEmpty => GraphEmpty'
    BY <1>5 DEF Cleanup, CleansUp, GraphEmpty
  <2>3. FoundOut'
    <3>1. ASSUME NEW n \in gone' \ (cleaning' \cup used'.left),
                 graph'[n] # {}
          PROVE  \E w \in Workers : WillFindOut(w, n)'
      <4>1. n \in Memories /\ n # m BY <2>1, <3>1
      <4>2. n \in gone \ (cleaning \cup used.left) /\ graph[n] # {}
        BY <2>1, <3>1, <4>1
      <4>3. QED BY <1>1, <4>2 DEF FoundOut
    <3>2. QED BY <3>1 DEF FoundOut
  <2>4. QED BY <1>1, <2>1, <2>2, <2>3 DEF EmptyUntilRebuilt
<1>6. QED BY <1>3, <1>4, <1>5 DEF Outside

\* A worker's thread writes what its worker holds; ...
LEMMA ThreadPhantom ==
    ASSUME TypeOK, NEW w \in Workers, AgentFits(w), CurInv, Thread(w), FoundOut
    PROVE  FoundOut'
<1>1. pc[w] = "build"
  <2>1. thread[w] \in {"fetch", "next", "extract", "retract"}
    BY DEF Thread, Fetch, Check, ExtractFails, Assert, Retract, Raise
  <2>2. QED BY <2>1, RunningBuilds DEF Extracting, TypeOK, Agents
<1>2. UNCHANGED <<pc, claimed, live, gone, cleaning>> /\ LeftStays
  BY LeftBy
     DEF Thread, Fetch, Check, ExtractFails, Assert, Retract, Raise
<1>3. ASSUME NEW m \in Memories, graph'[m] # graph[m]
      PROVE  claimed[w][m] # None
  <2>1. thread[w] \in {"extract", "retract"}
    BY <1>3 DEF Thread, Fetch, Check, ExtractFails, Assert, Retract, Raise
  <2>2. m = cur[w]
    BY <1>3, <2>1 DEF Thread, Fetch, Check, ExtractFails, Assert, Retract,
                      Raise, TypeOK, StoreType
  <2>3. QED BY <2>1, <2>2 DEF AgentFits, ThreadFits, Extracting
<1>4. ASSUME NEW m \in gone' \ (cleaning' \cup used'.left), graph'[m] # {}
      PROVE  \E v \in Workers : WillFindOut(v, m)'
  <2>1. m \in Memories BY <1>2 DEF TypeOK, StoreType
  <2>2. CASE graph'[m] = graph[m]
    BY <1>2, <1>4, <2>2 DEF FoundOut, WillFindOut, LeftStays
  <2>3. CASE graph'[m] # graph[m]
    BY <1>1, <1>2, <1>3, <2>1, <2>3 DEF WillFindOut
  <2>4. QED BY <2>2, <2>3
<1>5. QED BY <1>4 DEF FoundOut

\* ... and the worker does not let go before it has looked.
LEMMA WorkerPhantom ==
    ASSUME IInv, NEW w \in Workers, \A a \in Agents : AgentFits(a),
           thread[w] # "raised", Worker(w), ~SettleRaises(w), FoundOut
    PROVE  FoundOut'
<1> USE DEF IInv, TypeOK, AgentType, Agents
<1>1. Alone(w) /\ UNCHANGED <<gone, cleaning>>
  BY WorkerAlone
     DEF Worker, Claim, StartBatch, EndBatch, EndSettle, SettleDeleted,
         SettleSuperseded, SettleIndexed, SettleFailed, Settled
<1>2. ASSUME NEW v \in Workers \ {w}, NEW m, WillFindOut(v, m)
      PROVE  WillFindOut(v, m)'
  BY <1>1, <1>2 DEF Alone, WillFindOut
<1>3. ASSUME UNCHANGED <<graph, used>>,
             \A m \in gone : WillFindOut(w, m) => WillFindOut(w, m)'
      PROVE  FoundOut'
  BY <1>1, <1>2, <1>3 DEF FoundOut
<1>4. CASE Claim(w) \/ StartBatch(w)
  BY <1>3, <1>4 DEF Claim, StartBatch, WillFindOut
<1>5. CASE EndSettle(w)
  BY <1>3, <1>5 DEF EndSettle, Batch, WillFindOut, StoreType
<1>6. CASE EndBatch(w)
  <2>1. thread[w] = "finished" /\ ~abort[w]
    BY <1>6 DEF EndBatch, AgentFits
  <2>2. /\ pc'[w] = "settle" /\ live'[w] = content
        /\ UNCHANGED <<claimed, graph, used>>
    BY <1>6, <2>1 DEF EndBatch, Goto
  <2>3. QED BY <1>3, <2>2 DEF WillFindOut, GoneInv
<1>7. ASSUME NEW n \in Memories,
             \/ SettleDeleted(w, n) \/ SettleSuperseded(w, n)
             \/ SettleIndexed(w, n) \/ SettleFailed(w, n)
      PROVE  FoundOut'
  <2>1. Settled(w, n) /\ pc[w] = "settle" /\ claimed[w][n] # None
    BY <1>7 DEF SettleDeleted, SettleSuperseded, SettleIndexed, SettleFailed,
                Unchanged, Settling, Batch
  <2>2. /\ UNCHANGED <<pc, live>>
        /\ \A m \in Memories \ {n} : claimed'[w][m] = claimed[w][m]
    BY <2>1 DEF Settled, Hashes
  <2>3. \A m \in Memories \ {n} : graph'[m] = graph[m]
    BY <1>7 DEF SettleDeleted, SettleSuperseded, SettleIndexed, SettleFailed,
                CleansUp, StoreType
  <2>4. ASSUME NEW m \in gone' \ (cleaning' \cup used'.left), m # n,
               graph'[m] # {}
        PROVE  \E v \in Workers : WillFindOut(v, m)'
    <3>0. m \in used.left => m \in used'.left
      <4>1. CASE SettleDeleted(w, n)
        <5>1. m \in Memories BY <1>1, <2>4 DEF StoreType
        <5>2. CleansUp(n) BY <4>1 DEF SettleDeleted
        <5>3. QED BY <2>4, <5>1, <5>2, CleansUpDoes
      <4>2. CASE ~SettleDeleted(w, n)
        BY <1>7, <4>2
           DEF SettleSuperseded, SettleIndexed, SettleFailed, Unchanged
      <4>3. QED BY <4>1, <4>2
    <3>1. m \in Memories /\ m \in gone \ (cleaning \cup used.left)
      BY <1>1, <2>4, <3>0 DEF StoreType
    <3>2. graph[m] # {} BY <2>3, <2>4, <3>1
    <3>3. PICK v \in Workers : WillFindOut(v, m) BY <3>1, <3>2 DEF FoundOut
    <3>4. CASE v = w BY <2>2, <2>4, <3>1, <3>3, <3>4 DEF WillFindOut
    <3>5. QED BY <1>2, <3>3, <3>4
  <2>5. ASSUME n \in gone' \ (cleaning' \cup used'.left) PROVE graph'[n] = {}
    <3>1. CASE SettleDeleted(w, n)
      BY <2>5, <3>1, CleansUpDoes DEF SettleDeleted
    <3>2. CASE ~SettleDeleted(w, n)
      <4>1. live[w][n] # None /\ graph' = graph /\ used' = used
        BY <1>7, <2>1, <3>2
           DEF SettleSuperseded, SettleIndexed, SettleFailed, Unchanged
      <4>2. \A v \in Workers : ~WillFindOut(v, n)
        <5>1. ~WillFindOut(w, n) BY <2>1, <4>1 DEF WillFindOut
        <5>2. lock = w BY <2>1 DEF AgentFits, InSession
        <5>3. QED BY <5>1, <5>2, FinderHolds
      <4>3. QED BY <1>1, <2>5, <4>1, <4>2 DEF FoundOut
    <3>3. QED BY <3>1, <3>2
  <2>6. QED BY <2>4, <2>5 DEF FoundOut
<1>8. QED BY <1>4, <1>5, <1>6, <1>7 DEF Worker

\* While the graph must be rebuilt no worker starts.
LEMMA StaysEmpty ==
    ASSUME TypeOK, NEW w \in Workers, \A a \in Agents : AgentFits(a), Own(w),
           schema = "rebuild", GraphEmpty, \A v \in Workers : ~Working(v)
    PROVE  schema' = schema /\ GraphEmpty' /\ \A v \in Workers : ~Working(v)'
<1> USE DEF TypeOK, AgentType, Agents
<1>1. ~Thread(w)
  <2>1. thread[w] \notin {"fetch", "next", "extract", "retract"}
    BY RunningBuilds DEF Extracting, Working
  <2>2. QED
    BY <2>1 DEF Thread, Fetch, Check, ExtractFails, Assert, Retract, Raise
<1>2. ASSUME NEW v \in Workers \ {w} PROVE ~Working(v)'
  BY OwnAlone DEF Alone, Working
<1>3. CASE Acquire(w) \/ Reap(w) \/ Release(w) \/ Crash(w)
  <2>1. UNCHANGED <<graph, schema>>
    BY <1>3 DEF Acquire, Reap, Release, Crash
  <2>2. ~Working(w)'
    BY <1>3 DEF Acquire, Reap, Release, Crash, Forget, Goto, Working
  <2>3. QED BY <1>2, <2>1, <2>2 DEF GraphEmpty
<1>4. CASE Claim(w) \/ StartBatch(w)
  <2>1. UNCHANGED <<graph, schema>> BY <1>4 DEF Claim, StartBatch
  <2>2. ~Working(w)'
    BY <1>4 DEF Claim, StartBatch, Goto, Working
  <2>3. QED BY <1>2, <2>1, <2>2 DEF GraphEmpty
<1>5. ASSUME \/ EndBatch(w) \/ EndSettle(w) \/ SettleRaises(w)
             \/ \E m \in Memories :
                   \/ SettleDeleted(w, m) \/ SettleSuperseded(w, m)
                   \/ SettleIndexed(w, m) \/ SettleFailed(w, m)
      PROVE  FALSE
  BY <1>5 DEF EndBatch, EndSettle, SettleRaises, SettleDeleted,
              SettleSuperseded, SettleIndexed, SettleFailed, Unchanged,
              Settling, Working
<1>6. QED BY <1>1, <1>3, <1>4, <1>5, ConceptAssumption DEF Own, Worker

\* All of it.
LEMMA PhantomStep ==
    ASSUME IInv, NotedInv, OrderInv, PhantomInv, Next
    PROVE  PhantomInv'
<1> USE DEF IInv
<1>1. SUFFICES ASSUME Calm' PROVE EmptyUntilRebuilt' /\ FoundOut'
  BY DEF PhantomInv
<1>2. /\ \A a \in Agents : AgentFits(a) /\ thread[a] # "raised"
      /\ \A w \in Workers : BatchFits(w)
      /\ \/ Outside \/ ExpireLock
         \/ \E w \in Workers : /\ Own(w)
                               /\ ~Crash(w) /\ ~Raise(w)
                               /\ ~SettleRaises(w)
      /\ Calm
  BY <1>1, CalmStep
<1>3. EmptyUntilRebuilt /\ FoundOut
  BY <1>2 DEF PhantomInv
<1>4. CASE Outside BY <1>2, <1>3, <1>4, OutsidePhantom
<1>5. CASE ExpireLock
  BY <1>3, <1>5
     DEF EmptyUntilRebuilt, ExpireLock, GraphEmpty, Working, FoundOut,
         WillFindOut
<1>6. ASSUME NEW w \in Workers, Own(w),
             ~Crash(w), ~Raise(w), ~SettleRaises(w)
      PROVE  EmptyUntilRebuilt' /\ FoundOut'
  <2>1. schema' = schema
    BY <1>6, ConceptAssumption
       DEF Own, Acquire, Release, Reap, Thread, Fetch, Check, ExtractFails,
           Assert, Retract, Worker, Claim, StartBatch, EndBatch, EndSettle,
           SettleDeleted, SettleSuperseded, SettleIndexed, SettleFailed,
           Settled
  <2>2. EmptyUntilRebuilt'
    BY <1>2, <1>3, <1>6, <2>1, StaysEmpty DEF EmptyUntilRebuilt
  <2>3. CASE Thread(w) BY <1>2, <1>3, <2>2, <2>3, ThreadPhantom DEF Agents
  <2>4. CASE Worker(w)
    BY <1>2, <1>3, <1>6, <2>2, <2>4, WorkerPhantom DEF Agents
  <2>5. CASE Acquire(w) \/ Release(w) \/ Reap(w)
    <3>1. UNCHANGED <<graph, gone, cleaning, used>>
      BY <2>5 DEF Acquire, Release, Reap
    <3>2. ASSUME NEW v \in Workers, NEW m, WillFindOut(v, m)
          PROVE  WillFindOut(v, m)'
      <4>1. v # w
        BY <2>5, <3>2 DEF Acquire, Release, Reap, WillFindOut, InSession
      <4>2. QED
        BY <1>6, <3>2, <4>1, OwnAlone DEF Alone, WillFindOut, TypeOK, Agents
    <3>3. QED BY <1>3, <2>2, <3>1, <3>2 DEF FoundOut
  <2>6. QED
    BY <1>6, <2>2, <2>3, <2>4, <2>5, ConceptAssumption DEF Own
<1>7. QED BY <1>2, <1>4, <1>5, <1>6

-----------------------------------------------------------------------------
(* Nothing is forgotten, in turn.  Around the agents a memory keeps its    *)
(* content, its facts and the marks of its row, or is gone, or is queued   *)
(* anew.                                                                   *)

SameMemory(m) ==
    /\ content'[m] = content[m] /\ graph'[m] = graph[m]
    /\ row'[m].token = row[m].token /\ row'[m].before = row[m].before
    /\ row'[m] = NoRow <=> row[m] = NoRow

QueuedAnew(m) ==
    row'[m] # NoRow /\ row'[m].token = None /\ row'[m].before = {}

\* Renewal and expiry keep the marks of a row.
LEMMA DueKeepsMarks ==
    ASSUME NEW r \in RowSet, NEW d \in BOOLEAN
    PROVE  /\ [r EXCEPT !.due = d].token = r.token
           /\ [r EXCEPT !.due = d].before = r.before
BY DEF RowSet

LEMMA OutsideMemory ==
    ASSUME TypeOK, RowsInv, TxnInv, cleaning \subseteq gone,
           txn.before = {}, Outside, ~ResetGraph, NEW m \in Memories
    PROVE  content'[m] = None \/ SameMemory(m) \/ QueuedAnew(m)
<1> USE DEF TypeOK, QueueType, StoreType, Hashes
<1>1. ASSUME content'[m] = content[m], graph'[m] = graph[m],
             row'[m] = row[m]
      PROVE  SameMemory(m)
  BY <1>1 DEF SameMemory
<1>2. CASE CommitWrite
  <2>1. CASE m = txn.mem
    <3>1. row'[m] = Enqueued(txn.to, {})
      BY <1>2, <2>1 DEF CommitWrite
    <3>2. Enqueued(txn.to, {}) # NoRow /\ Enqueued(txn.to, {}).token = None
          /\ Enqueued(txn.to, {}).before = {}
      BY RowState DEF Enqueued
    <3>3. QED BY <3>1, <3>2 DEF QueuedAnew
  <2>2. CASE m # txn.mem
    BY <1>1, <1>2, <2>2 DEF CommitWrite
  <2>3. QED BY <2>1, <2>2
<1>3. ASSUME NEW n \in Memories, Delete(n)
      PROVE  content'[m] = None \/ SameMemory(m)
  <2>1. CASE m = n BY <1>3, <2>1 DEF Delete
  <2>2. CASE m # n BY <1>1, <1>3, <2>2 DEF Delete
  <2>3. QED BY <2>1, <2>2
<1>4. ASSUME NEW n \in Memories, Cleanup(n)
      PROVE  content'[m] = None \/ SameMemory(m)
  <2>1. CASE m = n
    BY <1>4, <2>1 DEF Cleanup, RowsInv, GoneInv
  <2>2. CASE m # n BY <1>1, <1>4, <2>2, CleansUpDoes DEF Cleanup
  <2>3. QED BY <2>1, <2>2
<1>5. CASE \E n \in Memories : \/ \E c \in Contents : BeginWrite(n, c)
                               \/ ReplaceFails(n)
  BY <1>1, <1>5 DEF BeginWrite, ReplaceFails
<1>6. ASSUME content'[m] = content[m], graph'[m] = graph[m],
             row[m].state # "none",
             \E d \in BOOLEAN : row'[m] = [row[m] EXCEPT !.due = d]
      PROVE  SameMemory(m)
  <2>1. PICK d \in BOOLEAN : row'[m] = [row[m] EXCEPT !.due = d] BY <1>6
  <2>2. row[m] \in RowSet OBVIOUS
  <2>3. row'[m] # NoRow /\ row'[m].token = row[m].token
        /\ row'[m].before = row[m].before
    BY ONLY <2>1, <2>2, <1>6, DueKeepsRow, DueKeepsMarks
  <2>4. QED BY <1>6, <2>3, RowState DEF SameMemory
<1>7. ASSUME NEW n \in Memories, RowDue(n) PROVE SameMemory(m)
  <2>1. UNCHANGED <<content, graph>> /\ row[n].state # "none"
        /\ row' = [row EXCEPT ![n] = [row[n] EXCEPT !.due = TRUE]]
    BY <1>7 DEF RowDue
  <2>2. row'[m] = row[m] \/ (m = n /\ row'[m] = [row[m] EXCEPT !.due = TRUE])
    BY <2>1
  <2>3. QED BY <1>1, <1>6, <2>1, <2>2
<1>8. ASSUME NEW w \in Workers, RenewRows(w) PROVE SameMemory(m)
  <2>1. UNCHANGED <<content, graph>> BY <1>8 DEF RenewRows
  <2>2. \/ row'[m] = row[m]
        \/ row[m].token = w /\ row'[m] = [row[m] EXCEPT !.due = FALSE]
    BY <1>8 DEF RenewRows
  <2>3. row[m].token = w => row[m].state # "none"
    BY ConceptAssumption DEF RowsInv, RowInv
  <2>4. QED BY <1>1, <1>6, <2>1, <2>2, <2>3
<1>9. QED
  BY <1>2, <1>3, <1>4, <1>5, <1>7, <1>8 DEF Outside

\* So such a step keeps the three promises.
LEMMA OutsideTurn ==
    ASSUME IInv, cleaning \subseteq gone, txn.before = {}, Outside,
           \A a \in Agents : AgentFits(a) /\ ReportInv(a),
           \A b \in Builders : RebuildInv(b), NothingForgotten
    PROVE  /\ \A a \in Agents : ReportInv(a)'
           /\ \A b \in Builders : RebuildInv(b)'
           /\ NothingForgotten'
<1> USE DEF IInv
<1>1. UNCHANGED <<agents, lock>> BY OutsideStill
<1>2. CASE ResetGraph
  <2>1. \A a \in Agents : ~InSession(a)
    BY <1>2, ConceptAssumption DEF ResetGraph, AgentFits, Agents
  <2>2. \A a \in Agents : thread'[a] = "off" /\ outcome'[a] = NoOutcome
    BY <1>1, <2>1, Resting
  <2>3. \A a \in Agents : ReportInv(a)'
    BY <2>2 DEF ReportInv, Extracting, NoOutcome
  <2>4. \A b \in Builders : RebuildInv(b)'
    BY <1>1, <2>2 DEF RebuildInv, Extracting, Agents
  <2>5. schema' # "current" BY <1>2 DEF ResetGraph
  <2>6. QED BY <2>3, <2>4, <2>5 DEF NothingForgotten
<1>3. CASE ~ResetGraph
  <2>1. \A m \in Memories :
          content'[m] = None \/ SameMemory(m) \/ QueuedAnew(m)
    BY <1>3, OutsideMemory DEF RowsInv
  <2>2. schema' = schema
    BY <1>3 DEF Outside, CommitWrite, BeginWrite, ReplaceFails, Delete,
                Cleanup, RowDue, RenewRows
  <2>3. ASSUME NEW a \in Agents, NEW m \in Memories, StillOurs(a, m)'
        PROVE  StillOurs(a, m) /\ SameMemory(m)
    <3>1. ~QueuedAnew(m)
      BY <2>3, ConceptAssumption DEF StillOurs, QueuedAnew, Agents
    <3>2. SameMemory(m) BY <2>1, <2>3, <3>1 DEF StillOurs
    <3>3. QED BY <1>1, <2>3, <3>2 DEF StillOurs, SameMemory
  <2>4. \A a \in Agents : ReportInv(a)'
    BY <1>1, <2>3 DEF ReportInv, SameMemory, Indexed, Extracting
  <2>5. ASSUME NEW m \in Memories, content'[m] # None, ~Queued(m)'
        PROVE  /\ content[m] # None /\ ~Queued(m)
               /\ Indexed(m)' <=> Indexed(m)
    BY <2>1, <2>5 DEF QueuedAnew, SameMemory, Queued, Indexed
  <2>6. \A b \in Builders : RebuildInv(b)'
    BY <1>1, <2>5 DEF RebuildInv, Extracting
  <2>7. QED BY <2>2, <2>4, <2>5, <2>6 DEF NothingForgotten
<1>4. QED BY <1>2, <1>3

-----------------------------------------------------------------------------
(* The steps of an agent, in turn. *)

\* Whose step it is is in its session, or enters when nobody is in one.
LEMMA OwnSession ==
    ASSUME AgentType, NEW a \in Agents, AgentFits(a), Own(a)
    PROVE  InSession(a) \/ (Acquire(a) /\ lock = None)
<1>1. CASE Thread(a)
  <2>1. thread[a] \in {"fetch", "next", "extract", "retract"}
    BY <1>1 DEF Thread, Fetch, Check, ExtractFails, Assert, Retract, Raise
  <2>2. QED BY <2>1, RunningBuilds DEF Extracting, InSession
<1>2. CASE Reap(a)
  BY <1>2, Resting DEF Reap
<1>3. CASE Acquire(a) \/ Release(a) \/ Crash(a)
  BY <1>3 DEF Acquire, Release, Crash, InSession
<1>4. CASE a \in Workers /\ Worker(a)
  BY <1>4 DEF Worker, Claim, StartBatch, EndBatch, EndSettle, SettleRaises,
              SettleDeleted, SettleSuperseded, SettleIndexed, SettleFailed,
              Settling, Unchanged, InSession
<1>5. CASE a \in Builders /\ Builder(a)
  BY <1>5 DEF Builder, Stamp, Prepare, EndBuild, Retire, Finish, InSession
<1>6. QED BY <1>1, <1>2, <1>3, <1>4, <1>5 DEF Own

\* The others rest.
LEMMA OthersRest ==
    ASSUME AgentType, \A c \in Agents : AgentFits(c), NEW a \in Agents, Own(a),
           NEW b \in Agents \ {a}
    PROVE  thread'[b] = "off" /\ outcome'[b] = NoOutcome
<1>1. ~InSession(b)
  BY OwnSession, ConceptAssumption DEF AgentFits, Agents
<1>2. thread[b] = "off" /\ outcome[b] = NoOutcome
  BY <1>1, Resting
<1>3. QED BY <1>2, OwnAlone DEF Alone

\* An agent that has not read its memories yet reports nothing.
LEMMA NothingRead ==
    ASSUME NEW a \in Agents, thread'[a] \in {"off", "fetch"},
           outcome'[a] = NoOutcome
    PROVE  ReportInv(a)'
BY DEF ReportInv, Extracting, NoOutcome

\* Only a build's Prepare adds it to the builds that reset the graph.
LEMMA OnlyPrepareRebuilds ==
    ASSUME NEW a \in Agents, Own(a), NEW b, b \in rebuilt'
    PROVE  b \in rebuilt \/ (b = a /\ a \in Builders /\ Prepare(a))
BY DEF Own, Acquire, Release, Reap, Crash, Forget, Thread, Fetch, Check,
       ExtractFails, Assert, Retract, Raise, Worker, Claim, StartBatch,
       EndBatch, EndSettle, SettleRaises, SettleDeleted, SettleSuperseded,
       SettleIndexed, SettleFailed, Settled, Builder, Stamp, Prepare,
       EndBuild, Retire, Finish

\* What an extraction makes of the one memory in hand.
LEMMA ThreadGraph ==
    ASSUME TypeOK, NEW a \in Agents, CurInv, Thread(a)
    PROVE  /\ UNCHANGED threadOnly
           /\ \A m \in Memories : graph'[m] # graph[m] =>
                 thread[a] \in {"extract", "retract"} /\ m = cur[a]
<1>1. UNCHANGED threadOnly
  BY DEF Thread, Fetch, Check, ExtractFails, Assert, Retract, Raise
<1>2. ASSUME NEW m \in Memories, graph'[m] # graph[m]
      PROVE  thread[a] \in {"extract", "retract"} /\ m = cur[a]
  BY <1>2 DEF Thread, Fetch, Check, ExtractFails, Assert, Retract, Raise,
              TypeOK, StoreType
<1>3. QED BY <1>1, <1>2

\* The thread reports what it has seen.
LEMMA ThreadReport ==
    ASSUME TypeOK, CurInv, NEW a \in Agents, AgentFits(a), ReportInv(a),
           Thread(a)
    PROVE  ReportInv(a)'
<1> USE DEF TypeOK, AgentType
<1>1. /\ UNCHANGED threadOnly
      /\ \A m \in Memories : graph'[m] # graph[m] =>
            thread[a] \in {"extract", "retract"} /\ m = cur[a]
  BY ThreadGraph
<1>2. \A m \in Memories : StillOurs(a, m)' <=> StillOurs(a, m)
  BY <1>1 DEF StillOurs
<1>3. CASE Fetch(a)
  <2>1. outcome'[a] = NoOutcome /\ thread'[a] = "next"
    BY <1>3 DEF Fetch, AgentFits, ThreadFits
  <2>2. \A m \in Memories : page'[a][m] # None => page'[a][m] = content'[m]
    BY <1>1, <1>3 DEF Fetch
  <2>3. QED BY <2>1, <2>2 DEF ReportInv, NoOutcome
<1>4. CASE Check(a) \/ Raise(a)
  <2>1. /\ UNCHANGED <<graph, page, outcome>>
        /\ Extracting(a)' => Extracting(a)
        /\ thread'[a] # "retract"
    BY <1>4 DEF Check, Raise, Extracting
  <2>2. QED BY <1>1, <1>2, <2>1 DEF ReportInv, Indexed
<1>5. ASSUME cur[a] \in Memories, thread[a] \in {"extract", "retract"}
      PROVE  /\ page[a][cur[a]] # None
             /\ StillOurs(a, cur[a]) => page[a][cur[a]] = content[cur[a]]
  BY <1>5 DEF AgentFits, ThreadFits, ReportInv, Extracting
<1>6. ASSUME NEW m \in Memories, NEW result, Processed(a, result)
      PROVE  /\ thread'[a] = "next"
             /\ m # cur[a] => /\ outcome'[a][m] = outcome[a][m]
                              /\ page'[a][m] = page[a][m]
             /\ m = cur[a] => outcome'[a][m] = result /\ page'[a][m] = None
  BY <1>6 DEF Processed, Hashes
<1>7. CASE ExtractFails(a)
  <2>1. Processed(a, "failed") /\ thread[a] = "extract"
    BY <1>7 DEF ExtractFails
  <2>2. QED
    BY <1>1, <1>2, <1>6, <2>1, SMTT(30) DEF ReportInv, Indexed, Extracting
<1>8. CASE Assert(a)
  <2>1. /\ thread[a] = "extract" /\ cur[a] \in Memories
        /\ thread'[a] = "retract" /\ UNCHANGED <<cur, page, outcome>>
        /\ graph'[cur[a]] = graph[cur[a]] \cup FactsOf(page[a][cur[a]])
    BY <1>8 DEF Assert, CurInv, StoreType
  <2>2. ASSUME StillOurs(a, cur[a]), Indexed(cur[a]) PROVE Indexed(cur[a])'
    BY <1>1, <1>5, <2>1, <2>2 DEF Indexed
  <2>3. ASSUME NEW m \in Memories, StillOurs(a, m)'
        PROVE  /\ outcome'[a][m] \in {"indexed", "no_entities"} => Indexed(m)'
               /\ page'[a][m] # None => page'[a][m] = content'[m]
    BY <1>1, <1>2, <2>1, <2>2, <2>3 DEF ReportInv, Indexed, Extracting
  <2>4. FactsOf(page'[a][cur'[a]]) \subseteq graph'[cur'[a]]
    BY <2>1
  <2>5. QED BY <2>3, <2>4 DEF ReportInv
<1>9. CASE Retract(a)
  <2>1. /\ thread[a] = "retract" /\ cur[a] \in Memories
        /\ graph'[cur[a]] = graph[cur[a]] \cap FactsOf(page[a][cur[a]])
        /\ \E result : Processed(a, result)
    BY <1>9 DEF Retract, CurInv, StoreType
  <2>2. ASSUME NEW m \in Memories, m = cur[a], StillOurs(a, m)
        PROVE  Indexed(m)'
    <3>1. /\ page[a][m] = content[m]
          /\ FactsOf(page[a][m]) \subseteq graph[m]
      BY <1>5, <2>1, <2>2 DEF ReportInv
    <3>2. graph'[m] = FactsOf(page[a][m])
      BY <2>1, <2>2, <3>1
    <3>3. content' = content BY <1>1
    <3>4. QED BY <3>1, <3>2, <3>3 DEF Indexed
  <2>3. thread'[a] = "next" /\ \A m \in Memories :
          m = cur[a] \/ (outcome'[a][m] = outcome[a][m]
                           /\ page'[a][m] = page[a][m])
    BY <1>6, <2>1
  <2>4. page'[a][cur[a]] = None BY <1>6, <2>1
  <2>5. ASSUME NEW m \in Memories, m # cur[a]
        PROVE  Indexed(m)' <=> Indexed(m)
    BY <1>1, <2>5 DEF Indexed
  <2>6. ASSUME NEW m \in Memories, StillOurs(a, m)'
        PROVE  /\ outcome'[a][m] \in {"indexed", "no_entities"} => Indexed(m)'
               /\ page'[a][m] # None => page'[a][m] = content'[m]
    <3>1. CASE m = cur[a] BY <1>2, <2>2, <2>4, <2>6, <3>1
    <3>2. CASE m # cur[a]
      BY <1>1, <1>2, <2>1, <2>3, <2>5, <2>6, <3>2 DEF ReportInv, Extracting
    <3>3. QED BY <3>1, <3>2
  <2>7. QED BY <2>3, <2>6 DEF ReportInv
<1>10. QED BY <1>3, <1>4, <1>7, <1>8, <1>9 DEF Thread

\* Settling and retiring take off only what has been reported.
LEMMA SettleReport ==
    ASSUME TypeOK, NEW w \in Workers, AgentFits(w), ReportInv(w),
           NEW m \in Memories,
           \/ SettleDeleted(w, m) \/ SettleSuperseded(w, m)
           \/ SettleIndexed(w, m) \/ SettleFailed(w, m)
    PROVE  ReportInv(w)'
<1> USE DEF TypeOK, AgentType, Agents, Hashes
<1>1. Settled(w, m) /\ pc[w] = "settle"
  BY DEF SettleDeleted, SettleSuperseded, SettleIndexed, SettleFailed,
         Unchanged, Settling
<1>2. UNCHANGED <<content, outcome, thread, page>> /\ thread[w] = "finished"
  BY <1>1 DEF Settled, AgentFits, ThreadFits
<1>3. ~StillOurs(w, m)'
  BY <1>1 DEF Settled, StillOurs
<1>4. ASSUME NEW n \in Memories \ {m}
      PROVE  /\ graph'[n] = graph[n] /\ row'[n] = row[n]
             /\ claimed'[w][n] = claimed[w][n]
  BY <1>1, <1>4
     DEF SettleDeleted, SettleSuperseded, SettleIndexed, SettleFailed,
         CleansUp, Settled, StoreType, QueueType
<1>5. QED
  BY <1>2, <1>3, <1>4, SMTT(30) DEF ReportInv, StillOurs, Indexed, Extracting

\* Every step of an agent keeps its own report true.
LEMMA OwnReport ==
    ASSUME IInv, NEW a \in Agents, AgentFits(a), ReportInv(a), Own(a)
    PROVE  ReportInv(a)'
<1> USE DEF IInv, TypeOK
<1>1. AgentFits(a)' BY OwnFits
<1>2. ASSUME thread'[a] \in {"off", "fetch"} PROVE ReportInv(a)'
  BY <1>1, <1>2, NothingRead DEF AgentFits, ThreadFits
<1>3. ASSUME UNCHANGED <<content, row, graph, claimed, thread, cur, page,
                         outcome>>
      PROVE  ReportInv(a)'
  BY <1>3 DEF ReportInv, StillOurs, Indexed, Extracting
<1>4. CASE Acquire(a) \/ Release(a) \/ Crash(a) \/ Reap(a)
  <2>1. thread'[a] = "off"
    BY <1>4 DEF Acquire, Release, Crash, Reap, ForgetThread, AgentType
  <2>2. QED BY <1>2, <2>1
<1>5. CASE Thread(a) BY <1>5, ThreadReport
<1>6. ASSUME a \in Workers, Worker(a) PROVE ReportInv(a)'
  <2>1. CASE Claim(a) \/ StartBatch(a)
    <3>1. thread[a] = "off"
      BY <2>1 DEF Claim, StartBatch, AgentFits, ThreadFits
    <3>2. thread'[a] \in {"off", "fetch"}
      BY <2>1, <3>1 DEF Claim, StartBatch, StartThread, AgentType
    <3>3. QED BY <1>2, <3>2
  <2>2. CASE EndBatch(a) \/ EndSettle(a) \/ SettleRaises(a)
    BY <1>3, <2>2 DEF EndBatch, EndSettle, SettleRaises
  <2>3. QED BY <1>6, <2>1, <2>2, SettleReport DEF Worker
<1>7. ASSUME a \in Builders, Builder(a) PROVE ReportInv(a)'
  <2>1. CASE Stamp(a) \/ Prepare(a)
    <3>1. thread[a] = "off"
      BY <2>1 DEF Stamp, Prepare, AgentFits, ThreadFits
    <3>2. thread'[a] \in {"off", "fetch"}
      BY <2>1, <3>1 DEF Stamp, Prepare, StartThread, AgentType
    <3>3. QED BY <1>2, <3>2
  <2>2. CASE EndBuild(a) \/ Finish(a)
    BY <1>3, <2>2 DEF EndBuild, Finish
  <2>3. CASE Retire(a)
    <3>1. UNCHANGED <<content, graph, thread, cur, page, outcome>>
      BY <2>3 DEF Retire
    <3>2. ASSUME NEW m \in Memories, StillOurs(a, m)' PROVE StillOurs(a, m)
      <4>1. row'[m] = row[m] \/ a \in row[m].before
        BY <2>3 DEF Retire, Covered
      <4>2. QED
        BY <1>7, <3>1, <3>2, <4>1, ConceptAssumption DEF StillOurs
    <3>3. QED BY <3>1, <3>2 DEF ReportInv, Indexed, Extracting
  <2>4. QED BY <1>7, <2>1, <2>2, <2>3 DEF Builder
<1>8. QED BY <1>4, <1>5, <1>6, <1>7 DEF Own

\* A build takes off the queue what it has indexed and nobody has written
\* since it began.
LEMMA RetiresIndexed ==
    ASSUME NEW b \in Builders, ReportInv(b), Retire(b),
           NEW m \in Memories, content'[m] # None, ~Queued(m)', Queued(m)
    PROVE  Indexed(m)'
<1>1. Covered(b, m)
  BY DEF Retire, Queued
<1>2. content' = content /\ graph' = graph
  BY DEF Retire
<1>3. StillOurs(b, m)
  BY <1>1, <1>2, ConceptAssumption DEF Covered, StillOurs
<1>4. Indexed(m)
  BY <1>1, <1>3 DEF ReportInv, Covered
<1>5. QED BY <1>2, <1>4 DEF Indexed

\* A build that reset the graph misses nothing.
LEMMA OwnRebuild ==
    ASSUME IInv, NEW b \in Builders, AgentFits(b), ReportInv(b),
           RebuildInv(b), Own(b), ~(b \in rebuilt /\ ExtractFails(b))
    PROVE  RebuildInv(b)'
<1> USE DEF IInv, TypeOK, Agents
<1>1. SUFFICES ASSUME b \in rebuilt'
               PROVE  /\ pc'[b] \notin {"idle", "stamp", "prepare"}
                      /\ thread'[b] = "fetch" => scope'[b] = Memories
                      /\ \A m \in Memories :
                            content'[m] # None /\ ~Queued(m)' =>
                            /\ thread'[b] = "finished" => Indexed(m)'
                            /\ Extracting(b)' =>
                                  page'[b][m] # None \/ Indexed(m)'
  BY DEF RebuildInv
<1>2. b \notin Workers BY ConceptAssumption
<1>3. CASE Prepare(b)
  <2>1. pc[b] = "prepare" BY <1>3 DEF Prepare
  <2>2. b \notin rebuilt BY <2>1 DEF RebuildInv
  <2>3. Everything(b) /\ pc'[b] = "build" /\ thread'[b] = "fetch"
        /\ scope' = scope
    BY <1>1, <1>3, <2>2 DEF Prepare, Goto, StartThread, AgentType
  <2>4. QED BY <2>3 DEF Everything, Extracting
<1>4. CASE ~Prepare(b)
  <2>1. b \in rebuilt BY <1>1, <1>4, OnlyPrepareRebuilds
  <2>2. /\ pc[b] \notin {"idle", "stamp", "prepare"}
        /\ thread[b] = "fetch" => scope[b] = Memories
        /\ \A m \in Memories : content[m] # None /\ ~Queued(m) =>
              /\ thread[b] = "finished" => Indexed(m)
              /\ Extracting(b) => page[b][m] # None \/ Indexed(m)
    BY <2>1 DEF RebuildInv
  <2>3. CASE Acquire(b) \/ Release(b) \/ Crash(b) \/ Stamp(b)
    BY <1>1, <2>2, <2>3, ConceptAssumption
       DEF Acquire, Release, Crash, Stamp, Forget
  <2>4. CASE Reap(b)
    BY <2>2, <2>4 DEF Reap, ForgetThread, AgentType, Extracting
  <2>5. CASE EndBuild(b) \/ Finish(b)
    <3>1. UNCHANGED <<content, row, graph, thread, page, scope>>
      BY <2>5 DEF EndBuild, Finish
    <3>2. pc'[b] \in {"retire", "leave"}
      BY <2>5 DEF EndBuild, Finish, Goto, AgentType
    <3>3. QED BY <2>2, <3>1, <3>2 DEF Queued, Indexed, Extracting
  <2>6. CASE Retire(b)
    <3>1. /\ thread[b] = "finished" /\ pc'[b] = "finish"
          /\ UNCHANGED <<content, graph, thread, page, scope>>
      BY <2>6 DEF Retire, Goto, AgentType, AgentFits, ThreadFits
    <3>2. ASSUME NEW m \in Memories, content'[m] # None, ~Queued(m)'
          PROVE  Indexed(m)'
      <4>1. CASE Queued(m) BY <2>6, <3>2, <4>1, RetiresIndexed
      <4>2. CASE ~Queued(m) BY <2>2, <3>1, <3>2, <4>2 DEF Indexed
      <4>3. QED BY <4>1, <4>2
    <3>3. QED BY <3>1, <3>2
  <2>7. CASE Thread(b)
    <3>1. UNCHANGED threadOnly BY <2>7, ThreadGraph
    <3>2. SUFFICES ASSUME NEW m \in Memories, content[m] # None, ~Queued(m)
                   PROVE  /\ thread'[b] = "finished" => Indexed(m)'
                          /\ Extracting(b)' =>
                                page'[b][m] # None \/ Indexed(m)'
      <4>1. thread'[b] # "fetch"
        BY <2>7 DEF Thread, Fetch, Check, ExtractFails, Assert, Retract,
                    Raise, Processed, AgentType
      <4>2. QED BY <2>2, <3>1, <4>1 DEF Queued
    <3>3. CASE Fetch(b)
      BY <1>2, <2>2, <3>2, <3>3 DEF Fetch, AgentType
    <3>4. CASE Check(b)
      BY <2>2, <3>1, <3>2, <3>4
         DEF Check, Unread, Extracting, Indexed, AgentType
    <3>5. CASE Raise(b)
      BY <3>5 DEF Raise, AgentType, Extracting
    <3>6. CASE Assert(b)
      <4>1. /\ thread[b] = "extract" /\ thread'[b] = "retract"
            /\ page' = page
        BY <3>6 DEF Assert, AgentType
      <4>2. CASE m = cur[b]
        BY <4>1, <4>2 DEF AgentFits, ThreadFits
      <4>3. CASE m # cur[b]
        BY <2>2, <2>7, <3>1, <3>2, <4>1, <4>3, ThreadGraph
           DEF Extracting, Indexed
      <4>4. QED BY <4>2, <4>3
    <3>7. CASE Retract(b)
      <4>1. /\ thread[b] = "retract" /\ cur[b] \in Memories
            /\ graph'[cur[b]] = graph[cur[b]] \cap FactsOf(page[b][cur[b]])
            /\ \E result : Processed(b, result)
        BY <3>7 DEF Retract, CurInv, StoreType
      <4>2. thread'[b] = "next" BY <4>1 DEF Processed, AgentType
      <4>3. CASE m = cur[b]
        <5>1. StillOurs(b, m) BY <1>2, <3>2 DEF StillOurs, Queued
        <5>2. page[b][m] = content[m] /\ FactsOf(page[b][m]) \subseteq graph[m]
          BY <4>1, <4>3, <5>1
             DEF ReportInv, AgentFits, ThreadFits, Extracting
        <5>3. graph'[m] = FactsOf(content[m]) BY <4>1, <4>3, <5>2
        <5>4. QED BY <3>1, <5>3 DEF Indexed
      <4>4. CASE m # cur[b]
        <5>1. page'[b][m] = page[b][m]
          BY <4>1, <4>4 DEF Processed, AgentType, Hashes
        <5>2. QED
          BY <2>2, <2>7, <3>1, <3>2, <4>1, <4>2, <4>4, <5>1, ThreadGraph
             DEF Extracting, Indexed
      <4>5. QED BY <4>3, <4>4
    <3>8. QED
      BY <2>1, <2>7, <3>3, <3>4, <3>5, <3>6, <3>7 DEF Thread
  <2>8. QED
    BY <1>2, <1>4, <2>3, <2>4, <2>5, <2>6, <2>7 DEF Own, Builder
<1>5. QED BY <1>3, <1>4

\* A worker's thread writes only what is queued; a build's, where nothing is
\* queued, writes what is there already.
LEMMA ThreadForgets ==
    ASSUME IInv, NEW a \in Agents, AgentFits(a), ReportInv(a),
           a \in Workers => BatchFits(a), Thread(a), NothingForgotten
    PROVE  NothingForgotten'
<1> USE DEF IInv, TypeOK
<1>1. /\ UNCHANGED threadOnly
      /\ \A m \in Memories : graph'[m] # graph[m] =>
            thread[a] \in {"extract", "retract"} /\ m = cur[a]
  BY ThreadGraph
<1>2. SUFFICES ASSUME NEW m \in Memories, content[m] # None, ~Queued(m),
                      Indexed(m), graph'[m] # graph[m]
               PROVE  FALSE
  BY <1>1 DEF NothingForgotten, Queued, Indexed
<1>3. thread[a] \in {"extract", "retract"} /\ m = cur[a]
  BY <1>1, <1>2
<1>4. page[a][m] # None
  BY <1>3 DEF AgentFits, ThreadFits
<1>5. a \notin Workers
  BY <1>2, <1>3, <1>4 DEF BatchFits, AgentFits, ThreadFits, Extracting
<1>6. StillOurs(a, m)
  BY <1>2, <1>5 DEF StillOurs, Queued
<1>7. FactsOf(page[a][m]) = graph[m]
  BY <1>2, <1>3, <1>4, <1>6 DEF ReportInv, Extracting, Indexed
<1>8. graph'[m] = graph[m]
  <2>1. CASE ExtractFails(a)
    <3>1. PICK wrote \in SUBSET FactsOf(page[a][m]) :
            graph'[m] = graph[m] \cup wrote
      BY <1>3, <2>1 DEF ExtractFails, StoreType
    <3>2. QED BY <1>7, <3>1
  <2>2. CASE Assert(a)
    <3>1. graph'[m] = graph[m] \cup FactsOf(page[a][m])
      BY <1>3, <2>2 DEF Assert, StoreType
    <3>2. QED BY <1>7, <3>1
  <2>3. CASE Retract(a)
    <3>1. graph'[m] = graph[m] \cap FactsOf(page[a][m])
      BY <1>3, <2>3 DEF Retract, StoreType
    <3>2. QED BY <1>7, <3>1
  <2>4. CASE Fetch(a) \/ Check(a) \/ Raise(a)
    BY <2>4 DEF Fetch, Check, Raise
  <2>5. QED BY <2>1, <2>2, <2>3, <2>4 DEF Thread
<1>9. QED BY <1>2, <1>8

\* A worker completes what its thread has indexed and nobody has written since.
LEMMA SettleForgets ==
    ASSUME IInv, NEW w \in Workers, ReportInv(w), NothingForgotten,
           NEW m \in Memories,
           \/ SettleDeleted(w, m) \/ SettleSuperseded(w, m)
           \/ SettleIndexed(w, m) \/ SettleFailed(w, m)
    PROVE  NothingForgotten'
<1> USE DEF IInv, TypeOK, Hashes
<1>1. Settled(w, m) /\ pc[w] = "settle" /\ claimed[w][m] # None
  BY DEF SettleDeleted, SettleSuperseded, SettleIndexed, SettleFailed,
         Unchanged, Settling, Batch
<1>2. UNCHANGED <<content, schema>>
  BY <1>1 DEF Settled
<1>3. \A n \in Memories \ {m} : graph'[n] = graph[n] /\ row'[n] = row[n]
  BY DEF SettleDeleted, SettleSuperseded, SettleIndexed, SettleFailed,
         CleansUp, StoreType, QueueType
<1>4. SUFFICES ASSUME content[m] # None, row'[m] = NoRow, schema = "current"
               PROVE  Indexed(m)'
  BY <1>2, <1>3 DEF NothingForgotten, Queued, Indexed
<1>5. graph'[m] = graph[m]
  <2>1. CASE SettleDeleted(w, m)
    BY <1>1, <1>4, <2>1 DEF SettleDeleted, ClaimedInv, GoneInv
  <2>2. CASE ~SettleDeleted(w, m)
    BY <2>2 DEF SettleSuperseded, SettleIndexed, SettleFailed
  <2>3. QED BY <2>1, <2>2
<1>6. CASE row[m] = NoRow
  BY <1>2, <1>4, <1>5, <1>6 DEF NothingForgotten, Queued, Indexed
<1>7. CASE row[m] # NoRow
  <2>1. ~SettleFailed(w, m)
    <3>1. SUFFICES ASSUME SettleFailed(w, m) PROVE FALSE
      OBVIOUS
    <3>2. row[m].token = w /\ row'[m] = Failed(row[m])
      BY <1>4, <1>7, <3>1 DEF SettleFailed, QueueType
    <3>3. Failed(row[m]) # NoRow BY RowState DEF Failed
    <3>4. QED BY <1>4, <3>2, <3>3
  <2>2. ~SettleDeleted(w, m)
    BY <1>1, <1>4 DEF SettleDeleted, ClaimedInv, GoneInv
  <2>3. SettleIndexed(w, m) /\ Completes(w, m)
    BY <1>4, <1>7, <2>1, <2>2
       DEF SettleSuperseded, SettleIndexed, QueueType
  <2>4. StillOurs(w, m)
    BY <1>1, <1>4, <2>3 DEF Completes, StillOurs
  <2>5. Indexed(m)
    BY <2>3, <2>4 DEF ReportInv, SettleIndexed
  <2>6. QED BY <1>2, <1>5, <2>5 DEF Indexed
<1>8. QED BY <1>6, <1>7

LEMMA WorkerForgets ==
    ASSUME IInv, NEW w \in Workers, ReportInv(w), NothingForgotten, Worker(w)
    PROVE  NothingForgotten'
<1>1. CASE Claim(w)
  <2>1. UNCHANGED <<content, graph, schema>> BY <1>1 DEF Claim
  <2>2. \A m : Leased(row[m], w) # NoRow BY RowState DEF Leased
  <2>3. \A m \in Memories : row'[m] = NoRow => row[m] = NoRow
    BY <1>1, <2>2 DEF Claim
  <2>4. QED BY <2>1, <2>3 DEF NothingForgotten, Queued, Indexed
<1>2. CASE StartBatch(w) \/ EndBatch(w) \/ EndSettle(w) \/ SettleRaises(w)
  BY <1>2 DEF StartBatch, EndBatch, EndSettle, SettleRaises,
              NothingForgotten, Queued, Indexed
<1>3. QED BY <1>1, <1>2, SettleForgets DEF Worker

\* A build marks the graph current only after it has rebuilt all of it.
LEMMA BuilderForgets ==
    ASSUME IInv, NEW b \in Builders, AgentFits(b), ReportInv(b),
           RebuildInv(b), NothingForgotten, Builder(b)
    PROVE  NothingForgotten'
<1> USE DEF IInv, TypeOK
<1>1. CASE Stamp(b)
  <2>1. UNCHANGED <<content, graph, schema>> BY <1>1 DEF Stamp
  <2>2. \A m \in Memories :
          \/ row'[m] = row[m]
          \/ row'[m] = [row[m] EXCEPT !.before = @ \cup {b}]
    BY <1>1 DEF Stamp
  <2>3. ASSUME NEW m \in Memories, row'[m] = NoRow PROVE row[m] = NoRow
    <3>1. row[m] \in RowSet BY DEF QueueType
    <3>2. [row[m] EXCEPT !.before = @ \cup {b}] # NoRow
      BY <3>1, SeenRow, NoRowType
    <3>3. QED BY <2>2, <2>3, <3>2
  <2>4. QED BY <2>1, <2>3 DEF NothingForgotten, Queued, Indexed
<1>2. CASE Prepare(b)
  BY <1>2 DEF Prepare, NothingForgotten, Queued, Indexed
<1>3. CASE EndBuild(b)
  BY <1>3 DEF EndBuild, NothingForgotten, Queued, Indexed
<1>4. CASE Retire(b)
  <2>1. UNCHANGED <<content, graph, schema>> BY <1>4 DEF Retire
  <2>2. ASSUME NEW m \in Memories, content'[m] # None, ~Queued(m)',
               schema' = "current"
        PROVE  Indexed(m)'
    <3>1. CASE Queued(m) BY <1>4, <2>2, <3>1, RetiresIndexed
    <3>2. CASE ~Queued(m)
      BY <2>1, <2>2, <3>2 DEF NothingForgotten, Indexed
    <3>3. QED BY <3>1, <3>2
  <2>3. QED BY <2>2 DEF NothingForgotten
<1>5. CASE Finish(b)
  <2>1. /\ UNCHANGED <<content, graph, row>>
        /\ schema' = schema \/ b \in rebuilt
    BY <1>5 DEF Finish
  <2>2. thread[b] = "finished"
    BY <1>5 DEF Finish, AgentFits, ThreadFits
  <2>3. b \in rebuilt => \A m \in Memories :
          content[m] # None /\ ~Queued(m) => Indexed(m)
    BY <2>2 DEF RebuildInv
  <2>4. QED BY <2>1, <2>3 DEF NothingForgotten, Queued, Indexed
<1>6. QED BY <1>1, <1>2, <1>3, <1>4, <1>5 DEF Builder

\* Every step of an agent keeps the three promises.
LEMMA OwnTurn ==
    ASSUME IInv, NEW a \in Agents, Own(a),
           \A c \in Agents : AgentFits(c) /\ ReportInv(c),
           \A w \in Workers : BatchFits(w),
           \A b \in Builders : RebuildInv(b), NothingForgotten,
           ~(rebuilt # {} /\ ExtractFails(a))
    PROVE  /\ \A c \in Agents : ReportInv(c)'
           /\ \A b \in Builders : RebuildInv(b)'
           /\ NothingForgotten'
<1> USE DEF IInv, TypeOK
<1>1. ASSUME NEW c \in Agents \ {a} PROVE ReportInv(c)'
  BY OthersRest, NothingRead
<1>2. ASSUME NEW b \in Builders, b # a PROVE RebuildInv(b)'
  <2>1. thread'[b] = "off" BY <1>2, OthersRest DEF Agents
  <2>2. pc'[b] = pc[b] BY <1>2, OwnAlone DEF Alone, Agents
  <2>3. b \in rebuilt' => b \in rebuilt BY <1>2, OnlyPrepareRebuilds
  <2>4. QED BY <2>1, <2>2, <2>3 DEF RebuildInv, Extracting
<1>3. ReportInv(a)' BY OwnReport
<1>4. a \in Builders => RebuildInv(a)' BY OwnRebuild
<1>5. NothingForgotten'
  <2>1. CASE Acquire(a) \/ Release(a) \/ Crash(a) \/ Reap(a)
    BY <2>1 DEF Acquire, Release, Crash, Reap, NothingForgotten, Queued,
                Indexed
  <2>2. QED
    BY <2>1, ThreadForgets, WorkerForgets, BuilderForgets DEF Own
<1>6. QED BY <1>1, <1>2, <1>3, <1>4, <1>5

\* All of it.
LEMMA TurnStep ==
    ASSUME IInv, NotedInv, OrderInv, TurnInv, Next
    PROVE  TurnInv'
<1> SUFFICES ASSUME InTurn'
             PROVE  /\ \A a \in Agents : ReportInv(a)'
                    /\ \A b \in Builders : RebuildInv(b)'
                    /\ NothingForgotten'
  BY DEF TurnInv
<1>1. KindsGrow BY KindsStep DEF IInv, TypeOK
<1>2. /\ Orderly
      /\ Outside \/ ExpireLock \/ \E a \in Agents : Own(a)
  BY OrderlyStep DEF InTurn, IInv, TypeOK
<1>3. InTurn BY <1>1, <1>2 DEF InTurn, KindsGrow
<1>4. /\ txn.before = {} /\ cleaning \subseteq gone
      /\ \A a \in Agents : AgentFits(a) /\ ReportInv(a)
      /\ \A w \in Workers : BatchFits(w)
      /\ \A b \in Builders : RebuildInv(b)
      /\ NothingForgotten
  BY <1>2, <1>3 DEF OrderInv, TurnInv, NotedInv
<1>5. CASE Outside BY <1>4, <1>5, OutsideTurn
<1>6. CASE ExpireLock
  <2>1. /\ \A a \in Agents : ReportInv(a)' <=> ReportInv(a)
        /\ \A b \in Builders : RebuildInv(b)' <=> RebuildInv(b)
    BY <1>6 DEF ExpireLock, ReportInv, RebuildInv, StillOurs, Indexed,
                Extracting, Queued
  <2>2. NothingForgotten' <=> NothingForgotten
    BY <1>6 DEF ExpireLock, NothingForgotten, Indexed, Queued
  <2>3. QED BY <1>4, <2>1, <2>2
<1>7. ASSUME NEW a \in Agents, Own(a)
      PROVE  /\ \A c \in Agents : ReportInv(c)'
             /\ \A b \in Builders : RebuildInv(b)'
             /\ NothingForgotten'
  <2>1. ~(rebuilt # {} /\ ExtractFails(a))
    BY <1>1, FaultNoted DEF ExtractFails, NotedInv, InTurn, KindsGrow
  <2>2. QED BY <1>4, <1>7, <2>1, OwnTurn
<1>8. QED BY <1>2, <1>5, <1>6, <1>7

-----------------------------------------------------------------------------
(* The invariant of the two promises. *)

LEMMA InitForget == Init => ForgetInv
<1> SUFFICES ASSUME Init PROVE ForgetInv
  OBVIOUS
<1>1. IInv BY InitInv
<1>2. NotedInv BY DEF Init, NotedInv
<1>3. OrderInv
  <2>1. \A a \in Agents : AgentFits(a)
    BY DEF Init, AgentFits, ThreadFits, InSession, Extracting
  <2>2. \A w \in Workers : BatchFits(w)
    BY DEF Init, BatchFits, Nothing, Agents
  <2>3. txn.before = {} BY DEF Init, NoTxn
  <2>4. QED BY <2>1, <2>2, <2>3 DEF OrderInv
<1>4. PhantomInv BY DEF Init, PhantomInv, EmptyUntilRebuilt, FoundOut
<1>5. TurnInv
  BY DEF Init, TurnInv, ReportInv, RebuildInv, NothingForgotten, StillOurs,
         Nothing, Extracting
<1>6. QED BY <1>1, <1>2, <1>3, <1>4, <1>5 DEF ForgetInv

LEMMA StillForget == ForgetInv /\ UNCHANGED vars => ForgetInv'
<1> SUFFICES ASSUME ForgetInv, UNCHANGED vars PROVE ForgetInv'
  OBVIOUS
<1> USE DEF vars, ForgetInv
<1>1. IInv' BY StepInv
<1>2. NotedInv' BY DEF NotedInv
<1>3. OrderInv'
  BY DEF OrderInv, Orderly, AgentFits, ThreadFits, InSession, Extracting,
         BatchFits, Queued
<1>4. PhantomInv'
  BY DEF PhantomInv, Calm, EmptyUntilRebuilt, GraphEmpty, Working, FoundOut,
         WillFindOut
<1>5. TurnInv'
  BY DEF TurnInv, InTurn, Orderly, ReportInv, RebuildInv, NothingForgotten,
         StillOurs, Indexed, Queued, Extracting
<1>6. QED BY <1>1, <1>2, <1>3, <1>4, <1>5

LEMMA StepForget == ForgetInv /\ [Next]_vars => ForgetInv'
<1>1. ForgetInv /\ Next => ForgetInv'
  BY StepInv, NotedStep, OrderStep, PhantomStep, TurnStep
     DEF ForgetInv, IInv
<1>2. QED BY <1>1, StillForget

\* It holds throughout.
LEMMA ForgetInvariance == Spec => []ForgetInv
BY InitForget, StepForget, PTL DEF Spec

\* Workers leave no phantom: while their batches run to the end and no manual
\* build has begun, a deleted memory is cited by nothing once its cleanup is
\* done and nobody holds it any more (the withdrawal of a deletion found at
\* settling, ConceptIndexWorker._process) - unless the last cleanup of that
\* very memory failed (_retract).
THEOREM NoPhantoms == Spec => []WorkersLeaveNoPhantom
<1>1. ForgetInv => WorkersLeaveNoPhantom
  <2>1. SUFFICES ASSUME ForgetInv, Calm PROVE NoPhantom
    BY DEF WorkersLeaveNoPhantom
  <2>2. FoundOut BY <2>1 DEF ForgetInv, PhantomInv
  <2>3. QED BY <2>2 DEF FoundOut, NoPhantom, Busy, WillFindOut, Agents
<1>2. QED BY <1>1, ForgetInvariance, PTL

\* Nothing is forgotten in turn: without overlapping writers of the graph, a
\* memory that is not queued is in a current graph as it is now, whatever
\* crashes, errors, deletes and rewrites come between (concept_queue.complete,
\* retire_indexed, _finish_build_run).
THEOREM ForgetsNothing == Spec => []ForgetsNothingInTurn
<1>1. ForgetInv => ForgetsNothingInTurn
  BY DEF ForgetInv, TurnInv, ForgetsNothingInTurn
<1>2. QED BY <1>1, ForgetInvariance, PTL
=============================================================================
