-------------------------- MODULE IndexJobsProofs --------------------------
(* The jobs on the code graphs keep their invariant, in whatever system     *)
(* they are composed with pollers or links.                                 *)
EXTENDS IndexJobs, TLAPS

LEMMA UsedTyped ==
    ASSUME JobsInv, FaultOrNone
    PROVE  /\ used' \in [count : 0 .. MaxFaults, marks : SUBSET Range(Mark)]
           /\ used.marks \subseteq used'.marks
BY IndexJobsAssumption
   DEF JobsInv, JobsTypeOK, FaultOrNone, Fault, Range

\* What is left to a child is an operation on the graph of a root.
LEMMA UnderWayTyped ==
    ASSUME JobsTypeOK, NEW J \in SUBSET Jobs
    PROVE  UnderWay(J) \subseteq Operations
BY DEF JobsTypeOK, UnderWay, Left, Operations

LEMMA EditKeeps ==
    ASSUME JobsInv, FaultOrNone, NEW r \in Roots, Edit(r) PROVE JobsInv'
<1> USE UsedTyped DEF JobsInv, JobsTypeOK, Edit, store, blocks, job, past
<1>1. JobsTypeOK' BY IndexJobsAssumption DEF Stages, States
<1>2. GateIsHeld' BY DEF GateIsHeld, InGate
<1>3. StaysEmpty' /\ IsLatest'
  BY DEF GateIsHeld, InGate, StaysEmpty, IsLatest
<1>4. TombstoneMeansGone' BY DEF StaysEmpty, TombstoneMeansGone
<1>5. BlockAgrees' BY DEF BlockAgrees, IsLatest
<1>6. QED BY <1>1, <1>2, <1>3, <1>4, <1>5

LEMMA SubmitKeeps ==
    ASSUME JobsInv, FaultOrNone, NEW j \in Jobs, NEW r \in Roots, Submit(j, r) PROVE JobsInv'
<1> USE UsedTyped
    DEF JobsInv, JobsTypeOK, Submit, Step, store, blocks, job, past
<1>1. JobsTypeOK' BY IndexJobsAssumption DEF Stages, States
<1>2. GateIsHeld' BY DEF GateIsHeld, InGate
<1>3. StaysEmpty' /\ IsLatest'
  BY DEF GateIsHeld, InGate, StaysEmpty, IsLatest
<1>4. TombstoneMeansGone' BY DEF StaysEmpty, TombstoneMeansGone
<1>5. BlockAgrees' BY DEF BlockAgrees, IsLatest
<1>6. QED BY <1>1, <1>2, <1>3, <1>4, <1>5

LEMMA EnterKeeps ==
    ASSUME JobsInv, FaultOrNone, NEW j \in Jobs, Enter(j) PROVE JobsInv'
<1> USE UsedTyped
    DEF JobsInv, JobsTypeOK, Enter, Step, Ends, store, blocks, job, past
<1>1. JobsTypeOK'
  <2>1. CASE gate = None BY <2>1 DEF Stages
  <2>2. CASE gate # None BY <2>2 DEF Stages
  <2>3. QED BY <2>1, <2>2
<1>2. GateIsHeld'
  <2>1. CASE gate = None
    BY <2>1, IndexJobsAssumption DEF GateIsHeld, InGate
  <2>2. CASE gate # None BY <2>2 DEF GateIsHeld, InGate
  <2>3. QED BY <2>1, <2>2
<1>3. StaysEmpty' /\ IsLatest'
  BY DEF GateIsHeld, InGate, StaysEmpty, IsLatest
<1>4. TombstoneMeansGone' BY DEF StaysEmpty, TombstoneMeansGone
<1>5. BlockAgrees' BY DEF BlockAgrees, IsLatest
<1>6. QED BY <1>1, <1>2, <1>3, <1>4, <1>5

LEMMA LeaveKeeps ==
    ASSUME JobsInv, FaultOrNone, NEW j \in Jobs, Leave(j) PROVE JobsInv'
<1> USE UsedTyped
    DEF JobsInv, JobsTypeOK, Leave, Step, store, blocks, job, past
<1>1. JobsTypeOK' BY IndexJobsAssumption DEF Stages, States
<1>2. GateIsHeld' BY DEF GateIsHeld, InGate
<1>3. StaysEmpty' /\ IsLatest'
  BY DEF GateIsHeld, InGate, StaysEmpty, IsLatest
<1>4. TombstoneMeansGone' BY DEF StaysEmpty, TombstoneMeansGone
<1>5. BlockAgrees' BY DEF BlockAgrees, IsLatest
<1>6. QED BY <1>1, <1>2, <1>3, <1>4, <1>5

LEMMA EngineReadsKeeps ==
    ASSUME JobsInv, FaultOrNone, NEW j \in Jobs, EngineReads(j) PROVE JobsInv'
<1> USE UsedTyped
    DEF JobsInv, JobsTypeOK, EngineReads, Step, store, blocks, job, past
<1>1. JobsTypeOK' BY IndexJobsAssumption DEF Stages, States
<1>2. GateIsHeld' BY DEF GateIsHeld, InGate
<1>3. StaysEmpty' /\ IsLatest'
  BY DEF GateIsHeld, InGate, StaysEmpty, IsLatest
<1>4. TombstoneMeansGone' BY DEF StaysEmpty, TombstoneMeansGone
<1>5. BlockAgrees' BY DEF BlockAgrees, IsLatest
<1>6. QED BY <1>1, <1>2, <1>3, <1>4, <1>5

LEMMA EngineWritesKeeps ==
    ASSUME JobsInv, FaultOrNone, NEW j \in Jobs, EngineWrites(j) PROVE JobsInv'
<1> USE UsedTyped
    DEF JobsInv, JobsTypeOK, EngineWrites, Step, Ends, store, blocks,
        job, past
<1>1. JobsTypeOK' BY IndexJobsAssumption DEF Stages, States
<1>2. GateIsHeld' BY DEF GateIsHeld, InGate
<1>3. StaysEmpty' /\ IsLatest'
  BY DEF GateIsHeld, InGate, StaysEmpty, IsLatest
<1>4. TombstoneMeansGone' BY DEF StaysEmpty, TombstoneMeansGone
<1>5. BlockAgrees' BY DEF BlockAgrees, IsLatest
<1>6. QED BY <1>1, <1>2, <1>3, <1>4, <1>5

LEMMA EngineFailsKeeps ==
    ASSUME JobsInv, FaultOrNone, NEW j \in Jobs, EngineFails(j) PROVE JobsInv'
<1> late' \subseteq Operations
  BY UnderWayTyped DEF EngineFails, JobsInv, JobsTypeOK
<1> USE UsedTyped
    DEF JobsInv, JobsTypeOK, EngineFails, Step, Ends, store, blocks, job, past
<1>1. JobsTypeOK' BY IndexJobsAssumption DEF Stages, States
<1>2. GateIsHeld' BY DEF GateIsHeld, InGate
<1>3. StaysEmpty' /\ IsLatest'
  BY DEF GateIsHeld, InGate, StaysEmpty, IsLatest
<1>4. TombstoneMeansGone' BY DEF StaysEmpty, TombstoneMeansGone
<1>5. BlockAgrees' BY DEF BlockAgrees, IsLatest
<1>6. QED BY <1>1, <1>2, <1>3, <1>4, <1>5

LEMMA PathTooLongKeeps ==
    ASSUME JobsInv, FaultOrNone, NEW j \in Jobs, PathTooLong(j) PROVE JobsInv'
<1> USE UsedTyped
    DEF JobsInv, JobsTypeOK, PathTooLong, Raises, Step, Ends, store, blocks,
        job, past
<1>1. JobsTypeOK' BY IndexJobsAssumption DEF Stages, States
<1>2. GateIsHeld' BY DEF GateIsHeld, InGate
<1>3. StaysEmpty' /\ IsLatest'
  BY DEF GateIsHeld, InGate, StaysEmpty, IsLatest
<1>4. TombstoneMeansGone' BY DEF StaysEmpty, TombstoneMeansGone
<1>5. BlockAgrees' BY DEF BlockAgrees, IsLatest
<1>6. QED BY <1>1, <1>2, <1>3, <1>4, <1>5

LEMMA UnsuppressKeeps ==
    ASSUME JobsInv, FaultOrNone, NEW j \in Jobs, Unsuppress(j) PROVE JobsInv'
<1> USE UsedTyped
    DEF JobsInv, JobsTypeOK, Unsuppress, Raises, Step, Ends, store, blocks,
        job, past
<1>1. JobsTypeOK' BY IndexJobsAssumption DEF Stages, States
<1>2. GateIsHeld' BY DEF GateIsHeld, InGate
<1>3. StaysEmpty' /\ IsLatest'
  BY DEF GateIsHeld, InGate, StaysEmpty, IsLatest
<1>4. TombstoneMeansGone' BY DEF StaysEmpty, TombstoneMeansGone
<1>5. BlockAgrees' BY DEF BlockAgrees, IsLatest
<1>6. QED BY <1>1, <1>2, <1>3, <1>4, <1>5

LEMMA UnblockKeeps ==
    ASSUME JobsInv, FaultOrNone, NEW j \in Jobs, Unblock(j) PROVE JobsInv'
<1> USE UsedTyped
    DEF JobsInv, JobsTypeOK, Unblock, Raises, Step, Ends, store, blocks,
        job, past
<1>1. JobsTypeOK' BY IndexJobsAssumption DEF Stages, States
<1>2. GateIsHeld' BY DEF GateIsHeld, InGate
<1>3. StaysEmpty' /\ IsLatest'
  BY DEF GateIsHeld, InGate, StaysEmpty, IsLatest
<1>4. TombstoneMeansGone' BY DEF IsLatest, TombstoneMeansGone
<1>5. BlockAgrees' BY DEF BlockAgrees, IsLatest
<1>6. QED BY <1>1, <1>2, <1>3, <1>4, <1>5

LEMMA LinkKeeps ==
    ASSUME JobsInv, FaultOrNone, NEW j \in Jobs, Link(j) PROVE JobsInv'
<1> USE UsedTyped
    DEF JobsInv, JobsTypeOK, Link, Step, store, blocks, job, past
<1>1. JobsTypeOK' BY IndexJobsAssumption DEF Stages, States
<1>2. GateIsHeld' BY DEF GateIsHeld, InGate
<1>3. StaysEmpty' /\ IsLatest'
  BY DEF GateIsHeld, InGate, StaysEmpty, IsLatest
<1>4. TombstoneMeansGone' BY DEF StaysEmpty, TombstoneMeansGone
<1>5. BlockAgrees' BY DEF BlockAgrees, IsLatest
<1>6. QED BY <1>1, <1>2, <1>3, <1>4, <1>5

LEMMA ResolveKeeps ==
    ASSUME JobsInv, FaultOrNone, NEW j \in Jobs, Resolve(j) PROVE JobsInv'
<1> USE UsedTyped
    DEF JobsInv, JobsTypeOK, Resolve, Step, Ends, store, blocks, job, past
<1>1. JobsTypeOK' BY IndexJobsAssumption DEF Stages, States
<1>2. GateIsHeld' BY DEF GateIsHeld, InGate
<1>3. StaysEmpty' /\ IsLatest'
  BY DEF GateIsHeld, InGate, StaysEmpty, IsLatest
<1>4. TombstoneMeansGone' BY DEF StaysEmpty, TombstoneMeansGone
<1>5. BlockAgrees' BY DEF BlockAgrees, IsLatest
<1>6. QED BY <1>1, <1>2, <1>3, <1>4, <1>5

LEMMA EngineDeletesKeeps ==
    ASSUME JobsInv, FaultOrNone, NEW j \in Jobs, EngineDeletes(j) PROVE JobsInv'
<1> USE UsedTyped
    DEF JobsInv, JobsTypeOK, EngineDeletes, Step, store, blocks, job, past
<1>1. JobsTypeOK' BY IndexJobsAssumption DEF Stages, States
<1>2. GateIsHeld' BY DEF GateIsHeld, InGate
<1>3. StaysEmpty' /\ IsLatest'
  BY DEF GateIsHeld, InGate, StaysEmpty, IsLatest
<1>4. TombstoneMeansGone' BY DEF StaysEmpty, TombstoneMeansGone
<1>5. BlockAgrees' BY DEF BlockAgrees, IsLatest
<1>6. QED BY <1>1, <1>2, <1>3, <1>4, <1>5

LEMMA NothingDeletedKeeps ==
    ASSUME JobsInv, FaultOrNone, NEW j \in Jobs, NothingDeleted(j) PROVE JobsInv'
<1> late' \subseteq Operations
  BY UnderWayTyped DEF NothingDeleted, JobsInv, JobsTypeOK
<1> USE UsedTyped
    DEF JobsInv, JobsTypeOK, NothingDeleted, Step, Ends, store, blocks, job, past
<1>1. JobsTypeOK' BY IndexJobsAssumption DEF Stages, States
<1>2. GateIsHeld' BY DEF GateIsHeld, InGate
<1>3. StaysEmpty' /\ IsLatest'
  BY DEF GateIsHeld, InGate, StaysEmpty, IsLatest
<1>4. TombstoneMeansGone' BY DEF StaysEmpty, TombstoneMeansGone
<1>5. BlockAgrees' BY DEF BlockAgrees, IsLatest
<1>6. QED BY <1>1, <1>2, <1>3, <1>4, <1>5

LEMMA CleanKeeps ==
    ASSUME JobsInv, FaultOrNone, NEW j \in Jobs, Clean(j) PROVE JobsInv'
<1> USE UsedTyped
    DEF JobsInv, JobsTypeOK, Clean, Step, store, blocks, job, past
<1>1. JobsTypeOK' BY IndexJobsAssumption DEF Stages, States
<1>2. GateIsHeld' BY DEF GateIsHeld, InGate
<1>3. StaysEmpty' /\ IsLatest'
  BY DEF GateIsHeld, InGate, StaysEmpty, IsLatest
<1>4. TombstoneMeansGone' BY DEF StaysEmpty, TombstoneMeansGone
<1>5. BlockAgrees' BY DEF BlockAgrees, IsLatest
<1>6. QED BY <1>1, <1>2, <1>3, <1>4, <1>5

LEMMA SuppressKeeps ==
    ASSUME JobsInv, FaultOrNone, NEW j \in Jobs, Suppress(j) PROVE JobsInv'
<1> USE UsedTyped
    DEF JobsInv, JobsTypeOK, Suppress, Step, store, blocks, job, past
<1>1. JobsTypeOK' BY IndexJobsAssumption DEF Stages, States
<1>2. GateIsHeld' BY DEF GateIsHeld, InGate
<1>3. StaysEmpty' /\ IsLatest'
  BY DEF GateIsHeld, InGate, StaysEmpty, IsLatest
<1>4. TombstoneMeansGone' BY DEF StaysEmpty, TombstoneMeansGone
<1>5. BlockAgrees' BY DEF BlockAgrees, IsLatest
<1>6. QED BY <1>1, <1>2, <1>3, <1>4, <1>5

LEMMA RestKeeps ==
    ASSUME JobsInv, FaultOrNone, NEW j \in Jobs, Rest(j) PROVE JobsInv'
<1> USE UsedTyped
    DEF JobsInv, JobsTypeOK, Rest, Step, Ends, store, blocks, job, past
<1>1. JobsTypeOK' BY IndexJobsAssumption DEF Stages, States
<1>2. GateIsHeld' BY DEF GateIsHeld, InGate
<1>3. StaysEmpty' /\ IsLatest'
  BY DEF GateIsHeld, InGate, StaysEmpty, IsLatest
<1>4. TombstoneMeansGone' BY DEF StaysEmpty, TombstoneMeansGone
<1>5. BlockAgrees' BY DEF BlockAgrees, IsLatest
<1>6. QED BY <1>1, <1>2, <1>3, <1>4, <1>5

LEMMA LeaseEndsKeeps ==
    ASSUME JobsInv, LeaseEnds PROVE JobsInv'
<1> USE DEF JobsInv, JobsTypeOK, LeaseEnds, blocks, job, past
<1>1. JobsTypeOK' OBVIOUS
<1>2. GateIsHeld' BY IndexJobsAssumption DEF GateIsHeld, InGate
<1>3. StaysEmpty' /\ IsLatest' BY DEF StaysEmpty, IsLatest
<1>4. TombstoneMeansGone' /\ BlockAgrees'
  BY DEF TombstoneMeansGone, BlockAgrees
<1>5. QED BY <1>1, <1>2, <1>3, <1>4

\* What a child writes late it writes at any time: the root is unsettled.
LEMMA LateWriteKeeps ==
    ASSUME JobsInv, NEW o \in late, LateWrite(o) PROVE JobsInv'
<1> USE DEF JobsInv, JobsTypeOK, LateWrite, blocks, job
<1>1. /\ o.root \in Roots /\ o.graph \in States \cup {None}
      /\ \A r \in Roots :
            graph'[r] # graph[r] =>
                r = o.root /\ (graph'[r] = None \/ r \in unsettled')
      /\ unsettled \subseteq unsettled'
  BY DEF Operations
<1>2. JobsTypeOK'
  <2>1. graph' \in [Roots -> States \cup {None}] BY <1>1
  <2>2. unsettled' \subseteq Roots /\ gone' \subseteq Roots BY <1>1
  <2>3. adrift' \subseteq Roots BY <1>1
  <2>4. QED BY <2>1, <2>2, <2>3
<1>3. GateIsHeld' BY DEF GateIsHeld, InGate
<1>4. StaysEmpty' /\ IsLatest' BY <1>1 DEF StaysEmpty, IsLatest
<1>5. TombstoneMeansGone' /\ BlockAgrees'
  BY <1>1 DEF TombstoneMeansGone, BlockAgrees
<1>6. QED BY <1>2, <1>3, <1>4, <1>5

\* What a crash leaves unsettled is the root of the index that was clearing its
\* blocks.
LEMMA CrashKeeps ==
    ASSUME JobsInv, NEW J \in SUBSET Jobs, CrashJobs(J), Fault("crash")
    PROVE  JobsInv'
<1> FaultOrNone BY DEF Fault, FaultOrNone
<1> late' \subseteq Operations
  BY UnderWayTyped DEF CrashJobs, JobsInv, JobsTypeOK
<1> USE UsedTyped DEF JobsInv, JobsTypeOK, CrashJobs, blocks, past
<1>1. /\ unsettled \subseteq unsettled'
      /\ \A j \in Jobs : \/ stage'[j] = stage[j]
                        \/ /\ stage'[j] = "none"
                           /\ stage[j] \in {"written", "opened"}
                              => aim[j] \in unsettled'
  OBVIOUS
<1>2. JobsTypeOK' BY DEF Stages
<1>3. GateIsHeld' BY DEF GateIsHeld, InGate
<1>4. StaysEmpty' /\ IsLatest' BY <1>1 DEF StaysEmpty, IsLatest
<1>5. TombstoneMeansGone' /\ BlockAgrees'
  BY <1>1 DEF TombstoneMeansGone, BlockAgrees
<1>6. QED BY <1>2, <1>3, <1>4, <1>5

LEMMA OthersKeep ==
    ASSUME JobsInv, FaultOrNone, UNCHANGED work PROVE JobsInv'
<1> USE UsedTyped
    DEF JobsInv, JobsTypeOK, work, store, blocks, job, past
<1>1. JobsTypeOK' OBVIOUS
<1>2. GateIsHeld' /\ StaysEmpty' /\ IsLatest'
  BY DEF GateIsHeld, InGate, StaysEmpty, IsLatest
<1>3. TombstoneMeansGone' /\ BlockAgrees'
  BY DEF TombstoneMeansGone, BlockAgrees
<1>4. QED BY <1>1, <1>2, <1>3

-----------------------------------------------------------------------------
\* Which of the steps of a system count a fault, and how.
LEMMA StepsCountFaults ==
    ASSUME NEW j \in Jobs,
           \/ Index(j) \/ Resolve(j) \/ EngineDeletes(j) \/ NothingDeleted(j)
           \/ Suppress(j)
    PROVE  FaultOrNone
BY DEF Index, Enter, EngineReads, EngineWrites, EngineFails, PathTooLong,
       Unsuppress, Unblock, Raises, Leave, Resolve, EngineDeletes,
       NothingDeleted, Suppress, FaultOrNone, Fault

LEMMA JobsInitInv == JobsInit => JobsInv
BY IndexJobsAssumption
   DEF JobsInit, JobsInv, JobsTypeOK, Stages, States, GateIsHeld, InGate,
       StaysEmpty, IsLatest, TombstoneMeansGone, BlockAgrees

LEMMA JobsNextInv == JobsInv /\ [JobsNext]_jobs => JobsInv'
<1> SUFFICES ASSUME JobsInv, [JobsNext]_jobs PROVE JobsInv'
  OBVIOUS
<1>1. CASE LeaseEnds \/ \E o \in late : LateWrite(o)
  BY <1>1, LeaseEndsKeeps, LateWriteKeeps
<1>2. ASSUME NEW r \in Roots, Edit(r) PROVE JobsInv'
  <2>1. FaultOrNone BY <1>2 DEF Edit, FaultOrNone
  <2>2. QED BY <1>2, <2>1, EditKeeps
<1>3. ASSUME NEW j \in Jobs,
             \/ Index(j) \/ Resolve(j) \/ EngineDeletes(j)
             \/ NothingDeleted(j) \/ Suppress(j)
      PROVE  JobsInv'
  <2>1. FaultOrNone BY <1>3, StepsCountFaults
  <2>2. QED
    BY <1>3, <2>1, EnterKeeps, LeaveKeeps, EngineReadsKeeps, EngineWritesKeeps,
       EngineFailsKeeps, PathTooLongKeeps, UnsuppressKeeps, UnblockKeeps,
       ResolveKeeps, EngineDeletesKeeps, NothingDeletedKeeps, SuppressKeeps
       DEF Index
<1>4. ASSUME NEW j \in Jobs, Link(j) \/ Clean(j) \/ Rest(j), FaultOrNone
      PROVE  JobsInv'
  BY <1>4, LinkKeeps, CleanKeeps, RestKeeps
<1>5. ASSUME NEW j \in Jobs, NEW r \in Roots, Submit(j, r), FaultOrNone
      PROVE  JobsInv'
  BY <1>5, SubmitKeeps
<1>6. ASSUME NEW J \in SUBSET Jobs, CrashJobs(J), Fault("crash")
      PROVE  JobsInv'
  BY <1>6, CrashKeeps
<1>7. CASE UNCHANGED work /\ FaultOrNone BY <1>7, OthersKeep
<1>8. CASE UNCHANGED jobs BY <1>8, OthersKeep DEF jobs, FaultOrNone
<1>9. QED
  BY <1>1, <1>2, <1>3, <1>4, <1>5, <1>6, <1>7, <1>8 DEF JobsNext

\* JobsInv holds of every system of jobs.
THEOREM JobsInvariance == JobsSpec => []JobsInv
<1>1. QED BY JobsInitInv, JobsNextInv, PTL DEF JobsSpec

\* A tombstone and a project exist together only while an index clears the one.
THEOREM TombstonesAreTrue == JobsSpec => []TombstoneMeansGone
<1>1. JobsInv => TombstoneMeansGone BY DEF JobsInv
<1>2. QED BY <1>1, JobsInvariance, PTL

LEMMA InvGivesVerdict == JobsInv => LastVerdictStands
<1>1. ASSUME NEW j \in Jobs, stage[j] \in {"written", "opened"}
      PROVE  InGate(j)
  BY <1>1 DEF InGate
<1>2. QED BY <1>1 DEF JobsInv, BlockAgrees, LastVerdictStands

\* The block of a root is what the last index that settled it found.
THEOREM VerdictsStand == JobsSpec => []LastVerdictStands
<1>1. QED BY InvGivesVerdict, JobsInvariance, PTL

-----------------------------------------------------------------------------
(* Jobs keep to the gate. *)

\* A job enters an open gate, which shuts behind it.
LEMMA EntersGate ==
    ASSUME JobsInv, NEW j \in Jobs, Enter(j)
    PROVE  JobsGate!GateNext
<1> USE DEF JobsInv, JobsTypeOK, Enter, Step, GateIsHeld, InGate
<1>1. CASE gate = None
  <2>1. {k \in Jobs : InGate(k)} = {}
    BY <1>1, IndexJobsAssumption
  <2>2. gate' = j /\ {k \in Jobs : InGate(k)'} = {j}
    BY <1>1, <2>1
  <2>3. JobsGate!Enter(j)
    BY <1>1, <2>1, <2>2, IndexJobsAssumption DEF JobsGate!Enter
  <2>4. QED BY <2>3 DEF JobsGate!GateNext
<1>2. CASE gate # None
  <2>1. {k \in Jobs : InGate(k)'} \subseteq {k \in Jobs : InGate(k)}
    BY <1>2
  <2>2. JobsGate!Pass BY <1>2, <2>1 DEF JobsGate!Pass
  <2>3. QED BY <2>2 DEF JobsGate!GateNext
<1>3. QED BY <1>1, <1>2

\* No other step lets anyone in, and only the one inside opens.
LEMMA PassesGate ==
    ASSUME JobsInv, [JobsNext]_jobs, \A j \in Jobs : ~Enter(j)
    PROVE  JobsGate!Pass
<1> USE DEF JobsInv, JobsTypeOK
<1>1. ASSUME gate' = gate, \A j \in Jobs : InGate(j)' => InGate(j)
      PROVE  JobsGate!Pass
  BY <1>1 DEF JobsGate!Pass
<1>2. ASSUME NEW j \in Jobs, Leave(j) PROVE JobsGate!Pass
  <2>1. \A k \in Jobs : ~InGate(k)'
    BY <1>2 DEF Leave, Step, GateIsHeld, InGate
  <2>2. QED BY <2>1 DEF JobsGate!Pass
<1>3. CASE LeaseEnds
  <2>1. \A k \in Jobs : ~InGate(k)'
    BY <1>3, IndexJobsAssumption DEF LeaseEnds, job, GateIsHeld, InGate
  <2>2. QED BY <2>1 DEF JobsGate!Pass
<1>4. ASSUME NEW J \in SUBSET Jobs, CrashJobs(J) PROVE JobsGate!Pass
  <2>1. \A k \in Jobs : InGate(k)' => InGate(k)
    BY <1>4 DEF CrashJobs, InGate
  <2>2. (gate' # None) = (gate # None)
    BY <1>4, IndexJobsAssumption DEF CrashJobs
  <2>3. QED BY <2>1, <2>2 DEF JobsGate!Pass
<1>5. ASSUME NEW j \in Jobs,
             \/ Resolve(j) \/ EngineDeletes(j) \/ NothingDeleted(j)
             \/ Suppress(j) \/ Link(j) \/ Clean(j) \/ Rest(j)
             \/ \E r \in Roots : Submit(j, r)
      PROVE  JobsGate!Pass
  BY <1>1, <1>5
     DEF Resolve, EngineDeletes, NothingDeleted, Suppress, Link, Clean, Rest,
         Submit, Step, InGate, store
<1>6. ASSUME NEW j \in Jobs,
             \/ EngineReads(j) \/ EngineWrites(j) \/ EngineFails(j)
             \/ PathTooLong(j) \/ Unsuppress(j) \/ Unblock(j)
      PROVE  JobsGate!Pass
  BY <1>1, <1>6
     DEF EngineReads, EngineWrites, EngineFails, PathTooLong, Unsuppress,
         Unblock, Raises, Step, InGate, store
<1>7. ASSUME \/ \E r \in Roots : Edit(r)
             \/ \E o \in late : LateWrite(o)
      PROVE  JobsGate!Pass
  BY <1>1, <1>7 DEF Edit, LateWrite, job, InGate
<1>8. CASE UNCHANGED work \/ UNCHANGED jobs
  BY <1>1, <1>8 DEF jobs, work, store, job, InGate
<1>9. QED
  BY <1>2, <1>3, <1>4, <1>5, <1>6, <1>7, <1>8 DEF JobsNext, Index

\* Every system of jobs implements the gate, and so has what Gate promises: no
\* two jobs are in the engine's store together.
THEOREM JobsImplementGate == JobsSpec => JobsUseAGate
<1>1. JobsInit => JobsGate!GateInit
  BY DEF JobsInit, JobsGate!GateInit, InGate
<1>2. JobsInv /\ [JobsNext]_jobs => [JobsGate!GateNext]_JobsGate!gate
  BY EntersGate, PassesGate DEF JobsGate!GateNext
<1>3. QED
  BY <1>1, <1>2, JobsInvariance, PTL
     DEF JobsSpec, JobsUseAGate, JobsGate!GateSpec
=============================================================================
