-------------------------- MODULE CodeLinksProofs --------------------------
(***************************************************************************)
(* The link queue, its workers, builds and users compose with a system of  *)
(* jobs and take nothing from what IndexJobsProofs shows of it             *)
(* (CodeLinksAreJobs). On what every linker, row, user and project that is *)
(* gone keeps to (LinksBase), the links follow the graph (LinksAreCurrent) *)
(* and what is deleted is forgotten (DeletedStaysForgotten).               *)
(***************************************************************************)
EXTENDS CodeLinks, IndexJobsProofs, FiniteSetTheorems

\* A step that leaves the jobs alone, but for a fault of its own.
Aside == UNCHANGED work /\ FaultOrNone

LEMMA FaultIsOne == ASSUME NEW kind, Fault(kind) PROVE FaultOrNone
BY DEF Fault, FaultOrNone

LEMMA UnchangedIsNone == ASSUME UNCHANGED used PROVE FaultOrNone
BY DEF FaultOrNone

\* Every part of a delete's cleanup and of an index's binding is a step of the
\* job it belongs to, or none at all.
LEMMA JobStepsAreJobs ==
    ASSUME NEW j \in Jobs, Ask(j) \/ Answer(j) \/ JobStep(j) \/ Crash(j)
    PROVE  [JobsNext]_jobs
<1> USE FaultIsOne, UnchangedIsNone
<1>1. CASE Ask(j)
  <2>1. PICK r \in Roots : Submit(j, r) BY <1>1 DEF Ask
  <2>2. FaultOrNone BY <1>1 DEF Ask
  <2>3. QED BY <2>1, <2>2 DEF JobsNext
<1>2. CASE Answer(j)
  <2>1. Rest(j) /\ FaultOrNone BY <1>2 DEF Answer
  <2>2. QED BY <2>1 DEF JobsNext
<1>3. CASE \/ Index(j) \/ Resolve(j) \/ NothingDeleted(j) \/ Suppress(j)
           \/ Delete(j)
  BY <1>3 DEF Delete, JobsNext
<1>4. CASE LinkProject(j)
  <2>1. Link(j) /\ FaultOrNone BY <1>4 DEF LinkProject
  <2>2. QED BY <2>1 DEF JobsNext
<1>5. CASE DropLinks(j) \/ CleanFails(j)
  <2>1. Clean(j) /\ FaultOrNone BY <1>5 DEF DropLinks, CleanFails
  <2>2. QED BY <2>1 DEF JobsNext
<1>6. CASE DropRow(j) \/ DropBinding(j) BY <1>6 DEF DropRow, DropBinding
<1>7. CASE Crash(j)
  <2>1. {j} \in SUBSET Jobs OBVIOUS
  <2>2. QED BY <1>7, <2>1 DEF Crash, JobsNext
<1>8. QED BY <1>1, <1>2, <1>3, <1>4, <1>5, <1>6, <1>7 DEF JobStep

\* Users and linkers do not touch the store of the graphs.
LEMMA OthersAreAside ==
    ASSUME \/ LockEnds
           \/ \E u \in Users : Confirm(u) \/ Bind(u) \/ QueueRefresh(u)
           \/ \E p \in Linkers : Stall(p) \/ Halt(p)
           \/ \E w \in Workers : Claim(w) \/ WorkerStep(w)
           \/ \E b \in Builders : BeginBuild(b) \/ BuilderStep(b)
           \/ \E r \in Roots : RowDue(r)
    PROVE  UNCHANGED jobs \/ Aside
<1> USE FaultIsOne, UnchangedIsNone DEF Aside, jobs
<1>1. ASSUME NEW p, Reconcile(p) PROVE UNCHANGED jobs \/ Aside
  BY <1>1 DEF Reconcile, LookUp, Unavailable, Store, DropOthers
<1>2. CASE LockEnds BY <1>2 DEF LockEnds
<1>3. ASSUME NEW u \in Users, Confirm(u) \/ Bind(u) \/ QueueRefresh(u)
      PROVE  UNCHANGED jobs \/ Aside
  BY <1>3 DEF Confirm, Bind, QueueRefresh
<1>4. ASSUME NEW p \in Linkers, Stall(p) \/ Halt(p)
      PROVE  UNCHANGED jobs \/ Aside
  BY <1>4 DEF Stall, Halt
<1>5. ASSUME NEW w \in Workers, Claim(w) \/ WorkerStep(w)
      PROVE  UNCHANGED jobs \/ Aside
  BY <1>1, <1>5 DEF Claim, WorkerStep, ReadPage, Settle, Abort
<1>6. ASSUME NEW b \in Builders, BeginBuild(b) \/ BuilderStep(b)
      PROVE  UNCHANGED jobs \/ Aside
  BY <1>1, <1>6 DEF BeginBuild, BuilderStep, Extract, BuildEnds
<1>7. ASSUME NEW r \in Roots, RowDue(r) PROVE UNCHANGED jobs \/ Aside
  BY <1>7 DEF RowDue
<1>8. QED BY <1>2, <1>3, <1>4, <1>5, <1>6, <1>7

LEMMA StepsAreJobs == ASSUME [Next]_vars PROVE [JobsNext]_jobs
<1>1. CASE UNCHANGED vars BY <1>1 DEF vars
<1>2. ASSUME NEW j \in Jobs, Ask(j) \/ Answer(j) \/ JobStep(j) \/ Crash(j)
      PROVE  [JobsNext]_jobs
  BY <1>2, JobStepsAreJobs
<1>3. CASE GateOpens \/ LateChild
  BY <1>3 DEF GateOpens, LateChild, JobsNext
<1>4. ASSUME NEW r \in Roots, Change(r) PROVE [JobsNext]_jobs
  BY <1>4 DEF Change, JobsNext
<1>5. CASE UNCHANGED jobs \/ Aside BY <1>5 DEF Aside, JobsNext
<1>6. QED BY <1>1, <1>2, <1>3, <1>4, <1>5, OthersAreAside DEF Next

\* Whatever is bound, queued, refreshed, built or cleaned up around them, the
\* jobs are those of a system of jobs (enqueue_refresh and the cleanup of a
\* delete run inside the job that owns the gate).
THEOREM CodeLinksAreJobs == Spec => JobsSpec
<1>1. Init => JobsInit BY DEF Init
<1>2. [Next]_vars => [JobsNext]_jobs BY StepsAreJobs
<1>3. QED BY <1>1, <1>2, PTL DEF Spec, JobsSpec

\* A delete that cleans up links while others confirm bindings, timeouts and
\* flags that raise leave a tombstone on a live project, or a verdict out of
\* order, only of the roots that are unsettled.
THEOREM LinkedTombstonesMeanGone ==
    Spec => [](TombstoneMeansGone /\ LastVerdictStands)
BY CodeLinksAreJobs, TombstonesAreTrue, VerdictsStand, PTL

\* The cleanup of a delete and the binding of an index run in the gate: never
\* beside another index or delete of any project.
THEOREM CodeLinksUseAGate == Spec => JobsUseAGate
BY CodeLinksAreJobs, JobsImplementGate, PTL

-----------------------------------------------------------------------------
(* The least and the greatest of a set of numbers. *)

Below == {ss \in Nat \X Nat : ss[1] < ss[2]}

LEMMA BelowEnds == IsWellFoundedOn(Below, Nat)
BY NatLessThanWellFounded DEF OpToRel, Below

LEMMA LeastIs ==
    ASSUME NEW S \in SUBSET Nat, S # {}
    PROVE  Min(S) \in S /\ \A x \in S : Min(S) <= x
<1>1. PICK x \in S : \A y \in S : ~(<<y, x>> \in Below)
  BY BelowEnds, WFMin
<1>2. ASSUME NEW y \in S PROVE x <= y
  <2>1. y < x => <<y, x>> \in Below BY DEF Below
  <2>2. QED BY <1>1, <2>1
<1>3. QED BY <1>2 DEF Min

Bounded(S) == \E n \in Nat : \A x \in S : x <= n

LEMMA FiniteIsBounded ==
    ASSUME NEW S \in SUBSET Nat, IsFiniteSet(S)
    PROVE  Bounded(S)
<1> DEFINE T == {U \in SUBSET S : ~Bounded(U)}
<1> SUFFICES ASSUME T # {} PROVE FALSE
  OBVIOUS
<1>1. IsWellFoundedOn(StrictSubsetOrdering(S), SUBSET S)
  BY FS_StrictSubsetOrderingWellFounded, FS_FiniteSubsetsOfFinite
<1>2. PICK U \in T : \A V \in T : ~(<<V, U>> \in StrictSubsetOrdering(S))
  <2> HIDE DEF T
  <2>1. T \subseteq SUBSET S BY DEF T
  <2>2. QED BY <1>1, <2>1, WFMin
<1>3. PICK x \in U : TRUE BY DEF Bounded
<1>4. U \ {x} \notin T BY <1>2, <1>3 DEF StrictSubsetOrdering
<1>5. PICK n \in Nat : \A y \in U \ {x} : y <= n BY <1>4 DEF Bounded
<1>6. \A y \in U : y <= IF n < x THEN x ELSE n BY <1>5
<1>7. QED BY <1>6 DEF Bounded

LEMMA GreatestIs ==
    ASSUME NEW S \in SUBSET Nat, IsFiniteSet(S), S # {}
    PROVE  Max(S) \in S /\ \A x \in S : x <= Max(S)
<1>1. PICK n \in Nat : \A x \in S : x <= n BY FiniteIsBounded DEF Bounded
<1> DEFINE T == {n - x : x \in S}
<1>2. T \in SUBSET Nat /\ T # {}
  <2>1. ASSUME NEW x \in S PROVE n - x \in Nat
    <3>1. x \in Nat /\ x <= n BY <1>1
    <3>2. QED BY <3>1
  <2>2. QED BY <2>1
<1>3. Min(T) \in T /\ \A y \in T : Min(T) <= y
  <2> HIDE DEF T
  <2>1. QED BY <1>2, LeastIs
<1>4. PICK x \in S : Min(T) = n - x BY <1>3
<1>5. ASSUME NEW y \in S PROVE x >= y
  <2>1. n - y \in T OBVIOUS
  <2>2. n - x <= n - y BY <1>3, <1>4, <2>1
  <2>3. x \in Nat /\ y \in Nat /\ n \in Nat OBVIOUS
  <2>4. QED BY <2>2, <2>3
<1>6. QED BY <1>5 DEF Max

-----------------------------------------------------------------------------
(* Type correctness, and who may be where. *)

LEMMA Marked ==
    ASSUME NEW kind, Fault(kind)
    PROVE  /\ kind \in Faults /\ used.marks \subseteq used'.marks
           /\ Mark[kind] \in used'.marks
BY DEF Fault

\* A stamp of now is later than that of every row and every claim.
LEMMA NowIsLatest ==
    ASSUME TypeOK, NEW r \in Roots
    PROVE  /\ Now \in Nat
           /\ \A q \in Roots : row[q].stamp < Now
           /\ \A w \in Workers : task[w].stamp < Now
<1> DEFINE Rows == {row[q].stamp : q \in Roots}
           Tasks == {task[w].stamp : w \in Workers}
<1>1. /\ \A q \in Roots : row[q].stamp \in Nat
      /\ \A w \in Workers : task[w].stamp \in Nat
  BY DEF TypeOK, TablesType, LinkerType, Linkers
<1>2. IsFiniteSet(Rows)
  <2>1. [q \in Roots |-> row[q].stamp] \in Surjection(Roots, Rows)
    BY DEF Surjection
  <2>2. QED BY <2>1, FS_Surjection, CodeLinksAssumption
<1>3. IsFiniteSet(Tasks)
  <2>1. [w \in Workers |-> task[w].stamp] \in Surjection(Workers, Tasks)
    BY DEF Surjection
  <2>2. IsFiniteSet(Workers)
    BY FS_Subset, CodeLinksAssumption DEF Linkers
  <2>3. QED BY <2>1, <2>2, FS_Surjection
<1>4. IsFiniteSet(Rows \cup Tasks) BY <1>2, <1>3, FS_Union
<1>5. Rows \cup Tasks \in SUBSET Nat /\ Rows \cup Tasks # {} BY <1>1
<1>6. /\ Max(Rows \cup Tasks) \in Rows \cup Tasks
      /\ \A x \in Rows \cup Tasks : x <= Max(Rows \cup Tasks)
  <2> HIDE DEF Rows, Tasks
  <2>1. QED BY <1>4, <1>5, GreatestIs
<1>7. Now = 1 + Max(Rows \cup Tasks) BY DEF Now
<1>8. \A x \in Rows \cup Tasks : x < Now
  <2> HIDE DEF Rows, Tasks
  <2>1. QED BY <1>5, <1>6, <1>7
<1>9. Now \in Nat
  <2> HIDE DEF Rows, Tasks
  <2>1. QED BY <1>5, <1>6, <1>7
<1>10. QED BY <1>8, <1>9

RowType ==
    [state : {"none", "pending", "leased", "parked"},
     scope : Scopes \cup {None}, cursor : 0 .. MaxEntities, stamp : Nat,
     token : Workers \cup {None}, attempts : 0 .. MaxAttempts,
     waiting : BOOLEAN]

\* A row that is queued again is to be done from the start, by a claim to come.
LEMMA EnqueueDoes ==
    ASSUME LinksBase, NEW r \in Roots, NEW scope \in Scopes, Enqueue(r, scope)
    PROVE  /\ row' \in [Roots -> RowType]
           /\ \A q \in Roots \ {r} : row'[q] = row[q]
           /\ row'[r].state # "none" /\ row'[r].cursor = 0
           /\ row'[r].scope = scope /\ row'[r].stamp # 0
           /\ row'[r].attempts < MaxAttempts
           /\ row'[r].token # None <=> row'[r].state = "leased"
           /\ \A w \in Workers : row'[r].stamp # task[w].stamp
<1>1. /\ Now \in Nat /\ Now # 0
      /\ \A w \in Workers : task[w].stamp < Now
      /\ \A w \in Workers : task[w].stamp \in Nat
  <2>1. row[r].stamp \in Nat
    BY DEF LinksBase, TypeOK, TablesType
  <2>2. \A w \in Workers : task[w].stamp \in Nat
    BY DEF LinksBase, TypeOK, LinkerType, Linkers
  <2>3. QED BY <2>1, <2>2, NowIsLatest DEF LinksBase
<1>2. row \in [Roots -> RowType] /\ MaxEntities \in Nat /\ MaxAttempts \in Nat
  BY CodeLinksAssumption DEF LinksBase, TypeOK, TablesType, RowType
<1>3. /\ row[r].token # None <=> row[r].state = "leased"
      /\ row[r].state # "parked" => row[r].attempts < MaxAttempts
      /\ 0 < MaxAttempts
  BY CodeLinksAssumption DEF LinksBase, RowsFit
<1>4. CASE row[r].state = "leased"
  <2>1. row' = [row EXCEPT ![r] = [row[r] EXCEPT !.scope = scope, !.cursor = 0,
                                                 !.stamp = Now]]
    BY <1>4 DEF Enqueue
  <2> HIDE DEF Now
  <2>2. [row[r] EXCEPT !.scope = scope, !.cursor = 0, !.stamp = Now]
           \in RowType
    <3>1. row[r] \in RowType /\ 0 \in 0 .. MaxEntities BY <1>2
    <3>2. QED BY <1>1, <3>1 DEF RowType
  <2>3. QED BY <1>1, <1>2, <1>3, <1>4, <2>1, <2>2 DEF RowType
<1>5. CASE row[r].state # "leased"
  <2>1. row' = [row EXCEPT ![r] =
                  [NoRow EXCEPT !.state = "pending", !.scope = scope,
                                !.stamp = Now]]
    BY <1>5 DEF Enqueue
  <2> HIDE DEF Now
  <2>2. [NoRow EXCEPT !.state = "pending", !.scope = scope, !.stamp = Now]
           \in RowType
    <3>1. 0 \in 0 .. MaxEntities /\ 0 \in 0 .. MaxAttempts /\ 0 \in Nat
      BY <1>2
    <3>2. QED BY <1>1, <3>1 DEF RowType, NoRow
  <2>3. QED BY <1>1, <1>2, <1>3, <2>1, <2>2 DEF RowType, NoRow
<1>6. QED BY <1>4, <1>5

-----------------------------------------------------------------------------
(* Jobs. *)

\* What a step of a job leaves to the linkers.
JobsApart ==
    /\ UNCHANGED <<tables, lock, linker, user>>
    /\ used.marks \subseteq used'.marks
    /\ asked' \in 0 .. MaxAsks /\ cleaned' \in [Jobs -> 0 .. 2]

LEMMA ApartKeeps ==
    ASSUME LinksBase, JobsTypeOK', JobsApart, UNCHANGED strays, GoneIsLeft'
    PROVE  LinksBase'
<1> USE DEF LinksBase, JobsApart, tables, linker
<1>1. TypeOK' BY DEF TypeOK, TablesType, LinkerType
<1>2. LinkersFit' BY DEF LinkersFit, Refreshing, Busy
<1>3. RowsFit' /\ ClaimsFit' BY DEF RowsFit, ClaimsFit, Refreshing, Mine
<1>4. Alone' /\ UsersFit' BY DEF Alone, UsersFit
<1>5. QED BY <1>1, <1>2, <1>3, <1>4

LEMMA AskBase ==
    ASSUME LinksBase, JobsTypeOK', NEW j \in Jobs, Ask(j) PROVE LinksBase'
<1>1. PICK r \in Roots : Submit(j, r) BY DEF Ask
<1>2. GoneIsLeft'
  BY <1>1
     DEF Ask, Submit, Step, store, past, LinksBase, GoneIsLeft, TypeOK,
         JobsTypeOK, linker, tables
<1>3. asked' \in 0 .. MaxAsks
  BY CodeLinksAssumption DEF Ask, Asks, LinksBase, TypeOK
<1>4. JobsApart /\ UNCHANGED strays
  BY <1>3 DEF Ask, JobsApart, LinksBase, TypeOK
<1>5. QED BY <1>2, <1>4, ApartKeeps

LEMMA AnswerBase ==
    ASSUME LinksBase, JobsTypeOK', NEW j \in Jobs, Answer(j) PROVE LinksBase'
<1>1. GoneIsLeft'
  BY DEF Answer, Rest, Step, store, past, LinksBase, GoneIsLeft, TypeOK,
         JobsTypeOK, linker, tables, calls
<1>2. JobsApart /\ UNCHANGED strays
  BY DEF Answer, JobsApart, LinksBase, TypeOK, calls
<1>3. QED BY <1>1, <1>2, ApartKeeps

LEMMA ChangeBase ==
    ASSUME LinksBase, JobsTypeOK', GateOpens \/ \E r \in Roots : Change(r)
    PROVE  LinksBase'
<1>1. GoneIsLeft'
  BY DEF GateOpens, LeaseEnds, Change, Edit, store, blocks, job, past,
         LinksBase, GoneIsLeft, linker, tables, calls
<1>2. JobsApart /\ UNCHANGED strays
  BY DEF GateOpens, LeaseEnds, Change, Edit, JobsApart, LinksBase, TypeOK,
         calls
<1>3. QED BY <1>1, <1>2, ApartKeeps

\* A project that comes back late is not gone, and one that goes late was not
\* cleaned up.
LEMMA LateChildBase ==
    ASSUME LinksBase, JobsTypeOK', LateChild PROVE LinksBase'
<1>1. PICK o \in late : LateWrite(o) BY DEF LateChild
<1>2. o.root \in Roots
  BY DEF LinksBase, TypeOK, JobsTypeOK, Operations
<1>3. GoneIsLeft'
  BY <1>1, <1>2
     DEF LateChild, LateWrite, blocks, job, LinksBase, GoneIsLeft, TypeOK,
         JobsTypeOK, linker, tables, calls
<1>4. JobsApart /\ UNCHANGED strays
  BY <1>1 DEF LateChild, LateWrite, JobsApart, LinksBase, TypeOK, calls
<1>5. QED BY <1>3, <1>4, ApartKeeps

LEMMA CrashBase ==
    ASSUME LinksBase, JobsTypeOK', NEW j \in Jobs, Crash(j) PROVE LinksBase'
<1>1. GoneIsLeft'
  BY DEF Crash, CrashJobs, blocks, past, LinksBase, GoneIsLeft, TypeOK,
         JobsTypeOK, linker, tables
<1>2. JobsApart /\ UNCHANGED strays
  BY Marked DEF Crash, JobsApart, LinksBase, TypeOK
<1>3. QED BY <1>1, <1>2, ApartKeeps

\* Steps in the gate, of those that touch neither a row nor a link.
LEMMA IndexBase ==
    ASSUME LinksBase, JobsInv, JobsTypeOK', NEW j \in Jobs,
           Index(j) \/ Resolve(j) \/ NothingDeleted(j) \/ Suppress(j),
           UNCHANGED <<tables, lock, linker, calls, strays>>
    PROVE  LinksBase'
<1> USE DEF store, blocks, past, Step, Ends
<1>1. GoneIsLeft'
  <2> USE DEF LinksBase, GoneIsLeft, JobsInv, JobsTypeOK, linker, calls,
              TypeOK
  <2>1. CASE EngineWrites(j)
    <3>1. \A i \in Jobs \ {j} :
             stage[i] \notin {"deleted", "written", "opened", "linking"}
      BY <2>1 DEF EngineWrites, GateIsHeld, InGate
    <3>2. QED BY <2>1, <3>1 DEF EngineWrites
  <2>2. CASE Enter(j) \/ EngineReads(j) \/ EngineFails(j) \/ PathTooLong(j)
    BY <2>2 DEF Enter, EngineReads, EngineFails, PathTooLong, Raises
  <2>3. CASE Unsuppress(j) \/ Unblock(j) \/ Leave(j)
    BY <2>3 DEF Unsuppress, Unblock, Raises, Leave
  <2>4. CASE Resolve(j) \/ NothingDeleted(j) \/ Suppress(j)
    BY <2>4 DEF Resolve, NothingDeleted, Suppress
  <2>5. QED BY <2>1, <2>2, <2>3, <2>4 DEF Index
<1>2. used.marks \subseteq used'.marks
  BY StepsCountFaults, UsedTyped
<1>3. JobsApart BY <1>2 DEF JobsApart, calls, LinksBase, TypeOK
<1>4. QED BY <1>1, <1>3, ApartKeeps

LEMMA DeleteBase ==
    ASSUME LinksBase, JobsInv, JobsTypeOK', NEW c \in Jobs, Delete(c)
    PROVE  LinksBase'
<1> USE DEF LinksBase, Delete, EngineDeletes, Step, blocks, linker, calls
<1>1. /\ aim[c] \in Roots /\ aim[c] \notin gone
      /\ \A i \in Jobs \ {c} :
            stage[i] \notin {"deleted", "written", "opened", "linking"}
  BY DEF JobsInv, JobsTypeOK, GateIsHeld, InGate, GoneIsLeft
<1>2. TypeOK'
  BY <1>1 DEF TypeOK, TablesType, LinkerType, tables, InTheMiddle
<1>3. LinkersFit' BY DEF LinkersFit, Refreshing, Busy, tables
<1>4. RowsFit' /\ ClaimsFit'
  BY DEF RowsFit, ClaimsFit, Refreshing, Mine, tables
<1>5. Alone' BY DEF Alone
<1>6. UsersFit'
  BY <1>1 DEF UsersFit, InTheMiddle, tables, TypeOK
<1>7. GoneIsLeft'
  BY <1>1 DEF GoneIsLeft, InTheMiddle, TypeOK, JobsTypeOK
<1>8. QED BY <1>2, <1>3, <1>4, <1>5, <1>6, <1>7 DEF tables

\* In a step of the gate nobody else is there.
LEMMA AloneInGate ==
    ASSUME JobsInv, NEW j \in Jobs, InGate(j)
    PROVE  \A i \in Jobs \ {j} : ~InGate(i)
BY DEF JobsInv, GateIsHeld

LEMMA AutoBindDoes ==
    ASSUME LinksBase, NEW r \in Roots, NEW scope \in Scopes,
           AutoBind(r, scope)
    PROVE  /\ bound' \in Bindings /\ bound'[r] = scope
           /\ \A q \in Roots : bound[q] # None => bound'[q] = bound[q]
           /\ \A q \in Roots \ {r} : bound'[q] = bound[q]
BY DEF AutoBind, Free, LinksBase, Bindings

LEMMA LinkBase ==
    ASSUME LinksBase, JobsInv, JobsTypeOK', NEW j \in Jobs, LinkProject(j)
    PROVE  LinksBase'
<1> USE DEF LinksBase, linker, calls
<1> DEFINE r == aim[j]
<1>1. /\ r \in Roots /\ Link(j)
      /\ used.marks \subseteq used'.marks
      /\ UNCHANGED <<links, known, lock, linker, calls, strays>>
  BY Marked DEF LinkProject, Link, JobsInv, JobsTypeOK
<1>2. /\ bound' \in Bindings
      /\ \A q \in Roots : bound[q] # None => bound'[q] = bound[q]
  <2>1. CASE UNCHANGED bound BY <2>1
  <2>2. CASE \E scope \in Scopes : AutoBind(r, scope)
    BY <1>1, <2>2, AutoBindDoes
  <2>3. QED BY <2>1, <2>2 DEF LinkProject
<1>3. \/ UNCHANGED row
      \/ \E scope \in Scopes : Enqueue(r, scope)
  BY DEF LinkProject
<1>4. /\ row' \in [Roots -> RowType] /\ RowsFit' /\ ClaimsFit'
  <2>1. CASE UNCHANGED row
    BY <1>1, <2>1
       DEF RowsFit, ClaimsFit, Mine, Refreshing, TypeOK, TablesType, RowType
  <2>2. ASSUME NEW scope \in Scopes, Enqueue(r, scope)
        PROVE  row' \in [Roots -> RowType] /\ RowsFit' /\ ClaimsFit'
    <3>1. /\ row' \in [Roots -> RowType]
          /\ \A q \in Roots \ {r} : row'[q] = row[q]
          /\ row'[r].state # "none" /\ row'[r].cursor = 0
          /\ row'[r].stamp # 0 /\ row'[r].attempts < MaxAttempts
          /\ row'[r].token # None <=> row'[r].state = "leased"
          /\ \A w \in Workers : row'[r].stamp # task[w].stamp
      BY <1>1, <2>2, EnqueueDoes
    <3>2. RowsFit' BY <1>1, <3>1 DEF RowsFit, TypeOK, TablesType
    <3>3. ClaimsFit'
      BY <1>1, <3>1
         DEF ClaimsFit, Mine, Refreshing, LinkersFit, Linkers
    <3>4. QED BY <3>1, <3>2, <3>3
  <2>3. QED BY <1>3, <2>1, <2>2
<1>5. TypeOK'
  BY <1>1, <1>2, <1>4 DEF TypeOK, TablesType, LinkerType, Bindings, RowType
<1>6. LinkersFit' BY <1>1 DEF LinkersFit, Refreshing, Busy
<1>7. Alone' BY <1>1 DEF Alone
<1>8. UsersFit'
  <2>1. None \notin Scopes BY CodeLinksAssumption
  <2>2. QED BY <1>1, <1>2, <2>1 DEF UsersFit
<1>9. GoneIsLeft'
  BY <1>1 DEF GoneIsLeft, Link, Step, store, past, JobsInv, JobsTypeOK
<1>10. QED BY <1>2, <1>4, <1>5, <1>6, <1>7, <1>8, <1>9

LEMMA DropRowBase ==
    ASSUME LinksBase, JobsInv, JobsTypeOK', NEW c \in Jobs, DropRow(c)
    PROVE  LinksBase'
<1> USE DEF LinksBase, DropRow, Cleaned, linker
<1>1. aim[c] \in Roots BY DEF JobsInv, JobsTypeOK
<1>2. MaxEntities \in Nat /\ MaxAttempts \in Nat BY CodeLinksAssumption
<1>3. TypeOK'
  <2>1. NoRow \in RowType BY <1>2 DEF NoRow, RowType
  <2>2. row' \in [Roots -> RowType]
    BY <2>1 DEF TypeOK, TablesType, RowType
  <2>3. QED BY <2>2 DEF TypeOK, TablesType, LinkerType, RowType
<1>4. LinkersFit' BY DEF LinkersFit, Refreshing, Busy
<1>5. RowsFit'
  BY <1>1, CodeLinksAssumption DEF RowsFit, NoRow, TypeOK, TablesType
<1>6. ClaimsFit'
  <2>1. None \notin Workers BY CodeLinksAssumption DEF Linkers
  <2>2. ASSUME NEW w \in Workers, Refreshing(w), Mine(w)'
        PROVE  on[w] # aim[c] /\ Mine(w)
    BY <1>1, <2>1, <2>2
       DEF Mine, NoRow, TypeOK, TablesType, LinkersFit, Linkers
  <2>3. QED
    BY <2>2 DEF ClaimsFit, Refreshing, TypeOK, TablesType, LinkersFit, Linkers
<1>7. Alone' /\ UsersFit' BY DEF Alone, UsersFit, jobs
<1>8. GoneIsLeft'
  BY DEF GoneIsLeft, jobs, work, store, job, past, TypeOK
<1>9. QED BY <1>3, <1>4, <1>5, <1>6, <1>7, <1>8

LEMMA DropBindingBase ==
    ASSUME LinksBase, JobsInv, JobsTypeOK', NEW c \in Jobs, DropBinding(c)
    PROVE  LinksBase'
<1> USE DEF LinksBase, DropBinding, Cleaned, linker
<1>1. aim[c] \in Roots
  BY DEF JobsInv, JobsTypeOK
<1>2. bound' \in Bindings BY <1>1 DEF Bindings
<1>3. TypeOK'
  BY <1>1, <1>2 DEF TypeOK, TablesType, LinkerType, Bindings
<1>4. LinkersFit' BY DEF LinkersFit, Refreshing, Busy
<1>5. RowsFit' /\ ClaimsFit' BY DEF RowsFit, ClaimsFit, Refreshing, Mine
<1>6. Alone' BY DEF Alone, jobs
<1>7. UsersFit'
  BY <1>1 DEF UsersFit, TypeOK, TablesType
<1>8. GoneIsLeft'
  BY <1>1 DEF GoneIsLeft, jobs, work, store, job, past, TypeOK, JobsTypeOK
<1>9. QED BY <1>2, <1>3, <1>4, <1>5, <1>6, <1>7, <1>8

LEMMA CleanBase ==
    ASSUME LinksBase, JobsInv, JobsTypeOK', NEW c \in Jobs,
           DropLinks(c) \/ CleanFails(c)
    PROVE  LinksBase'
<1> USE DEF LinksBase, linker
<1>1. /\ aim[c] \in Roots /\ Clean(c)
      /\ cleaned' = [cleaned EXCEPT ![c] = 0]
      /\ used.marks \subseteq used'.marks
      /\ UNCHANGED <<bound, row, known, lock, linker, user, asked, strays>>
  BY Marked
     DEF DropLinks, CleanFails, Clean, JobsInv, JobsTypeOK, tables
<1>2. links' \in [Roots -> [Entities -> SUBSET Symbols]]
  BY DEF DropLinks, CleanFails, tables, TypeOK, TablesType
<1>3. TypeOK'
  BY <1>1, <1>2 DEF TypeOK, TablesType, LinkerType
<1>4. LinkersFit' BY <1>1 DEF LinkersFit, Refreshing, Busy
<1>5. RowsFit' /\ ClaimsFit'
  BY <1>1 DEF RowsFit, ClaimsFit, Refreshing, Mine
<1>6. Alone' /\ UsersFit' BY <1>1 DEF Alone, UsersFit
<1>7. GoneIsLeft'
  BY <1>1 DEF GoneIsLeft, Clean, Step, store, past, TypeOK, JobsInv, JobsTypeOK
<1>8. QED BY <1>1, <1>3, <1>4, <1>5, <1>6, <1>7

-----------------------------------------------------------------------------
(* Users. *)

LEMMA ConfirmBase ==
    ASSUME LinksBase, JobsTypeOK', NEW u \in Users, Confirm(u)
    PROVE  LinksBase'
<1> USE DEF LinksBase, Confirm, linker, tables
<1>1. PICK r \in Roots, scope \in Scopes :
         /\ graph[r] # None
         /\ user' = [user EXCEPT ![u] = [step |-> "found", root |-> r,
                                         scope |-> scope]]
  OBVIOUS
<1>2. asked' \in 0 .. MaxAsks
  BY CodeLinksAssumption DEF Asks, TypeOK
<1>3. TypeOK' BY <1>1, <1>2 DEF TypeOK, TablesType, LinkerType
<1>4. LinkersFit' BY DEF LinkersFit, Refreshing, Busy
<1>5. RowsFit' /\ ClaimsFit' BY DEF RowsFit, ClaimsFit, Refreshing, Mine
<1>6. Alone' BY DEF Alone, jobs
<1>7. UsersFit' BY <1>1 DEF UsersFit, TypeOK
<1>8. GoneIsLeft'
  BY <1>1 DEF GoneIsLeft, jobs, work, store, job, past, TypeOK
<1>9. QED BY <1>3, <1>4, <1>5, <1>6, <1>7, <1>8

LEMMA BindBase ==
    ASSUME LinksBase, JobsTypeOK', NEW u \in Users, Bind(u)
    PROVE  LinksBase'
<1> USE DEF LinksBase, Bind, linker
<1>1. user[u].root \in Roots /\ user[u].scope \in Scopes
  BY DEF UsersFit
<1>2. /\ bound' \in Bindings
      /\ \A q \in Roots : bound[q] # None => bound'[q] = bound[q]
      /\ user'[u].step = "bound" => bound'[user[u].root] = user[u].scope
  BY <1>1 DEF Free, Bindings, NoUser, TypeOK
<1>3. /\ user' \in [Users -> [step : {"none", "found", "bound"},
                             root : Roots \cup {None},
                             scope : Scopes \cup {None}]]
      /\ \A v \in Users \ {u} : user'[v] = user[v]
      /\ \/ user'[u] = NoUser
         \/ user'[u] = [user[u] EXCEPT !.step = "bound"]
  BY <1>1 DEF TypeOK, NoUser
<1>4. TypeOK' BY <1>2, <1>3 DEF TypeOK, TablesType, LinkerType, Bindings
<1>5. LinkersFit' BY DEF LinkersFit, Refreshing, Busy
<1>6. RowsFit' /\ ClaimsFit' BY DEF RowsFit, ClaimsFit, Refreshing, Mine
<1>7. Alone' BY DEF Alone, jobs
<1>8. UsersFit'
  <2>1. None \notin Scopes BY CodeLinksAssumption
  <2>2. ASSUME NEW v \in Users \ {u}, user[v].step = "bound",
               v \notin strays[user[v].root]
        PROVE  bound'[user[v].root] = user[v].scope
    BY <1>2, <2>1, <2>2 DEF UsersFit
  <2>3. /\ user'[u].step = "none" => user'[u] = NoUser
        /\ user'[u].step # "none" =>
              /\ user'[u].root = user[u].root
              /\ user'[u].scope = user[u].scope
    BY <1>3 DEF TypeOK, NoUser
  <2>4. QED BY <1>1, <1>2, <1>3, <2>2, <2>3 DEF UsersFit
<1>9. GoneIsLeft'
  <2>1. None \notin Roots BY IndexJobsAssumption
  <2>2. \A v \in Users, r \in Roots :
           user'[v].root = r => user[v].root = r
    BY <1>3, <2>1 DEF NoUser, TypeOK
  <2>3. gone \subseteq Roots
    BY DEF TypeOK, JobsTypeOK
  <2>4. QED BY <2>2, <2>3 DEF GoneIsLeft, jobs, work, store, job, past
<1>10. QED BY <1>2, <1>4, <1>5, <1>6, <1>7, <1>8, <1>9

LEMMA QueueBase ==
    ASSUME LinksBase, JobsTypeOK', NEW u \in Users, QueueRefresh(u)
    PROVE  LinksBase'
<1> USE DEF LinksBase, linker
<1> DEFINE r == user[u].root
<1>1. /\ r \in Roots /\ user[u].scope \in Scopes
      /\ user' = [user EXCEPT ![u] = NoUser]
      /\ used.marks \subseteq used'.marks
      /\ UNCHANGED <<work, bound, links, known, lock, linker, cleaned, asked,
                     strays>>
      /\ UNCHANGED row \/ Enqueue(r, user[u].scope)
  BY Marked DEF QueueRefresh, UsersFit
<1>2. /\ row' \in [Roots -> RowType] /\ RowsFit' /\ ClaimsFit'
  <2>1. CASE UNCHANGED row
    BY <1>1, <2>1
       DEF RowsFit, ClaimsFit, Mine, Refreshing, TypeOK, TablesType, RowType
  <2>2. CASE Enqueue(r, user[u].scope)
    <3>1. /\ row' \in [Roots -> RowType]
          /\ \A q \in Roots \ {r} : row'[q] = row[q]
          /\ row'[r].state # "none" /\ row'[r].cursor = 0
          /\ row'[r].stamp # 0 /\ row'[r].attempts < MaxAttempts
          /\ row'[r].token # None <=> row'[r].state = "leased"
          /\ \A w \in Workers : row'[r].stamp # task[w].stamp
      BY <1>1, <2>2, EnqueueDoes
    <3>2. RowsFit' BY <1>1, <3>1 DEF RowsFit, TypeOK, TablesType
    <3>3. ClaimsFit'
      BY <1>1, <3>1 DEF ClaimsFit, Mine, Refreshing, LinkersFit, Linkers
    <3>4. QED BY <3>1, <3>2, <3>3
  <2>3. QED BY <1>1, <2>1, <2>2
<1>3. TypeOK'
  BY <1>1, <1>2 DEF TypeOK, TablesType, LinkerType, RowType, NoUser
<1>4. LinkersFit' BY <1>1 DEF LinkersFit, Refreshing, Busy
<1>5. Alone' BY <1>1 DEF Alone
<1>6. UsersFit' BY <1>1 DEF UsersFit, NoUser, TypeOK
<1>7. GoneIsLeft'
  <2>1. None \notin Roots /\ gone \subseteq Roots
    BY IndexJobsAssumption DEF TypeOK, JobsTypeOK
  <2>2. QED
    BY <1>1, <2>1 DEF GoneIsLeft, work, store, job, past, NoUser, TypeOK
<1>8. QED BY <1>1, <1>2, <1>3, <1>4, <1>5, <1>6, <1>7

-----------------------------------------------------------------------------
(* Linkers. *)

\* What the steps of linkers leave to others.
LinkersApart ==
    /\ UNCHANGED <<work, bound, calls, strays>>
    /\ used.marks \subseteq used'.marks

LEMMA LinkersApartKeep ==
    ASSUME LinksBase, JobsTypeOK', LinkersApart,
           TablesType', LinkerType', LinkersFit', RowsFit', ClaimsFit',
           Alone',
           \A r \in gone, p \in Linkers :
               /\ on'[p] = r /\ pc'[p] \in {"looked", "stored"}
               /\ found'[p] # None
               => p \in strays[r]
    PROVE  LinksBase'
<1> USE DEF LinksBase, LinkersApart, calls
<1>1. TypeOK' BY DEF TypeOK
<1>2. UsersFit' BY DEF UsersFit
<1>3. GoneIsLeft' BY DEF GoneIsLeft, work, store, job, past
<1>4. QED BY <1>1, <1>2, <1>3

\* A linker that is done.
LEMMA ForgetKeeps ==
    ASSUME LinksBase, NEW p \in Linkers, Forget(p), known' = known,
           lock' \in Linkers \cup {None, Lapsed}
    PROVE  /\ LinkerType' /\ LinkersFit'
           /\ pc'[p] = "idle" /\ ~Refreshing(p)' /\ stalled' \subseteq stalled
           /\ \A q \in Linkers \ {p} :
                 /\ pc'[q] = pc[q] /\ on'[q] = on[q] /\ task'[q] = task[q]
                 /\ todo'[q] = todo[q] /\ found'[q] = found[q]
                 /\ ending'[q] = ending[q]
<1> USE DEF LinksBase, TypeOK, LinkerType, Forget, Goto
<1>1. /\ \A q \in Linkers \ {p} :
            /\ pc'[q] = pc[q] /\ on'[q] = on[q] /\ task'[q] = task[q]
            /\ todo'[q] = todo[q] /\ found'[q] = found[q]
            /\ ending'[q] = ending[q]
      /\ pc'[p] = "idle" /\ task'[p] = NoTask /\ todo'[p] = {}
  OBVIOUS
<1>2. MaxEntities \in Nat /\ known \in Nat
  BY CodeLinksAssumption DEF TablesType
<1>3. LinkerType'
  <2>1. NoTask \in [scope : Scopes \cup {None}, cursor : 0 .. MaxEntities,
                    stamp : Nat]
    BY <1>2 DEF NoTask
  <2>2. QED BY <2>1
<1>4. ~Refreshing(p)' BY <1>1 DEF Refreshing, NoTask
<1>5. LinkersFit'
  BY <1>1, <1>2 DEF LinkersFit, Refreshing, Busy, NoTask
<1>6. QED BY <1>1, <1>3, <1>4, <1>5

LEMMA UnlockedAlone ==
    ASSUME LinksBase, NEW p \in Linkers, Forget(p),
           used.marks \subseteq used'.marks,
           lock' = lock \/ (lock = p /\ lock' \in {None, Lapsed}),
           known' = known, lock' \in Linkers \cup {None, Lapsed}
    PROVE  Alone'
<1>1. /\ pc'[p] = "idle" /\ stalled' \subseteq stalled
      /\ \A q \in Linkers \ {p} : pc'[q] = pc[q]
  BY ForgetKeeps
<1>2. QED BY <1>1 DEF Alone, LinksBase

LEMMA UnlockLock ==
    ASSUME LinksBase, NEW p \in Linkers, Unlock(p)
    PROVE  /\ Forget(p) /\ lock' \in Linkers \cup {None, Lapsed}
           /\ lock' = lock \/ (lock = p /\ lock' \in {None, Lapsed})
BY DEF Unlock, LinksBase, TypeOK, LinkerType

LEMMA ForgetClaims ==
    ASSUME LinksBase, NEW p \in Linkers, Forget(p), known' = known,
           lock' \in Linkers \cup {None, Lapsed},
           \A w \in Workers \ {p} :
               Refreshing(w) => row'[on[w]] = row[on[w]] \/ ~Mine(w)'
    PROVE  ClaimsFit'
<1>1. /\ ~Refreshing(p)'
      /\ \A q \in Linkers \ {p} :
            pc'[q] = pc[q] /\ on'[q] = on[q] /\ task'[q] = task[q]
  BY ForgetKeeps
<1>2. QED BY <1>1 DEF ClaimsFit, Refreshing, Mine, LinksBase, Linkers

\* What is left behind when a linker ends without a trace.
LEMMA EndsBase ==
    ASSUME LinksBase, JobsTypeOK', NEW p \in Linkers, Forget(p),
           lock' \in Linkers \cup {None, Lapsed},
           lock' = lock \/ (lock = p /\ lock' \in {None, Lapsed}),
           used.marks \subseteq used'.marks,
           UNCHANGED <<work, tables, calls, strays>>
    PROVE  LinksBase'
<1> USE DEF tables
<1>1. LinkerType' /\ LinkersFit' BY ForgetKeeps
<1>2. Alone' BY UnlockedAlone
<1>3. ClaimsFit' BY ForgetClaims
<1>4. TablesType' /\ RowsFit' BY DEF LinksBase, TypeOK, TablesType, RowsFit
<1>5. ASSUME NEW r \in gone, NEW q \in Linkers,
             on'[q] = r, pc'[q] \in {"looked", "stored"}, found'[q] # None
      PROVE  q \in strays[r]
  BY <1>5, ForgetKeeps DEF LinksBase, GoneIsLeft
<1>6. QED
  BY <1>1, <1>2, <1>3, <1>4, <1>5, LinkersApartKeep DEF LinkersApart

LEMMA HaltBase ==
    ASSUME LinksBase, JobsTypeOK', NEW p \in Linkers, Halt(p)
    PROVE  LinksBase'
<1>1. Forget(p) /\ used.marks \subseteq used'.marks BY Marked DEF Halt
<1>2. /\ lock' \in Linkers \cup {None, Lapsed}
      /\ lock' = lock \/ (lock = p /\ lock' \in {None, Lapsed})
  BY DEF Halt, LinksBase, TypeOK, LinkerType
<1>3. QED BY <1>1, <1>2, EndsBase DEF Halt

LEMMA AbortBase ==
    ASSUME LinksBase, JobsTypeOK', NEW w \in Linkers,
           Abort(w) \/ BuildEnds(w)
    PROVE  LinksBase'
<1>1. Unlock(w) /\ UNCHANGED <<jobs, tables, calls, strays>>
  BY DEF Abort, BuildEnds
<1>2. QED BY <1>1, UnlockLock, EndsBase DEF jobs

LEMMA StallBase ==
    ASSUME LinksBase, JobsTypeOK', NEW p \in Linkers, Stall(p)
    PROVE  LinksBase'
<1> USE DEF LinksBase, tables
<1>1. /\ used.marks \subseteq used'.marks /\ "forgotten" \in used'.marks
      /\ UNCHANGED <<work, tables, pc, on, task, todo, found, ending, calls,
                     strays>>
  BY Marked, CodeLinksAssumption DEF Stall
<1>2. TablesType' /\ LinkerType'
  BY <1>1 DEF Stall, TypeOK, TablesType, LinkerType
<1>3. LinkersFit' BY <1>1 DEF LinkersFit, Refreshing, Busy
<1>4. RowsFit' /\ ClaimsFit' BY <1>1 DEF RowsFit, ClaimsFit, Refreshing, Mine
<1>5. Alone' BY <1>1 DEF Alone
<1>6. QED
  BY <1>1, <1>2, <1>3, <1>4, <1>5, LinkersApartKeep
     DEF LinkersApart, GoneIsLeft

LEMMA LockEndsBase ==
    ASSUME LinksBase, JobsTypeOK', LockEnds PROVE LinksBase'
<1> USE DEF LinksBase, tables, LockEnds, linker, jobs
<1>1. TablesType' /\ LinkerType'
  BY DEF TypeOK, TablesType, LinkerType
<1>2. LinkersFit' BY DEF LinkersFit, Refreshing, Busy
<1>3. RowsFit' /\ ClaimsFit' BY DEF RowsFit, ClaimsFit, Refreshing, Mine
<1>4. Alone' BY CodeLinksAssumption DEF Alone
<1>5. QED
  BY <1>1, <1>2, <1>3, <1>4, LinkersApartKeep DEF LinkersApart, GoneIsLeft

LEMMA RowDueBase ==
    ASSUME LinksBase, JobsTypeOK', NEW r \in Roots, RowDue(r)
    PROVE  LinksBase'
<1> USE DEF LinksBase, RowDue, linker, jobs
<1>1. /\ row' \in [Roots -> RowType]
      /\ \A q \in Roots :
            \/ row'[q] = row[q]
            \/ q = r /\ row'[q] = [row[q] EXCEPT !.waiting = FALSE]
      /\ row[r].state # "none"
  <2>1. row \in [Roots -> RowType] BY DEF TypeOK, TablesType, RowType
  <2>2. [row[r] EXCEPT !.waiting = FALSE] \in RowType BY <2>1 DEF RowType
  <2>3. row[r].state # "none" BY DEF RowsFit, NoRow
  <2>4. QED BY <2>1, <2>2, <2>3
<1>2. \A q \in Roots : /\ row'[q].state = row[q].state
                       /\ row'[q].token = row[q].token
                       /\ row'[q].stamp = row[q].stamp
                       /\ row'[q].scope = row[q].scope
                       /\ row'[q].cursor = row[q].cursor
                       /\ row'[q].attempts = row[q].attempts
                       /\ row[q].state = "none" => row'[q] = row[q]
  BY <1>1 DEF TypeOK, TablesType
<1>3. TablesType' /\ LinkerType'
  BY <1>1 DEF TypeOK, TablesType, LinkerType, RowType
<1>4. LinkersFit' BY DEF LinkersFit, Refreshing, Busy
<1>5. RowsFit' BY <1>2 DEF RowsFit
<1>6. ClaimsFit'
  BY <1>2 DEF ClaimsFit, Refreshing, Mine, LinkersFit, Linkers
<1>7. Alone' BY DEF Alone
<1>8. QED
  BY <1>3, <1>4, <1>5, <1>6, <1>7, LinkersApartKeep
     DEF LinkersApart, GoneIsLeft

LEMMA FirstIsThere ==
    ASSUME LinksBase, NEW p \in Linkers, todo[p] # {}
    PROVE  /\ First(p) \in todo[p] /\ First(p) \in Entities
           /\ First(p) <= known /\ on[p] \in Roots
<1>1. todo[p] \in SUBSET Nat /\ todo[p] \subseteq Entities
  BY DEF LinksBase, TypeOK, LinkerType, Entities
<1>2. First(p) \in todo[p] BY <1>1, LeastIs DEF First
<1>3. todo[p] \subseteq 1 .. known /\ on[p] \in Roots
  BY DEF LinksBase, LinkersFit
<1>4. known \in Nat
  BY CodeLinksAssumption DEF LinksBase, TypeOK, TablesType
<1>5. QED BY <1>1, <1>2, <1>3, <1>4

\* A linker that holds the lock, and moves on.
LEMMA ClaimBase ==
    ASSUME LinksBase, JobsTypeOK', NEW w \in Workers, Claim(w)
    PROVE  LinksBase'
<1> USE DEF LinksBase
<1>1. w \in Linkers BY DEF Linkers
<1>2. PICK r \in Roots :
         /\ Claimable(r)
         /\ row' = [row EXCEPT ![r].state = "leased", ![r].token = w,
                               ![r].waiting = TRUE]
         /\ on' = [on EXCEPT ![w] = r]
         /\ task' = [task EXCEPT ![w] =
                       [scope |-> row[r].scope, cursor |-> row[r].cursor,
                        stamp |-> row[r].stamp]]
  BY DEF Claim
<1>3. /\ row[r] \in RowType /\ row[r].state \notin {"none", "parked"}
      /\ row[r].stamp # 0
  BY <1>2 DEF Claimable, RowsFit, TypeOK, TablesType, RowType
<1>4. /\ row'[r] = [row[r] EXCEPT !.state = "leased", !.token = w,
                                  !.waiting = TRUE]
      /\ \A q \in Roots \ {r} : row'[q] = row[q]
      /\ row' \in [Roots -> RowType]
  <2>1. row \in [Roots -> RowType] BY DEF TypeOK, TablesType, RowType
  <2>2. [row[r] EXCEPT !.state = "leased", !.token = w, !.waiting = TRUE]
           \in RowType
    BY <1>3 DEF RowType
  <2>3. row' = [row EXCEPT ![r] =
                  [row[r] EXCEPT !.state = "leased", !.token = w,
                                 !.waiting = TRUE]]
    BY <1>2, <2>1
  <2>4. QED BY <2>1, <2>2, <2>3
<1>5. /\ row'[r].state = "leased" /\ row'[r].token = w
      /\ row'[r].scope = row[r].scope /\ row'[r].cursor = row[r].cursor
      /\ row'[r].stamp = row[r].stamp
      /\ row'[r].attempts = row[r].attempts
  BY <1>3, <1>4 DEF RowType
<1>6. TablesType'
  BY <1>4 DEF Claim, TypeOK, TablesType, RowType
<1>7. LinkerType'
  BY <1>1, <1>2, <1>3 DEF Claim, Goto, TypeOK, LinkerType, RowType
<1>8. /\ pc'[w] = "claimed" /\ on'[w] = r /\ todo'[w] = {}
      /\ task'[w] = [scope |-> row[r].scope, cursor |-> row[r].cursor,
                     stamp |-> row[r].stamp]
      /\ pc[w] = "idle" /\ lock = None /\ lock' = w
      /\ \A q \in Linkers \ {w} :
            pc'[q] = pc[q] /\ on'[q] = on[q] /\ task'[q] = task[q]
      /\ UNCHANGED <<jobs, bound, links, known, todo, found, ending, stalled,
                     calls, strays>>
  BY <1>1, <1>2 DEF Claim, Goto, TypeOK, LinkerType, LinkersFit
<1>9. LinkersFit'
  BY <1>1, <1>3, <1>8 DEF LinkersFit, Refreshing, Busy, RowsFit
<1>10. RowsFit'
  <2>1. w # None BY <1>1, CodeLinksAssumption
  <2>2. \A q \in Roots \ {r} :
           /\ row'[q].state = "none" => row'[q] = NoRow
           /\ row'[q].state # "none" => row'[q].stamp # 0
           /\ row'[q].token # None <=> row'[q].state = "leased"
           /\ row'[q].state # "parked" => row'[q].attempts < MaxAttempts
           /\ row'[q].cursor <= known
    BY <1>4 DEF RowsFit
  <2>3. /\ row'[r].state = "leased" /\ row'[r].token # None
        /\ row'[r].stamp # 0 /\ row'[r].attempts < MaxAttempts
        /\ row'[r].cursor <= known
    BY <1>3, <1>5, <2>1 DEF RowsFit
  <2>4. QED BY <1>8, <2>2, <2>3 DEF RowsFit
<1>11. ClaimsFit'
  <2>1. ASSUME NEW v \in Workers \ {w}, Refreshing(v)', Mine(v)'
        PROVE  Refreshing(v) /\ Mine(v) /\ on[v] # r
    <3>1. v \in Linkers BY DEF Linkers
    <3>2. on'[v] = on[v] /\ task'[v] = task[v] BY <1>8, <3>1
    <3>3. Refreshing(v) BY <2>1, <3>2 DEF Refreshing
    <3>4. on[v] \in Roots BY <3>1, <3>3 DEF LinkersFit
    <3>5. on[v] # r BY <1>5, <2>1, <3>2 DEF Mine
    <3>6. QED BY <1>4, <2>1, <3>2, <3>3, <3>4, <3>5 DEF Mine
  <2>2. ASSUME NEW v \in Workers \ {w}, Refreshing(v)', Mine(v)'
        PROVE  /\ row'[on'[v]].scope = task'[v].scope
               /\ pc'[v] = "claimed" => row'[on'[v]].cursor = task'[v].cursor
    <3>1. v \in Linkers BY DEF Linkers
    <3>2. /\ on'[v] = on[v] /\ task'[v] = task[v] /\ pc'[v] = pc[v]
          /\ on[v] \in Roots
      BY <1>8, <2>1, <2>2, <3>1 DEF LinkersFit
    <3>3. row'[on[v]] = row[on[v]] BY <1>4, <2>1, <2>2, <3>2
    <3>4. QED BY <2>1, <2>2, <3>2, <3>3 DEF ClaimsFit
  <2>3. /\ row'[on'[w]].scope = task'[w].scope
        /\ row'[on'[w]].cursor = task'[w].cursor
    BY <1>5, <1>8
  <2>4. QED BY <2>2, <2>3 DEF ClaimsFit
<1>12. Alone' BY <1>8, CodeLinksAssumption DEF Alone, jobs
<1>13. QED
  BY <1>6, <1>7, <1>8, <1>9, <1>10, <1>11, <1>12, LinkersApartKeep
     DEF LinkersApart, GoneIsLeft, jobs

LEMMA PageIs ==
    ASSUME LinksBase, NEW w \in Workers, pc[w] = "claimed",
           NEW page \in SUBSET Ahead(w)
    PROVE  /\ page \subseteq Entities /\ page \subseteq 1 .. known
           /\ w \in Linkers /\ on[w] \in Roots /\ Refreshing(w)
           /\ Cardinality(page) = PageSize =>
                 /\ Max(page) \in page /\ Max(page) \in 0 .. MaxEntities
                 /\ Max(page) <= known
                 /\ \A e \in page : e <= Max(page)
<1>1. w \in Linkers BY DEF Linkers
<1>2. /\ known \in Nat /\ known <= MaxEntities /\ MaxEntities \in Nat
      /\ task[w].cursor \in Nat
  BY <1>1, CodeLinksAssumption
     DEF LinksBase, TypeOK, TablesType, LinkerType
<1>3. page \subseteq 1 .. known BY <1>2 DEF Ahead
<1>4. IsFiniteSet(page)
  <2>1. IsFiniteSet(1 .. known) BY <1>2, FS_Interval
  <2>2. QED BY <1>3, <2>1, FS_Subset
<1>5. ASSUME Cardinality(page) = PageSize
      PROVE  Max(page) \in page /\ \A e \in page : e <= Max(page)
  <2>1. page # {} BY <1>5, FS_EmptySet, CodeLinksAssumption
  <2>2. page \in SUBSET Nat BY <1>2, <1>3
  <2>3. QED BY <1>4, <2>1, <2>2, GreatestIs
<1>6. on[w] \in Roots /\ Refreshing(w) BY <1>1 DEF LinksBase, LinkersFit
<1>7. QED BY <1>1, <1>2, <1>3, <1>5, <1>6 DEF Entities

LEMMA ReadPageBase ==
    ASSUME LinksBase, JobsTypeOK', NEW w \in Workers, ReadPage(w)
    PROVE  LinksBase'
<1> USE DEF LinksBase
<1>1. PICK page \in SUBSET Ahead(w) :
         /\ todo' = [todo EXCEPT ![w] = page]
         /\ IF Cardinality(page) = PageSize
            THEN /\ ending' = [ending EXCEPT ![w] = "advance"]
                 /\ task' = [task EXCEPT ![w].cursor = Max(page)]
            ELSE /\ ending' = [ending EXCEPT ![w] = "complete"]
                 /\ UNCHANGED task
  BY DEF ReadPage
<1>2. /\ page \subseteq Entities /\ page \subseteq 1 .. known
      /\ w \in Linkers /\ on[w] \in Roots /\ Refreshing(w)
      /\ Cardinality(page) = PageSize =>
            /\ Max(page) \in 0 .. MaxEntities /\ Max(page) <= known
  BY PageIs DEF ReadPage
<1>3. /\ pc'[w] = "paging" /\ todo'[w] = page /\ ending'[w] # "none"
      /\ task'[w].scope = task[w].scope /\ task'[w].stamp = task[w].stamp
      /\ task'[w].cursor <= known
      /\ \A q \in Linkers \ {w} :
            /\ pc'[q] = pc[q] /\ todo'[q] = todo[q] /\ task'[q] = task[q]
            /\ ending'[q] = ending[q]
      /\ UNCHANGED <<jobs, tables, lock, on, found, stalled, calls, strays>>
  BY <1>1, <1>2 DEF ReadPage, Goto, TypeOK, LinkerType, LinkersFit
<1>4. TablesType' BY <1>3 DEF TypeOK, TablesType, tables
<1>5. LinkerType'
  <2>1. task' \in [Linkers -> [scope : Scopes \cup {None},
                               cursor : 0 .. MaxEntities, stamp : Nat]]
    <3>1. CASE Cardinality(page) = PageSize
      <4> DEFINE Tasked == [scope : Scopes \cup {None},
                            cursor : 0 .. MaxEntities, stamp : Nat]
                 t == [task[w] EXCEPT !.cursor = Max(page)]
      <4>1. task \in [Linkers -> Tasked] BY DEF TypeOK, LinkerType
      <4>2. task[w] \in Tasked BY <1>2, <4>1
      <4>3. t \in Tasked BY <1>2, <3>1, <4>2
      <4>4. task' = [task EXCEPT ![w] = t] BY <1>1, <3>1
      <4> HIDE DEF Tasked, t
      <4>5. task' \in [Linkers -> Tasked] BY ONLY <4>1, <4>3, <4>4
      <4>6. QED BY <4>5 DEF Tasked
    <3>2. CASE Cardinality(page) # PageSize
      BY <1>1, <3>2 DEF TypeOK, LinkerType
    <3>3. QED BY <3>1, <3>2
  <2>2. /\ todo' \in [Linkers -> SUBSET Entities]
        /\ ending' \in [Linkers -> {"none", "complete", "advance", "fail"}]
    BY <1>1, <1>2 DEF TypeOK, LinkerType
  <2>3. QED BY <1>3, <2>1, <2>2 DEF ReadPage, Goto, TypeOK, LinkerType
<1>6. LinkersFit'
  <2>1. /\ UNCHANGED <<on, found, known>>
        /\ \A q \in Linkers : Refreshing(q)' <=> Refreshing(q)
    BY <1>3 DEF Refreshing, tables
  <2>2. /\ Busy(w)' /\ \A q \in Linkers \ {w} : Busy(q)' <=> Busy(q)
    BY <1>3 DEF Busy
  <2>3. ASSUME NEW q \in Linkers, q # w
        PROVE  /\ pc'[q] = "idle" => task'[q] = NoTask /\ todo'[q] = {}
               /\ pc'[q] = "built" => ~Refreshing(q)' /\ todo'[q] = {}
               /\ pc'[q] = "claimed" => Refreshing(q)' /\ todo'[q] = {}
               /\ Refreshing(q)' =>
                     /\ q \in Workers /\ on'[q] \in Roots
                     /\ Busy(q)' => ending'[q] # "none"
               /\ todo'[q] # {} => on'[q] \in Roots /\ Busy(q)'
               /\ todo'[q] \subseteq 1 .. known'
               /\ task'[q].cursor <= known'
               /\ pc'[q] \in {"looked", "stored"} => todo'[q] # {}
               /\ pc'[q] = "stored" => found'[q] # None
    BY <1>3, <2>1, <2>2, <2>3 DEF LinkersFit
  <2>4. /\ w \in Workers /\ on'[w] \in Roots /\ todo'[w] \subseteq 1 .. known'
        /\ pc'[w] = "paging" /\ ending'[w] # "none" /\ task'[w].cursor <= known'
    BY <1>2, <1>3, <2>1
  <2>5. QED BY <2>2, <2>3, <2>4 DEF LinkersFit
<1>7. RowsFit' BY <1>3 DEF RowsFit, tables
<1>8. ClaimsFit'
  BY <1>3 DEF ClaimsFit, Refreshing, Mine, tables, Linkers
<1>9. Alone' BY <1>2, <1>3 DEF Alone, jobs, ReadPage
<1>10. QED
  BY <1>3, <1>4, <1>5, <1>6, <1>7, <1>8, <1>9, LinkersApartKeep
     DEF LinkersApart, GoneIsLeft, jobs, tables

\* The row of a settled task belongs to nobody.
LEMMA SettledRow ==
    ASSUME LinksBase, NEW w \in Workers, Settle(w), Mine(w)
    PROVE  /\ w \in Linkers /\ on[w] \in Roots
           /\ row[on[w]].state = "leased"
           /\ row' \in [Roots -> RowType]
           /\ \A q \in Roots \ {on[w]} : row'[q] = row[q]
           /\ row'[on[w]].token = None
           /\ \/ ending[w] = "complete" /\ row'[on[w]] = NoRow
              \/ /\ ending[w] \in {"advance", "fail"}
                 /\ row'[on[w]].state \in {"pending", "parked"}
                 /\ row'[on[w]].state = "pending" =>
                       row'[on[w]].attempts < MaxAttempts
                 /\ row'[on[w]].scope = row[on[w]].scope
                 /\ row'[on[w]].stamp # 0
                 /\ row'[on[w]].cursor =
                       IF ending[w] = "advance" THEN task[w].cursor
                       ELSE row[on[w]].cursor
<1> USE DEF LinksBase
<1> DEFINE r == on[w]
<1>1. /\ w \in Linkers /\ r \in Roots /\ w # None
      /\ ending[w] \in {"complete", "advance", "fail"}
      /\ task[w].cursor \in 0 .. MaxEntities
  BY CodeLinksAssumption
     DEF Settle, LinkersFit, Busy, Linkers, TypeOK, LinkerType
<1>2. /\ row \in [Roots -> RowType] /\ row[r] \in RowType
      /\ row[r].state = "leased" /\ row[r].attempts < MaxAttempts
      /\ row[r].stamp # 0
  BY <1>1 DEF Mine, RowsFit, TypeOK, TablesType, RowType
<1>3. MaxAttempts \in Nat /\ 0 < MaxAttempts /\ MaxEntities \in Nat
  BY CodeLinksAssumption
<1>4. row' = [row EXCEPT ![r] = Settled(w)] BY DEF Settle
<1>5. CASE ending[w] = "complete"
  <2>1. Settled(w) = NoRow BY <1>5 DEF Settled
  <2>2. NoRow \in RowType BY <1>3 DEF NoRow, RowType
  <2>3. QED BY <1>1, <1>2, <1>4, <1>5, <2>1, <2>2 DEF NoRow
<1>6. CASE ending[w] = "advance"
  <2>1. Settled(w) = [row[r] EXCEPT !.state = "pending", !.token = None,
                        !.waiting = FALSE, !.attempts = 0,
                        !.cursor = task[w].cursor]
    BY <1>6 DEF Settled
  <2>2. Settled(w) \in RowType
    <3>1. 0 \in 0 .. MaxAttempts BY <1>3
    <3>2. QED BY <1>1, <1>2, <2>1, <3>1 DEF RowType
  <2>3. QED BY <1>1, <1>2, <1>3, <1>4, <1>6, <2>1, <2>2 DEF RowType
<1>7. CASE ending[w] = "fail"
  <2> DEFINE n == row[r].attempts + 1
  <2>1. Settled(w) = [row[r] EXCEPT
                        !.state = IF Parked(n) THEN "parked" ELSE "pending",
                        !.token = None, !.attempts = n,
                        !.waiting = ~Parked(n)]
    BY <1>7 DEF Settled
  <2>2. n \in 0 .. MaxAttempts /\ (~Parked(n) => n < MaxAttempts)
    BY <1>2, <1>3 DEF Parked, RowType
  <2>3. Parked(n) \in BOOLEAN BY DEF Parked
  <2> HIDE DEF n
  <2>4. Settled(w) \in RowType BY <1>2, <2>1, <2>2, <2>3 DEF RowType
  <2>5. QED BY <1>1, <1>2, <1>4, <1>7, <2>1, <2>2, <2>4 DEF RowType
<1>8. QED BY <1>1, <1>5, <1>6, <1>7

LEMMA SettleBase ==
    ASSUME LinksBase, JobsTypeOK', NEW w \in Workers, Settle(w)
    PROVE  LinksBase'
<1>1. /\ Unlock(w) /\ UNCHANGED <<jobs, bound, links, known, calls, strays>>
      /\ w \in Linkers
  BY DEF Settle, Linkers
<1>2. /\ Forget(w) /\ lock' \in Linkers \cup {None, Lapsed}
      /\ lock' = lock \/ (lock = w /\ lock' \in {None, Lapsed})
  BY <1>1, UnlockLock
<1>3. CASE ~Mine(w)
  <2>1. UNCHANGED row BY <1>3 DEF Settle
  <2>2. QED BY <1>1, <1>2, <2>1, EndsBase DEF jobs, tables
<1>4. CASE Mine(w)
  <2>1. /\ on[w] \in Roots
        /\ row' \in [Roots -> RowType]
        /\ \A q \in Roots \ {on[w]} : row'[q] = row[q]
        /\ row'[on[w]].token = None
    BY <1>4, SettledRow
  <2>2. LinkerType' /\ LinkersFit' BY <1>1, <1>2, ForgetKeeps
  <2>3. TablesType'
    BY <1>1, <2>1 DEF LinksBase, TypeOK, TablesType, RowType
  <2>4. RowsFit'
    <3>1. \A q \in Roots \ {on[w]} :
             /\ row'[q].state = "none" => row'[q] = NoRow
             /\ row'[q].state # "none" => row'[q].stamp # 0
             /\ row'[q].token # None <=> row'[q].state = "leased"
             /\ row'[q].state # "parked" => row'[q].attempts < MaxAttempts
             /\ row'[q].cursor <= known
      BY <2>1 DEF LinksBase, RowsFit
    <3>2. /\ row'[on[w]].state = "none" => row'[on[w]] = NoRow
          /\ row'[on[w]].state # "none" => row'[on[w]].stamp # 0
          /\ row'[on[w]].state # "leased"
          /\ row'[on[w]].state # "parked" =>
                row'[on[w]].attempts < MaxAttempts
          /\ row'[on[w]].cursor <= known
      <4>1. task[w].cursor <= known /\ row[on[w]].cursor <= known
        BY <1>1, <2>1 DEF LinksBase, LinkersFit, RowsFit
      <4>2. known \in Nat /\ 0 < MaxAttempts
        BY CodeLinksAssumption DEF LinksBase, TypeOK, TablesType
      <4>3. CASE row'[on[w]] = NoRow BY <4>2, <4>3 DEF NoRow
      <4>4. CASE row'[on[w]] # NoRow
        <5>1. /\ row'[on[w]].state \in {"pending", "parked"}
              /\ row'[on[w]].state = "pending" =>
                    row'[on[w]].attempts < MaxAttempts
              /\ row'[on[w]].stamp # 0
              /\ row'[on[w]].cursor \in {task[w].cursor, row[on[w]].cursor}
          BY <1>4, <4>4, SettledRow
        <5>2. QED BY <4>1, <5>1
      <4>5. QED BY <4>3, <4>4
    <3>3. QED BY <1>1, <2>1, <3>1, <3>2 DEF RowsFit
  <2>5. ClaimsFit'
    <3>1. ASSUME NEW v \in Workers \ {w}, Refreshing(v)
          PROVE  row'[on[v]] = row[on[v]] \/ ~Mine(v)'
      <4>1. v \in Linkers /\ on[v] \in Roots /\ v # None
        BY <3>1, CodeLinksAssumption DEF LinksBase, LinkersFit, Linkers
      <4>2. on'[v] = on[v] BY <1>1, <1>2, <4>1, ForgetKeeps
      <4>3. QED BY <2>1, <4>1, <4>2 DEF Mine
    <3>2. QED BY <1>1, <1>2, <3>1, ForgetClaims
  <2>6. Alone' BY <1>1, <1>2, UnlockedAlone DEF jobs
  <2>7. ASSUME NEW r \in gone, NEW q \in Linkers,
               on'[q] = r, pc'[q] \in {"looked", "stored"}, found'[q] # None
        PROVE  q \in strays[r]
    BY <1>1, <1>2, <2>7, ForgetKeeps DEF LinksBase, GoneIsLeft
  <2>8. QED
    BY <1>1, <2>2, <2>3, <2>4, <2>5, <2>6, <2>7, LinkersApartKeep
       DEF LinkersApart, jobs
<1>5. QED BY <1>3, <1>4

(* Builds, and what linkers do to an entity. *)

LEMMA BeginBuildBase ==
    ASSUME LinksBase, JobsTypeOK', NEW b \in Builders, BeginBuild(b)
    PROVE  LinksBase'
<1> USE DEF LinksBase
<1>1. b \in Linkers BY DEF Linkers
<1>2. PICK scope \in Scopes :
         /\ on' = [on EXCEPT ![b] =
                     IF Free(scope) THEN None
                     ELSE CHOOSE r \in Roots : bound[r] = scope]
         /\ task' = [task EXCEPT ![b].scope = scope]
  BY DEF BeginBuild
<1>3. on'[b] \in Roots \cup {None}
  BY <1>1, <1>2 DEF Free, TypeOK, LinkerType
<1>4. /\ pc'[b] = "built" /\ todo'[b] = {} /\ pc[b] = "idle"
      /\ task'[b] = [NoTask EXCEPT !.scope = scope]
      /\ lock = None /\ lock' = b
      /\ \A q \in Linkers \ {b} :
            pc'[q] = pc[q] /\ on'[q] = on[q] /\ task'[q] = task[q]
      /\ UNCHANGED <<jobs, tables, todo, found, ending, stalled, cleaned, user,
                     strays>>
  BY <1>1, <1>2 DEF BeginBuild, Goto, TypeOK, LinkerType, LinkersFit
<1>5. LinkerType'
  <2>1. task' \in [Linkers -> [scope : Scopes \cup {None},
                               cursor : 0 .. MaxEntities, stamp : Nat]]
    BY <1>1, <1>2 DEF TypeOK, LinkerType
  <2>2. on' \in [Linkers -> Roots \cup {None}]
    BY <1>1, <1>2, <1>3 DEF TypeOK, LinkerType
  <2>3. QED BY <1>1, <1>4, <2>1, <2>2 DEF BeginBuild, Goto, TypeOK, LinkerType
<1>6. TablesType' BY <1>4 DEF TypeOK, TablesType, tables
<1>7. known \in Nat BY CodeLinksAssumption DEF TypeOK, TablesType
<1>8. LinkersFit'
  BY <1>1, <1>4, <1>7 DEF LinkersFit, Refreshing, Busy, NoTask, tables
<1>9. RowsFit' BY <1>4 DEF RowsFit, tables
<1>10. ClaimsFit'
  <2>1. ~Refreshing(b)' BY <1>4 DEF Refreshing, NoTask
  <2>2. QED
    BY <1>4, <2>1 DEF ClaimsFit, Refreshing, Mine, tables, Linkers
<1>11. Alone' BY <1>4, CodeLinksAssumption DEF Alone, jobs
<1>12. TypeOK'
  BY <1>4, <1>5, <1>6, CodeLinksAssumption DEF TypeOK, BeginBuild, Asks
<1>13. UsersFit' BY <1>4 DEF UsersFit, tables
<1>14. GoneIsLeft'
  BY <1>4 DEF GoneIsLeft, jobs, work, store, job, past
<1>15. QED
  BY <1>4, <1>8, <1>9, <1>10, <1>11, <1>12, <1>13, <1>14 DEF tables

LEMMA ExtractDoes ==
    ASSUME LinksBase, NEW b \in Linkers, Extract(b)
    PROVE  \E e \in Entities :
              /\ e \in 1 .. known + 1 /\ Home[e] = task[b].scope
              /\ known' = (IF e > known THEN e ELSE known)
              /\ todo' = [todo EXCEPT ![b] = IF on[b] = None THEN {} ELSE {e}]
              /\ known \in 0 .. MaxEntities /\ known' \in 0 .. MaxEntities
              /\ known <= known' /\ e <= known' /\ 1 <= e
<1>1. PICK e \in 1 .. known + 1 :
         /\ e \in Entities /\ Home[e] = task[b].scope
         /\ known' = (IF e > known THEN e ELSE known)
         /\ todo' = [todo EXCEPT ![b] = IF on[b] = None THEN {} ELSE {e}]
  BY DEF Extract
<1>2. MaxEntities \in Nat /\ known \in 0 .. MaxEntities
  BY CodeLinksAssumption DEF LinksBase, TypeOK, TablesType
<1>3. e \in Nat /\ 1 <= e BY <1>1, <1>2
<1>4. known \in Nat /\ known <= MaxEntities /\ e <= MaxEntities
  BY <1>1, <1>2 DEF Entities
<1>5. known' \in 0 .. MaxEntities /\ known <= known' /\ e <= known'
  <2>1. CASE e > known BY <2>1, <1>1, <1>2, <1>3, <1>4
  <2>2. CASE ~(e > known) BY <2>2, <1>1, <1>2, <1>3, <1>4
  <2>3. QED BY <2>1, <2>2
<1>6. QED BY <1>1, <1>2, <1>3, <1>5

LEMMA ExtractBase ==
    ASSUME LinksBase, JobsTypeOK', NEW b \in Linkers, Extract(b)
    PROVE  LinksBase'
<1> USE DEF LinksBase
<1>1. PICK e \in Entities :
         /\ todo' = [todo EXCEPT ![b] = IF on[b] = None THEN {} ELSE {e}]
         /\ known' \in 0 .. MaxEntities /\ known \in 0 .. MaxEntities
         /\ known <= known' /\ e <= known' /\ 1 <= e
  BY ExtractDoes
<1>2. MaxEntities \in Nat BY CodeLinksAssumption
<1>3. /\ pc[b] = "built" /\ pc'[b] = "paging" /\ ~Refreshing(b)
      /\ \/ on[b] = None /\ todo'[b] = {}
         \/ on[b] \in Roots /\ todo'[b] = {e}
      /\ \A q \in Linkers \ {b} : pc'[q] = pc[q] /\ todo'[q] = todo[q]
      /\ UNCHANGED <<jobs, bound, row, links, lock, on, task, found, ending,
                     stalled, calls, strays>>
  BY <1>1 DEF Extract, Goto, TypeOK, LinkerType, LinkersFit
<1>4. TablesType' BY <1>1, <1>3 DEF TypeOK, TablesType
<1>5. LinkerType'
  BY <1>1, <1>3 DEF Extract, Goto, TypeOK, LinkerType
<1>6. \A n \in Nat : n <= known => n <= known' BY <1>1, <1>2
<1>7. LinkersFit'
  <2>1. \A q \in Linkers : task[q].cursor \in Nat
    BY <1>2 DEF TypeOK, LinkerType
  <2>2. 1 .. known \subseteq 1 .. known' BY <1>1, <1>2
  <2>3. e \in 1 .. known'
    BY <1>1, <1>2 DEF Entities
  <2>4. todo'[b] \subseteq 1 .. known' BY <1>3, <2>3
  <2>5. QED
    BY <1>3, <1>6, <2>1, <2>2, <2>4 DEF LinkersFit, Refreshing, Busy
<1>8. RowsFit'
  <2>1. \A r \in Roots : row[r].cursor \in Nat
    BY <1>2 DEF TypeOK, TablesType
  <2>2. QED BY <1>3, <1>6, <2>1 DEF RowsFit
<1>9. ClaimsFit' BY <1>3 DEF ClaimsFit, Refreshing, Mine, Linkers
<1>10. Alone' BY <1>3 DEF Alone, jobs
<1>11. QED
  BY <1>3, <1>4, <1>5, <1>7, <1>8, <1>9, <1>10, LinkersApartKeep
     DEF LinkersApart, GoneIsLeft, jobs

\* A step of a linker on its first entity, or on what it has in hand.
InHandStep(p) ==
    /\ UNCHANGED <<work, bound, row, known, lock, on, task, stalled, calls,
                   strays>>
    /\ used.marks \subseteq used'.marks
    /\ \A q \in Linkers \ {p} :
          /\ pc'[q] = pc[q] /\ todo'[q] = todo[q] /\ found'[q] = found[q]
          /\ ending'[q] = ending[q]
    /\ Busy(p) /\ pc'[p] \in {"paging", "looked", "stored"}
    /\ todo[p] # {} /\ todo'[p] \subseteq todo[p]
    /\ ending[p] # "none" => ending'[p] # "none"

LEMMA InHandKeeps ==
    ASSUME LinksBase, JobsTypeOK', NEW p \in Linkers, InHandStep(p),
           LinkerType', links' \in [Roots -> [Entities -> SUBSET Symbols]],
           pc'[p] \in {"looked", "stored"} => todo'[p] # {},
           pc'[p] = "stored" => found'[p] # None,
           on[p] \in gone /\ pc'[p] \in {"looked", "stored"}
              /\ found'[p] # None => p \in strays[on[p]]
    PROVE  LinksBase'
<1> USE DEF LinksBase, InHandStep
<1>1. TablesType' BY DEF TypeOK, TablesType
<1>2. LinkersFit' BY DEF LinkersFit, Refreshing, Busy
<1>3. RowsFit' BY DEF RowsFit
<1>4. ClaimsFit' BY DEF ClaimsFit, Refreshing, Mine, Busy, Linkers
<1>5. Alone' BY DEF Alone, Busy
<1>6. QED
  BY <1>1, <1>2, <1>3, <1>4, <1>5, LinkersApartKeep
     DEF LinkersApart, GoneIsLeft

LEMMA LookUpBase ==
    ASSUME LinksBase, JobsTypeOK', NEW p \in Linkers, LookUp(p)
    PROVE  LinksBase' /\ InHandStep(p)
<1> USE DEF LinksBase
<1> DEFINE answer == IF graph[on[p]] = None THEN None
                     ELSE Symbol[graph[on[p]]][First(p)]
<1>1. pc[p] = "paging" /\ todo[p] # {} BY DEF LookUp, Looks
<1>2. /\ First(p) \in todo[p] /\ First(p) \in Entities /\ on[p] \in Roots
  BY <1>1, FirstIsThere
<1>3. answer \in Symbols \cup {None, Ambiguous}
  BY <1>2 DEF Symbols, TypeOK, JobsTypeOK
<1>4. CASE answer = Ambiguous
  <2>1. Drop(p) /\ UNCHANGED <<pc, found>> BY <1>4 DEF LookUp
  <2>2. InHandStep(p)
    BY <1>1, <2>1
       DEF InHandStep, LookUp, Drop, Busy, TypeOK, LinkerType, tables, jobs
  <2>3. LinkerType'
    BY <1>1, <2>1 DEF LookUp, Drop, TypeOK, LinkerType
  <2>4. links' \in [Roots -> [Entities -> SUBSET Symbols]]
    BY DEF LookUp, tables, TypeOK, TablesType
  <2>5. QED BY <1>1, <2>1, <2>2, <2>3, <2>4, InHandKeeps
<1>5. CASE answer # Ambiguous
  <2>1. /\ Goto(p, "looked") /\ found' = [found EXCEPT ![p] = answer]
        /\ UNCHANGED todo
    BY <1>5 DEF LookUp
  <2> HIDE DEF answer
  <2>2. InHandStep(p)
    BY <1>1, <2>1
       DEF InHandStep, LookUp, Goto, Busy, TypeOK, LinkerType, tables, jobs
  <2>3. LinkerType'
    BY <1>1, <1>3, <1>5, <2>1 DEF LookUp, Goto, TypeOK, LinkerType
  <2>4. links' \in [Roots -> [Entities -> SUBSET Symbols]]
    BY DEF LookUp, tables, TypeOK, TablesType
  <2>5. pc'[p] = "looked" /\ found'[p] = answer
    BY <2>1 DEF Goto, TypeOK, LinkerType
  <2>6. on[p] \in gone => found'[p] = None
    BY <2>5 DEF answer, GoneIsLeft
  <2>7. QED BY <1>1, <2>1, <2>2, <2>3, <2>4, <2>5, <2>6, InHandKeeps
<1>6. QED BY <1>4, <1>5

LEMMA UnavailableBase ==
    ASSUME LinksBase, JobsTypeOK', NEW p \in Linkers, Unavailable(p)
    PROVE  LinksBase' /\ InHandStep(p)
<1> USE DEF LinksBase
<1>1. pc[p] = "paging" /\ todo[p] # {} BY DEF Unavailable, Looks
<1>2. used.marks \subseteq used'.marks BY Marked DEF Unavailable
<1>3. /\ todo'[p] = {} /\ pc' = pc
      /\ ending'[p] = IF Refreshing(p) THEN "fail" ELSE ending[p]
  BY DEF Unavailable, TypeOK, LinkerType
<1>4. InHandStep(p)
  BY <1>1, <1>2, <1>3
     DEF InHandStep, Unavailable, Busy, TypeOK, LinkerType, tables
<1>5. LinkerType' BY DEF Unavailable, TypeOK, LinkerType
<1>6. links' \in [Roots -> [Entities -> SUBSET Symbols]]
  BY DEF Unavailable, tables, TypeOK, TablesType
<1>7. QED BY <1>1, <1>3, <1>4, <1>5, <1>6, InHandKeeps

LEMMA StoreBase ==
    ASSUME LinksBase, JobsTypeOK', NEW p \in Linkers, Store(p)
    PROVE  LinksBase' /\ InHandStep(p)
<1> USE DEF LinksBase
<1>1. /\ pc[p] = "looked" /\ found[p] # None /\ todo[p] # {}
  BY DEF Store, LinkersFit
<1>2. First(p) \in Entities /\ on[p] \in Roots BY <1>1, FirstIsThere
<1>3. pc'[p] = "stored" /\ \A q \in Linkers \ {p} : pc'[q] = pc[q]
  BY DEF Store, Goto, TypeOK, LinkerType
<1>4. InHandStep(p) BY <1>1, <1>3 DEF InHandStep, Store, Busy, jobs
<1>5. LinkerType' BY DEF Store, Goto, TypeOK, LinkerType
<1>6. links' \in [Roots -> [Entities -> SUBSET Symbols]]
  <2>1. found[p] \in Symbols BY <1>1 DEF TypeOK, LinkerType
  <2>2. links[on[p]][First(p)] \cup {found[p]} \in SUBSET Symbols
    BY <1>2, <2>1 DEF TypeOK, TablesType
  <2>3. QED BY <2>2 DEF Store, Relink, TypeOK, TablesType
<1>7. on[p] \in gone => p \in strays[on[p]] BY <1>1 DEF GoneIsLeft
<1>8. QED BY <1>1, <1>3, <1>4, <1>5, <1>6, <1>7, InHandKeeps DEF Store

LEMMA DropOthersBase ==
    ASSUME LinksBase, JobsTypeOK', NEW p \in Linkers, DropOthers(p)
    PROVE  LinksBase' /\ InHandStep(p)
<1> USE DEF LinksBase
<1>1. pc[p] \in {"looked", "stored"} /\ todo[p] # {}
  BY DEF DropOthers, LinkersFit
<1>2. First(p) \in Entities /\ on[p] \in Roots BY <1>1, FirstIsThere
<1>3. /\ pc'[p] = "paging" /\ found'[p] = None
      /\ todo'[p] = todo[p] \ {First(p)}
      /\ \A q \in Linkers \ {p} :
            pc'[q] = pc[q] /\ todo'[q] = todo[q] /\ found'[q] = found[q]
  BY DEF DropOthers, Goto, Drop, TypeOK, LinkerType
<1>4. InHandStep(p) BY <1>1, <1>3 DEF InHandStep, DropOthers, Busy, jobs
<1>5. LinkerType'
  <2>1. todo' \in [Linkers -> SUBSET Entities]
    BY DEF DropOthers, Drop, TypeOK, LinkerType
  <2>2. QED BY <2>1 DEF DropOthers, Goto, TypeOK, LinkerType
<1>6. links' \in [Roots -> [Entities -> SUBSET Symbols]]
  <2>1. links[on[p]][First(p)] \cap {found[p]} \in SUBSET Symbols
    BY <1>2 DEF TypeOK, TablesType
  <2>2. QED BY <2>1 DEF DropOthers, Relink, TypeOK, TablesType
<1>7. QED BY <1>3, <1>4, <1>5, <1>6, InHandKeeps

LEMMA ReconcileBase ==
    ASSUME LinksBase, JobsTypeOK', NEW p \in Linkers, Reconcile(p)
    PROVE  LinksBase'
BY LookUpBase, UnavailableBase, StoreBase, DropOthersBase DEF Reconcile

-----------------------------------------------------------------------------
LEMMA BaseKeeps == LinksBase /\ JobsInv /\ JobsInv' /\ [Next]_vars => LinksBase'
<1> SUFFICES ASSUME LinksBase, JobsInv, JobsTypeOK', [Next]_vars
             PROVE  LinksBase'
  BY DEF JobsInv
<1>1. CASE UNCHANGED vars
  <2> USE <1>1 DEF vars, LinksBase, linker, tables, calls, jobs, work, store,
                   job, past
  <2>1. TypeOK' BY DEF TypeOK, TablesType, LinkerType
  <2>2. LinkersFit' BY DEF LinkersFit, Refreshing, Busy
  <2>3. RowsFit' /\ ClaimsFit' BY DEF RowsFit, ClaimsFit, Refreshing, Mine
  <2>4. Alone' /\ UsersFit' /\ GoneIsLeft' BY DEF Alone, UsersFit, GoneIsLeft
  <2>5. QED BY <2>1, <2>2, <2>3, <2>4
<1>2. CASE GateOpens \/ LateChild \/ \E r \in Roots : Change(r)
  BY <1>2, ChangeBase, LateChildBase
<1>3. ASSUME NEW j \in Jobs, Ask(j) \/ Answer(j) \/ JobStep(j) \/ Crash(j)
      PROVE  LinksBase'
  BY <1>3, AskBase, AnswerBase, CrashBase, IndexBase, LinkBase, DeleteBase,
     DropRowBase, DropBindingBase, CleanBase DEF JobStep
<1>4. ASSUME NEW u \in Users, Confirm(u) \/ Bind(u) \/ QueueRefresh(u)
      PROVE  LinksBase'
  BY <1>4, ConfirmBase, BindBase, QueueBase
<1>5. ASSUME NEW p \in Linkers, Stall(p) \/ Halt(p) PROVE LinksBase'
  BY <1>5, StallBase, HaltBase
<1>6. ASSUME NEW w \in Workers, Claim(w) \/ WorkerStep(w) PROVE LinksBase'
  <2>1. w \in Linkers BY DEF Linkers
  <2>2. QED
    BY <1>6, <2>1, ClaimBase, ReadPageBase, SettleBase, AbortBase,
       ReconcileBase DEF WorkerStep
<1>7. ASSUME NEW b \in Builders, BeginBuild(b) \/ BuilderStep(b)
      PROVE  LinksBase'
  <2>1. b \in Linkers BY DEF Linkers
  <2>2. QED
    BY <1>7, <2>1, BeginBuildBase, ExtractBase, AbortBase, ReconcileBase
       DEF BuilderStep
<1>8. CASE LockEnds \/ \E r \in Roots : RowDue(r)
  BY <1>8, LockEndsBase, RowDueBase
<1>9. QED BY <1>1, <1>2, <1>3, <1>4, <1>5, <1>6, <1>7, <1>8 DEF Next

LEMMA InitBase == Init => LinksBase
<1> SUFFICES ASSUME Init PROVE LinksBase
  OBVIOUS
<1> USE DEF Init
<1>1. JobsTypeOK BY JobsInitInv DEF JobsInv
<1>2. /\ MaxEntities \in Nat /\ MaxAttempts \in Nat /\ 0 < MaxAttempts
      /\ MaxAsks \in Nat
  BY CodeLinksAssumption
<1>3. bound \in Bindings /\ bound \in [Roots -> Scopes \cup {None}]
  BY DEF Bindings
<1>4. known \in 0 .. MaxEntities BY <1>2
<1>5. row \in [Roots -> RowType]
  <2>1. NoRow \in RowType BY <1>2 DEF NoRow, RowType
  <2>2. QED BY <2>1
<1>6. links \in [Roots -> [Entities -> SUBSET Symbols]]
  <2>1. ASSUME NEW e \in Entities
        PROVE  {Symbol[0][e]} \ {None, Ambiguous} \in SUBSET Symbols
    BY IndexJobsAssumption DEF Symbols, States
  <2>2. QED BY <2>1
<1>7. TablesType BY <1>3, <1>4, <1>5, <1>6 DEF TablesType, RowType
<1>8. LinkerType
  <2>1. NoTask \in [scope : Scopes \cup {None}, cursor : 0 .. MaxEntities,
                    stamp : Nat]
    BY <1>2 DEF NoTask
  <2>2. QED BY <2>1 DEF LinkerType
<1>9. TypeOK
  <2>1. user \in [Users -> [step : {"none", "found", "bound"},
                          root : Roots \cup {None},
                          scope : Scopes \cup {None}]]
    BY DEF NoUser
  <2>2. QED BY <1>1, <1>2, <1>7, <1>8, <2>1 DEF TypeOK
<1>10. LinkersFit
  <2>1. known \in Nat BY <1>2, <1>4
  <2>2. QED BY <2>1 DEF LinkersFit, Refreshing, Busy, NoTask
<1>11. RowsFit
  <2>1. 0 <= known BY <1>2, <1>4
  <2>2. QED BY <1>2, <2>1 DEF RowsFit, NoRow
<1>12. ClaimsFit BY DEF ClaimsFit, Refreshing, NoTask, Linkers
<1>13. Alone /\ UsersFit BY DEF Alone, UsersFit, NoUser
<1>14. GoneIsLeft BY DEF GoneIsLeft, JobsInit
<1>15. QED
  BY <1>3, <1>9, <1>10, <1>11, <1>12, <1>13, <1>14 DEF LinksBase

LEMMA JobsHold == Spec => []JobsInv
BY CodeLinksAreJobs, JobsInvariance, PTL

\* What is true of every linker, row, user and project that is gone.
THEOREM LinksBaseInvariance == Spec => []LinksBase
BY InitBase, BaseKeeps, JobsHold, PTL DEF Spec

\* Types, of the jobs and of all that is linked to them.
THEOREM TypeCorrect == Spec => []TypeOK
<1>1. LinksBase => TypeOK BY DEF LinksBase
<1>2. QED BY <1>1, LinksBaseInvariance, PTL

-----------------------------------------------------------------------------
(* What is deleted is forgotten. *)

\* What leaves a project that is gone no worse than it was.
Undisturbed(r) ==
    /\ strays'[r] = strays[r]
    /\ Linked(r)' \subseteq Linked(r) /\ Leaving(r)' \subseteq Leaving(r)
    /\ strays[r] \cap Users = {} =>
          /\ row[r] = NoRow => row'[r] = NoRow
          /\ bound[r] = None => bound'[r] = None
    /\ \A j \in Jobs : aim[j] = r /\ stage[j] = "deleted" =>
          aim'[j] = r /\ stage'[j] = "deleted" /\ cleaned'[j] = cleaned[j]

LEMMA AreFinite ==
    ASSUME NEW r
    PROVE  /\ IsFiniteSet(Linked(r)) /\ IsFiniteSet(Leaving(r))
           /\ IsFiniteSet(strays[r] \cap Linkers)
           /\ Cardinality(Leaving(r)) <= Cardinality(strays[r] \cap Linkers)
           /\ Cardinality(Linked(r)) \in Nat /\ Cardinality(Leaving(r)) \in Nat
           /\ Cardinality(strays[r] \cap Linkers) \in Nat
<1>1. IsFiniteSet(Entities)
  BY FS_Interval, CodeLinksAssumption DEF Entities
<1>2. Linked(r) \subseteq Entities BY DEF Linked
<1>3. Leaving(r) \subseteq strays[r] \cap Linkers BY DEF Leaving
<1>4. IsFiniteSet(strays[r] \cap Linkers)
  BY FS_Subset, CodeLinksAssumption
<1>5. QED BY <1>1, <1>2, <1>3, <1>4, FS_Subset, FS_CardinalityType

LEMMA UndisturbedKeeps ==
    ASSUME NEW r, Forgotten(r), Undisturbed(r) PROVE Forgotten(r)'
<1>1. ASSUME NEW n, Cleared(r, n)' PROVE Cleared(r, n)
  BY <1>1 DEF Cleared, Undisturbed
<1>2. ASSUME strays'[r] \cap Users = {}
      PROVE  /\ Cleared(r, 1)' => row'[r] = NoRow
             /\ Cleared(r, 2)' => bound'[r] = None
  BY <1>1, <1>2 DEF Forgotten, Undisturbed
<1>3. ASSUME Cleared(r, 3)'
      PROVE  Cardinality(Linked(r)') + Cardinality(Leaving(r)')
                <= Cardinality(strays'[r] \cap Linkers)
  <2>1. Cardinality(Linked(r)) + Cardinality(Leaving(r))
           <= Cardinality(strays[r] \cap Linkers)
    BY <1>1, <1>3 DEF Forgotten
  <2>2. /\ Cardinality(Linked(r)') <= Cardinality(Linked(r))
        /\ Cardinality(Leaving(r)') <= Cardinality(Leaving(r))
        /\ Cardinality(Linked(r)') \in Nat
        /\ Cardinality(Leaving(r)') \in Nat
    BY AreFinite, FS_Subset, FS_CardinalityType DEF Undisturbed
  <2>3. QED BY <2>1, <2>2, AreFinite DEF Undisturbed
<1>4. QED BY <1>2, <1>3 DEF Forgotten

\* The steps of jobs, but for those of the cleanup.
LEMMA JobUndisturbs ==
    ASSUME LinksBase, JobsInv, NEW r \in gone, r \in gone', NEW j \in Jobs,
           \/ Ask(j) \/ Answer(j) \/ LinkProject(j) \/ Delete(j)
           \/ /\ Index(j) \/ Resolve(j) \/ NothingDeleted(j) \/ Suppress(j)
              /\ UNCHANGED <<tables, lock, linker, calls, strays>>
    PROVE  Undisturbed(r)
<1> USE DEF LinksBase, JobsInv, JobsTypeOK, Step, tables, linker, calls,
            past, store, blocks
<1>1. /\ stage[j] # "deleted" /\ links' = links
      /\ \A i \in Jobs \ {j} : /\ aim'[i] = aim[i] /\ stage'[i] = stage[i]
                               /\ cleaned'[i] = cleaned[i]
      /\ UNCHANGED <<pc, on, found>>
  <2>1. CASE Ask(j) \/ Answer(j) BY <2>1 DEF Ask, Answer, Submit, Rest
  <2>2. CASE LinkProject(j) \/ Delete(j)
    BY <2>2 DEF LinkProject, Delete, Link, EngineDeletes
  <2>3. CASE /\ Index(j) \/ Resolve(j) \/ NothingDeleted(j) \/ Suppress(j)
             /\ UNCHANGED <<tables, lock, linker, calls, strays>>
    BY <2>3 DEF Index, Enter, EngineReads, EngineWrites, EngineFails,
                PathTooLong, Unsuppress, Unblock, Raises, Leave, Resolve,
                NothingDeleted, Suppress
  <2>4. QED BY <2>1, <2>2, <2>3
<1>2. /\ strays'[r] = strays[r]
      /\ row'[r] = row[r] /\ bound'[r] = bound[r]
  <2>1. CASE LinkProject(j)
    <3>1. aim[j] \in Roots /\ aim[j] # r
      BY <2>1 DEF LinkProject, Link, GoneIsLeft
    <3>2. r \in Roots OBVIOUS
    <3>3. QED
      BY <2>1, <3>1, <3>2, AutoBindDoes, EnqueueDoes DEF LinkProject
  <2>2. CASE Delete(j)
    BY <2>2 DEF Delete, EngineDeletes, GoneIsLeft, TypeOK
  <2>3. QED BY <2>1, <2>2 DEF Ask, Answer
<1>3. Linked(r)' = Linked(r) /\ Leaving(r)' = Leaving(r)
  BY <1>1, <1>2 DEF Linked, Leaving
<1>4. QED BY <1>1, <1>2, <1>3 DEF Undisturbed

LEMMA UserUndisturbs ==
    ASSUME LinksBase, NEW r \in gone, NEW u \in Users,
           Confirm(u) \/ Bind(u) \/ QueueRefresh(u)
    PROVE  Undisturbed(r)
<1> USE DEF LinksBase, tables, linker
<1>1. /\ UNCHANGED <<stage, aim, cleaned, strays, links, pc, on, found>>
      /\ r \in Roots
  BY DEF Confirm, Bind, QueueRefresh, jobs, work, job, TypeOK, JobsTypeOK
<1>2. Linked(r)' = Linked(r) /\ Leaving(r)' = Leaving(r)
  BY <1>1 DEF Linked, Leaving
<1>3. ASSUME strays[r] \cap Users = {}
      PROVE  row'[r] = row[r] /\ bound'[r] = bound[r]
  <2>1. user[u].root # r BY <1>3 DEF GoneIsLeft
  <2>2. CASE Confirm(u) BY <2>2 DEF Confirm
  <2>3. CASE Bind(u)
    BY <1>1, <2>1, <2>3 DEF Bind, TypeOK, TablesType
  <2>4. CASE QueueRefresh(u)
    <3>1. user[u].root \in Roots /\ user[u].scope \in Scopes
      BY <2>4 DEF QueueRefresh, UsersFit
    <3>2. QED BY <1>1, <2>1, <2>4, <3>1, EnqueueDoes DEF QueueRefresh
  <2>5. QED BY <2>2, <2>3, <2>4
<1>4. QED BY <1>1, <1>2, <1>3 DEF Undisturbed

\* The steps of linkers, but for Store.
LEMMA ApartUndisturbs ==
    ASSUME LinksBase, NEW r \in gone,
           UNCHANGED <<work, bound, cleaned, strays>>,
           row[r] = NoRow => row'[r] = NoRow,
           \A e \in Entities : links'[r][e] \subseteq links[r][e],
           \A q \in Linkers :
               pc'[q] = "looked" /\ on'[q] = r /\ found'[q] # None =>
                   pc[q] = "looked" /\ on[q] = r /\ found[q] # None
    PROVE  Undisturbed(r)
<1>1. Linked(r)' \subseteq Linked(r) /\ Leaving(r)' \subseteq Leaving(r)
  BY DEF Linked, Leaving
<1>2. QED BY <1>1 DEF Undisturbed, work, job

LEMMA ForgetUndisturbs ==
    ASSUME LinksBase, NEW r \in gone, NEW p \in Linkers, Forget(p),
           lock' \in Linkers \cup {None, Lapsed},
           UNCHANGED <<work, bound, links, known, cleaned, strays>>,
           row[r] = NoRow => row'[r] = NoRow
    PROVE  Undisturbed(r)
<1>1. /\ pc'[p] = "idle"
      /\ \A q \in Linkers \ {p} :
            pc'[q] = pc[q] /\ on'[q] = on[q] /\ found'[q] = found[q]
  BY ForgetKeeps
<1>2. QED BY <1>1, ApartUndisturbs

LEMMA ReconcileUndisturbs ==
    ASSUME LinksBase, NEW r \in gone, NEW p \in Linkers,
           LookUp(p) \/ Unavailable(p) \/ DropOthers(p)
    PROVE  Undisturbed(r)
<1> USE DEF LinksBase
<1>1. r \in Roots /\ graph[r] = None /\ \A q \in Linkers \ {p} :
         pc'[q] = pc[q] /\ on'[q] = on[q] /\ found'[q] = found[q]
  BY DEF LookUp, Unavailable, DropOthers, Goto, Drop, TypeOK, LinkerType,
         JobsTypeOK, GoneIsLeft
<1>2. UNCHANGED <<work, bound, cleaned, strays, row, on>>
  BY DEF LookUp, Unavailable, DropOthers, jobs, tables, calls
<1>3. \A e \in Entities : links'[r][e] \subseteq links[r][e]
  <2>1. CASE LookUp(p) \/ Unavailable(p)
    BY <2>1 DEF LookUp, Unavailable, tables
  <2>2. CASE DropOthers(p)
    <3>1. First(p) \in Entities /\ on[p] \in Roots
      BY <2>2, FirstIsThere DEF DropOthers, LinkersFit
    <3>2. QED BY <1>1, <2>2, <3>1 DEF DropOthers, Relink, TypeOK, TablesType
  <2>3. QED BY <2>1, <2>2
<1>4. pc'[p] = "looked" /\ on'[p] = r => found'[p] = None
  <2>1. CASE LookUp(p)
    BY <1>1, <1>2, <2>1
       DEF LookUp, Looks, Goto, TypeOK, LinkerType
  <2>2. CASE Unavailable(p)
    BY <2>2 DEF Unavailable, Looks
  <2>3. CASE DropOthers(p)
    BY <2>3 DEF DropOthers, Goto, TypeOK, LinkerType
  <2>4. QED BY <2>1, <2>2, <2>3
<1>5. QED BY <1>1, <1>2, <1>3, <1>4, ApartUndisturbs

LEMMA LinkerUndisturbs ==
    ASSUME LinksBase, NEW r \in gone, NEW p \in Linkers,
           \/ Stall(p) \/ Halt(p) \/ LockEnds \/ Abort(p) \/ BuildEnds(p)
           \/ BeginBuild(p) \/ Extract(p)
           \/ \E q \in Roots : RowDue(q)
           \/ p \in Workers /\ (Claim(p) \/ ReadPage(p) \/ Settle(p))
    PROVE  Undisturbed(r)
<1> USE DEF LinksBase, calls, tables, jobs
<1>0. r \in Roots BY DEF TypeOK, JobsTypeOK
<1>1. CASE Stall(p) BY <1>1, ApartUndisturbs DEF Stall
<1>2. CASE LockEnds BY <1>2, ApartUndisturbs DEF LockEnds, linker
<1>3. CASE Halt(p)
  <2>1. lock' \in Linkers \cup {None, Lapsed}
    BY <1>3 DEF Halt, TypeOK, LinkerType
  <2>2. QED BY <1>3, <2>1, ForgetUndisturbs DEF Halt
<1>4. CASE Abort(p) \/ BuildEnds(p)
  <2>1. Unlock(p) BY <1>4 DEF Abort, BuildEnds
  <2>2. QED
    BY <1>4, <2>1, UnlockLock, ForgetUndisturbs DEF Abort, BuildEnds
<1>5. CASE BeginBuild(p) \/ Extract(p)
  <2>1. /\ UNCHANGED <<work, bound, row, links, cleaned, strays, found>>
        /\ pc'[p] # "looked"
        /\ \A q \in Linkers \ {p} : pc'[q] = pc[q] /\ on'[q] = on[q]
    BY <1>5 DEF BeginBuild, Extract, Goto, TypeOK, LinkerType
  <2>2. QED BY <2>1, ApartUndisturbs
<1>6. ASSUME NEW q \in Roots, RowDue(q) PROVE Undisturbed(r)
  <2>1. UNCHANGED <<work, bound, links, cleaned, strays, pc, on, found>>
    BY <1>6 DEF RowDue, linker
  <2>2. row[r] = NoRow => row'[r] = NoRow
    <3>1. row[r] = NoRow => q # r BY <1>6 DEF RowDue, NoRow
    <3>2. QED BY <1>0, <1>6, <3>1 DEF RowDue, TypeOK, TablesType
  <2>3. QED BY <2>1, <2>2, ApartUndisturbs
<1>7. CASE p \in Workers /\ Claim(p)
  <2>1. /\ UNCHANGED <<work, bound, links, cleaned, strays, found>>
        /\ pc'[p] # "looked"
    BY <1>7 DEF Claim, Goto, TypeOK, LinkerType
  <2>2. \A q \in Linkers \ {p} : pc'[q] = pc[q] /\ on'[q] = on[q]
    BY <1>7 DEF Claim, Goto, TypeOK, LinkerType
  <2>3. row[r] = NoRow => row'[r] = NoRow
    <3>1. row[r] = NoRow => ~Claimable(r) BY DEF Claimable, NoRow
    <3>2. PICK q \in Roots :
             /\ Claimable(q)
             /\ row' = [row EXCEPT ![q].state = "leased", ![q].token = p,
                                   ![q].waiting = TRUE]
      BY <1>7 DEF Claim
    <3>3. QED BY <1>0, <3>1, <3>2 DEF TypeOK, TablesType
  <2>4. QED BY <2>1, <2>2, <2>3, ApartUndisturbs
<1>8. CASE p \in Workers /\ ReadPage(p)
  <2>1. /\ UNCHANGED <<work, bound, row, links, cleaned, strays, found, on>>
        /\ pc'[p] # "looked" /\ \A q \in Linkers \ {p} : pc'[q] = pc[q]
    BY <1>8 DEF ReadPage, Goto, TypeOK, LinkerType
  <2>2. QED BY <2>1, ApartUndisturbs
<1>9. CASE p \in Workers /\ Settle(p)
  <2>1. Unlock(p) BY <1>9 DEF Settle
  <2>2. row[r] = NoRow => row'[r] = NoRow
    <3>1. ASSUME Mine(p), row[r] = NoRow PROVE on[p] # r
      <4>1. p # None BY CodeLinksAssumption
      <4>2. QED BY <3>1, <4>1 DEF Mine, NoRow
    <3>2. QED BY <1>0, <1>9, <3>1, SettledRow DEF Settle
  <2>3. QED
    BY <1>9, <2>1, <2>2, UnlockLock, ForgetUndisturbs DEF Settle
<1>10. QED BY <1>1, <1>2, <1>3, <1>4, <1>5, <1>6, <1>7, <1>8, <1>9

\* A linker that was there when the project went leaves one link at most.
LEMMA StoreForgets ==
    ASSUME LinksBase, NEW r \in gone, NEW p \in Linkers, Store(p),
           Forgotten(r)
    PROVE  Forgotten(r)'
<1> USE DEF LinksBase
<1>1. /\ r \in Roots /\ pc[p] = "looked" /\ found[p] # None
      /\ pc'[p] = "stored" /\ \A q \in Linkers \ {p} : pc'[q] = pc[q]
      /\ UNCHANGED <<work, bound, row, cleaned, strays, on, found>>
  BY DEF Store, Goto, TypeOK, LinkerType, JobsTypeOK, jobs, calls
<1>2. CASE on[p] # r
  <2>1. links'[r] = links[r]
    BY <1>1, <1>2 DEF Store, Relink, TypeOK, TablesType
  <2>2. Undisturbed(r)
    <3>1. \A e \in Entities : links'[r][e] \subseteq links[r][e] BY <2>1
    <3>2. \A q \in Linkers :
             pc'[q] = "looked" /\ on'[q] = r /\ found'[q] # None =>
                pc[q] = "looked" /\ on[q] = r /\ found[q] # None
      BY <1>1
    <3>3. QED BY <1>1, <3>1, <3>2, ApartUndisturbs
  <2>3. QED BY <2>2, UndisturbedKeeps
<1>3. CASE on[p] = r
  <2>1. First(p) \in Entities BY <1>1, FirstIsThere DEF LinkersFit
  <2>2. p \in Leaving(r) BY <1>1, <1>3 DEF Leaving, GoneIsLeft
  <2>3. Leaving(r)' = Leaving(r) \ {p} BY <1>1 DEF Leaving
  <2>4. Linked(r)' \subseteq Linked(r) \cup {First(p)}
    BY <1>1, <1>3, <2>1 DEF Linked, Store, Relink, TypeOK, TablesType
  <2>5. Cardinality(Leaving(r)') = Cardinality(Leaving(r)) - 1
    BY <2>2, <2>3, AreFinite, FS_RemoveElement
  <2>6. /\ Cardinality(Linked(r)') <= Cardinality(Linked(r)) + 1
        /\ Cardinality(Linked(r)') \in Nat
    <3>1. /\ IsFiniteSet(Linked(r) \cup {First(p)})
          /\ Cardinality(Linked(r) \cup {First(p)})
                \in {Cardinality(Linked(r)), Cardinality(Linked(r)) + 1}
      BY AreFinite, FS_AddElement
    <3>2. /\ Cardinality(Linked(r)')
                <= Cardinality(Linked(r) \cup {First(p)})
          /\ Cardinality(Linked(r)') \in Nat
      BY <2>4, <3>1, FS_Subset, FS_CardinalityType
    <3>3. \A x, y \in Nat : \A k \in {y, y + 1} : x <= k => x <= y + 1
      OBVIOUS
    <3>4. QED BY <3>1, <3>2, <3>3, AreFinite
  <2>7. \A n : Cleared(r, n)' <=> Cleared(r, n)
    BY <1>1 DEF Cleared, work, job
  <2>8. Cleared(r, 3) =>
           Cardinality(Linked(r)') + Cardinality(Leaving(r)')
              <= Cardinality(strays[r] \cap Linkers)
    <3>1. Cleared(r, 3) =>
             Cardinality(Linked(r)) + Cardinality(Leaving(r))
                <= Cardinality(strays[r] \cap Linkers)
      BY DEF Forgotten
    <3>2. QED BY <2>5, <2>6, <3>1, AreFinite
  <2>9. QED BY <1>1, <2>7, <2>8 DEF Forgotten
<1>4. QED BY <1>2, <1>3

LEMMA CleanupForgets ==
    ASSUME LinksBase, JobsInv, NEW r \in gone, NEW c \in Jobs,
           DropRow(c) \/ DropBinding(c) \/ DropLinks(c), Forgotten(r)
    PROVE  Forgotten(r)'
<1> USE DEF LinksBase, JobsInv, JobsTypeOK, linker
<1>1. /\ stage[c] = "deleted" /\ aim[c] \in Roots /\ r \in Roots
      /\ \A i \in Jobs \ {c} : stage[i] # "deleted"
      /\ \A i \in Jobs \ {c} : stage'[i] # "deleted"
      /\ aim' = aim
      /\ UNCHANGED <<pc, on, found>> /\ strays'[r] = strays[r]
  <2>1. /\ stage[c] = "deleted" /\ aim[c] \in Roots /\ r \in Roots
        /\ \A i \in Jobs \ {c} : stage[i] # "deleted"
    BY AloneInGate DEF DropRow, DropBinding, DropLinks, Clean, InGate
  <2>2. /\ \A i \in Jobs \ {c} : stage'[i] # "deleted"
        /\ aim' = aim
        /\ UNCHANGED <<pc, on, found>>
    BY <2>1
       DEF DropRow, DropBinding, DropLinks, Clean, Step, jobs, work, job
  <2>3. strays'[r] = strays[r]
    <3>1. \A u \in Users : user[u].root = r => u \in strays[r]
      BY DEF GoneIsLeft
    <3>2. CASE DropBinding(c)
      <4>1. {u \in Users : user[u].step = "bound" /\ user[u].root = r}
               \subseteq strays[r]
        BY <3>1
      <4>2. strays \in [Roots -> SUBSET (Users \cup Linkers)]
        BY DEF TypeOK
      <4>3. aim[c] = r =>
               strays'[r] = strays[r] \cup
                  {u \in Users : user[u].step = "bound"
                                 /\ user[u].root = r}
        BY <2>1, <3>2, <4>2 DEF DropBinding
      <4>4. aim[c] # r => strays'[r] = strays[r]
        BY <2>1, <3>2, <4>2 DEF DropBinding
      <4>5. QED BY <4>1, <4>3, <4>4
    <3>3. CASE DropRow(c) \/ DropLinks(c) BY <3>3 DEF DropRow, DropLinks
    <3>4. QED BY <3>2, <3>3
  <2>4. QED BY <2>1, <2>2, <2>3
<1>2. CASE aim[c] # r
  <2>1. Linked(r)' = Linked(r) /\ Leaving(r)' = Leaving(r)
    BY <1>1, <1>2
       DEF Linked, Leaving, DropRow, DropBinding, DropLinks, TypeOK,
           TablesType
  <2>2. row'[r] = row[r] /\ bound'[r] = bound[r]
    BY <1>1, <1>2
       DEF DropRow, DropBinding, DropLinks, TypeOK, TablesType
  <2>3. Undisturbed(r) BY <1>1, <1>2, <2>1, <2>2 DEF Undisturbed
  <2>4. QED BY <2>3, UndisturbedKeeps
<1>3. CASE aim[c] = r /\ DropRow(c)
  <2>1. row'[r] = NoRow /\ cleaned'[c] = 1 /\ stage'[c] = "deleted"
    BY <1>1, <1>3 DEF DropRow, Cleaned, TypeOK, TablesType, jobs, work, job
  <2>2. ~Cleared(r, 2)' /\ ~Cleared(r, 3)' BY <1>1, <1>3, <2>1 DEF Cleared
  <2>3. QED BY <2>1, <2>2 DEF Forgotten
<1>4. CASE aim[c] = r /\ DropBinding(c)
  <2>1. /\ bound'[r] = None /\ cleaned'[c] = 2 /\ stage'[c] = "deleted"
        /\ row' = row /\ cleaned[c] = 1
    BY <1>1, <1>4
       DEF DropBinding, Cleaned, TypeOK, TablesType, jobs, work, job
  <2>2. ~Cleared(r, 3)' BY <1>1, <1>4, <2>1 DEF Cleared
  <2>3. Cleared(r, 1) BY <1>1, <2>1 DEF Cleared
  <2>4. QED BY <1>1, <2>1, <2>2, <2>3 DEF Forgotten
<1>5. CASE aim[c] = r /\ DropLinks(c)
  <2>1. /\ cleaned[c] = 2 /\ row' = row /\ bound' = bound
        /\ \A e \in Entities : links'[r][e] = {}
    BY <1>1, <1>5 DEF DropLinks, TypeOK, TablesType
  <2>2. Cleared(r, 1) /\ Cleared(r, 2) BY <1>1, <2>1 DEF Cleared
  <2>3. Linked(r)' = {} /\ Leaving(r)' = Leaving(r)
    BY <1>1, <2>1 DEF Linked, Leaving
  <2>4. Cardinality(Linked(r)') + Cardinality(Leaving(r)')
           <= Cardinality(strays'[r] \cap Linkers)
    <3>1. Cardinality(Linked(r)') = 0 BY <2>3, FS_EmptySet
    <3>2. QED BY <1>1, <2>3, <3>1, AreFinite
  <2>5. QED BY <1>1, <2>1, <2>2, <2>4 DEF Forgotten
<1>6. QED BY <1>2, <1>3, <1>4, <1>5

\* A project that has just gone has not been cleaned up at all.
LEMMA DeleteBegins ==
    ASSUME LinksBase, JobsInv, NEW c \in Jobs, Delete(c),
           NEW r \in gone' \ gone
    PROVE  Forgotten(r)'
<1> USE DEF LinksBase, JobsInv, JobsTypeOK, TypeOK
<1>1. aim[c] = r /\ aim'[c] = r /\ stage'[c] = "deleted" /\ cleaned'[c] = 0
  BY DEF Delete, EngineDeletes, Step, GoneIsLeft, calls
<1>2. ~Cleared(r, 1)' /\ ~Cleared(r, 2)' /\ ~Cleared(r, 3)'
  BY <1>1 DEF Cleared
<1>3. QED BY <1>2 DEF Forgotten

LEMMA GoneOnlyGrows ==
    ASSUME [Next]_vars
    PROVE  \/ gone' \subseteq gone
           \/ \E c \in Jobs : Delete(c)
<1>1. ASSUME NEW j \in Jobs, Ask(j) \/ Answer(j) \/ JobStep(j) \/ Crash(j)
      PROVE  gone' \subseteq gone \/ Delete(j)
  BY <1>1
     DEF Ask, Answer, JobStep, Crash, Submit, Rest, CrashJobs, Index, Enter,
         EngineReads, EngineWrites, EngineFails, PathTooLong, Unsuppress,
         Unblock, Raises, Leave, Resolve, NothingDeleted, Suppress,
         LinkProject, Link, DropRow, DropBinding, DropLinks, CleanFails, Clean, jobs,
         work, past
<1>2. CASE GateOpens \/ LateChild \/ \E r \in Roots : Change(r)
  BY <1>2 DEF GateOpens, LeaseEnds, LateChild, LateWrite, Change, Edit, past
<1>3. CASE UNCHANGED jobs \/ Aside
  BY <1>3 DEF Aside, jobs, work, past
<1>4. CASE UNCHANGED vars BY <1>4 DEF vars, jobs, work, past
<1>5. QED BY <1>1, <1>2, <1>3, <1>4, OthersAreAside DEF Next

LEMMA MarksGrow ==
    ASSUME JobsInv, [Next]_vars PROVE used.marks \subseteq used'.marks
<1>1. ASSUME FaultOrNone PROVE used.marks \subseteq used'.marks
  BY <1>1, UsedTyped
<1>2. ASSUME NEW j \in Jobs, Ask(j) \/ Answer(j) \/ JobStep(j) \/ Crash(j)
      PROVE  FaultOrNone
  BY <1>2, StepsCountFaults, FaultIsOne, UnchangedIsNone
     DEF Ask, Answer, JobStep, Crash, LinkProject, Delete, DropRow,
         DropBinding, DropLinks, CleanFails, jobs
<1>3. CASE GateOpens \/ LateChild \/ \E r \in Roots : Change(r)
  BY <1>3 DEF GateOpens, LeaseEnds, LateChild, LateWrite, Change, Edit
<1>4. CASE UNCHANGED jobs \/ Aside BY <1>1, <1>4 DEF Aside, jobs
<1>5. CASE UNCHANGED vars BY <1>5 DEF vars, jobs
<1>6. QED BY <1>1, <1>2, <1>3, <1>4, <1>5, OthersAreAside DEF Next

LEMMA ForgottenKeeps ==
    LinksBase /\ JobsInv /\ ForgottenInv /\ [Next]_vars => ForgottenInv'
<1> SUFFICES ASSUME LinksBase, JobsInv, ForgottenInv, [Next]_vars,
                    used'.marks \cap {"crash", "uncleaned"} = {},
                    NEW r \in gone'
             PROVE  Forgotten(r)'
  BY DEF ForgottenInv
<1>1. used.marks \cap {"crash", "uncleaned"} = {} BY MarksGrow
<1>2. CASE r \notin gone BY <1>2, GoneOnlyGrows, DeleteBegins
<1>3. CASE r \in gone
  <2> USE <1>3
  <2>1. Forgotten(r) BY <1>1 DEF ForgottenInv
  <2>2. SUFFICES Undisturbed(r) \/ Forgotten(r)'
    BY <2>1, UndisturbedKeeps
  <2>3. CASE UNCHANGED vars \/ GateOpens \/ LateChild
             \/ \E q \in Roots : Change(q)
    <3>1. UNCHANGED <<stage, aim, tables, linker, cleaned, strays>>
      BY <2>3 DEF vars, GateOpens, LeaseEnds, LateChild, LateWrite, Change,
                  Edit, calls, jobs, work, job, past
    <3>2. Linked(r)' = Linked(r) /\ Leaving(r)' = Leaving(r)
      BY <3>1 DEF Linked, Leaving, tables, linker
    <3>3. QED BY <3>1, <3>2 DEF Undisturbed, tables
  <2>4. ASSUME NEW j \in Jobs, Ask(j) \/ Answer(j) \/ JobStep(j) \/ Crash(j)
        PROVE  Undisturbed(r) \/ Forgotten(r)'
    <3>1. ~Crash(j)
      BY Marked, IndexJobsAssumption DEF Crash
    <3>2. ~CleanFails(j)
      BY Marked, CodeLinksAssumption DEF CleanFails
    <3>3. QED
      BY <2>1, <2>4, <3>1, <3>2, JobUndisturbs, CleanupForgets DEF JobStep
  <2>5. ASSUME NEW u \in Users, Confirm(u) \/ Bind(u) \/ QueueRefresh(u)
        PROVE  Undisturbed(r)
    BY <2>5, UserUndisturbs
  <2>6. ASSUME NEW p \in Linkers, Reconcile(p)
        PROVE  Undisturbed(r) \/ Forgotten(r)'
    BY <2>1, <2>6, ReconcileUndisturbs, StoreForgets DEF Reconcile
  <2>7. ASSUME NEW p \in Linkers, Stall(p) \/ Halt(p)
        PROVE  Undisturbed(r)
    BY <2>7, LinkerUndisturbs
  <2>8. ASSUME NEW w \in Workers, Claim(w) \/ WorkerStep(w)
        PROVE  Undisturbed(r) \/ Forgotten(r)'
    <3>1. w \in Linkers BY DEF Linkers
    <3>2. QED BY <2>6, <2>8, <3>1, LinkerUndisturbs DEF WorkerStep
  <2>9. ASSUME NEW b \in Builders, BeginBuild(b) \/ BuilderStep(b)
        PROVE  Undisturbed(r) \/ Forgotten(r)'
    <3>1. b \in Linkers BY DEF Linkers
    <3>2. QED BY <2>6, <2>9, <3>1, LinkerUndisturbs DEF BuilderStep
  <2>10. CASE LockEnds \/ \E q \in Roots : RowDue(q)
    <3>1. CASE LockEnds
      BY <3>1, ApartUndisturbs DEF LockEnds, linker, tables, calls, jobs
    <3>2. ASSUME NEW q \in Roots, RowDue(q) PROVE Undisturbed(r)
      <4>1. UNCHANGED <<work, bound, links, cleaned, strays, pc, on, found>>
        BY <3>2 DEF RowDue, linker, calls, jobs
      <4>2. row[r] = NoRow => row'[r] = NoRow
        <5>1. row[r] = NoRow => q # r BY <3>2 DEF RowDue, NoRow
        <5>2. r \in Roots BY DEF LinksBase, TypeOK, JobsTypeOK
        <5>3. QED BY <3>2, <5>1, <5>2 DEF RowDue, LinksBase, TypeOK, TablesType
      <4>3. QED BY <4>1, <4>2, ApartUndisturbs
    <3>3. QED BY <2>10, <3>1, <3>2
  <2>11. QED
    BY <2>3, <2>4, <2>5, <2>6, <2>7, <2>8, <2>9, <2>10 DEF Next
<1>4. QED BY <1>2, <1>3

LEMMA ForgottenInit == Init => ForgottenInv
BY DEF Init, JobsInit, ForgottenInv

LEMMA ForgottenGives == LinksBase /\ ForgottenInv => DeletedIsForgotten
<1> SUFFICES ASSUME LinksBase, ForgottenInv,
                    used.marks \cap {"crash", "uncleaned"} = {},
                    NEW r \in gone,
                    \A j \in Jobs : aim[j] = r => stage[j] # "deleted"
             PROVE  /\ strays[r] \cap Users = {} =>
                          bound[r] = None /\ row[r].state = "none"
                    /\ Cardinality({e \in Entities : links[r][e] # {}})
                          <= Cardinality(strays[r] \cap Linkers)
  BY DEF DeletedIsForgotten
<1>1. Cleared(r, 1) /\ Cleared(r, 2) /\ Cleared(r, 3) BY DEF Cleared
<1>2. Forgotten(r) BY DEF ForgottenInv
<1>3. Cardinality(Linked(r)) <= Cardinality(strays[r] \cap Linkers)
  <2>1. Cardinality(Linked(r)) + Cardinality(Leaving(r))
           <= Cardinality(strays[r] \cap Linkers)
    BY <1>1, <1>2 DEF Forgotten
  <2>2. QED BY <2>1, AreFinite
<1>4. QED BY <1>1, <1>2, <1>3 DEF Forgotten, NoRow, Linked

\* Once a delete has cleaned up, nothing of the project comes back, but for
\* what those leave who were in the middle of something when it went: for any
\* number of projects, scopes, entities, linkers and users.
THEOREM DeletedStaysForgotten == Spec => []DeletedIsForgotten
<1>1. LinksBase /\ JobsInv /\ ForgottenInv /\ [Next]_vars => ForgottenInv'
  BY ForgottenKeeps
<1>2. Spec => []ForgottenInv
  BY <1>1, ForgottenInit, LinksBaseInvariance, JobsHold, PTL DEF Spec
<1>3. QED BY <1>2, ForgottenGives, LinksBaseInvariance, PTL

-----------------------------------------------------------------------------
(* Links follow the graph. *)

\* Nothing that concerns r has changed.
SameFor(r) ==
    /\ graph'[r] = graph[r] /\ bound'[r] = bound[r] /\ links'[r] = links[r]
    /\ known' = known
    /\ row'[r].state = row[r].state /\ row'[r].scope = row[r].scope
    /\ row'[r].cursor = row[r].cursor /\ row'[r].stamp = row[r].stamp
    /\ row'[r].token = row[r].token

LEMMA SameKeeps ==
    ASSUME NEW r \in Roots, Provides(r), SameFor(r), UNCHANGED linker
    PROVE  Provides(r)'
<1> USE DEF Provides, SameFor, linker
<1>1. /\ \A e : Agrees(r, e)' <=> Agrees(r, e)
      /\ \A e : Owed(r, e)' <=> Owed(r, e)
      /\ \A e : InBuild(r, e)' <=> InBuild(r, e)
      /\ \A p : Refreshing(p)' <=> Refreshing(p)
      /\ \A p : on[p] = r => (Mine(p)' <=> Mine(p))
      /\ \A p : Busy(p)' <=> Busy(p)
      /\ \A p : First(p)' = First(p)
      /\ Members(r)' = Members(r)
  BY DEF Agrees, Owed, InBuild, Refreshing, Mine, Busy, First, Members
<1>2. RowIsOfBinding(r)' BY DEF RowIsOfBinding
<1>3. NoneIsMissed(r)' BY <1>1 DEF NoneIsMissed
<1>4. WorkIsOwed(r)' BY <1>1 DEF WorkIsOwed
<1>5. PageIsDone(r)' BY <1>1 DEF PageIsDone
<1>6. AnswerIsRight(r)' BY <1>1 DEF AnswerIsRight, IsRight
<1>7. BuildsLink(r)' BY DEF BuildsLink
<1>8. QED BY <1>2, <1>3, <1>4, <1>5, <1>6, <1>7

\* A refresh that has just been queued owes every link.
LEMMA FreshProvides ==
    ASSUME LinksBase, LinksBase', NEW r \in Roots, UNCHANGED linker,
           row'[r].state # "none", row'[r].cursor = 0,
           row'[r].scope = bound'[r],
           \A w \in Workers : row'[r].stamp # task[w].stamp
    PROVE  Provides(r)'
<1> USE DEF linker
<1>1. known' \in Nat
  BY CodeLinksAssumption DEF LinksBase, TypeOK, TablesType
<1>2. \A e \in 1 .. known' : Owed(r, e)' BY <1>1 DEF Owed
<1>3. \A w \in Workers : on[w] = r => ~Mine(w)' BY DEF Mine
<1>4. \A p \in Linkers : todo'[p] \subseteq 1 .. known'
  BY DEF LinksBase, LinkersFit
<1>5. RowIsOfBinding(r)' BY DEF RowIsOfBinding
<1>6. NoneIsMissed(r)' BY <1>2 DEF NoneIsMissed, Members
<1>7. WorkIsOwed(r)'
  <2>1. \A w \in Workers : task'[w].cursor \in Nat
    BY CodeLinksAssumption DEF LinksBase, TypeOK, LinkerType, Linkers
  <2>2. QED BY <1>2, <1>4, <2>1 DEF WorkIsOwed, Linkers
<1>8. PageIsDone(r)' BY <1>3 DEF PageIsDone
<1>9. AnswerIsRight(r)'
  <2>1. ASSUME NEW p \in Linkers, pc'[p] \in {"looked", "stored"}
        PROVE  First(p)' \in 1 .. known'
    <3>1. todo'[p] # {} /\ todo'[p] \in SUBSET Nat
      BY <1>1, <1>4, <2>1 DEF LinksBase, LinkersFit
    <3>2. First(p)' \in todo'[p] BY <3>1, LeastIs DEF First
    <3>3. QED BY <1>4, <3>2
  <2>2. ASSUME NEW p \in Linkers, on'[p] = r, Refreshing(p)'
        PROVE  ~Mine(p)'
    BY <1>3, <2>2 DEF LinksBase, LinkersFit
  <2>3. QED BY <1>2, <2>1, <2>2 DEF AnswerIsRight
<1>10. BuildsLink(r)' BY DEF BuildsLink
<1>11. QED BY <1>5, <1>6, <1>7, <1>8, <1>9, <1>10 DEF Provides

\* With the lock kept, there is one linker to look at.
OthersRest(p) ==
    \A q \in Linkers \ {p} : pc[q] = "idle" /\ todo[q] = {} /\ ~Refreshing(q)

ProvidesBy(r, p) ==
    /\ RowIsOfBinding(r)
    /\ \A e \in Members(r) :
          \/ Agrees(r, e) \/ Owed(r, e)
          \/ on[p] = r /\ ~Refreshing(p) /\ e \in todo[p]
    /\ on[p] = r /\ Refreshing(p) =>
          /\ row[r].state # "none" /\ \A e \in todo[p] : Owed(r, e)
          /\ pc[p] = "claimed" => row[r].cursor <= task[p].cursor
          /\ Mine(p) /\ Busy(p) =>
                \A e \in Members(r) \ todo[p] :
                    \/ ending[p] = "complete"
                    \/ ending[p] = "advance" /\ e <= task[p].cursor
                    => Agrees(r, e)
    /\ on[p] = r /\ pc[p] \in {"looked", "stored"} =>
          \/ IsRight(p)
          \/ Owed(r, First(p)) /\ ~(Refreshing(p) /\ Mine(p))
    /\ pc[p] = "built" /\ bound[r] = task[p].scope =>
          on[p] = r \/ row[r].state # "none"

LEMMA ByOne ==
    ASSUME LinksBase, NEW r \in Roots, NEW p \in Linkers, OthersRest(p),
           Provides(r)
    PROVE  ProvidesBy(r, p)
<1>1. Refreshing(p) => p \in Workers BY DEF LinksBase, LinkersFit
<1>2. \A e : InBuild(r, e) =>
         on[p] = r /\ ~Refreshing(p) /\ e \in todo[p]
  BY DEF InBuild, OthersRest
<1>3. QED
  BY <1>1, <1>2
     DEF Provides, ProvidesBy, NoneIsMissed, WorkIsOwed, PageIsDone,
         AnswerIsRight, BuildsLink

LEMMA ByAll ==
    ASSUME NEW r \in Roots, NEW p \in Linkers, OthersRest(p)',
           ProvidesBy(r, p)'
    PROVE  Provides(r)'
<1> USE DEF ProvidesBy, OthersRest
<1>1. RowIsOfBinding(r)' OBVIOUS
<1>2. NoneIsMissed(r)' BY DEF NoneIsMissed, InBuild
<1>3. WorkIsOwed(r)' BY DEF WorkIsOwed, Linkers
<1>4. PageIsDone(r)' BY DEF PageIsDone, Linkers
<1>5. AnswerIsRight(r)' BY DEF AnswerIsRight
<1>6. BuildsLink(r)' BY DEF BuildsLink
<1>7. QED BY <1>1, <1>2, <1>3, <1>4, <1>5, <1>6 DEF Provides

LEMMA OthersDo ==
    ASSUME LinksBase, "forgotten" \notin used.marks, NEW p \in Linkers,
           pc[p] # "idle" \/ lock = None
    PROVE  OthersRest(p)
<1>1. \A q \in Linkers : pc[q] # "idle" => lock = q
  BY DEF LinksBase, Alone
<1>2. \A q \in Linkers \ {p} : pc[q] = "idle"
  BY <1>1, CodeLinksAssumption
<1>3. QED BY <1>2 DEF OthersRest, LinksBase, LinkersFit, Refreshing, NoTask

\* The work of a linker that is not on r, or is on it no more.
LEMMA ElsewhereKeeps ==
    ASSUME NEW r \in Roots, NEW p \in Linkers, ProvidesBy(r, p), SameFor(r),
           on'[p] # r, pc'[p] # "built",
           \A e \in todo[p] : on[p] = r /\ ~Refreshing(p) => Agrees(r, e)
    PROVE  ProvidesBy(r, p)'
<1>1. \A e \in Members(r) : Agrees(r, e) \/ Owed(r, e)
  BY DEF ProvidesBy
<1>2. \A e \in Members(r)' : Agrees(r, e)' \/ Owed(r, e)'
  BY <1>1 DEF SameFor, Members, Agrees, Owed
<1>3. RowIsOfBinding(r)' BY DEF ProvidesBy, RowIsOfBinding, SameFor
<1>4. QED BY <1>2, <1>3 DEF ProvidesBy

\* A linker that ends its work: a refresh stays with its row, and a build has
\* nothing in hand.
LEMMA ForgetProvides ==
    ASSUME LinksBase, NEW r \in Roots, NEW p \in Linkers, OthersRest(p),
           Provides(r), Forget(p), SameFor(r),
           lock' \in Linkers \cup {None, Lapsed},
           Refreshing(p) \/ todo[p] = {}
    PROVE  Provides(r)'
<1>1. /\ pc'[p] = "idle" /\ ~Refreshing(p)'
      /\ \A q \in Linkers \ {p} :
            pc'[q] = pc[q] /\ todo'[q] = todo[q] /\ task'[q] = task[q]
  BY ForgetKeeps DEF SameFor
<1>2. OthersRest(p)' BY <1>1 DEF OthersRest, Refreshing
<1>3. on'[p] = None /\ None # r
  BY IndexJobsAssumption DEF Forget, LinksBase, TypeOK, LinkerType
<1>4. ProvidesBy(r, p) BY ByOne
<1>5. ProvidesBy(r, p)' BY <1>1, <1>3, <1>4, ElsewhereKeeps
<1>6. QED BY <1>2, <1>5, ByAll

LEMMA ClaimProvides ==
    ASSUME LinksBase, NEW r \in Roots, NEW w \in Workers, OthersRest(w),
           Provides(r), Claim(w)
    PROVE  Provides(r)'
<1> USE DEF LinksBase
<1>0. w \in Linkers BY DEF Linkers
<1>1. PICK q \in Roots :
         /\ Claimable(q)
         /\ row' = [row EXCEPT ![q].state = "leased", ![q].token = w,
                               ![q].waiting = TRUE]
         /\ on' = [on EXCEPT ![w] = q]
         /\ task' = [task EXCEPT ![w] =
                       [scope |-> row[q].scope, cursor |-> row[q].cursor,
                        stamp |-> row[q].stamp]]
  BY DEF Claim
<1>2. /\ pc[w] = "idle" /\ todo[w] = {} /\ pc'[w] = "claimed"
      /\ todo' = todo /\ on'[w] = q /\ task'[w].cursor = row[q].cursor
      /\ \A v \in Linkers \ {w} : pc'[v] = pc[v] /\ task'[v] = task[v]
      /\ UNCHANGED <<graph, bound, links, known>>
  BY <1>0, <1>1
     DEF Claim, Goto, TypeOK, LinkerType, LinkersFit, jobs, work, store
<1>3. OthersRest(w)' BY <1>2 DEF OthersRest, Refreshing
<1>4. ProvidesBy(r, w) BY <1>0, ByOne
<1>5. CASE q # r
  <2>1. SameFor(r) BY <1>1, <1>2, <1>5 DEF SameFor, TypeOK, TablesType
  <2>2. QED
    BY <1>0, <1>2, <1>3, <1>4, <1>5, <2>1, ElsewhereKeeps, ByAll
<1>6. CASE q = r
  <2>1. row[r] \in RowType /\ row[r].state # "none"
    BY <1>1, <1>6 DEF TypeOK, TablesType, RowType, Claimable
  <2>2. /\ row'[r].state = "leased" /\ row'[r].scope = row[r].scope
        /\ row'[r].cursor = row[r].cursor
    BY <1>1, <1>6, <2>1 DEF TypeOK, TablesType, RowType
  <2>3. row[r].cursor <= row[r].cursor
    BY <2>1, CodeLinksAssumption DEF RowType
  <2>4. /\ \A e : Agrees(r, e)' <=> Agrees(r, e)
        /\ \A e : Owed(r, e)' <=> Owed(r, e)
        /\ Members(r)' = Members(r)
    BY <1>2, <2>1, <2>2 DEF Agrees, Owed, Members
  <2>5. RowIsOfBinding(r)'
    BY <1>2, <1>4, <2>1, <2>2 DEF ProvidesBy, RowIsOfBinding
  <2>6. \A e \in Members(r) : Agrees(r, e) \/ Owed(r, e)
    BY <1>2, <1>4 DEF ProvidesBy
  <2>7. ProvidesBy(r, w)'
    BY <1>2, <1>6, <2>2, <2>3, <2>4, <2>5, <2>6 DEF ProvidesBy, Busy
  <2>8. QED BY <1>0, <1>3, <2>7, ByAll
<1>7. QED BY <1>5, <1>6

LEMMA ReadPageProvides ==
    ASSUME LinksBase, NEW r \in Roots, NEW w \in Workers, OthersRest(w),
           Provides(r), ReadPage(w)
    PROVE  Provides(r)'
<1> USE DEF LinksBase
<1>1. PICK page \in SUBSET Ahead(w) :
         /\ IF bound[on[w]] = task[w].scope THEN IsPage(page, Ahead(w))
            ELSE page = {}
         /\ todo' = [todo EXCEPT ![w] = page]
         /\ IF Cardinality(page) = PageSize
            THEN /\ ending' = [ending EXCEPT ![w] = "advance"]
                 /\ task' = [task EXCEPT ![w].cursor = Max(page)]
            ELSE /\ ending' = [ending EXCEPT ![w] = "complete"]
                 /\ UNCHANGED task
  BY DEF ReadPage
<1>2. /\ page \subseteq Entities /\ w \in Linkers /\ Refreshing(w)
      /\ Cardinality(page) = PageSize =>
            Max(page) \in page /\ \A e \in page : e <= Max(page)
  BY PageIs DEF ReadPage
<1>3. /\ pc[w] = "claimed" /\ pc'[w] = "paging" /\ todo'[w] = page
      /\ todo[w] = {}
      /\ task'[w].scope = task[w].scope /\ task'[w].stamp = task[w].stamp
      /\ \A q \in Linkers \ {w} :
            pc'[q] = pc[q] /\ todo'[q] = todo[q] /\ task'[q] = task[q]
      /\ UNCHANGED <<graph, bound, row, links, known, on>>
  BY <1>1, <1>2
     DEF ReadPage, Goto, TypeOK, LinkerType, LinkersFit, jobs, work, store,
         tables
<1>4. OthersRest(w)' BY <1>3 DEF OthersRest, Refreshing
<1>5. ProvidesBy(r, w) BY <1>2, ByOne
<1>6. SameFor(r) BY <1>3 DEF SameFor
<1>7. CASE on[w] # r
  BY <1>2, <1>3, <1>4, <1>5, <1>6, <1>7, ElsewhereKeeps, ByAll
<1>8. CASE on[w] = r
  <2>1. /\ \A e : Agrees(r, e)' <=> Agrees(r, e)
        /\ \A e : Owed(r, e)' <=> Owed(r, e)
        /\ Members(r)' = Members(r) /\ Mine(w)' <=> Mine(w)
    BY <1>3 DEF Agrees, Owed, Members, Mine
  <2>2. RowIsOfBinding(r)' BY <1>3, <1>5 DEF ProvidesBy, RowIsOfBinding
  <2>3. \A e \in Members(r) : Agrees(r, e) \/ Owed(r, e)
    BY <1>2, <1>3, <1>5 DEF ProvidesBy
  <2>4. row[r].state # "none" /\ row[r].cursor <= task[w].cursor
    BY <1>2, <1>3, <1>5, <1>8 DEF ProvidesBy
  <2>5. /\ row[r].cursor \in Nat /\ task[w].cursor \in Nat
        /\ known \in Nat /\ PageSize \in Nat /\ PageSize # 0
    BY <1>2, CodeLinksAssumption DEF TypeOK, TablesType, LinkerType
  <2>6. \A e \in page : Owed(r, e)
    <3>1. \A e \in page : e \in task[w].cursor + 1 .. known
      BY DEF Ahead
    <3>2. QED BY <2>4, <2>5, <3>1 DEF Owed
  <2>7. ASSUME Mine(w), NEW e \in Members(r) \ page,
               \/ ending'[w] = "complete"
               \/ ending'[w] = "advance" /\ e <= task'[w].cursor
        PROVE  Agrees(r, e)
    <3>1. /\ row[r].scope = task[w].scope /\ row[r].cursor = task[w].cursor
      BY <1>2, <1>3, <1>8, <2>7 DEF ClaimsFit
    <3>2. bound[r] = task[w].scope
      BY <1>5, <2>4, <3>1 DEF ProvidesBy, RowIsOfBinding
    <3>3. IsPage(page, Ahead(w)) BY <1>1, <1>8, <3>2
    <3>4. SUFFICES ASSUME Owed(r, e) PROVE FALSE
      BY <2>3, <2>7
    <3>5. e \in Ahead(w)
      <4>1. e \in 1 .. known /\ task[w].cursor < e /\ Home[e] = bound[r]
        BY <2>7, <3>1, <3>4 DEF Owed, Members
      <4>2. QED BY <2>5, <3>2, <4>1 DEF Ahead
    <3>6. CASE Cardinality(page) = PageSize
      <4>1. ending'[w] = "advance" /\ task'[w].cursor = Max(page)
        BY <1>1, <1>2, <3>6 DEF TypeOK, LinkerType
      <4>2. e < Max(page)
        <5>1. e <= Max(page) /\ Max(page) \in page /\ e \notin page
          BY <1>2, <2>7, <3>6, <4>1
        <5>2. e \in Nat /\ Max(page) \in Nat
          <6>1. Members(r) \subseteq Nat /\ Entities \subseteq Nat
            BY <2>5, CodeLinksAssumption DEF Entities, Members
          <6>2. QED BY <1>2, <2>7, <5>1, <6>1
        <5>3. QED BY <5>1, <5>2
      <4>3. QED BY <1>2, <2>7, <3>3, <3>5, <3>6, <4>2 DEF IsPage
    <3>7. CASE Cardinality(page) # PageSize
      BY <2>7, <3>3, <3>5, <3>7 DEF IsPage
    <3>8. QED BY <3>6, <3>7
  <2>8. ProvidesBy(r, w)'
    <3>1. \A e \in Members(r)' : Agrees(r, e)' \/ Owed(r, e)'
      BY <1>3, <2>3 DEF Members, Agrees, Owed
    <3>2. row'[r].state # "none" /\ \A e \in todo'[w] : Owed(r, e)'
      BY <1>3, <2>1, <2>4, <2>6
    <3>3. Mine(w)' =>
             \A e \in (Members(r) \ todo[w])' :
                 \/ ending'[w] = "complete"
                 \/ ending'[w] = "advance" /\ e <= task'[w].cursor
                 => Agrees(r, e)'
      BY <1>3, <2>7 DEF Members, Agrees, Mine
    <3>4. pc'[w] = "paging" BY <1>3
    <3>5. QED BY <2>2, <3>1, <3>2, <3>3, <3>4 DEF ProvidesBy
  <2>9. QED BY <1>2, <1>4, <2>8, ByAll
<1>9. QED BY <1>7, <1>8

LEMMA SettleProvides ==
    ASSUME LinksBase, NEW r \in Roots, NEW w \in Workers, OthersRest(w),
           Provides(r), Settle(w)
    PROVE  Provides(r)'
<1> USE DEF LinksBase
<1>1. /\ w \in Linkers /\ Unlock(w) /\ Refreshing(w) /\ todo[w] = {}
      /\ pc[w] = "paging"
      /\ UNCHANGED <<graph, bound, links, known>>
  BY DEF Settle, Linkers, jobs, work, store
<1>2. Forget(w) /\ lock' \in Linkers \cup {None, Lapsed}
  BY <1>1, UnlockLock
<1>3. CASE on[w] # r \/ ~Mine(w)
  <2>1. row'[r] = row[r] BY <1>3, SettledRow DEF Settle
  <2>2. SameFor(r) BY <1>1, <2>1 DEF SameFor
  <2>3. QED BY <1>1, <1>2, <2>2, ForgetProvides
<1>4. CASE on[w] = r /\ Mine(w)
  <2>1. /\ pc'[w] = "idle" /\ on'[w] # r
        /\ \A q \in Linkers \ {w} :
              pc'[q] = pc[q] /\ todo'[q] = todo[q] /\ task'[q] = task[q]
    <3>1. /\ pc'[w] = "idle"
          /\ \A q \in Linkers \ {w} :
                pc'[q] = pc[q] /\ todo'[q] = todo[q] /\ task'[q] = task[q]
      BY <1>1, <1>2, ForgetKeeps
    <3>2. on'[w] = None BY <1>1, <1>2 DEF Forget, TypeOK, LinkerType
    <3>3. QED BY <3>1, <3>2, IndexJobsAssumption
  <2>2. OthersRest(w)' BY <2>1 DEF OthersRest, Refreshing
  <2>3. ProvidesBy(r, w) BY <1>1, ByOne
  <2>4. /\ row[r].state # "none" /\ row[r].scope = bound[r]
        /\ \A e \in Members(r) : Agrees(r, e) \/ row[r].cursor < e
        /\ \A e \in Members(r) :
              \/ ending[w] = "complete"
              \/ ending[w] = "advance" /\ e <= task[w].cursor
              => Agrees(r, e)
    BY <1>1, <1>4, <2>3 DEF ProvidesBy, RowIsOfBinding, Owed, Busy
  <2>5. \/ ending[w] = "complete" /\ row'[r] = NoRow
        \/ /\ row'[r].state # "none" /\ row'[r].scope = row[r].scope
           /\ row'[r].cursor = IF ending[w] = "advance" THEN task[w].cursor
                               ELSE row[r].cursor
    BY <1>4, SettledRow
  <2>6. /\ task[w].cursor \in Nat
        /\ Members(r) \subseteq Nat
    BY <1>1, CodeLinksAssumption
       DEF TypeOK, TablesType, LinkerType, Members
  <2>7. RowIsOfBinding(r)'
    BY <1>1, <2>4, <2>5 DEF RowIsOfBinding, NoRow
  <2>8. ASSUME NEW e \in Members(r)
        PROVE  \/ Agrees(r, e)
               \/ row'[r].state # "none" /\ row'[r].cursor < e
    <3>1. e \in Nat BY <2>6
    <3>2. e <= task[w].cursor \/ task[w].cursor < e BY <2>6, <3>1
    <3>3. QED BY <2>4, <2>5, <3>2
  <2>9. \A e \in Members(r)' : Agrees(r, e)' \/ Owed(r, e)'
    BY <1>1, <2>8 DEF Members, Agrees, Owed
  <2>10. ProvidesBy(r, w)' BY <2>1, <2>7, <2>9 DEF ProvidesBy
  <2>11. QED BY <1>1, <2>2, <2>10, ByAll
<1>5. QED BY <1>3, <1>4

LEMMA BeginBuildProvides ==
    ASSUME LinksBase, NEW r \in Roots, NEW b \in Builders, OthersRest(b),
           Provides(r), bound[r] # None, BeginBuild(b)
    PROVE  Provides(r)'
<1> USE DEF LinksBase
<1>1. b \in Linkers BY DEF Linkers
<1>2. PICK scope \in Scopes :
         /\ on' = [on EXCEPT ![b] =
                     IF Free(scope) THEN None
                     ELSE CHOOSE q \in Roots : bound[q] = scope]
         /\ task' = [task EXCEPT ![b].scope = scope]
  BY DEF BeginBuild
<1>3. /\ pc[b] = "idle" /\ todo[b] = {} /\ pc'[b] = "built"
      /\ todo' = todo /\ task'[b].scope = scope
      /\ on'[b] = IF Free(scope) THEN None
                  ELSE CHOOSE q \in Roots : bound[q] = scope
      /\ \A q \in Linkers \ {b} : pc'[q] = pc[q] /\ task'[q] = task[q]
      /\ UNCHANGED <<graph, bound, row, links, known>>
  <2>1. /\ pc[b] = "idle" /\ todo' = todo
        /\ pc' = [pc EXCEPT ![b] = "built"]
        /\ UNCHANGED <<graph, bound, row, links, known>>
    BY DEF BeginBuild, Goto, jobs, work, store, tables
  <2>2. todo[b] = {} BY <1>1, <2>1 DEF LinkersFit
  <2>3. /\ pc \in [Linkers -> {"idle", "claimed", "built", "paging", "looked",
                              "stored"}]
        /\ on \in [Linkers -> Roots \cup {None}]
        /\ task \in [Linkers -> [scope : Scopes \cup {None},
                                cursor : 0 .. MaxEntities, stamp : Nat]]
    BY DEF TypeOK, LinkerType
  <2>4. QED BY <1>1, <1>2, <2>1, <2>2, <2>3
<1>4. OthersRest(b)' BY <1>3 DEF OthersRest, Refreshing
<1>5. ProvidesBy(r, b) BY <1>1, ByOne
<1>6. ~Refreshing(b)'
  BY <1>1, <1>2, <1>3 DEF Refreshing, LinkersFit, NoTask, TypeOK, LinkerType
<1>7. bound[r] = scope => on'[b] = r
  <2>1. ASSUME bound[r] = scope PROVE on'[b] = r
    <3>1. ~Free(scope) BY <2>1 DEF Free
    <3>2. \A q \in Roots : bound[q] = scope => q = r BY <2>1 DEF Bindings
    <3>3. QED BY <1>3, <2>1, <3>1, <3>2
  <2>2. QED BY <2>1
<1>8. RowIsOfBinding(r)' BY <1>3, <1>5 DEF ProvidesBy, RowIsOfBinding
<1>9. \A e \in Members(r) : Agrees(r, e) \/ Owed(r, e)
  BY <1>3, <1>5 DEF ProvidesBy
<1>10. \A e \in Members(r)' : Agrees(r, e)' \/ Owed(r, e)'
  BY <1>3, <1>9 DEF Members, Agrees, Owed
<1>11. ProvidesBy(r, b)'
  BY <1>3, <1>6, <1>7, <1>8, <1>10 DEF ProvidesBy
<1>12. QED BY <1>1, <1>4, <1>11, ByAll

LEMMA ExtractProvides ==
    ASSUME LinksBase, NEW r \in Roots, NEW b \in Linkers, OthersRest(b),
           Provides(r), Extract(b)
    PROVE  Provides(r)'
<1> USE DEF LinksBase
<1>1. PICK e \in Entities :
         /\ e \in 1 .. known + 1 /\ Home[e] = task[b].scope
         /\ known' = (IF e > known THEN e ELSE known)
         /\ todo' = [todo EXCEPT ![b] = IF on[b] = None THEN {} ELSE {e}]
         /\ known \in 0 .. MaxEntities
  BY ExtractDoes
<1>2. /\ pc[b] = "built" /\ pc'[b] = "paging" /\ ~Refreshing(b)
      /\ todo[b] = {} /\ todo'[b] = IF on[b] = None THEN {} ELSE {e}
      /\ \A q \in Linkers \ {b} : pc'[q] = pc[q] /\ todo'[q] = todo[q]
      /\ UNCHANGED <<graph, bound, row, links, on, task>>
  BY <1>1
     DEF Extract, Goto, TypeOK, LinkerType, LinkersFit, jobs, work, store
<1>3. OthersRest(b)' BY <1>2 DEF OthersRest, Refreshing
<1>4. ProvidesBy(r, b) BY ByOne
<1>5. RowIsOfBinding(r)' BY <1>2, <1>4 DEF ProvidesBy, RowIsOfBinding
<1>6. \A d \in Members(r) : Agrees(r, d) \/ Owed(r, d)
  BY <1>2, <1>4 DEF ProvidesBy
<1>7. known \in Nat /\ row[r].cursor \in Nat /\ row[r].cursor <= known
  BY <1>1, CodeLinksAssumption DEF RowsFit, TypeOK, TablesType
<1>8. ASSUME NEW d \in Members(r)', d \notin Members(r)
      PROVE  /\ d = e /\ row[r].cursor < e /\ bound[r] = task[b].scope
  <2>1. d \in 1 .. known' /\ d \notin 1 .. known /\ Home[d] = bound[r]
    BY <1>2, <1>8 DEF Members
  <2>2. e \in Nat BY <1>1, <1>7
  <2>3. known' = e /\ e = known + 1
    <3>1. CASE e > known BY <1>1, <1>7, <2>2, <3>1
    <3>2. CASE ~(e > known) BY <1>1, <2>1, <3>2
    <3>3. QED BY <3>1, <3>2
  <2>4. d = e BY <1>7, <2>1, <2>3
  <2>5. QED BY <1>1, <1>7, <2>1, <2>3, <2>4
<1>9. ASSUME NEW d \in Members(r)'
      PROVE  \/ Agrees(r, d)' \/ Owed(r, d)'
             \/ on[b] = r /\ d \in todo'[b]
  <2>1. CASE d \in Members(r) BY <1>2, <1>6, <2>1 DEF Agrees, Owed
  <2>2. CASE d \notin Members(r)
    <3>1. on[b] = r \/ row[r].state # "none"
      BY <1>2, <1>4, <1>8, <2>2 DEF ProvidesBy
    <3>2. on[b] = r => todo'[b] = {e} BY <1>2, IndexJobsAssumption
    <3>3. QED BY <1>2, <1>8, <2>2, <3>1, <3>2 DEF Owed
  <2>3. QED BY <2>1, <2>2
<1>10. ~Refreshing(b)' /\ on'[b] = on[b] BY <1>2 DEF Refreshing
<1>11. ProvidesBy(r, b)' BY <1>2, <1>5, <1>9, <1>10 DEF ProvidesBy
<1>12. QED BY <1>3, <1>11, ByAll

\* What a linker does with an entity it has in hand.
LEMMA InHandRests ==
    ASSUME NEW p \in Linkers, OthersRest(p), InHandStep(p)
    PROVE  OthersRest(p)'
BY DEF OthersRest, InHandStep, Refreshing

LEMMA InHandElsewhere ==
    ASSUME LinksBase, NEW r \in Roots, NEW p \in Linkers, OthersRest(p),
           Provides(r), InHandStep(p), on[p] # r, links'[r] = links[r]
    PROVE  Provides(r)'
<1>1. ProvidesBy(r, p) BY ByOne
<1>2. SameFor(r) /\ on' = on /\ pc'[p] # "built"
  BY DEF SameFor, InHandStep, work, store
<1>3. ProvidesBy(r, p)' BY <1>1, <1>2, ElsewhereKeeps
<1>4. QED BY <1>3, InHandRests, ByAll

\* A step on r itself that leaves every other link alone: e is done when it is
\* out of hand, or it is owed again.
LEMMA InHandProvides ==
    ASSUME LinksBase, NEW r \in Roots, NEW p \in Linkers, OthersRest(p),
           Provides(r), InHandStep(p), on[p] = r,
           \A e \in Members(r) \ todo[p] : links'[r][e] = links[r][e],
           \A e \in Members(r) \cap todo[p] \cap todo'[p] :
               links'[r][e] = links[r][e]
               \/ (Refreshing(p) => Owed(r, e)),
           \A e \in (Members(r) \cap todo[p]) \ todo'[p] :
               \/ Agrees(r, e)'
               \/ /\ Owed(r, e)
                  /\ Refreshing(p) => ~Mine(p) \/ ending'[p] = "fail",
           ending'[p] = ending[p] \/ ending'[p] = "fail",
           pc'[p] \in {"looked", "stored"} =>
               \/ IsRight(p)'
               \/ (Owed(r, First(p)) /\ ~(Refreshing(p) /\ Mine(p)))'
    PROVE  Provides(r)'
<1>1. ProvidesBy(r, p) BY ByOne
<1>2. /\ UNCHANGED <<graph, bound, row, known, on, task>>
      /\ pc'[p] \in {"paging", "looked", "stored"} /\ Busy(p)
      /\ todo'[p] \subseteq todo[p]
  BY DEF InHandStep, work, store
<1>3. /\ Members(r)' = Members(r)
      /\ Refreshing(p)' <=> Refreshing(p)
      /\ Mine(p)' <=> Mine(p)
      /\ \A e \in Members(r) : Owed(r, e)' <=> Owed(r, e)
  BY <1>2 DEF Members, Refreshing, Mine, Owed
<1>4. \A e \in Members(r) :
         links'[r][e] = links[r][e] => (Agrees(r, e)' <=> Agrees(r, e))
  BY <1>2 DEF Agrees
<1>5. RowIsOfBinding(r)' BY <1>1, <1>2 DEF ProvidesBy, RowIsOfBinding
<1>6. ASSUME NEW e \in Members(r)
      PROVE  \/ Agrees(r, e)' \/ Owed(r, e)'
             \/ ~Refreshing(p) /\ e \in todo'[p]
  <2>1. CASE e \notin todo[p]
    BY <1>1, <1>3, <1>4, <2>1 DEF ProvidesBy
  <2>2. CASE e \in todo[p] /\ e \notin todo'[p] BY <1>3, <2>2
  <2>3. CASE e \in todo[p] /\ e \in todo'[p]
    BY <1>1, <1>3, <1>4, <2>3 DEF ProvidesBy
  <2>4. QED BY <2>1, <2>2, <2>3
<1>7. Refreshing(p) =>
         row'[r].state # "none" /\ \A e \in todo'[p] : Owed(r, e)'
  BY <1>1, <1>2 DEF ProvidesBy, Owed
<1>8. ASSUME Refreshing(p), Mine(p), NEW e \in Members(r) \ todo'[p],
             \/ ending'[p] = "complete"
             \/ ending'[p] = "advance" /\ e <= task[p].cursor
      PROVE  Agrees(r, e)'
  <2>1. ending'[p] = ending[p] BY <1>8
  <2>2. CASE e \notin todo[p]
    BY <1>1, <1>2, <1>4, <1>8, <2>1, <2>2 DEF ProvidesBy
  <2>3. CASE e \in todo[p] BY <1>8, <2>3
  <2>4. QED BY <2>2, <2>3
<1>9. ProvidesBy(r, p)'
  <2>1. \A e \in Members(r)' :
           \/ Agrees(r, e)' \/ Owed(r, e)'
           \/ on'[p] = r /\ ~Refreshing(p)' /\ e \in todo'[p]
    BY <1>2, <1>3, <1>6
  <2>2. Refreshing(p)' =>
           row'[r].state # "none" /\ \A e \in todo'[p] : Owed(r, e)'
    BY <1>3, <1>7
  <2>3. Refreshing(p)' /\ Mine(p)' =>
           \A e \in (Members(r) \ todo[p])' :
               \/ ending'[p] = "complete"
               \/ ending'[p] = "advance" /\ e <= task'[p].cursor
               => Agrees(r, e)'
    BY <1>2, <1>3, <1>8
  <2>4. QED BY <1>2, <1>5, <2>1, <2>2, <2>3 DEF ProvidesBy
<1>10. QED BY <1>9, InHandRests, ByAll

LEMMA LookUpProvides ==
    ASSUME LinksBase, JobsTypeOK', NEW r \in Roots, NEW p \in Linkers,
           OthersRest(p), Provides(r), graph[r] # None, LookUp(p)
    PROVE  Provides(r)'
<1>1. InHandStep(p) /\ links' = links /\ ending' = ending
  BY LookUpBase DEF LookUp, tables
<1>2. CASE on[p] # r BY <1>1, <1>2, InHandElsewhere
<1>3. CASE on[p] = r
  <2> DEFINE answer == Symbol[graph[r]][First(p)]
  <2>1. /\ IF answer = Ambiguous THEN Drop(p) /\ UNCHANGED <<pc, found>>
           ELSE /\ Goto(p, "looked")
                /\ found' = [found EXCEPT ![p] = answer] /\ UNCHANGED todo
        /\ pc[p] = "paging" /\ UNCHANGED <<graph, on>>
    BY <1>3 DEF LookUp, Looks, jobs, work, store
  <2>2. CASE answer = Ambiguous
    <3>1. todo'[p] = todo[p] \ {First(p)} /\ pc' = pc
      BY <2>1, <2>2 DEF Drop, LinksBase, TypeOK, LinkerType
    <3>2. PICK e : e = First(p) OBVIOUS
    <3>3. Agrees(r, e)' BY <2>1, <2>2, <3>2 DEF Agrees
    <3>4. QED
      BY <1>1, <1>3, <2>1, <3>1, <3>2, <3>3, InHandProvides
  <2>3. CASE answer # Ambiguous
    <3>1. pc'[p] = "looked" /\ found'[p] = answer /\ todo' = todo
      BY <2>1, <2>3 DEF Goto, LinksBase, TypeOK, LinkerType
    <3>2. IsRight(p)' BY <1>3, <2>1, <3>1 DEF IsRight, First
    <3>3. QED
      BY <1>1, <1>3, <3>1, <3>2, InHandProvides
  <2>4. QED BY <2>2, <2>3
<1>4. QED BY <1>2, <1>3

LEMMA UnavailableProvides ==
    ASSUME LinksBase, JobsTypeOK', NEW r \in Roots, NEW p \in Linkers,
           OthersRest(p), Provides(r), graph[r] # None, Unavailable(p),
           "forgotten" \notin used'.marks
    PROVE  Provides(r)'
<1>1. InHandStep(p) /\ links' = links
  BY UnavailableBase DEF Unavailable, tables
<1>2. CASE on[p] # r BY <1>1, <1>2, InHandElsewhere
<1>3. CASE on[p] = r
  <2>1. Refreshing(p)
    BY <1>3, Marked, CodeLinksAssumption DEF Unavailable
  <2>2. /\ pc'[p] = "paging" /\ todo'[p] = {} /\ ending'[p] = "fail"
    BY <2>1 DEF Unavailable, Looks, LinksBase, TypeOK, LinkerType
  <2>3. \A e \in todo[p] : Owed(r, e)
    BY <1>3, <2>1, ByOne DEF ProvidesBy
  <2>4. QED BY <1>1, <1>3, <2>2, <2>3, InHandProvides
<1>4. QED BY <1>2, <1>3

LEMMA StoreProvides ==
    ASSUME LinksBase, JobsTypeOK', NEW r \in Roots, NEW p \in Linkers,
           OthersRest(p), Provides(r), Store(p)
    PROVE  Provides(r)'
<1> USE DEF LinksBase
<1>1. InHandStep(p) /\ ending' = ending /\ todo' = todo
  BY StoreBase DEF Store
<1>2. /\ pc[p] = "looked" /\ pc'[p] = "stored" /\ todo[p] # {}
      /\ UNCHANGED <<graph, on, task, found, row>>
  BY DEF Store, Goto, TypeOK, LinkerType, LinkersFit, jobs, work, store
<1>3. First(p) \in todo[p] /\ First(p) \in Entities /\ on[p] \in Roots
  BY <1>2, FirstIsThere
<1>4. CASE on[p] # r
  <2>1. links'[r] = links[r]
    BY <1>3, <1>4 DEF Store, Relink, TypeOK, TablesType
  <2>2. QED BY <1>1, <1>4, <2>1, InHandElsewhere
<1>5. CASE on[p] = r
  <2>1. /\ links'[r][First(p)] = links[r][First(p)] \cup {found[p]}
        /\ \A e \in Entities \ {First(p)} : links'[r][e] = links[r][e]
    BY <1>3, <1>5 DEF Store, Relink, TypeOK, TablesType
  <2>2. Members(r) \subseteq Entities
    BY CodeLinksAssumption DEF Members, Entities, TypeOK, TablesType
  <2>3. ProvidesBy(r, p) BY ByOne
  <2>4. First(p)' = First(p) BY <1>1 DEF First
  <2>5. \/ IsRight(p)'
        \/ (Owed(r, First(p)) /\ ~(Refreshing(p) /\ Mine(p)))'
    <3>1. CASE IsRight(p)
      BY <1>2, <1>5, <2>1, <2>4, <3>1 DEF IsRight
    <3>2. CASE ~IsRight(p)
      <4>1. Owed(r, First(p)) /\ ~(Refreshing(p) /\ Mine(p))
        BY <1>2, <1>5, <2>3, <3>2 DEF ProvidesBy
      <4>2. QED BY <1>2, <2>4, <4>1 DEF Owed, Refreshing, Mine
    <3>3. QED BY <3>1, <3>2
  <2>6. Refreshing(p) => \A e \in todo[p] : Owed(r, e)
    BY <1>5, <2>3 DEF ProvidesBy
  <2>7. QED
    BY <1>1, <1>3, <1>5, <2>1, <2>2, <2>5, <2>6, InHandProvides
<1>6. QED BY <1>4, <1>5

LEMMA DropOthersProvides ==
    ASSUME LinksBase, JobsTypeOK', NEW r \in Roots, NEW p \in Linkers,
           OthersRest(p), Provides(r), DropOthers(p)
    PROVE  Provides(r)'
<1> USE DEF LinksBase
<1>1. InHandStep(p) /\ ending' = ending
  BY DropOthersBase DEF DropOthers
<1>2. /\ pc[p] \in {"looked", "stored"} /\ pc'[p] = "paging"
      /\ pc[p] = "looked" <=> found[p] = None
      /\ todo[p] # {} /\ todo'[p] = todo[p] \ {First(p)}
      /\ UNCHANGED <<graph, on, task, row>>
  BY DEF DropOthers, Goto, Drop, TypeOK, LinkerType, LinkersFit, jobs, work,
         store
<1>3. PICK f \in Entities :
         f = First(p) /\ f \in todo[p] /\ on[p] \in Roots
  BY <1>2, FirstIsThere
<1>4. CASE on[p] # r
  <2>1. links'[r] = links[r]
    BY <1>3, <1>4 DEF DropOthers, Relink, TypeOK, TablesType
  <2>2. QED BY <1>1, <1>4, <2>1, InHandElsewhere
<1>5. CASE on[p] = r
  <2>1. /\ links'[r][f] = links[r][f] \cap {found[p]}
        /\ \A e \in Entities \ {f} : links'[r][e] = links[r][e]
    BY <1>3, <1>5 DEF DropOthers, Relink, TypeOK, TablesType
  <2>2. Members(r) \subseteq Entities
    BY CodeLinksAssumption DEF Members, Entities, TypeOK, TablesType
  <2>3. ProvidesBy(r, p) BY ByOne
  <2>4. \/ Agrees(r, f)'
        \/ Owed(r, f) /\ (Refreshing(p) => ~Mine(p))
    <3>1. CASE IsRight(p)
      <4>1. found[p] = Symbol[graph[r]][f]
        BY <1>3, <1>5, <3>1 DEF IsRight
      <4>2. CASE found[p] = None
        <5>1. None \notin links[r][f]
          BY <1>3 DEF TypeOK, TablesType, Symbols
        <5>2. links'[r][f] = {} BY <2>1, <4>2, <5>1
        <5>3. QED BY <1>2, <4>1, <4>2, <5>2 DEF Agrees
      <4>3. CASE found[p] # None
        <5>1. found[p] \in links[r][f]
          BY <1>2, <1>3, <1>5, <3>1, <4>3 DEF IsRight
        <5>2. links'[r][f] = {found[p]} BY <2>1, <5>1
        <5>3. QED BY <1>2, <4>1, <4>3, <5>2 DEF Agrees
      <4>4. QED BY <4>2, <4>3
    <3>2. CASE ~IsRight(p)
      BY <1>2, <1>3, <1>5, <2>3, <3>2 DEF ProvidesBy
    <3>3. QED BY <3>1, <3>2
  <2>5. QED
    BY <1>1, <1>2, <1>3, <1>5, <2>1, <2>2, <2>4, InHandProvides
<1>6. QED BY <1>4, <1>5

LinkStages == {"written", "opened", "linking"}

\* What has become calm by no queueing was calm before.
LEMMA CalmBefore ==
    ASSUME NEW r \in Roots, Calm(r)', graph'[r] = graph[r],
           r \in adrift => r \in adrift', bound'[r] = bound[r], strays'[r] = strays[r],
           \A i \in Jobs : aim[i] = r /\ stage[i] \in LinkStages =>
              aim'[i] = r /\ stage'[i] \in LinkStages,
           \A u \in Users : user[u].step = "bound" /\ user[u].root = r =>
              user'[u].step = "bound" /\ user'[u].root = r
    PROVE  Calm(r)
BY DEF Calm, Settling, LinkStages

LEMMA LinkProvides ==
    ASSUME LinksBase, LinksBase', JobsInv, NEW r \in Roots,
           Calm(r) => Provides(r), Calm(r)',
           "forgotten" \notin used'.marks, NEW j \in Jobs, LinkProject(j)
    PROVE  Provides(r)'
<1> USE DEF LinksBase, JobsInv, JobsTypeOK, TypeOK
<1>1. /\ stage[j] = "linking" /\ aim[j] \in Roots
      /\ \A i \in Jobs \ {j} : stage'[i] = stage[i]
      /\ UNCHANGED <<graph, adrift, aim, links, known, linker, user, strays>>
  BY DEF LinkProject, Link, Step, store, past, calls
<1>2. ~Fault("enqueue") BY Marked, CodeLinksAssumption
<1>3. \/ bound[aim[j]] = None /\ UNCHANGED <<bound, row>>
      \/ \E scope \in Scopes :
            AutoBind(aim[j], scope) /\ Enqueue(aim[j], scope)
  BY <1>2 DEF LinkProject
<1>4. CASE aim[j] = r
  <2>1. bound'[r] # None BY DEF Calm
  <2>2. PICK scope \in Scopes :
           AutoBind(aim[j], scope) /\ Enqueue(aim[j], scope)
    BY <1>3, <1>4, <2>1
  <2>3. bound'[r] = scope BY <1>4, <2>2, AutoBindDoes
  <2>4. /\ row'[r].state # "none" /\ row'[r].cursor = 0
        /\ row'[r].scope = scope
        /\ \A w \in Workers : row'[r].stamp # task[w].stamp
    BY <1>4, <2>2, EnqueueDoes
  <2>5. QED BY <1>1, <2>3, <2>4, FreshProvides
<1>5. CASE aim[j] # r
  <2>1. row'[r] = row[r] /\ bound'[r] = bound[r]
    BY <1>1, <1>3, <1>5, AutoBindDoes, EnqueueDoes
  <2>2. SameFor(r) BY <1>1, <2>1 DEF SameFor
  <2>3. Calm(r) BY <1>1, <1>5, <2>1, CalmBefore
  <2>4. QED BY <1>1, <2>2, <2>3, SameKeeps
<1>6. QED BY <1>4, <1>5

\* The steps of jobs that queue nothing.
LEMMA JobProvides ==
    ASSUME LinksBase, JobsInv, NEW r \in Roots,
           Calm(r) => Provides(r), Calm(r)',
           "forgotten" \notin used'.marks, NEW j \in Jobs,
           \/ Ask(j) \/ Answer(j) \/ Delete(j)
           \/ DropRow(j) \/ DropBinding(j) \/ DropLinks(j) \/ CleanFails(j)
           \/ /\ Index(j) \/ Resolve(j) \/ NothingDeleted(j) \/ Suppress(j)
              /\ UNCHANGED <<tables, lock, linker, calls, strays>>
    PROVE  Provides(r)'
<1> USE DEF LinksBase, JobsInv, JobsTypeOK, TypeOK
<1>1. /\ UNCHANGED <<known, linker, user>>
      /\ \A i \in Jobs \ {j} : stage'[i] = stage[i] /\ aim'[i] = aim[i]
  <2> USE DEF Step, tables, calls, jobs, work, job
  <2>1. CASE Ask(j) \/ Answer(j)
    BY <2>1 DEF Ask, Answer, Submit, Rest
  <2>2. CASE Delete(j) \/ DropLinks(j) \/ CleanFails(j)
    BY <2>2 DEF Delete, EngineDeletes, DropLinks, CleanFails, Clean
  <2>3. CASE DropRow(j) \/ DropBinding(j)
    BY <2>3 DEF DropRow, DropBinding
  <2>4. CASE /\ Index(j) \/ Resolve(j) \/ NothingDeleted(j) \/ Suppress(j)
             /\ UNCHANGED <<tables, lock, linker, calls, strays>>
    BY <2>4 DEF Index, Enter, EngineReads, EngineWrites, EngineFails,
                PathTooLong, Unsuppress, Unblock, Raises, Leave, Resolve,
                NothingDeleted, Suppress
  <2>5. QED BY <2>1, <2>2, <2>3, <2>4
<1>2. /\ graph'[r] # None /\ r \notin adrift'
      /\ ~\E i \in Jobs : aim'[i] = r /\ stage'[i] \in LinkStages
  BY DEF Calm, Settling, LinkStages
<1>3. /\ aim[j] = r => stage[j] \notin LinkStages
      /\ graph'[r] = graph[r] /\ bound'[r] = bound[r]
      /\ row'[r] = row[r] /\ links'[r] = links[r] /\ strays'[r] = strays[r]
      /\ r \notin adrift
  <2> USE <1>2 DEF Step, LinkStages, past
  <2>1. CASE Ask(j) \/ Answer(j)
    BY <2>1 DEF Ask, Answer, Submit, Rest, tables, store
  <2>2. CASE Delete(j)
    BY <2>2 DEF Delete, EngineDeletes, tables
  <2>3. CASE DropRow(j) \/ DropBinding(j) \/ DropLinks(j) \/ CleanFails(j)
    <3>1. stage[j] = "deleted" /\ graph' = graph /\ adrift' = adrift
      BY <2>3
         DEF DropRow, DropBinding, DropLinks, CleanFails, Clean, jobs, work,
             store
    <3>2. aim[j] # r BY <3>1 DEF GoneIsLeft
    <3>3. aim[j] \in Roots BY <3>1
    <3>4. QED
      BY <2>3, <3>1, <3>2, <3>3
         DEF DropRow, DropBinding, DropLinks, CleanFails, TablesType, tables
  <2>4. CASE /\ Index(j) \/ Resolve(j) \/ NothingDeleted(j) \/ Suppress(j)
             /\ UNCHANGED <<tables, lock, linker, calls, strays>>
    <3>1. UNCHANGED <<bound, row, links, strays>> BY <2>4 DEF tables
    <3>2. CASE EngineWrites(j) BY <3>1, <3>2 DEF EngineWrites
    <3>3. CASE Enter(j) \/ EngineReads(j) \/ EngineFails(j) \/ PathTooLong(j)
      BY <3>1, <3>3
         DEF Enter, EngineReads, EngineFails, PathTooLong, Raises, store
    <3>4. CASE Unsuppress(j) \/ Unblock(j) \/ Leave(j)
      <4>1. ~Fault("clear") BY Marked, CodeLinksAssumption
      <4>2. CASE Unsuppress(j) BY <3>1, <4>1, <4>2 DEF Unsuppress
      <4>3. CASE Unblock(j) BY <3>1, <4>1, <4>3 DEF Unblock
      <4>4. CASE Leave(j) BY <3>1, <4>4 DEF Leave
      <4>5. QED BY <3>4, <4>2, <4>3, <4>4
    <3>5. CASE Resolve(j) \/ NothingDeleted(j) \/ Suppress(j)
      BY <3>1, <3>5 DEF Resolve, NothingDeleted, Suppress, store
    <3>6. QED BY <2>4, <3>2, <3>3, <3>4, <3>5 DEF Index
  <2>5. QED BY <2>1, <2>2, <2>3, <2>4
<1>4. SameFor(r) BY <1>1, <1>3 DEF SameFor
<1>5. Calm(r) BY <1>1, <1>3, CalmBefore
<1>6. QED BY <1>1, <1>4, <1>5, SameKeeps

LEMMA UserProvides ==
    ASSUME LinksBase, LinksBase', NEW r \in Roots,
           Calm(r) => Provides(r), Calm(r)',
           "forgotten" \notin used'.marks, NEW u \in Users,
           Confirm(u) \/ Bind(u) \/ QueueRefresh(u)
    PROVE  Provides(r)'
<1> USE DEF LinksBase, TypeOK
<1>1. /\ UNCHANGED <<graph, adrift, stage, aim, links, known, linker,
                      strays>>
      /\ \A v \in Users \ {u} : user'[v] = user[v]
  BY DEF Confirm, Bind, QueueRefresh, jobs, work, store, job, past, tables
<1>2. CASE QueueRefresh(u) /\ user[u].root = r
  <2>1. user[u].scope \in Scopes /\ user[u].step = "bound"
    BY <1>2 DEF QueueRefresh, UsersFit
  <2>2. Enqueue(r, user[u].scope)
    BY <1>2, Marked, CodeLinksAssumption DEF QueueRefresh
  <2>3. /\ row'[r].state # "none" /\ row'[r].cursor = 0
        /\ row'[r].scope = user[u].scope
        /\ \A w \in Workers : row'[r].stamp # task[w].stamp
    BY <2>1, <2>2, EnqueueDoes
  <2>4. u \notin strays[r] BY <1>1 DEF Calm
  <2>5. bound'[r] = user[u].scope
    BY <1>2, <2>1, <2>4 DEF UsersFit, QueueRefresh
  <2>6. QED BY <1>1, <2>3, <2>5, FreshProvides
<1>3. CASE ~(QueueRefresh(u) /\ user[u].root = r)
  <2>1. /\ row'[r] = row[r] /\ bound'[r] = bound[r]
        /\ user[u].step = "bound" => user[u].root # r
    <3>1. CASE Confirm(u) BY <3>1 DEF Confirm, tables, NoUser
    <3>2. CASE Bind(u)
      <4>1. user'[u] = NoUser
            \/ user'[u] = [user[u] EXCEPT !.step = "bound"]
        BY <3>2 DEF Bind
      <4>2. user[u].root = r => bound' = bound
        BY <3>2, <4>1 DEF Bind, Calm, Settling
      <4>3. user[u].root # r => bound'[r] = bound[r]
        BY <3>2 DEF Bind, TablesType
      <4>4. QED BY <3>2, <4>2, <4>3 DEF Bind
    <3>3. CASE QueueRefresh(u)
      <4>1. user[u].root \in Roots /\ user[u].scope \in Scopes
        BY <3>3 DEF QueueRefresh, UsersFit
      <4>2. QED BY <1>3, <3>3, <4>1, EnqueueDoes DEF QueueRefresh
    <3>4. QED BY <3>1, <3>2, <3>3
  <2>2. SameFor(r) BY <1>1, <2>1 DEF SameFor
  <2>3. Calm(r) BY <1>1, <2>1, CalmBefore
  <2>4. QED BY <1>1, <2>2, <2>3, SameKeeps
<1>4. QED BY <1>2, <1>3

LEMMA ReconcileProvides ==
    ASSUME LinksBase, JobsTypeOK', NEW r \in Roots, NEW p \in Linkers,
           OthersRest(p), Provides(r), graph[r] # None,
           "forgotten" \notin used'.marks, Reconcile(p)
    PROVE  Provides(r)'
BY LookUpProvides, UnavailableProvides, StoreProvides, DropOthersProvides
   DEF Reconcile

\* Nobody's step: the end of a lease, or of a wait.
LEMMA LeaseProvides ==
    ASSUME LinksBase, NEW r \in Roots, Provides(r),
           LockEnds \/ \E q \in Roots : RowDue(q)
    PROVE  Provides(r)'
<1>1. CASE LockEnds
  <2>1. SameFor(r) /\ UNCHANGED linker
    BY <1>1 DEF LockEnds, SameFor, tables, jobs, work, store
  <2>2. QED BY <2>1, SameKeeps
<1>2. ASSUME NEW q \in Roots, RowDue(q) PROVE Provides(r)'
  <2>1. row[r] \in RowType /\ row \in [Roots -> RowType]
    BY DEF LinksBase, TypeOK, TablesType, RowType
  <2>2. row'[r] = row[r] \/ row'[r] = [row[r] EXCEPT !.waiting = FALSE]
    BY <1>2, <2>1 DEF RowDue
  <2>3. SameFor(r) /\ UNCHANGED linker
    BY <1>2, <2>1, <2>2 DEF RowDue, SameFor, jobs, work, store, RowType
  <2>4. QED BY <2>3, SameKeeps
<1>3. QED BY <1>1, <1>2

LEMMA EndProvides ==
    ASSUME LinksBase, NEW r \in Roots, NEW p \in Linkers, OthersRest(p),
           Provides(r), "forgotten" \notin used'.marks,
           Halt(p) \/ BuildEnds(p)
    PROVE  Provides(r)'
<1>1. SameFor(r) BY DEF Halt, BuildEnds, SameFor, tables, jobs, work, store
<1>2. Forget(p) /\ lock' \in Linkers \cup {None, Lapsed}
  <2>1. CASE Halt(p) BY <2>1 DEF Halt, LinksBase, TypeOK, LinkerType
  <2>2. CASE BuildEnds(p) BY <2>2, UnlockLock DEF BuildEnds
  <2>3. QED BY <2>1, <2>2
<1>3. Refreshing(p) \/ todo[p] = {}
  <2>1. CASE Halt(p) BY <2>1, Marked, CodeLinksAssumption DEF Halt
  <2>2. CASE BuildEnds(p) BY <2>2 DEF BuildEnds, LinksBase, LinkersFit
  <2>3. QED BY <2>1, <2>2
<1>4. QED BY <1>1, <1>2, <1>3, ForgetProvides

LEMMA LinkerProvides ==
    ASSUME LinksBase, JobsTypeOK', NEW r \in Roots, Provides(r),
           graph[r] # None, bound[r] # None,
           "forgotten" \notin used.marks, "forgotten" \notin used'.marks,
           \/ \E p \in Linkers : Stall(p) \/ Halt(p)
           \/ \E w \in Workers : Claim(w) \/ WorkerStep(w)
           \/ \E b \in Builders : BeginBuild(b) \/ BuilderStep(b)
    PROVE  Provides(r)'
<1>1. ASSUME NEW p \in Linkers, Stall(p) \/ Halt(p) PROVE Provides(r)'
  <2>1. ~Stall(p) BY Marked, CodeLinksAssumption DEF Stall
  <2>2. OthersRest(p) BY <1>1, <2>1, OthersDo DEF Halt
  <2>3. QED BY <1>1, <2>1, <2>2, EndProvides
<1>2. ASSUME NEW w \in Workers, Claim(w) \/ WorkerStep(w)
      PROVE  Provides(r)'
  <2>1. w \in Linkers BY DEF Linkers
  <2>2. OthersRest(w)
    <3>1. pc[w] # "idle" \/ lock = None
      BY <1>2
         DEF Claim, WorkerStep, ReadPage, Settle, Abort, Reconcile, LookUp,
             Unavailable, Looks, Store, DropOthers
    <3>2. QED BY <2>1, <3>1, OthersDo
  <2>3. ~Abort(w) BY DEF Abort, LinksBase, Alone
  <2>4. QED
    BY <1>2, <2>1, <2>2, <2>3, ClaimProvides, ReadPageProvides,
       SettleProvides, ReconcileProvides DEF WorkerStep
<1>3. ASSUME NEW b \in Builders, BeginBuild(b) \/ BuilderStep(b)
      PROVE  Provides(r)'
  <2>1. b \in Linkers BY DEF Linkers
  <2>2. OthersRest(b)
    <3>1. pc[b] # "idle" \/ lock = None
      BY <1>3
         DEF BeginBuild, BuilderStep, Extract, BuildEnds, Reconcile, LookUp,
             Unavailable, Looks, Store, DropOthers
    <3>2. QED BY <2>1, <3>1, OthersDo
  <2>3. QED
    BY <1>3, <2>1, <2>2, BeginBuildProvides, ExtractProvides, EndProvides,
       ReconcileProvides DEF BuilderStep
<1>4. QED BY <1>1, <1>2, <1>3

LEMMA LinksKeep ==
    LinksBase /\ LinksBase' /\ JobsInv /\ JobsInv' /\ LinksInv /\ [Next]_vars
       => LinksInv'
<1> SUFFICES ASSUME LinksBase, LinksBase', JobsInv, JobsInv', LinksInv,
                    [Next]_vars,
                    used'.marks \cap {"crash", "forgotten"} = {},
                    NEW r \in Roots, Calm(r)'
             PROVE  Provides(r)'
  BY DEF LinksInv
<1>1. /\ used.marks \cap {"crash", "forgotten"} = {}
      /\ "forgotten" \notin used.marks /\ "forgotten" \notin used'.marks
  BY MarksGrow
<1>2. Calm(r) => Provides(r) BY <1>1 DEF LinksInv
<1>3. JobsTypeOK' BY DEF JobsInv
<1>4. CASE UNCHANGED vars \/ GateOpens \/ LateChild
           \/ \E q \in Roots : Change(q)
  <2>1. /\ UNCHANGED <<stage, aim, tables, linker, user, strays>>
        /\ graph'[r] = graph[r]
        /\ (r \in adrift => r \in adrift')
    <3>1. CASE UNCHANGED vars \/ GateOpens \/ \E q \in Roots : Change(q)
      BY <3>1 DEF vars, GateOpens, LeaseEnds, Change, Edit, calls, jobs,
                  work, store, job, past
    <3>2. ASSUME NEW o \in late, LateWrite(o), LateChild
          PROVE  /\ UNCHANGED <<stage, aim, tables, linker, user, strays>>
                 /\ graph'[r] = graph[r]
                 /\ (r \in adrift => r \in adrift')
      <4>1. o.root # r BY <3>2 DEF LateWrite, Calm
      <4>2. QED
        BY <3>2, <4>1
           DEF LateChild, LateWrite, calls, job, JobsInv, JobsTypeOK
    <3>3. QED BY <1>4, <3>1, <3>2 DEF LateChild
  <2>2. SameFor(r) BY <2>1 DEF SameFor, tables
  <2>3. Calm(r) BY <2>1, CalmBefore DEF tables
  <2>4. QED BY <1>2, <2>1, <2>2, <2>3, SameKeeps
<1>5. ASSUME NEW j \in Jobs, Ask(j) \/ Answer(j) \/ JobStep(j) \/ Crash(j)
      PROVE  Provides(r)'
  <2>1. ~Crash(j) BY Marked, IndexJobsAssumption DEF Crash
  <2>2. QED
    BY <1>1, <1>2, <1>5, <2>1, JobProvides, LinkProvides DEF JobStep
<1>6. ASSUME NEW u \in Users, Confirm(u) \/ Bind(u) \/ QueueRefresh(u)
      PROVE  Provides(r)'
  BY <1>1, <1>2, <1>6, UserProvides
<1>7. CASE \/ LockEnds \/ \E q \in Roots : RowDue(q)
           \/ \E p \in Linkers : Stall(p) \/ Halt(p)
           \/ \E w \in Workers : Claim(w) \/ WorkerStep(w)
           \/ \E b \in Builders : BeginBuild(b) \/ BuilderStep(b)
  <2>1. UNCHANGED <<work, bound, user, strays>>
    <3>1. ASSUME NEW p, Reconcile(p)
          PROVE  UNCHANGED <<work, bound, user, strays>>
      BY <3>1
         DEF Reconcile, LookUp, Unavailable, Store, DropOthers, jobs, tables,
             calls
    <3>2. QED
      BY <1>7, <3>1
         DEF LockEnds, RowDue, Stall, Halt, Claim, WorkerStep, ReadPage,
             Settle, Abort, BeginBuild, BuilderStep, Extract, BuildEnds,
             jobs, tables, calls
  <2>2. Calm(r) BY <2>1, CalmBefore DEF work, store, job, past
  <2>3. graph[r] # None /\ bound[r] # None BY <2>2 DEF Calm
  <2>4. QED
    BY <1>1, <1>2, <1>3, <1>7, <2>2, <2>3, LeaseProvides, LinkerProvides
<1>8. QED BY <1>4, <1>5, <1>6, <1>7 DEF Next

LEMMA LinksInit == Init => LinksInv
<1> SUFFICES ASSUME Init, NEW r \in Roots, Calm(r) PROVE Provides(r)
  BY DEF LinksInv
<1>1. /\ graph[r] = 0 /\ bound[r] # None
      /\ row[r] = NoRow
      /\ \A p \in Linkers : pc[p] = "idle" /\ ~Refreshing(p)
  BY DEF Calm, Init, JobsInit, Refreshing, NoTask
<1>2. ASSUME NEW e \in Members(r) PROVE Agrees(r, e)
  <2>1. known = MaxEntities /\ e \in Entities /\ Home[e] = bound[r]
    BY <1>1, <1>2 DEF Init, Members, Entities
  <2>2. links[r][e] = IF known = 0 \/ bound[r] # Home[e] THEN {}
                      ELSE {Symbol[0][e]} \ {None, Ambiguous}
    BY <2>1 DEF Init
  <2>3. known # 0
    BY <2>1, CodeLinksAssumption DEF Entities
  <2>4. QED BY <1>1, <2>1, <2>2, <2>3 DEF Agrees
<1>3. RowIsOfBinding(r) BY <1>1 DEF RowIsOfBinding, NoRow
<1>4. NoneIsMissed(r) BY <1>2 DEF NoneIsMissed
<1>5. WorkIsOwed(r) /\ PageIsDone(r)
  BY <1>1 DEF WorkIsOwed, PageIsDone, Linkers
<1>6. AnswerIsRight(r) /\ BuildsLink(r)
  BY <1>1 DEF AnswerIsRight, BuildsLink
<1>7. QED BY <1>3, <1>4, <1>5, <1>6 DEF Provides

LEMMA LinksGive == LinksBase /\ LinksInv => LinksFollowGraph
<1> SUFFICES ASSUME LinksBase, LinksInv,
                    used.marks \cap {"crash", "forgotten"} = {},
                    NEW r \in Roots \ adrift, graph[r] # None,
                    bound[r] # None, AtRest(r), strays[r] \cap Users = {},
                    NEW e \in 1 .. known, Home[e] = bound[r]
             PROVE  Agrees(r, e)
  BY DEF LinksFollowGraph
<1>1. ~Settling(r)
  <2>1. \A j \in Jobs : aim[j] = r => ~InGate(j) BY DEF AtRest
  <2>2. QED BY <2>1 DEF Settling, AtRest, InGate
<1>2. Provides(r) BY <1>1 DEF LinksInv, Calm
<1>3. e \in Members(r) BY DEF Members
<1>4. \A p \in Linkers : todo[p] = {}
  BY DEF AtRest, LinksBase, LinkersFit
<1>5. QED
  BY <1>2, <1>3, <1>4
     DEF Provides, NoneIsMissed, Owed, InBuild, AtRest

\* When nothing is under way for a project its links are what its graph says,
\* however indexes, refreshes, builds and users came between each other: for
\* any number of projects, scopes, entities, linkers and pages.
THEOREM LinksAreCurrent == Spec => []LinksFollowGraph
<1>1. LinksBase /\ LinksBase' /\ JobsInv /\ JobsInv' /\ LinksInv
         /\ [Next]_vars => LinksInv'
  BY LinksKeep
<1>2. Spec => []LinksInv
  BY <1>1, LinksInit, LinksBaseInvariance, JobsHold, PTL DEF Spec
<1>3. QED BY <1>2, LinksGive, LinksBaseInvariance, PTL
=============================================================================
