----------------------------- MODULE IndexJobs -----------------------------
(***************************************************************************)
(* What is done to the store of the code graphs, and how: every index and  *)
(* every delete of a project is a job in a thread of its own that takes    *)
(* the gate (core/graph_index_lock.py), and settles under it the durable   *)
(* flags that keep pollers off a root (core/graph_index_repository.py,     *)
(* endpoints/graph_projects.py, core/runtime_flags.py). CodeIndex adds the *)
(* pollers that submit such jobs, CodeLinks what is linked to the graphs.  *)
(*                                                                         *)
(* The state of a source tree is a number that every edit increments.      *)
(* graph[r] is the state the engine indexed last, so a project is its      *)
(* root. The gate is the row that LeaseLock studies: here it is its        *)
(* holder, and a holder that crashed keeps it until the lease ends.        *)
(*                                                                         *)
(* A call of the engine that fails may have been given up only by its      *)
(* client (CbmTimeoutError, in marm_graph/core/cbm_client.py): the job     *)
(* ends and the gate opens, and the child goes on. late is what children   *)
(* may still do to the store, after the gate and in any order.             *)
(*                                                                         *)
(* MaxEdits bounds the edits of a tree, MaxFaults the faults of the kinds  *)
(* in Faults. The definitions named Slip... are plausible slips of the     *)
(* code, each of which breaks one of the properties.                       *)
(***************************************************************************)
EXTENDS Naturals, FiniteSets, Functions

CONSTANTS
    Roots,
    Indexers,     \* the jobs that may index
    Deleters,     \* the jobs that may delete a project
    None, Lapsed,
    Faults, MaxEdits, MaxFaults,
    Mark          \* what a fault of each kind is remembered as

Jobs == Indexers \cup Deleters
States == 0 .. MaxEdits

ASSUME IndexJobsAssumption ==
    /\ {None, Lapsed} \cap (Jobs \cup Roots \cup States) = {}
    /\ None # Lapsed
    /\ MaxEdits \in Nat /\ MaxFaults \in Nat
    /\ DOMAIN Mark = Faults
    /\ "crash" \in Faults => Mark["crash"] = "crash"

VARIABLES
    tree,        \* the source
    graph,       \* the engine's store, None when there is no such project
    gate,        \* graph_index_lock
    late,        \* what children still work at for jobs that have ended
    tombstone,   \* runtime_flags: watch_suppressed
    unindexable, \* runtime_flags: unindexable
    stage,       \* a job
    aim, took,   \* its root, and the state the engine read
    outcome,
    gone,        \* roots a user deleted and nobody has indexed since
    verdict,     \* how the last index that settled a root's blocks ended
    unsettled,   \* roots whose graph was left at odds with their flags
    adrift,      \* roots whose graph a child has changed since a job last did
    used         \* the faults so far, and their marks

blocks == <<tombstone, unindexable>>
store == <<tree, graph, gate, late, blocks>>
job == <<stage, aim, took, outcome>>
past == <<gone, verdict, unsettled, adrift>>
work == <<store, job, past>>
jobs == <<work, used>>

Fault(kind) ==
    /\ kind \in Faults
    /\ used.count < MaxFaults
    /\ used' = [count |-> used.count + 1,
                marks |-> used.marks \cup {Mark[kind]}]

\* A project may have been indexed before.
JobsInit ==
    /\ tree = [r \in Roots |-> 0] /\ graph \in [Roots -> {None, 0}]
    /\ gate = None /\ late = {}
    /\ tombstone = {} /\ unindexable = {}
    /\ stage = [j \in Jobs |-> "none"] /\ aim = [j \in Jobs |-> None]
    /\ took = [j \in Jobs |-> None] /\ outcome = [j \in Jobs |-> "none"]
    /\ gone = {} /\ verdict = [r \in Roots |-> "none"]
    /\ unsettled = {} /\ adrift = {}
    /\ used = [count |-> 0, marks |-> {}]

Edit(r) ==
    /\ tree[r] < MaxEdits
    /\ tree' = [tree EXCEPT ![r] = @ + 1]
    /\ UNCHANGED <<graph, gate, late, blocks, job, past, used>>

Step(j, there) == stage' = [stage EXCEPT ![j] = there]
Ends(j, how) == outcome' = [outcome EXCEPT ![j] = how]

\* run_exclusive and gate_sync: a thread that asks for the gate.
Submit(j, r) ==
    /\ stage[j] = "none"
    /\ Step(j, "asking")
    /\ aim' = [aim EXCEPT ![j] = r]
    /\ UNCHANGED <<store, took, outcome, past>>

\* Nobody waits for the gate.
Enter(j) ==
    /\ stage[j] = "asking"
    /\ IF gate = None
       THEN gate' = j /\ Step(j, "begun") /\ UNCHANGED outcome
       ELSE Ends(j, "busy") /\ Step(j, "over") /\ UNCHANGED gate
    /\ UNCHANGED <<tree, graph, late, blocks, aim, took, past, used>>

\* Only our own row is released.
Leave(j) ==
    /\ stage[j] = "leave"
    /\ gate' = IF gate = j THEN None ELSE gate
    /\ Step(j, "over")
    /\ took' = [took EXCEPT ![j] = None]
    /\ UNCHANGED <<tree, graph, late, blocks, aim, outcome, past, used>>

\* Whoever asked for the job has its outcome.
Rest(j) ==
    /\ stage[j] = "over"
    /\ Step(j, "none") /\ Ends(j, "none")
    /\ UNCHANGED <<store, aim, took, past>>

\* What would be left of the graph of a root: a state of its tree, or None.
Left(r, n) == [root |-> r, graph |-> n]
Operations == [root : Roots, graph : States \cup {None}]

\* What the engine was asked by jobs that have had no answer.
UnderWay(J) ==
    {Left(aim[j], took[j]) : j \in {k \in J : stage[k] = "read"}}
    \cup {Left(aim[j], None) : j \in {k \in J : stage[k] = "resolved"}}

\* Jobs end with their process. The row of the holder stays for its lease, and
\* what an index had yet to clear stays for good.
CrashJobs(J) ==
    /\ gate' = IF gate \in J THEN Lapsed ELSE gate
    /\ late' = late \cup UnderWay(J)
    /\ stage' = [j \in Jobs |-> IF j \in J THEN "none" ELSE stage[j]]
    /\ took' = [j \in Jobs |-> IF j \in J THEN None ELSE took[j]]
    /\ outcome' = [j \in Jobs |-> IF j \in J THEN "none" ELSE outcome[j]]
    /\ unsettled' = unsettled \cup
          {aim[j] : j \in {k \in J : stage[k] \in {"written", "opened"}}}
    /\ UNCHANGED <<tree, graph, blocks, aim, gone, verdict, adrift>>

LeaseEnds ==
    /\ gate = Lapsed
    /\ gate' = None
    /\ UNCHANGED <<tree, graph, late, blocks, job, past, used>>

\* A child does what a job asked of it when nobody waits for the answer any
\* more. An index may have read the tree before or after that. Nothing is
\* settled, and no fault is counted: the one that left it behind was.
LateWrite(o) ==
    /\ o \in late
    /\ late' = late \ {o}
    /\ IF o.graph = None
       THEN /\ graph' = [graph EXCEPT ![o.root] = None]
            /\ UNCHANGED <<gone, unsettled>>
       ELSE /\ \E n \in {o.graph, tree[o.root]} :
                  graph' = [graph EXCEPT ![o.root] = n]
            /\ gone' = gone \ {o.root}
            /\ unsettled' = unsettled \cup {o.root}
    /\ adrift' = adrift \cup {o.root}
    /\ UNCHANGED <<tree, gate, blocks, job, verdict, used>>

-----------------------------------------------------------------------------
(* index_repository *)

\* The engine reads the tree, and then writes its graph.
EngineReads(j) ==
    /\ stage[j] = "begun" /\ j \in Indexers
    /\ took' = [took EXCEPT ![j] = tree[aim[j]]]
    /\ Step(j, "read")
    /\ UNCHANGED <<store, aim, outcome, past, used>>

\* The gate is released before the blocks are settled.
SlipEngineWrites(j) ==
    /\ stage[j] = "read"
    /\ graph' = [graph EXCEPT ![aim[j]] = took[j]]
    /\ gone' = gone \ {aim[j]} /\ adrift' = adrift \ {aim[j]}
    /\ verdict' = [verdict EXCEPT ![aim[j]] = "ok"]
    /\ gate' = None
    /\ Ends(j, "ok") /\ Step(j, "written")
    /\ UNCHANGED <<tree, late, blocks, aim, took, unsettled, used>>

EngineWrites(j) ==
    /\ stage[j] = "read"
    /\ graph' = [graph EXCEPT ![aim[j]] = took[j]]
    /\ gone' = gone \ {aim[j]} /\ adrift' = adrift \ {aim[j]}
    /\ verdict' = [verdict EXCEPT ![aim[j]] = "ok"]
    /\ Ends(j, "ok") /\ Step(j, "written")
    /\ UNCHANGED <<tree, gate, late, blocks, aim, took, unsettled, used>>

\* The engine refuses, or its answer does not come: after the timeout, or
\* because the child died and its successor failed, with the graph written or
\* not.
EngineFails(j) ==
    /\ stage[j] = "read"
    /\ Fault("engine")
    /\ late' = late \cup UnderWay({j})
    /\ Ends(j, "error") /\ Step(j, "leave")
    /\ UNCHANGED <<tree, graph, gate, blocks, aim, took, past>>

\* A flag that cannot be written ends the job with an exception.
Raises(j) ==
    /\ Ends(j, "raised") /\ Step(j, "leave")
    /\ unsettled' = unsettled \cup {aim[j]}

\* The path limit of the platform, and mark_unindexable.
PathTooLong(j) ==
    /\ stage[j] = "read"
    /\ verdict' = [verdict EXCEPT ![aim[j]] = "deep"]
    /\ \/ /\ Fault("path")
          /\ unindexable' = unindexable \cup {aim[j]}
          /\ Ends(j, "deep") /\ Step(j, "leave")
          /\ UNCHANGED unsettled
       \/ Fault("mark") /\ Raises(j) /\ UNCHANGED unindexable
    /\ UNCHANGED <<tree, graph, gate, late, tombstone, aim, took, gone,
                   adrift>>

\* Only what the index itself may have set is cleared.
SlipUnsuppress(j) ==
    /\ stage[j] = "written"
    /\ Step(j, "opened")
    /\ UNCHANGED <<store, aim, took, outcome, past, used>>

\* clear_index_blocks is two statements, and each may raise.
Unsuppress(j) ==
    /\ stage[j] = "written"
    /\ \/ /\ tombstone' = tombstone \ {aim[j]}
          /\ Step(j, "opened")
          /\ UNCHANGED <<outcome, unsettled, used>>
       \/ Fault("clear") /\ Raises(j) /\ UNCHANGED tombstone
    /\ UNCHANGED <<tree, graph, gate, late, unindexable, aim, took, gone,
                   verdict, adrift>>

Unblock(j) ==
    /\ stage[j] = "opened"
    /\ \/ /\ unindexable' = unindexable \ {aim[j]}
          /\ unsettled' = unsettled \ {aim[j]}
          /\ Step(j, "linking")
          /\ UNCHANGED <<outcome, used>>
       \/ Fault("clear") /\ Raises(j) /\ UNCHANGED unindexable
    /\ UNCHANGED <<tree, graph, gate, late, tombstone, aim, took, gone,
                   verdict, adrift>>

\* auto_bind and enqueue_refresh, which CodeLinks models.
Link(j) ==
    /\ stage[j] = "linking"
    /\ Step(j, "leave")
    /\ UNCHANGED <<store, aim, took, outcome, past>>

Index(j) ==
    \/ Enter(j) \/ EngineReads(j) \/ EngineWrites(j) \/ EngineFails(j)
    \/ PathTooLong(j) \/ Unsuppress(j) \/ Unblock(j) \/ Leave(j)

-----------------------------------------------------------------------------
(* _resolve_and_delete *)

\* Without a root there will be nothing to suppress.
Resolve(c) ==
    /\ stage[c] = "begun" /\ c \in Deleters
    /\ \/ Ends(c, "rooted") /\ UNCHANGED used
       \/ Ends(c, "unrooted") /\ Fault("resolve")
    /\ Step(c, "resolved")
    /\ UNCHANGED <<store, aim, took, past>>

EngineDeletes(c) ==
    /\ stage[c] = "resolved" /\ graph[aim[c]] # None
    /\ graph' = [graph EXCEPT ![aim[c]] = None]
    /\ gone' = gone \cup {aim[c]} /\ adrift' = adrift \ {aim[c]}
    /\ Step(c, "deleted")
    /\ UNCHANGED <<tree, gate, late, blocks, aim, took, outcome, verdict,
                   unsettled, used>>

\* There is no such project; or the engine refuses, or has not answered yet.
NothingDeleted(c) ==
    /\ stage[c] = "resolved"
    /\ \/ graph[aim[c]] = None /\ UNCHANGED <<late, used>>
       \/ /\ graph[aim[c]] # None /\ Fault("engine")
          /\ late' = late \cup UnderWay({c})
    /\ Ends(c, "error") /\ Step(c, "leave")
    /\ UNCHANGED <<tree, graph, gate, blocks, aim, took, past>>

\* _cleanup_project_code_links, which CodeLinks models.
Clean(c) ==
    /\ stage[c] = "deleted"
    /\ Step(c, "cleaned")
    /\ UNCHANGED <<store, aim, took, outcome, past>>

\* The tombstone is left to the caller, after the gate.
SlipSuppress(c) ==
    /\ stage[c] = "cleaned"
    /\ Step(c, "leave")
    /\ UNCHANGED <<store, aim, took, outcome, past, used>>

\* suppress_watch
Suppress(c) ==
    /\ stage[c] = "cleaned"
    /\ \/ /\ outcome[c] = "rooted"
          /\ tombstone' = tombstone \cup {aim[c]}
          /\ UNCHANGED used
       \/ outcome[c] = "rooted" /\ UNCHANGED tombstone /\ Fault("suppress")
       \/ outcome[c] = "unrooted" /\ UNCHANGED <<tombstone, used>>
    /\ Step(c, "leave")
    /\ UNCHANGED <<tree, graph, gate, late, unindexable, aim, took, outcome,
                   past>>

-----------------------------------------------------------------------------
(* A system of jobs: CodeIndex and CodeLinks say when they are submitted and *)
(* what else happens, and a fault of theirs counts with the others.          *)

FaultOrNone == UNCHANGED used \/ \E kind \in Faults : Fault(kind)

JobsNext ==
    \/ LeaseEnds
    \/ \E o \in late : LateWrite(o)
    \/ \E r \in Roots : Edit(r)
    \/ \E j \in Jobs :
          \/ Index(j) \/ Resolve(j) \/ EngineDeletes(j) \/ NothingDeleted(j)
          \/ Suppress(j)
          \/ (Link(j) \/ Clean(j) \/ Rest(j)) /\ FaultOrNone
          \/ \E r \in Roots : Submit(j, r) /\ FaultOrNone
    \/ \E J \in SUBSET Jobs : CrashJobs(J) /\ Fault("crash")
    \/ UNCHANGED work /\ FaultOrNone

JobsSpec == JobsInit /\ [][JobsNext]_jobs

-----------------------------------------------------------------------------
Stages == {"none", "asking", "begun", "read", "written", "opened", "linking",
           "resolved", "deleted", "cleaned", "leave", "over"}

JobsTypeOK ==
    /\ tree \in [Roots -> States] /\ graph \in [Roots -> States \cup {None}]
    /\ gate \in Jobs \cup {None, Lapsed} /\ late \subseteq Operations
    /\ tombstone \subseteq Roots /\ unindexable \subseteq Roots
    /\ stage \in [Jobs -> Stages] /\ aim \in [Jobs -> Roots \cup {None}]
    /\ took \in [Jobs -> States \cup {None}]
    /\ outcome \in [Jobs -> {"none", "ok", "error", "deep", "raised", "busy",
                         "rooted", "unrooted"}]
    /\ \A j \in Jobs :
          /\ stage[j] # "none" => aim[j] \in Roots
          /\ stage[j] \in {"read", "written", "opened", "linking"} =>
                took[j] \in States
    /\ gone \subseteq Roots /\ unsettled \subseteq Roots
    /\ adrift \subseteq Roots
    /\ verdict \in [Roots -> {"none", "ok", "deep"}]
    /\ used \in [count : 0 .. MaxFaults, marks : SUBSET Range(Mark)]

InGate(j) == stage[j] \in {"begun", "read", "written", "opened", "linking",
                           "resolved", "deleted", "cleaned", "leave"}

\* The jobs need of graph_index_lock what the abstract gate gives them, and
\* keep to it: whatever they end with, and in a crash, none is in the gate with
\* another, and it stays shut on the one that is.
JobsGate == INSTANCE Gate WITH
               Operations <- Jobs, Prompt <- Jobs,
               inside <- {j \in Jobs : InGate(j)}, shut <- gate # None

JobsUseAGate == JobsGate!GateSpec

\* A tombstone and a project exist together only while an index is clearing
\* the one of the project it has just written - or, until an index settles the
\* root again, when a crash or a statement that raised fell in between, or a
\* child wrote the graph after its client had given it up: pollers then leave a
\* live project alone.
TombstoneMeansGone ==
    \A r \in tombstone \ unsettled :
        graph[r] # None => \E j \in Jobs : stage[j] = "written" /\ aim[j] = r

\* The blocks of a root say what the last index that settled them found: no
\* job that began earlier or failed brings "unindexable" back over a success,
\* nor clears it ("the loser's write won", index_repository). A root is out of
\* this from a statement that raised, a crash in between or a late write to the
\* next index that succeeds.
LastVerdictStands ==
    \A r \in Roots \ unsettled :
        (\A j \in Jobs : aim[j] = r => ~InGate(j)) =>
            (r \in unindexable <=> verdict[r] = "deep")
-----------------------------------------------------------------------------
(* The inductive invariant behind the last two, for jobs of any composition. *)

GateIsHeld == \A j \in Jobs : InGate(j) => gate = j

\* No job writes a graph back between a delete and its tombstone.
StaysEmpty ==
    \A j \in Jobs :
        stage[j] \in {"deleted", "cleaned"} =>
            graph[aim[j]] = None \/ aim[j] \in unsettled

\* A job that is clearing the blocks of a root is the last to have indexed it,
\* and what it has cleared stays so.
IsLatest ==
    \A j \in Jobs :
        /\ stage[j] \in {"written", "opened"} => verdict[aim[j]] = "ok"
        /\ stage[j] = "opened" => aim[j] \notin tombstone

\* The block of a root agrees with its verdict or is about to be cleared.
BlockAgrees ==
    \A r \in Roots \ unsettled :
        \/ r \in unindexable <=> verdict[r] = "deep"
        \/ \E j \in Jobs : stage[j] \in {"written", "opened"} /\ aim[j] = r

JobsInv ==
    /\ JobsTypeOK /\ GateIsHeld /\ StaysEmpty /\ IsLatest
    /\ TombstoneMeansGone /\ BlockAgrees
=============================================================================
