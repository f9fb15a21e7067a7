----------------------------- MODULE CodeLinks -----------------------------
(***************************************************************************)
(* The links from the entities of memories to the symbols of the code      *)
(* graphs. An index binds its project to a scope of memories and queues a  *)
(* refresh of the links (core/graph_index_repository.py,                   *)
(* core/code_project_bindings.py, core/code_link_queue.py); a user may     *)
(* bind it by hand (endpoints/graph.py); the concept workers take the      *)
(* refreshes a page of entities at a time (core/concept_worker.py), and    *)
(* builds link the entities they extract                                   *)
(* (services/concept_build_engine.py); a delete drops it all               *)
(* (endpoints/graph_projects.py). The jobs are those of IndexJobs.         *)
(*                                                                         *)
(* An entity is its id, ids grow, and Home is the scope of memories it is  *)
(* extracted from. Symbol says what each state of a tree has for each of   *)
(* them: one symbol, None, or Ambiguous. The lock is the one that LeaseLock *)
(* studies. Which scopes have memories and match the name of a project is  *)
(* left open.                                                              *)
(***************************************************************************)
EXTENDS IndexJobs, FiniteSetsExt

CONSTANTS
    Scopes,
    MaxEntities,
    Home,
    Symbol, Ambiguous,
    Workers,      \* the concept workers, one of each server
    Builders,     \* those who run concept builds
    PageSize,     \* CONCEPT_INDEX_BATCH_SIZE
    MaxAttempts,  \* CONCEPT_INDEX_MAX_ATTEMPTS
    Users,        \* who binds by hand
    MaxAsks       \* the requests of users, of all kinds

Linkers == Workers \cup Builders
Entities == 1 .. MaxEntities
Symbols == {Symbol[n][e] : n \in States, e \in Entities} \ {None, Ambiguous}
LinkFaultKinds == {"engine", "path", "mark", "clear", "resolve", "suppress",
                   "lookup", "build", "enqueue", "clean", "stall", "crash",
                   "halt"}

ASSUME CodeLinksAssumption ==
    /\ MaxEntities \in Nat /\ PageSize \in Nat \ {0}
    /\ MaxAttempts \in Nat \ {0}
    /\ IsFiniteSet(Roots) /\ IsFiniteSet(Linkers)
    /\ Home \in [Entities -> Scopes]
    /\ {None, Lapsed} \cap Linkers = {} /\ None \notin Scopes
    /\ Users \cap (Jobs \cup Linkers) = {}
    /\ MaxAsks \in Nat
    /\ Faults \subseteq LinkFaultKinds
    /\ \A kind \in Faults \cap {"clear", "enqueue", "build", "stall"} :
          Mark[kind] = "forgotten"
    /\ "clean" \in Faults => Mark["clean"] = "uncleaned"

VARIABLES
    bound,     \* code_project_bindings
    row,       \* code_link_refresh_queue
    links,     \* entity_code_links of exact symbols
    known,     \* the entities so far
    lock,      \* concept_build_lock
    pc,        \* a linker
    on,        \* the project it links
    task,      \* what a worker claimed, or the scope of a build
    todo,      \* the entities it still has to look at
    found,     \* the answer it got for the first of them
    ending,    \* how the task is to be settled
    stalled,   \* linkers that lost the lock; lease.lost may tell them or not
    cleaned,   \* the statements of its cleanup a delete has done
    user,      \* a user who binds by hand: the step and what was asked
    asked,     \* requests so far
    strays     \* who was in the middle of something when a project went, and
               \* who lost a binding to its cleanup

tables == <<bound, row, links, known>>
linker == <<pc, on, task, todo, found, ending, stalled>>
calls == <<cleaned, user, asked>>
vars == <<jobs, tables, lock, linker, calls, strays>>

NoRow == [state |-> "none", scope |-> None, cursor |-> 0, stamp |-> 0,
          token |-> None, attempts |-> 0, waiting |-> FALSE]
NoTask == [scope |-> None, cursor |-> 0, stamp |-> 0]
NoUser == [step |-> "none", root |-> None, scope |-> None]

\* A scope is bound to one project at most.
Bindings ==
    {b \in [Roots -> Scopes \cup {None}] :
       \A r, q \in Roots : b[r] # None /\ b[r] = b[q] => r = q}

\* Either nothing has been extracted, or some of what was indexed is linked.
Init ==
    /\ JobsInit
    /\ row = [r \in Roots |-> NoRow]
    /\ \/ bound = [r \in Roots |-> None] /\ known = 0
       \/ /\ known = MaxEntities
          /\ bound \in {b \in Bindings :
                        \A r \in Roots : b[r] # None => graph[r] # None}
    /\ links = [r \in Roots |-> [e \in Entities |->
                  IF known = 0 \/ bound[r] # Home[e] THEN {}
                  ELSE {Symbol[0][e]} \ {None, Ambiguous}]]
    /\ lock = None
    /\ pc = [p \in Linkers |-> "idle"] /\ on = [p \in Linkers |-> None]
    /\ task = [p \in Linkers |-> NoTask] /\ todo = [p \in Linkers |-> {}]
    /\ found = [p \in Linkers |-> None] /\ ending = [p \in Linkers |-> "none"]
    /\ stalled = {}
    /\ cleaned = [j \in Jobs |-> 0]
    /\ user = [u \in Users |-> NoUser]
    /\ asked = 0
    /\ strays = [r \in Roots |-> {}]

Asks == asked < MaxAsks /\ asked' = asked + 1

-----------------------------------------------------------------------------
(* Binding and queueing. *)

\* enqueued_at: later than that of every row and every claim.
Now ==
    1 + Max({row[r].stamp : r \in Roots} \cup {task[w].stamp : w \in Workers})

\* enqueue: a refresh starts again from the first entity, and one that is
\* running keeps its lease.
Enqueue(r, scope) ==
    /\ row' = [row EXCEPT ![r] =
                 IF @.state = "leased"
                 THEN [@ EXCEPT !.scope = scope, !.cursor = 0,
                                !.stamp = Now]
                 ELSE [NoRow EXCEPT !.state = "pending", !.scope = scope,
                                    !.stamp = Now]]

Free(scope) == \A r \in Roots : bound[r] # scope

\* auto_bind: a binding stays, and a new one needs one scope that no other
\* project has.
AutoBind(r, scope) ==
    /\ scope = bound[r] \/ (bound[r] = None /\ Free(scope))
    /\ bound' = [bound EXCEPT ![r] = scope]

\* A failure is logged, and the index has succeeded all the same.
LinkProject(j) ==
    /\ Link(j)
    /\ \/ \E scope \in Scopes :
             /\ AutoBind(aim[j], scope)
             /\ \/ Enqueue(aim[j], scope) /\ UNCHANGED used
                \/ Fault("enqueue") /\ UNCHANGED row
       \/ /\ bound[aim[j]] = None
          /\ UNCHANGED <<bound, row, used>>
    /\ UNCHANGED <<links, known, lock, linker, calls, strays>>

\* console_confirm_project_memory_linking is not gated: the project is looked
\* up, the binding set, and the refresh queued.
Confirm(u) ==
    /\ user[u] = NoUser
    /\ Asks
    /\ \E r \in Roots, scope \in Scopes :
          /\ graph[r] # None
          /\ user' = [user EXCEPT ![u] = [step |-> "found", root |-> r,
                                          scope |-> scope]]
    /\ UNCHANGED <<jobs, tables, lock, linker, cleaned, strays>>

\* set_user_binding
Bind(u) ==
    /\ user[u].step = "found"
    /\ LET r == user[u].root
           scope == user[u].scope
       IN IF bound[r] = scope \/ (bound[r] = None /\ Free(scope))
          THEN /\ bound' = [bound EXCEPT ![r] = scope]
               /\ user' = [user EXCEPT ![u].step = "bound"]
          ELSE user' = [user EXCEPT ![u] = NoUser] /\ UNCHANGED bound
    /\ UNCHANGED <<jobs, row, links, known, lock, linker, cleaned, asked,
                   strays>>

QueueRefresh(u) ==
    /\ user[u].step = "bound"
    /\ \/ Enqueue(user[u].root, user[u].scope) /\ UNCHANGED used
       \/ Fault("enqueue") /\ UNCHANGED row
    /\ user' = [user EXCEPT ![u] = NoUser]
    /\ UNCHANGED <<work, bound, links, known, lock, linker, cleaned, asked,
                   strays>>

-----------------------------------------------------------------------------
(* _cleanup_project_code_links: three statements, the last in the concept   *)
(* graph. A failure ends it, and the delete goes on.                        *)

Cleaned(c) == cleaned' = [cleaned EXCEPT ![c] = @ + 1]

DropRow(c) ==
    /\ stage[c] = "deleted" /\ cleaned[c] = 0
    /\ row' = [row EXCEPT ![aim[c]] = NoRow]
    /\ Cleaned(c)
    /\ UNCHANGED <<jobs, bound, links, known, lock, linker, user, asked,
                   strays>>

\* Only what was made by hand outlives the project.
SlipDropBinding(c) ==
    /\ stage[c] = "deleted" /\ cleaned[c] = 1
    /\ Cleaned(c)
    /\ UNCHANGED <<jobs, tables, lock, linker, user, asked, strays>>

DropBinding(c) ==
    /\ stage[c] = "deleted" /\ cleaned[c] = 1
    /\ bound' = [bound EXCEPT ![aim[c]] = None]
    /\ strays' = [strays EXCEPT ![aim[c]] = @ \cup
                     {u \in Users : user[u].step = "bound"
                                    /\ user[u].root = aim[c]}]
    /\ Cleaned(c)
    /\ UNCHANGED <<jobs, row, links, known, lock, linker, user, asked>>

DropLinks(c) ==
    /\ cleaned[c] = 2
    /\ Clean(c)
    /\ links' = [links EXCEPT ![aim[c]] = [e \in Entities |-> {}]]
    /\ cleaned' = [cleaned EXCEPT ![c] = 0]
    /\ UNCHANGED <<bound, row, known, lock, linker, user, asked, strays, used>>

CleanFails(c) ==
    /\ Clean(c)
    /\ Fault("clean")
    /\ cleaned' = [cleaned EXCEPT ![c] = 0]
    /\ UNCHANGED <<tables, lock, linker, user, asked, strays>>

-----------------------------------------------------------------------------
(* The lock of the concept graph and the leases of rows. *)

Goto(p, there) == pc' = [pc EXCEPT ![p] = there]

Forget(p) ==
    /\ Goto(p, "idle")
    /\ on' = [on EXCEPT ![p] = None] /\ task' = [task EXCEPT ![p] = NoTask]
    /\ todo' = [todo EXCEPT ![p] = {}] /\ found' = [found EXCEPT ![p] = None]
    /\ ending' = [ending EXCEPT ![p] = "none"]
    /\ stalled' = stalled \ {p}

Unlock(p) ==
    /\ lock' = IF lock = p THEN None ELSE lock
    /\ Forget(p)

Refreshing(p) == task[p].stamp # 0

\* A worker that misses its heartbeats loses the lock and its row, and learns
\* of it sooner or later.
Stall(p) ==
    /\ lock = p /\ Refreshing(p)
    /\ Fault("stall")
    /\ lock' = None
    /\ stalled' = stalled \cup {p}
    /\ UNCHANGED <<work, tables, pc, on, task, todo, found, ending,
                   calls, strays>>

\* The process ends, and another takes its place.
Halt(p) ==
    /\ pc[p] # "idle"
    /\ Fault(IF todo[p] = {} \/ Refreshing(p) THEN "halt" ELSE "build")
    /\ lock' = IF lock = p THEN Lapsed ELSE lock
    /\ Forget(p)
    /\ UNCHANGED <<work, tables, calls, strays>>

LockEnds ==
    /\ lock = Lapsed
    /\ lock' = None
    /\ UNCHANGED <<jobs, tables, linker, calls, strays>>

\* The time a row waits for has come: a retry, or the end of a lease that
\* keep_claimed no longer renews.
RowDue(r) ==
    /\ row[r].waiting
    /\ row[r].state = "leased" =>
          ~\E w \in Workers \ stalled :
              Refreshing(w) /\ on[w] = r /\ row[r].token = w
    /\ row' = [row EXCEPT ![r].waiting = FALSE]
    /\ UNCHANGED <<jobs, bound, links, known, lock, linker, calls, strays>>

-----------------------------------------------------------------------------
(* A worker: _drain and _refresh_code_links. *)

\* Leases are released by those who hold them.
SlipClaimable(r) == row[r].state = "pending" /\ ~row[r].waiting

Claimable(r) == row[r].state \in {"pending", "leased"} /\ ~row[r].waiting

\* One refresh for each time the lock is taken. A worker that finds nothing to
\* do gives it back.
Claim(w) ==
    /\ pc[w] = "idle" /\ lock = None
    /\ lock' = w
    /\ \E r \in Roots :
          /\ Claimable(r)
          /\ \A q \in Roots : Claimable(q) => row[r].stamp <= row[q].stamp
          /\ row' = [row EXCEPT ![r].state = "leased", ![r].token = w,
                                ![r].waiting = TRUE]
          /\ on' = [on EXCEPT ![w] = r]
          /\ task' = [task EXCEPT ![w] =
                        [scope |-> row[r].scope, cursor |-> row[r].cursor,
                         stamp |-> row[r].stamp]]
    /\ Goto(w, "claimed")
    /\ UNCHANGED <<jobs, bound, links, known, todo, found, ending, stalled,
                   calls, strays>>

Ahead(w) == {e \in task[w].cursor + 1 .. known : Home[e] = task[w].scope}

\* entities_for_project: the first PageSize of those ahead.
IsPage(page, ahead) ==
    /\ \A d \in ahead, e \in page : d < e => d \in page
    /\ Cardinality(page) <= PageSize
    /\ page = ahead \/ Cardinality(page) = PageSize

\* A refresh of a binding that is gone or another is done with. One that gets
\* a full page will hand on to whoever comes after its last entity.
ReadPage(w) ==
    /\ pc[w] = "claimed"
    /\ \E page \in SUBSET Ahead(w) :
          /\ IF bound[on[w]] = task[w].scope THEN IsPage(page, Ahead(w))
             ELSE page = {}
          /\ todo' = [todo EXCEPT ![w] = page]
          /\ IF Cardinality(page) = PageSize
             THEN /\ ending' = [ending EXCEPT ![w] = "advance"]
                  /\ task' = [task EXCEPT ![w].cursor = Max(page)]
             ELSE /\ ending' = [ending EXCEPT ![w] = "complete"]
                  /\ UNCHANGED task
    /\ Goto(w, "paging")
    /\ UNCHANGED <<jobs, tables, lock, on, found, stalled, calls, strays>>

First(p) == Min(todo[p])

\* The settlement of a task that nobody has queued or claimed again.
SlipMine(w) == row[on[w]].token = w

Mine(w) == row[on[w]].token = w /\ row[on[w]].stamp = task[w].stamp

\* One retry too many.
SlipParked(attempts) == attempts > MaxAttempts

Parked(attempts) == attempts >= MaxAttempts

Settled(w) ==
    LET r == on[w]
        attempts == row[r].attempts + 1
    IN CASE ending[w] = "complete" -> NoRow
         [] ending[w] = "advance" ->
              [row[r] EXCEPT !.state = "pending", !.token = None,
                             !.waiting = FALSE, !.attempts = 0,
                             !.cursor = task[w].cursor]
         [] ending[w] = "fail" ->
              [row[r] EXCEPT !.state = IF Parked(attempts) THEN "parked"
                                       ELSE "pending",
                             !.token = None, !.attempts = attempts,
                             !.waiting = ~Parked(attempts)]

\* complete, advance or fail
Settle(w) ==
    /\ pc[w] = "paging" /\ Refreshing(w) /\ todo[w] = {}
    /\ row' = IF Mine(w) THEN [row EXCEPT ![on[w]] = Settled(w)] ELSE row
    /\ Unlock(w)
    /\ UNCHANGED <<jobs, bound, links, known, calls, strays>>

\* The abort is looked for before each lookup and before the settlement. The
\* row stays leased.
Abort(w) ==
    /\ pc[w] = "paging" /\ w \in stalled
    /\ Unlock(w)
    /\ UNCHANGED <<jobs, tables, calls, strays>>

-----------------------------------------------------------------------------
(* A build, as far as it links: it reads the binding of a scope once, and   *)
(* then extracts an entity of it, new or known.                             *)

BeginBuild(b) ==
    /\ pc[b] = "idle" /\ lock = None
    /\ Asks
    /\ lock' = b
    /\ \E scope \in Scopes :
          /\ on' = [on EXCEPT ![b] =
                      IF Free(scope) THEN None
                      ELSE CHOOSE r \in Roots : bound[r] = scope]
          /\ task' = [task EXCEPT ![b].scope = scope]
    /\ Goto(b, "built")
    /\ UNCHANGED <<jobs, tables, todo, found, ending, stalled, cleaned, user,
                   strays>>

Extract(b) ==
    /\ pc[b] = "built"
    /\ \E e \in 1 .. known + 1 :
          /\ e \in Entities /\ Home[e] = task[b].scope
          /\ known' = IF e > known THEN e ELSE known
          /\ todo' = [todo EXCEPT ![b] = IF on[b] = None THEN {} ELSE {e}]
    /\ Goto(b, "paging")
    /\ UNCHANGED <<jobs, bound, row, links, lock, on, task, found, ending,
                   stalled, calls, strays>>

BuildEnds(b) ==
    /\ \/ pc[b] = "built"
       \/ pc[b] = "paging" /\ ~Refreshing(b) /\ todo[b] = {}
    /\ Unlock(b)
    /\ UNCHANGED <<jobs, tables, calls, strays>>

-----------------------------------------------------------------------------
(* One entity: find_code_match and reconcile_code_link. *)

Drop(p) == todo' = [todo EXCEPT ![p] = @ \ {First(p)}]

Looks(p) == pc[p] = "paging" /\ todo[p] # {}

\* One symbol or none at all. What the engine has not it finds nothing in.
LookUp(p) ==
    /\ Looks(p)
    /\ LET answer == IF graph[on[p]] = None THEN None
                     ELSE Symbol[graph[on[p]]][First(p)]
       IN IF answer = Ambiguous
          THEN Drop(p) /\ UNCHANGED <<pc, found>>
          ELSE /\ Goto(p, "looked")
               /\ found' = [found EXCEPT ![p] = answer]
               /\ UNCHANGED todo
    /\ UNCHANGED <<jobs, tables, lock, on, task, ending, stalled, calls,
                   strays>>

\* Or it refuses, or is not there: a refresh will be retried from its page,
\* and a build goes on without.
Unavailable(p) ==
    /\ Looks(p)
    /\ IF graph[on[p]] = None THEN UNCHANGED used
       ELSE Fault(IF Refreshing(p) THEN "lookup" ELSE "build")
    /\ todo' = [todo EXCEPT ![p] = {}]
    /\ ending' = [ending EXCEPT ![p] = IF Refreshing(p) THEN "fail" ELSE @]
    /\ UNCHANGED <<work, tables, lock, pc, on, task, found, stalled,
                   calls, strays>>

Relink(p, set) == links' = [links EXCEPT ![on[p]][First(p)] = set]

\* store_code_link, and a second statement that drops the others.
Store(p) ==
    /\ pc[p] = "looked" /\ found[p] # None
    /\ Relink(p, links[on[p]][First(p)] \cup {found[p]})
    /\ Goto(p, "stored")
    /\ UNCHANGED <<jobs, bound, row, known, lock, on, task, todo, found,
                   ending, stalled, calls, strays>>

DropOthers(p) ==
    /\ \/ pc[p] = "looked" /\ found[p] = None
       \/ pc[p] = "stored"
    /\ Relink(p, links[on[p]][First(p)] \cap {found[p]})
    /\ Goto(p, "paging") /\ Drop(p)
    /\ found' = [found EXCEPT ![p] = None]
    /\ UNCHANGED <<jobs, bound, row, known, lock, on, task, ending,
                   stalled, calls, strays>>

Reconcile(p) ==
    LookUp(p) \/ Unavailable(p) \/ Store(p) \/ DropOthers(p)

-----------------------------------------------------------------------------
(* The jobs of IndexJobs, and what they mean here. *)

Ask(c) ==
    /\ Asks
    /\ \E r \in Roots : Submit(c, r)
    /\ UNCHANGED <<tables, lock, linker, cleaned, user, strays, used>>

Answer(c) ==
    /\ Rest(c)
    /\ UNCHANGED <<used, tables, lock, linker, calls, strays>>

\* Those who will not look at the graph again before they write.
InTheMiddle(r) ==
    {u \in Users : user[u].root = r}
    \cup {p \in Linkers : on[p] = r /\ pc[p] \in {"looked", "stored"}}

Delete(c) ==
    /\ EngineDeletes(c)
    /\ strays' = [strays EXCEPT ![aim[c]] = InTheMiddle(aim[c])]
    /\ UNCHANGED <<tables, lock, linker, calls>>

JobStep(j) ==
    \/ /\ Index(j) \/ Resolve(j) \/ NothingDeleted(j) \/ Suppress(j)
       /\ UNCHANGED <<tables, lock, linker, calls, strays>>
    \/ LinkProject(j) \/ Delete(j)
    \/ DropRow(j) \/ DropBinding(j) \/ DropLinks(j) \/ CleanFails(j)

Crash(j) ==
    /\ stage[j] # "none"
    /\ Fault("crash")
    /\ CrashJobs({j})
    /\ cleaned' = [cleaned EXCEPT ![j] = 0]
    /\ UNCHANGED <<tables, lock, linker, user, asked, strays>>

GateOpens ==
    LeaseEnds /\ UNCHANGED <<tables, lock, linker, calls, strays>>

\* What a child writes late queues no refresh and cleans nothing up.
LateChild ==
    /\ \E o \in late : LateWrite(o)
    /\ UNCHANGED <<tables, lock, linker, calls, strays>>

Change(r) ==
    Edit(r) /\ UNCHANGED <<tables, lock, linker, calls, strays>>

WorkerStep(w) ==
    ReadPage(w) \/ Settle(w) \/ Abort(w) \/ Reconcile(w)

BuilderStep(b) ==
    Extract(b) \/ BuildEnds(b) \/ Reconcile(b)

Next ==
    \/ GateOpens \/ LockEnds \/ LateChild
    \/ \E j \in Jobs : Ask(j) \/ Answer(j) \/ JobStep(j) \/ Crash(j)
    \/ \E u \in Users : Confirm(u) \/ Bind(u) \/ QueueRefresh(u)
    \/ \E p \in Linkers : Stall(p) \/ Halt(p)
    \/ \E w \in Workers : Claim(w) \/ WorkerStep(w)
    \/ \E b \in Builders : BeginBuild(b) \/ BuilderStep(b)
    \/ \E r \in Roots : Change(r) \/ RowDue(r)

Spec == Init /\ [][Next]_vars

\* Whatever has begun goes on, leases end, and a worker comes back every
\* CONCEPT_INDEX_DEBOUNCE_SECONDS: it finds the lock free sooner or later,
\* because no build holds it for ever.
Fairness ==
    /\ WF_vars(GateOpens) /\ WF_vars(LockEnds)
    /\ \A j \in Jobs : WF_vars(JobStep(j))
    /\ \A w \in Workers : SF_vars(Claim(w)) /\ WF_vars(WorkerStep(w))
    /\ \A b \in Builders : WF_vars(BuilderStep(b))
    /\ \A r \in Roots : WF_vars(RowDue(r))

FairSpec == Spec /\ Fairness

-----------------------------------------------------------------------------
TablesType ==
    /\ bound \in [Roots -> Scopes \cup {None}]
    /\ row \in [Roots -> [state : {"none", "pending", "leased", "parked"},
                         scope : Scopes \cup {None},
                         cursor : 0 .. MaxEntities, stamp : Nat,
                         token : Workers \cup {None},
                         attempts : 0 .. MaxAttempts, waiting : BOOLEAN]]
    /\ links \in [Roots -> [Entities -> SUBSET Symbols]]
    /\ known \in 0 .. MaxEntities

LinkerType ==
    /\ lock \in Linkers \cup {None, Lapsed}
    /\ pc \in [Linkers -> {"idle", "claimed", "built", "paging",
                          "looked", "stored"}]
    /\ on \in [Linkers -> Roots \cup {None}]
    /\ task \in [Linkers -> [scope : Scopes \cup {None},
                            cursor : 0 .. MaxEntities, stamp : Nat]]
    /\ todo \in [Linkers -> SUBSET Entities]
    /\ found \in [Linkers -> Symbols \cup {None}]
    /\ ending \in [Linkers -> {"none", "complete", "advance", "fail"}]
    /\ stalled \subseteq Linkers

TypeOK ==
    /\ JobsTypeOK /\ TablesType /\ LinkerType
    /\ cleaned \in [Jobs -> 0 .. 2] /\ asked \in 0 .. MaxAsks
    /\ user \in [Users -> [step : {"none", "found", "bound"},
                          root : Roots \cup {None},
                          scope : Scopes \cup {None}]]
    /\ strays \in [Roots -> SUBSET (Users \cup Linkers)]

\* When nothing is under way for a project and no refresh is queued, the links
\* of a bound project are what its graph says of every entity of the scope,
\* whatever was indexed, queued again, claimed, handed on or extracted in which
\* order: no page is skipped and no refresh is settled that saw an older graph.
\* Out of reach are a refresh that was never queued, a build that had no engine
\* or ended half way, a linker that writes after it lost the lock, a graph that
\* a child wrote late, until it is indexed again, and a user who confirms while
\* the project is deleted: a binding that is gone may then take the row of the
\* refresh that its successor queued.
AtRest(r) ==
    /\ row[r].state = "none"
    /\ \A j \in Jobs : aim[j] = r => ~InGate(j)
    /\ \A u \in Users : user[u].root # r
    /\ \A p \in Linkers : pc[p] = "idle"

Agrees(r, e) ==
    LET answer == Symbol[graph[r]][e] IN
    answer # Ambiguous => links[r][e] = {answer} \ {None}

LinksFollowGraph ==
    used.marks \cap {"crash", "forgotten"} = {} =>
        \A r \in Roots \ adrift :
            /\ graph[r] # None /\ bound[r] # None /\ AtRest(r)
            /\ strays[r] \cap Users = {}
            => \A e \in 1 .. known : Home[e] = bound[r] => Agrees(r, e)

\* Once a delete has cleaned up, nothing of the project comes back until it is
\* indexed again, be it by a child that writes late: no refresh, no binding and
\* no link - but for those who were in the middle of something when the project
\* went. A user's binding is one of them, and a linker can leave the one link
\* it had looked up.
DeletedIsForgotten ==
    used.marks \cap {"crash", "uncleaned"} = {} =>
        \A r \in gone :
            (\A j \in Jobs : aim[j] = r => stage[j] # "deleted") =>
                /\ strays[r] \cap Users = {} =>
                      bound[r] = None /\ row[r].state = "none"
                /\ Cardinality({e \in Entities : links[r][e] # {}})
                      <= Cardinality(strays[r] \cap Linkers)

\* A queued refresh ends: it is done or, when the engine keeps refusing, parked
\* for a user to see. Lost leases, restarts and refreshes that are queued again
\* under a running one only delay it.
EveryRefreshEnds ==
    \A r \in Roots :
        row[r].state # "none" ~> row[r].state \in {"none", "parked"}

-----------------------------------------------------------------------------
(* The inductive invariants behind the two safety properties. *)

Busy(p) == pc[p] \in {"paging", "looked", "stored"}

LinkersFit ==
    \A p \in Linkers :
        /\ pc[p] = "idle" => task[p] = NoTask /\ todo[p] = {}
        /\ pc[p] = "built" => ~Refreshing(p) /\ todo[p] = {}
        /\ pc[p] = "claimed" => Refreshing(p) /\ todo[p] = {}
        /\ Refreshing(p) =>
              /\ p \in Workers /\ on[p] \in Roots
              /\ Busy(p) => ending[p] # "none"
        /\ todo[p] # {} => on[p] \in Roots /\ Busy(p)
        /\ todo[p] \subseteq 1 .. known
        /\ task[p].cursor <= known
        /\ pc[p] \in {"looked", "stored"} => todo[p] # {}
        /\ pc[p] = "stored" => found[p] # None

RowsFit ==
    \A r \in Roots :
        /\ row[r].state = "none" => row[r] = NoRow
        /\ row[r].state # "none" => row[r].stamp # 0
        /\ row[r].token # None <=> row[r].state = "leased"
        /\ row[r].state # "parked" => row[r].attempts < MaxAttempts
        /\ row[r].cursor <= known

ClaimsFit ==
    \A w \in Workers :
        Refreshing(w) /\ Mine(w) =>
            /\ row[on[w]].scope = task[w].scope
            /\ pc[w] = "claimed" => row[on[w]].cursor = task[w].cursor

\* Unless a heartbeat was missed, a linker holds the lock.
Alone ==
    "forgotten" \notin used.marks =>
        /\ stalled = {}
        /\ \A p \in Linkers : pc[p] # "idle" => lock = p

\* A user's binding stays until the project is deleted.
UsersFit ==
    \A u \in Users :
        /\ user[u].step = "none" => user[u] = NoUser
        /\ user[u].step # "none" =>
              user[u].root \in Roots /\ user[u].scope \in Scopes
        /\ user[u].step = "bound" /\ u \notin strays[user[u].root] =>
              bound[user[u].root] = user[u].scope

\* Nobody comes to a project that is gone, and those who were there are known.
GoneIsLeft ==
    /\ \A r \in gone :
          /\ graph[r] = None
          /\ \A u \in Users : user[u].root = r => u \in strays[r]
          /\ \A p \in Linkers :
                /\ on[p] = r /\ pc[p] \in {"looked", "stored"}
                /\ found[p] # None
                => p \in strays[r]
    /\ \A j \in Jobs :
          /\ stage[j] = "deleted" => aim[j] \in gone \cup adrift
          /\ stage[j] \in {"written", "opened", "linking"} =>
                aim[j] \notin gone
          /\ cleaned[j] # 0 => stage[j] = "deleted"

LinksBase ==
    /\ TypeOK /\ bound \in Bindings
    /\ LinkersFit /\ RowsFit /\ ClaimsFit /\ Alone /\ UsersFit /\ GoneIsLeft

\* An index or a user is about to queue a refresh.
Settling(r) ==
    \/ \E j \in Jobs :
          aim[j] = r /\ stage[j] \in {"written", "opened", "linking"}
    \/ \E u \in Users : user[u].step = "bound" /\ user[u].root = r

Calm(r) ==
    /\ graph[r] # None /\ bound[r] # None /\ r \notin adrift
    /\ ~Settling(r) /\ strays[r] \cap Users = {}

\* An entity is owed by the refresh of the row, or in the hands of a build.
Owed(r, e) == row[r].state # "none" /\ row[r].cursor < e

InBuild(r, e) ==
    \E p \in Linkers : on[p] = r /\ ~Refreshing(p) /\ e \in todo[p]

Members(r) == {e \in 1 .. known : Home[e] = bound[r]}

RowIsOfBinding(r) == row[r].state # "none" => row[r].scope = bound[r]

NoneIsMissed(r) ==
    \A e \in Members(r) : Agrees(r, e) \/ Owed(r, e) \/ InBuild(r, e)

WorkIsOwed(r) ==
    \A w \in Workers :
        Refreshing(w) /\ on[w] = r =>
            /\ row[r].state # "none" /\ \A e \in todo[w] : Owed(r, e)
            /\ pc[w] = "claimed" => row[r].cursor <= task[w].cursor

\* What a worker will settle it has done.
PageIsDone(r) ==
    \A w \in Workers :
        Refreshing(w) /\ on[w] = r /\ Mine(w) /\ Busy(w) =>
            \A e \in Members(r) \ todo[w] :
                \/ ending[w] = "complete"
                \/ ending[w] = "advance" /\ e <= task[w].cursor
                => Agrees(r, e)

\* An answer is of the graph there is, or the refresh of a newer one is queued.
IsRight(p) ==
    /\ found[p] = Symbol[graph[on[p]]][First(p)]
    /\ pc[p] = "stored" => found[p] \in links[on[p]][First(p)]

AnswerIsRight(r) ==
    \A p \in Linkers :
        on[p] = r /\ pc[p] \in {"looked", "stored"} =>
            \/ IsRight(p)
            \/ Owed(r, First(p)) /\ ~(Refreshing(p) /\ Mine(p))

\* A build that missed the binding began before the refresh was queued.
BuildsLink(r) ==
    \A b \in Linkers :
        pc[b] = "built" /\ bound[r] = task[b].scope =>
            on[b] = r \/ row[r].state # "none"

Provides(r) ==
    /\ RowIsOfBinding(r) /\ NoneIsMissed(r) /\ WorkIsOwed(r)
    /\ PageIsDone(r) /\ AnswerIsRight(r) /\ BuildsLink(r)

LinksInv ==
    used.marks \cap {"crash", "forgotten"} = {} =>
        \A r \in Roots : Calm(r) => Provides(r)

\* How far the cleanup of a project has come.
Cleared(r, c) ==
    \A j \in Jobs : aim[j] = r /\ stage[j] = "deleted" => cleaned[j] >= c

Linked(r) == {e \in Entities : links[r][e] # {}}

\* Those who may still leave a link.
Leaving(r) ==
    {p \in strays[r] \cap Linkers :
       pc[p] = "looked" /\ on[p] = r /\ found[p] # None}

Forgotten(r) ==
    /\ strays[r] \cap Users = {} =>
          /\ Cleared(r, 1) => row[r] = NoRow
          /\ Cleared(r, 2) => bound[r] = None
    /\ Cleared(r, 3) =>
          Cardinality(Linked(r)) + Cardinality(Leaving(r))
             <= Cardinality(strays[r] \cap Linkers)

ForgottenInv ==
    used.marks \cap {"crash", "uncleaned"} = {} =>
        \A r \in gone : Forgotten(r)
=============================================================================
