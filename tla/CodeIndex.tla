----------------------------- MODULE CodeIndex -----------------------------
(***************************************************************************)
(* Keeping the code graphs current: the auto-index worker of each server   *)
(* (core/graph_index_worker.py and core/graph_index_watcher.py), composed  *)
(* with the jobs of IndexJobs, those of its own and those of users         *)
(* (endpoints/graph.py).                                                   *)
(*                                                                         *)
(* The poller is a coroutine, and its pc names the await it is in. Its job *)
(* is one call of run_exclusive: a thread that nothing cancels. Signature  *)
(* gives what git_source_state says of each state of a tree.               *)
(*                                                                         *)
(* The definitions named Slip... are plausible slips of the code, each of  *)
(* which breaks one of the properties.                                     *)
(***************************************************************************)
EXTENDS IndexJobs

CONSTANTS
    Sites,        \* which roots may be git repositories, and which the
                  \* operating system may be unable to watch
    Servers,      \* the processes with a poller, whose job has its name
    Home,         \* the server that serves a user's calls
    MaxCalls,
    Signature     \* git_source_state of each state of a tree

FaultKinds == {"unreadable", "list", "vanish", "git", "client", "engine",
               "path", "mark", "clear", "save", "observer", "switch", "suppress",
               "resolve", "cancel", "stop", "crash"}

Calls == Jobs \ Servers
Signatures == {Signature[n] : n \in States}

ASSUME CodeIndexAssumption ==
    /\ Sites \subseteq [git : SUBSET Roots, unwatchable : SUBSET Roots]
    /\ Servers \subseteq Indexers \ Deleters /\ Home \in [Calls -> Servers]
    /\ None \notin Signatures /\ MaxCalls \in Nat
    /\ Faults \subseteq FaultKinds
    /\ \A kind \in Faults \cap {"suppress", "resolve"} :
          Mark[kind] = "untombed"

VARIABLES
    site,        \* one of Sites, for good
    durable,     \* graph_watch_state.last_source_state
    enabled,     \* runtime_flags: auto_index.graph
    pc,          \* a poller
    at,          \* the root it is at
    todo,        \* the rest of its snapshot of the watch set
    listed,      \* what list_projects returned
    fresh,       \* whether that is within its TTL
    cand,        \* candidate_git_state
    watched,     \* _watched
    mode,        \* watch_mode, "off" when not watched
    dead,        \* the observer thread has died
    news,        \* roots with an event not yet delivered
    seen,        \* git_head and content_hash
    debounce,    \* debounce_deadline: none, set, or over when it has passed
    overdue,     \* roots past their reconcile_deadline
    retry,       \* retry_after
    failed,      \* _Watched.failed
    overtaken,   \* pollers whose root was deleted after they asked index_block
    putoff,      \* changes a poller saw or missed and left to reconciliation
    asked        \* the calls of each user so far

flags == <<site, durable, enabled>>
coroutine == <<pc, at, todo, listed, fresh, cand>>
watch == <<watched, mode, dead, news, seen, debounce, overdue, retry, failed>>
ghost == <<overtaken, putoff, asked>>
pollers == <<flags, coroutine, watch, ghost>>
vars == <<jobs, pollers>>

\* A new _Watched.
NoMode == [r \in Roots |-> "off"]
NoDeadline == [r \in Roots |-> "none"]
NoBaseline == [r \in Roots |-> None]

Init ==
    /\ JobsInit
    /\ site \in Sites /\ durable = NoBaseline /\ enabled = TRUE
    /\ pc = [s \in Servers |-> "off"] /\ at = [s \in Servers |-> None]
    /\ todo = [s \in Servers |-> {}] /\ listed = [s \in Servers |-> {}]
    /\ fresh = [s \in Servers |-> FALSE] /\ cand = [s \in Servers |-> None]
    /\ watched = [s \in Servers |-> {}] /\ mode = [s \in Servers |-> NoMode]
    /\ dead = [s \in Servers |-> FALSE] /\ news = [s \in Servers |-> {}]
    /\ seen = [s \in Servers |-> NoBaseline]
    /\ debounce = [s \in Servers |-> NoDeadline]
    /\ overdue = [s \in Servers |-> {}]
    /\ retry = [s \in Servers |-> NoDeadline]
    /\ failed = [s \in Servers |-> {}]
    /\ overtaken = {} /\ putoff = [s \in Servers |-> {}]
    /\ asked = [c \in Calls |-> 0]

-----------------------------------------------------------------------------
(* The source, its watchers, and time. *)

Watching(s, r) == mode[s][r] = "events" /\ ~dead[s] /\ r \notin failed[s]

\* What a watcher cannot report waits for reconciliation.
Change(r) ==
    /\ Edit(r)
    /\ news' = [s \in Servers |->
                  IF Watching(s, r) THEN news[s] \cup {r} ELSE news[s]]
    /\ putoff' = [s \in Servers |->
                    IF Watching(s, r) THEN putoff[s] ELSE putoff[s] \cup {r}]
    /\ UNCHANGED <<flags, coroutine, watched, mode, dead, seen, debounce,
                   overdue, retry, failed, overtaken, asked>>

\* _on_watch_event, on the event loop. Its wake of the coordinator is that
\* Poll below may come at any time.
Deliver(s, r) ==
    /\ r \in news[s]
    /\ news' = [news EXCEPT ![s] = @ \ {r}]
    /\ debounce' = [debounce EXCEPT ![s][r] =
                      IF r \in watched[s] THEN "set" ELSE @]
    /\ UNCHANGED <<jobs, flags, coroutine, watched, mode, dead, seen, overdue,
                   retry, failed, ghost>>

\* A tick compares the deadlines with the time it began its scan at.
BeforeScan(s) == pc[s] \in {"asleep", "listing", "listed"}

DebouncePasses(s, r) ==
    /\ BeforeScan(s)
    /\ debounce[s][r] = "set"
    /\ debounce' = [debounce EXCEPT ![s][r] = "over"]
    /\ UNCHANGED <<jobs, flags, coroutine, watched, mode, dead, news, seen,
                   overdue, retry, failed, ghost>>

ReconcilePasses(s, r) ==
    /\ BeforeScan(s)
    /\ r \in watched[s] \ overdue[s]
    /\ overdue' = [overdue EXCEPT ![s] = @ \cup {r}]
    /\ UNCHANGED <<jobs, flags, coroutine, watched, mode, dead, news, seen,
                   debounce, retry, failed, ghost>>

RetryPasses(s, r) ==
    /\ retry[s][r] = "set"
    /\ retry' = [retry EXCEPT ![s][r] = "over"]
    /\ UNCHANGED <<jobs, flags, coroutine, watched, mode, dead, news, seen,
                   debounce, overdue, failed, ghost>>

ListAges(s) ==
    /\ pc[s] = "asleep" /\ fresh[s]
    /\ fresh' = [fresh EXCEPT ![s] = FALSE]
    /\ UNCHANGED <<jobs, flags, pc, at, todo, listed, cand, watch, ghost>>

ObserverDies(s) ==
    /\ watched[s] # {} /\ ~dead[s]
    /\ Fault("observer")
    /\ dead' = [dead EXCEPT ![s] = TRUE]
    /\ news' = [news EXCEPT ![s] = {}]
    /\ putoff' = [putoff EXCEPT ![s] = @ \cup news[s]]
    /\ UNCHANGED <<work, flags, coroutine, watched, mode, seen, debounce,
                   overdue, retry, failed, overtaken, asked>>

\* auto_off and auto_on.
Switch ==
    /\ IF enabled THEN Fault("switch") ELSE UNCHANGED used
    /\ enabled' = ~enabled
    /\ UNCHANGED <<work, site, durable, coroutine, watch, ghost>>

Time(s, r) ==
    \/ DebouncePasses(s, r) \/ ReconcilePasses(s, r) \/ RetryPasses(s, r)

World ==
    \/ Switch
    \/ \E r \in Roots : Change(r)
    \/ \E s \in Servers : ListAges(s) \/ ObserverDies(s)
    \/ \E s \in Servers, r \in Roots : Deliver(s, r) \/ Time(s, r)

-----------------------------------------------------------------------------
(* A server starts with nothing in memory, and forgets it all when it ends. *)

Goto(s, there) == pc' = [pc EXCEPT ![s] = there]

ForgetServer(s) ==
    /\ Goto(s, "off")
    /\ at' = [at EXCEPT ![s] = None] /\ cand' = [cand EXCEPT ![s] = None]
    /\ todo' = [todo EXCEPT ![s] = {}] /\ listed' = [listed EXCEPT ![s] = {}]
    /\ fresh' = [fresh EXCEPT ![s] = FALSE]
    /\ watched' = [watched EXCEPT ![s] = {}]
    /\ mode' = [mode EXCEPT ![s] = NoMode]
    /\ dead' = [dead EXCEPT ![s] = FALSE] /\ news' = [news EXCEPT ![s] = {}]
    /\ seen' = [seen EXCEPT ![s] = NoBaseline]
    /\ debounce' = [debounce EXCEPT ![s] = NoDeadline]
    /\ overdue' = [overdue EXCEPT ![s] = {}]
    /\ retry' = [retry EXCEPT ![s] = NoDeadline]
    /\ failed' = [failed EXCEPT ![s] = {}]
    /\ putoff' = [putoff EXCEPT ![s] = {}]

Start(s) ==
    /\ pc[s] = "off" /\ stage[s] = "none"
    /\ Goto(s, "asleep")
    /\ UNCHANGED <<jobs, flags, at, todo, listed, fresh, cand, watch, ghost>>

SaveState(s) ==
    durable' = [durable EXCEPT ![at[s]] =
                  IF at[s] \in site.git THEN seen[s][at[s]] ELSE None]

\* stop cancels the coroutine. A thread it awaited runs on: the job with its
\* lease, and the save of a watch state.
Stop(s) ==
    /\ pc[s] # "off"
    /\ Fault("stop")
    /\ \/ UNCHANGED durable
       \/ pc[s] = "saving" /\ SaveState(s)
    /\ ForgetServer(s)
    /\ UNCHANGED <<work, site, enabled, overtaken, asked>>

\* The jobs a process runs end with it. The row of a holder stays.
JobsAt(s) == {s} \cup {c \in Calls : Home[c] = s}

Crash(s) ==
    /\ pc[s] # "off"
    /\ Fault("crash")
    /\ CrashJobs(JobsAt(s))
    /\ ForgetServer(s)
    /\ UNCHANGED <<flags, overtaken, asked>>

-----------------------------------------------------------------------------
(* The coordinator: _run, _tick and _refresh_projects. *)

\* A switch that cannot be read is off. _deactivate stops the watcher.
Deactivate(s) ==
    /\ pc[s] = "asleep"
    /\ IF enabled THEN Fault("unreadable") ELSE UNCHANGED used
    /\ LET on == {r \in watched[s] : mode[s][r] # "disabled"} IN
       /\ mode' = [mode EXCEPT ![s] =
                     [r \in Roots |-> IF r \in on THEN "disabled" ELSE @[r]]]
       /\ debounce' = [debounce EXCEPT ![s] =
                         [r \in Roots |-> IF r \in on THEN "none" ELSE @[r]]]
       /\ putoff' = [putoff EXCEPT ![s] = @ \cup on]
    /\ news' = [news EXCEPT ![s] = {}] /\ dead' = [dead EXCEPT ![s] = FALSE]
    /\ UNCHANGED <<work, flags, coroutine, watched, seen, overdue, retry,
                   failed, overtaken, asked>>

WatchMode(r) == IF r \in site.unwatchable THEN "fallback" ELSE "events"

\* A root that left the watch set is still reported.
SlipModes(s, w, add) ==
    [r \in Roots |-> IF r \in add \/ mode[s][r] = "disabled" THEN WatchMode(r)
                    ELSE mode[s][r]]

Modes(s, w, add) ==
    [r \in Roots |-> IF r \notin w THEN "off"
                    ELSE IF r \in add \/ mode[s][r] = "disabled"
                    THEN WatchMode(r)
                    ELSE mode[s][r]]

\* After the refresh: a dead observer is replaced, disabled roots are watched
\* again, and a snapshot of the watch set is scanned. w is the watch set, add
\* what is new in it.
BeginScan(s, w, add) ==
    /\ Goto(s, "scan")
    /\ todo' = [todo EXCEPT ![s] = w]
    /\ watched' = [watched EXCEPT ![s] = w]
    /\ dead' = [dead EXCEPT ![s] = @ /\ w = {}]
    /\ mode' = [mode EXCEPT ![s] = Modes(s, w, add)]
    /\ news' = [news EXCEPT ![s] = @ \cap (w \ add)]

Poll(s) ==
    /\ pc[s] = "asleep" /\ enabled
    /\ \/ /\ ~fresh[s]
          /\ Goto(s, "listing")
          /\ UNCHANGED <<todo, watched, mode, dead, news>>
       \/ fresh[s] /\ BeginScan(s, watched[s], {})
    /\ UNCHANGED <<jobs, flags, at, listed, fresh, cand, seen, debounce,
                   overdue, retry, failed, ghost>>

\* list_projects, in a thread.
List(s) ==
    /\ pc[s] = "listing"
    /\ Goto(s, "listed")
    /\ listed' = [listed EXCEPT ![s] = {r \in Roots : graph[r] # None}]
    /\ UNCHANGED <<jobs, flags, at, todo, fresh, cand, watch, ghost>>

\* An error is an answer for the whole TTL, and the old watch set is scanned.
ListFails(s) ==
    /\ pc[s] = "listing"
    /\ Fault("list")
    /\ fresh' = [fresh EXCEPT ![s] = TRUE]
    /\ BeginScan(s, watched[s], {})
    /\ UNCHANGED <<work, flags, at, listed, cand, seen, debounce, overdue,
                   retry, failed, ghost>>

Baseline(r) == IF r \in site.git THEN durable[r] ELSE None

\* Roots that are listed and not suppressed; a new one is due at once.
RefreshBut(s, suppressed) ==
    /\ pc[s] = "listed"
    /\ LET w == listed[s] \ suppressed
           add == w \ watched[s]
       IN
       /\ BeginScan(s, w, add)
       /\ seen' = [seen EXCEPT ![s] =
                     [r \in Roots |-> IF r \in add THEN Baseline(r) ELSE @[r]]]
       /\ debounce' = [debounce EXCEPT ![s] =
                         [r \in Roots |-> IF r \in add THEN "none" ELSE @[r]]]
       /\ retry' = [retry EXCEPT ![s] =
                      [r \in Roots |-> IF r \in add THEN "none" ELSE @[r]]]
       /\ overdue' = [overdue EXCEPT ![s] = @ \cup add]
       /\ failed' = [failed EXCEPT ![s] = @ \ add]
    /\ fresh' = [fresh EXCEPT ![s] = TRUE]
    /\ listed' = [listed EXCEPT ![s] = {}]
    /\ UNCHANGED <<work, flags, at, cand, ghost>>

Refresh(s) == RefreshBut(s, tombstone) /\ UNCHANGED used

\* A tombstone that cannot be read is there.
RefreshBlind(s) == RefreshBut(s, Roots) /\ Fault("unreadable")

\* Only events make a root due.
SlipDue(s, r) == r \notin failed[s] /\ debounce[s][r] = "over"

Due(s, r) ==
    r \notin failed[s] /\ (r \in overdue[s] \/ debounce[s][r] = "over")

Visit(s) ==
    /\ pc[s] = "scan"
    /\ \E r \in todo[s] :
          /\ todo' = [todo EXCEPT ![s] = @ \ {r}]
          /\ IF Due(s, r)
             THEN Goto(s, "checking") /\ at' = [at EXCEPT ![s] = r]
             ELSE UNCHANGED <<pc, at>>
    /\ UNCHANGED <<jobs, flags, listed, fresh, cand, watch, ghost>>

Sleep(s) ==
    /\ pc[s] = "scan" /\ todo[s] = {}
    /\ Goto(s, "asleep")
    /\ UNCHANGED <<jobs, flags, at, todo, listed, fresh, cand, watch, ghost>>

Coordinator(s) ==
    Poll(s) \/ List(s) \/ Refresh(s) \/ Visit(s) \/ Sleep(s)

-----------------------------------------------------------------------------
(* One project: index_block, _evaluate and _reindex. *)

\* Only the path limit keeps a poller off.
SlipBlocked(r) == r \in unindexable

Blocked(r) == r \in tombstone \cup unindexable

PutOff(s) == putoff' = [putoff EXCEPT ![s] = @ \cup {at[s]}]

\* A blocked root loses the deadline this scan found passed, and only that.
SkipBlocked(s) ==
    /\ pc[s] = "checking"
    /\ IF Blocked(at[s]) THEN UNCHANGED used ELSE Fault("unreadable")
    /\ Goto(s, "scan")
    /\ debounce' = [debounce EXCEPT ![s][at[s]] =
                      IF @ = "over" THEN "none" ELSE @]
    /\ PutOff(s)
    /\ UNCHANGED <<work, flags, at, todo, listed, fresh, cand, watched, mode,
                   dead, news, seen, overdue, retry, failed, overtaken, asked>>

RootMissing(s) ==
    /\ pc[s] = "checking" /\ ~Blocked(at[s])
    /\ Fault("vanish")
    /\ Goto(s, "scan")
    /\ failed' = [failed EXCEPT ![s] = @ \cup {at[s]}]
    /\ news' = [news EXCEPT ![s] = @ \ {at[s]}]
    /\ UNCHANGED <<work, flags, at, todo, listed, fresh, cand, watched, mode,
                   dead, seen, debounce, overdue, retry, ghost>>

\* The reconcile deadline moves, and run_exclusive starts a thread.
Reindex(s) ==
    /\ overdue' = [overdue EXCEPT ![s] = @ \ {at[s]}]
    /\ Goto(s, "await")
    /\ Submit(s, at[s])

\* A deadline is forgotten before the git state is read, so that an event from
\* then on sets another. A directory that is no git repository is indexed
\* whenever it is due.
Evaluate(s) ==
    /\ pc[s] = "checking" /\ ~Blocked(at[s])
    /\ debounce' = [debounce EXCEPT ![s][at[s]] = "none"]
    /\ overtaken' = overtaken \ {s}
    /\ IF at[s] \in site.git
       THEN Goto(s, "git") /\ UNCHANGED <<work, overdue>>
       ELSE Reindex(s)
    /\ UNCHANGED <<flags, at, todo, listed, fresh, cand, watched, mode, dead,
                   news, seen, retry, failed, putoff, asked, used>>

Changed(s, signature) ==
    \/ seen[s][at[s]] # signature
    \/ retry[s][at[s]] = "over"

GitRead(s) ==
    /\ pc[s] = "git"
    /\ LET signature == Signature[tree[at[s]]] IN
       /\ putoff' = [putoff EXCEPT ![s] = @ \ {at[s]}]
       /\ IF Changed(s, signature)
          THEN Reindex(s) /\ cand' = [cand EXCEPT ![s] = signature]
          ELSE /\ overdue' = [overdue EXCEPT ![s] = @ \ {at[s]}]
               /\ Goto(s, "scan")
               /\ UNCHANGED <<work, cand>>
    /\ UNCHANGED <<flags, at, todo, listed, fresh, watched, mode, dead, news,
                   seen, debounce, retry, failed, overtaken, asked, used>>

\* git could not answer, which is no change; or there is no engine client.
Unable(s) ==
    /\ \/ pc[s] = "git" /\ (Fault("git") \/ Fault("client"))
       \/ /\ pc[s] = "checking" /\ ~Blocked(at[s]) /\ at[s] \notin site.git
          /\ Fault("client")
    /\ debounce' = [debounce EXCEPT ![s][at[s]] =
                      IF pc[s] = "checking" THEN "none" ELSE @]
    /\ overdue' = [overdue EXCEPT ![s] = @ \ {at[s]}]
    /\ Goto(s, "scan")
    /\ PutOff(s)
    /\ UNCHANGED <<work, flags, at, todo, listed, fresh, cand, watched, mode,
                   dead, news, seen, retry, failed, overtaken, asked>>

\* The result of the poller's job.
Taken(s) == Rest(s) /\ cand' = [cand EXCEPT ![s] = None]

\* A job that had no result: the gate was busy, or a flag raised.
Skipped(s) ==
    pc[s] = "await" /\ stage[s] = "over" /\ outcome[s] \in {"busy", "raised"}

\* A refused lease advances the baseline.
SlipRefused(s) ==
    /\ Skipped(s)
    /\ Goto(s, "scan")
    /\ Taken(s)
    /\ seen' = [seen EXCEPT ![s][at[s]] =
                  IF at[s] \in site.git THEN cand[s] ELSE @]
    /\ PutOff(s)
    /\ UNCHANGED <<flags, at, todo, listed, fresh, watched, mode, dead, news,
                   debounce, overdue, retry, failed, overtaken, asked, used>>

\* The cycle is skipped, and the deadlines are gone; of a graph that was
\* written before the flag raised the poller does not know.
Refused(s) ==
    /\ Skipped(s)
    /\ Goto(s, "scan")
    /\ Taken(s)
    /\ PutOff(s)
    /\ UNCHANGED <<flags, at, todo, listed, fresh, watch, overtaken, asked,
                   used>>

\* An index settles whatever events came in while it ran.
SlipHeard(s) ==
    /\ pc[s] = "await" /\ stage[s] = "over" /\ ~Skipped(s)
    /\ seen' = [seen EXCEPT ![s][at[s]] =
                  IF at[s] \in site.git THEN cand[s] ELSE @]
    /\ retry' = [retry EXCEPT ![s][at[s]] = CASE outcome[s] = "ok" -> "none"
                                              [] outcome[s] = "error" -> "set"
                                              [] outcome[s] = "deep" -> @]
    /\ debounce' = [debounce EXCEPT ![s][at[s]] = "none"]
    /\ Goto(s, IF outcome[s] = "ok" THEN "saving" ELSE "scan")
    /\ Taken(s)
    /\ UNCHANGED <<flags, at, todo, listed, fresh, watched, mode, dead, news,
                   overdue, failed, ghost, used>>

\* The baseline moves even when the index failed: a failure waits for its
\* retry, and the path limit for a user.
Heard(s) ==
    /\ pc[s] = "await" /\ stage[s] = "over" /\ ~Skipped(s)
    /\ seen' = [seen EXCEPT ![s][at[s]] =
                  IF at[s] \in site.git THEN cand[s] ELSE @]
    /\ retry' = [retry EXCEPT ![s][at[s]] = CASE outcome[s] = "ok" -> "none"
                                              [] outcome[s] = "error" -> "set"
                                              [] outcome[s] = "deep" -> @]
    /\ Goto(s, IF outcome[s] = "ok" THEN "saving" ELSE "scan")
    /\ Taken(s)
    /\ UNCHANGED <<flags, at, todo, listed, fresh, watched, mode, dead, news,
                   debounce, overdue, failed, ghost, used>>

\* save_watch_state, in a thread; a failure is logged.
Save(s) ==
    /\ pc[s] = "saving"
    /\ \/ SaveState(s) /\ UNCHANGED used
       \/ UNCHANGED durable /\ Fault("save")
    /\ Goto(s, "scan")
    /\ UNCHANGED <<work, site, enabled, at, todo, listed, fresh, cand, watch,
                   ghost>>

\* A job that outlived its poller ends, and nobody hears of it.
Reap(s) ==
    /\ pc[s] = "off"
    /\ Taken(s)
    /\ UNCHANGED <<flags, pc, at, todo, listed, fresh, watch, ghost, used>>

Examine(s) ==
    \/ SkipBlocked(s) \/ Evaluate(s) \/ GitRead(s)
    \/ Refused(s) \/ Heard(s) \/ Save(s)

-----------------------------------------------------------------------------
(* Users ask for an index or for the delete of a project. *)

\* MaxCalls bounds the calls of a user, and counts what has failed with them.
Ask(c) ==
    /\ pc[Home[c]] # "off"
    /\ asked[c] + used.count < MaxCalls
    /\ asked' = [asked EXCEPT ![c] = @ + 1]
    /\ \E r \in Roots : Submit(c, r)
    /\ UNCHANGED <<flags, coroutine, watch, overtaken, putoff, used>>

\* The endpoint answers; after a delete it forgets the watch of this process,
\* unless the request was cancelled.
Answer(c) ==
    /\ Rest(c)
    /\ LET s == Home[c]
           drop == {aim[c]} \cap watched[s]
           deleted == outcome[c] = "rooted" /\ pc[s] # "off"
       IN
       \/ /\ deleted
          /\ watched' = [watched EXCEPT ![s] = @ \ drop]
          /\ mode' = [mode EXCEPT ![s] =
                        [r \in Roots |-> IF r \in drop THEN "off" ELSE @[r]]]
          /\ news' = [news EXCEPT ![s] = @ \ drop]
          /\ UNCHANGED used
       \/ /\ IF deleted THEN Fault("cancel") ELSE UNCHANGED used
          /\ UNCHANGED <<watched, mode, news>>
    /\ UNCHANGED <<flags, coroutine, dead, seen, debounce, overdue, retry,
                   failed, ghost>>

JobStep(j) ==
    /\ Index(j) \/ (Link(j) /\ UNCHANGED used)
    /\ UNCHANGED pollers

\* A poller that asked index_block about the root and is not in the gate yet
\* will not ask again.
Overtakes(c) ==
    /\ Suppress(c)
    /\ overtaken' = overtaken \cup
          {s \in Servers : (pc[s] = "git" /\ at[s] = aim[c])
                          \/ (stage[s] = "asking" /\ aim[s] = aim[c])}
    /\ UNCHANGED <<flags, coroutine, watch, putoff, asked>>

Deletion(c) ==
    \/ /\ \/ Resolve(c) \/ EngineDeletes(c) \/ NothingDeleted(c)
          \/ (Clean(c) /\ UNCHANGED used)
       /\ UNCHANGED pollers
    \/ Overtakes(c)

Server(s) ==
    \/ Start(s) \/ Stop(s) \/ Crash(s) \/ Deactivate(s) \/ ListFails(s)
    \/ RefreshBlind(s) \/ Coordinator(s) \/ RootMissing(s) \/ Unable(s)
    \/ Examine(s) \/ Reap(s)

-----------------------------------------------------------------------------
Next ==
    \/ World
    \/ LeaseEnds /\ UNCHANGED pollers
    \/ (\E o \in late : LateWrite(o)) /\ UNCHANGED pollers
    \/ \E s \in Servers : Server(s)
    \/ \E c \in Calls : Ask(c) \/ Answer(c)
    \/ \E j \in Jobs : JobStep(j)
    \/ \E c \in Deleters : Deletion(c)

Spec == Init /\ [][Next]_vars

\* The event loops and threads run, leases end, and a coordinator wakes at the
\* next deadline with an engine to talk to. What was given up a child may never
\* do. Time passes whatever the poller does, hence the strong fairness of
\* deadlines that a scan only reads before it begins. Nobody has to start a
\* server or turn the switch on.
Fairness ==
    /\ WF_vars(LeaseEnds /\ UNCHANGED pollers)
    /\ \A s \in Servers :
          /\ WF_vars(Coordinator(s) \/ Examine(s))
          /\ SF_vars(ListAges(s))
    /\ \A s \in Servers, r \in Roots :
          /\ SF_vars(DebouncePasses(s, r) \/ ReconcilePasses(s, r))
          /\ WF_vars(RetryPasses(s, r))
    /\ \A j \in Jobs : WF_vars(JobStep(j) \/ (j \in Deleters /\ Deletion(j)))

FairSpec == Spec /\ Fairness

-----------------------------------------------------------------------------
Deadlines == {"none", "set", "over"}
PCs == {"off", "asleep", "listing", "listed", "scan", "checking", "git",
        "await", "saving"}

PollerType ==
    /\ pc \in [Servers -> PCs] /\ at \in [Servers -> Roots \cup {None}]
    /\ todo \in [Servers -> SUBSET Roots]
    /\ listed \in [Servers -> SUBSET Roots]
    /\ fresh \in [Servers -> BOOLEAN]
    /\ cand \in [Servers -> Signatures \cup {None}]
    /\ \A s \in Servers :
          pc[s] \in {"checking", "git", "await", "saving"} => at[s] \in Roots

WatchType ==
    /\ watched \in [Servers -> SUBSET Roots]
    /\ mode \in [Servers -> [Roots -> {"off", "disabled", "events",
                                       "fallback"}]]
    /\ dead \in [Servers -> BOOLEAN] /\ news \in [Servers -> SUBSET Roots]
    /\ seen \in [Servers -> [Roots -> Signatures \cup {None}]]
    /\ debounce \in [Servers -> [Roots -> Deadlines]]
    /\ overdue \in [Servers -> SUBSET Roots]
    /\ retry \in [Servers -> [Roots -> Deadlines]]
    /\ failed \in [Servers -> SUBSET Roots]
    /\ \A s \in Servers, r \in Roots :
          mode[s][r] = "off" <=> r \notin watched[s]

TypeOK ==
    /\ JobsTypeOK /\ PollerType /\ WatchType
    /\ durable \in [Roots -> Signatures \cup {None}]
    /\ site \in Sites /\ enabled \in BOOLEAN
    /\ overtaken \subseteq Servers /\ putoff \in [Servers -> SUBSET Roots]
    /\ asked \in [Calls -> 0 .. MaxCalls]

\* A baseline never claims a state that no index has read: if it names a state
\* newer than the graph, a retry is due or the root waits for a user. A poller
\* that trusts it skips nothing ("a wrong "unchanged" verdict", _Watched) -
\* unless a child has changed the graph, after its client had given it up and
\* since anybody else indexed the root.
Covered(r, signature) ==
    signature = None \/ \E n \in 0 .. graph[r] : Signature[n] = signature

BaselineIsHonest ==
    \A r \in site.git \ adrift : graph[r] # None =>
        /\ Covered(r, durable[r])
        /\ \A s \in Servers :
              r \in watched[s] => \/ Covered(r, seen[s][r])
                                 \/ retry[s][r] # "none"
                                 \/ r \in unindexable

\* A watched change is never lost: whatever tick, index or edit it fell into,
\* an event, a deadline or a look at the tree is still to come, unless the
\* poller has put it off to reconciliation.
Unexamined(s, r) ==
    \/ pc[s] \in {"checking", "git"} /\ at[s] = r
    \/ pc[s] = "await" /\ at[s] = r /\ cand[s] = Signature[tree[r]]

Expected(s, r) ==
    \/ r \in news[s] \/ debounce[s][r] # "none"
    \/ r \in overdue[s] \/ r \in putoff[s]

ChangeIsNoticed ==
    \A s \in Servers, r \in site.git :
        r \in watched[s] /\ Watching(s, r) /\ seen[s][r] # Signature[tree[r]]
        => Expected(s, r) \/ Unexamined(s, r)

\* What a user deleted comes back by a user's own index only, whatever the
\* servers have cached or fail to read - but for a poller that asked index_block
\* before the delete and entered the gate after it, a delete that wrote no
\* tombstone, and an index that was given up before and is done after it.
UserWrites(r) ==
    \E c \in Calls : stage[c] = "read" /\ stage'[c] = "written" /\ aim[c] = r

OvertakenWrites(r) ==
    \E s \in overtaken :
        stage[s] = "read" /\ stage'[s] = "written" /\ aim[s] = r

ChildWrites(r) == \E o \in late \ late' : o.root = r

DeletedStaysDeleted ==
    [][\A r \in gone :
         graph'[r] # None =>
            \/ UserWrites(r) \/ OvertakenWrites(r) \/ ChildWrites(r)
            \/ used.marks \cap {"crash", "untombed"} # {}]_vars

\* In the end the graph of an indexed project is its tree: edits under a
\* running index, refused leases, failed indexes, lost events and restarts
\* only delay it. A root may be off limits: deleted, over the path limit,
\* missed by every running poller, or auto-index is off; or adrift, with a
\* graph that a child wrote late and the next index replaces, should one come.
OffLimits(r) ==
    \/ ~enabled \/ Blocked(r) \/ r \in adrift
    \/ \A s \in Servers : pc[s] = "off" \/ r \in failed[s]

Current(r) == graph[r] = None \/ Signature[graph[r]] = Signature[tree[r]]

KeepsCurrent == \A r \in Roots : []<>(Current(r) \/ OffLimits(r))
-----------------------------------------------------------------------------
(* The inductive invariants behind them. *)

\* A poller waits for its job, which is an index of the root it is at.
PollersWait ==
    \A s \in Servers :
        /\ stage[s] # "none" => pc[s] \in {"await", "off"}
        /\ pc[s] = "await" => stage[s] # "none" /\ aim[s] = at[s]
        /\ stage[s] \notin {"resolved", "deleted", "cleaned"}
        /\ stage[s] \in {"written", "opened", "linking"} => outcome[s] = "ok"
        /\ stage[s] \in {"leave", "over"} =>
              outcome[s] \in {"ok", "error", "deep", "raised", "busy"}

\* A delete that has yet to leave its tombstone.
Burying(r) ==
    \E c \in Jobs : stage[c] \in {"deleted", "cleaned"} /\ aim[c] = r

Marked == used.marks \cap {"crash", "untombed"} # {}

RootIsKnown ==
    \A c \in Jobs :
        stage[c] \in {"resolved", "deleted", "cleaned"}
        => outcome[c] = "rooted"

GoneIsBuried == \A r \in gone : r \in tombstone \/ Burying(r)

\* An index clears the tombstone of no root that is gone.
WrittenIsBack ==
    \A j \in Jobs : stage[j] = "written" => aim[j] \notin gone

OnTheWay(s, r) ==
    \/ pc[s] = "git" /\ at[s] = r
    \/ stage[s] \in {"asking", "begun", "read"} /\ aim[s] = r

\* A poller that is on its way to a root that is gone asked before the delete.
LateIsOvertaken ==
    \A s \in Servers, r \in gone :
        OnTheWay(s, r) => s \in overtaken \/ Burying(r)

GoneIsEmpty == \A r \in gone : graph[r] = None

GoneInv ==
    /\ WrittenIsBack /\ GoneIsEmpty
    /\ Marked \/ (RootIsKnown /\ GoneIsBuried /\ LateIsOvertaken)

\* The same of every root that has not vanished, whether it is watched or not;
\* and of the state that a running index will make the baseline.
NoticedBy(s) ==
    /\ \A r \in news[s] : mode[s][r] # "disabled"
    /\ \A r \in (site.git \cap watched[s]) \ failed[s] :
          /\ seen[s][r] # Signature[tree[r]]
             => Expected(s, r) \/ Unexamined(s, r)
          /\ pc[s] = "await" /\ at[s] = r /\ cand[s] # Signature[tree[r]]
             => Expected(s, r)

NoticeInv == \A s \in Servers : NoticedBy(s)

\* The graph of r is at n or later, now and whatever the jobs under way write.
Reached(r, n) ==
    /\ n <= tree[r]
    /\ graph[r] # None /\ r \notin adrift => n <= graph[r]
    /\ \A j \in Jobs : stage[j] = "read" /\ aim[j] = r => n <= took[j]

\* It will be when the block of r is cleared.
Pending(r, n) ==
    /\ n <= tree[r]
    /\ \A j \in Jobs :
          stage[j] \in {"read", "written", "opened"} /\ aim[j] = r
          => n <= took[j]

Honest(r, signature) ==
    \/ signature = None
    \/ \E n \in States : Signature[n] = signature /\ Reached(r, n)

\* A root over the path limit waits for an index that clears it.
Blocking(r, signature) ==
    /\ r \in unindexable
    /\ \E n \in States : Signature[n] = signature /\ Pending(r, n)

WrittenIsTaken ==
    \A j \in Jobs :
        stage[j] \in {"written", "opened"} =>
            graph[aim[j]] = took[j] \/ aim[j] \in adrift

\* What the result of an index of r will make of its candidate.
CandidateIsHonest(s, r, signature) ==
    /\ stage[s] \in {"asking", "begun"} =>
          \E n \in States : Signature[n] = signature /\ n <= tree[r]
    /\ stage[s] = "read" =>
          \E n \in States :
             Signature[n] = signature /\ n <= tree[r] /\ n <= took[s]
    /\ \/ stage[s] \in {"written", "opened", "linking"}
       \/ stage[s] \in {"leave", "over"} /\ outcome[s] = "ok"
       => Honest(r, signature)
    /\ stage[s] \in {"leave", "over"} /\ outcome[s] = "deep"
       => Honest(r, signature) \/ Blocking(r, signature)

BaselineOf(s) ==
    /\ \A r \in site.git \cap watched[s] :
          \/ Honest(r, seen[s][r]) \/ retry[s][r] # "none"
          \/ Blocking(r, seen[s][r])
    /\ pc[s] = "await" /\ at[s] \in site.git
       => CandidateIsHonest(s, at[s], cand[s])
    /\ pc[s] = "saving" /\ at[s] \in site.git
       => Honest(at[s], seen[s][at[s]])

BaselineInv ==
    /\ WrittenIsTaken
    /\ \A r \in site.git : Honest(r, durable[r])
    /\ \A s \in Servers : BaselineOf(s)
=============================================================================
