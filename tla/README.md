# A TLA+ model of MARM memory

MARM is a memory server for language-model clients: a FastAPI process and any
number of stdio processes that share a few SQLite files (write-ahead logging,
autocommit). Most of its state is in those files; the hard part of the program
is what its processes, threads and coroutines do to them at the same time.
Paths below are relative to `src/marm-mcp-server/marm_mcp_server/`, where no
other root is given.

## Inventory

| part | state | operations | what is hard | what makes it correct |
|---|---|---|---|---|
| **lease lock** `core/lease_lock.py`, `concept_build_lock.py`, `graph_index_lock.py` | one row (holder, expiry) per lock table; `lost` per holder | acquire, renew by a heartbeat, release; context manager, thread gate, shielded task | stalls, clocks read before the statement runs, failed renewals, cancellation while a thread writes, crashes | two operations never write the store together; a live hold is never taken away; `lost` is never false; a crash costs others at most one lease |
| **concept indexing** `core/concept_queue.py`, `concept_worker.py`, `services/concept_build_engine.py`, `endpoints/concepts.py` | the queue table (hash, token, leased_until, attempts), a worker's batch, a build's outcomes, the schema state | enqueue inside the writer's transaction, claim, renew, complete, drop, fail, retire; build, cancel, reset | two databases that cannot be written in one transaction; rewrites and deletes under an extraction; abandoned batches; lost leases; crashes | no memory is forgotten; the graph says what memories say; what was deleted stays deleted; every row settles |
| **concept graph store** `core/concept_db.py`, `concept_schema.py`, `concept_build_runs.py` | entities, relationships, provenance, build runs | assert, retract, clean up, reset | many small commits per memory | provenance is exactly that of the live memories |
| **write queue** `core/write_queue.py`, `core/memory.py` | asyncio queue, worker task, `_stopping`, the facade's reference | put, put_callable, serve, start, stop | full queue, cancelled callers, stop and start during a stop | every call ends; a stop drains and cuts no write; join counts what is owed |
| **memory writes and chunks** `core/memory_ops.py`, `memory_delete.py`, `memory_utils.py`, `utils/chunk_backfill.py`, `services/notebook.py`, `core/docs_db.py`, `endpoints/memory.py` | memories, memory_chunks, documents with the id of their mirror | store, merge, replace, delete, chunk write, rechunk, save a document | duplicate checks and merges that read before they lock; chunk writes after the commit; a save in two databases and three transactions | chunks belong to what the memory says; a stored text is kept, and once; a mirror says what its document says |
| **code index** `core/graph_index_worker.py`, `graph_index_watcher.py`, `graph_index_repository.py`, `graph_watch_state.py`, `runtime_flags.py`, `endpoints/graph.py`, `graph_projects.py` | watch set, deadlines, baselines, tombstones, block flags, the engine's graphs | tick, event, evaluate, index, delete, switch, stop | busy gate, events during an index, deletes against pollers, restarts, failed reads of every flag | a change is indexed in the end; no baseline claims what was not indexed; a deleted project stays deleted |
| **code link queue** `core/code_link_queue.py`, `code_project_bindings.py`, the linking half of `services/concept_build_engine.py` | bindings, a refresh row with cursor, lease and snapshot, links | enqueue, claim, advance, complete, fail, drop, bind by hand, link | re-queued while leased; pages handed on; deletes in the middle | links follow the graph; a deleted project is forgotten; every refresh ends |
| **compaction** `core/compaction.py`, `services/compaction_apply.py`, `compaction_summarize.py`, `endpoints/compaction.py` | staged candidates with a status, snapshot and nudge budget; roles of memories | scan, prompt, stage, promote, review, apply, discard, expire | statuses written by four actors, some outside a transaction | verdicts are final; a hidden memory has its summary and was read for it |
| **code graph client** `core/graph_supervisor.py`, `graph_client.py`, `../marm_graph/core/cbm_client.py`, `backend.py` | two locks, one child process, its pipes, the next request id | start once, handshake, call, retry, time out, respawn, close | a close without the lock, late answers, deaths at any step | no process is left behind; an answer reaches who asked; slow work is not killed; every call ends |
| **terminals** `console/terminal/` | a shell, its scrollback, commands and target per session; the registry; a queue per web socket | spawn, attach, write, kill, detach, read, finish, pump, sweep | three threads and two coroutines per session; a client that comes while another is served; the end of a shell from five sides | what a shell writes is shown, and once; its end is told; a client is not cut off by another; none is killed early or kept for ever |
| **shutdown** `core/shutdown_manager.py` | `_cleanup_complete` | scans, worker, write queue, chunks, usage, child, pool, in this order | each stage may fail | runs once; a stage's failure skips no other |
| **others** | recall ranking, rate limiter, protocol delivery, distillation, scratch notes, log entries, console, configuration, clients, local models | | | see "Not modelled" |

How they interact. A tool call or a console request goes through the write queue
to one of the writers in `memory_ops.py` / `memory_delete.py`, which commits the
memory together with its row in the index queue, and then spawns the chunk write.
The worker of any process takes the concept lease, claims rows, extracts in a
thread, writes the concept database and settles the rows; a manual build takes
the same lease, reads the memories directly and retires the rows it has covered.
A delete cleans the concept graph after its own commit and without the lease, and
stales the compaction candidates of what it removes. Each server's poller, and
any user, submits index and delete jobs that take the second lease, the code
index gate, and talk to the code graph's child process through the client; a
finished index binds its project to a scope of memories and queues a refresh of
the links, which the concept workers take when they hold the concept lease.
Shutdown stops the workers before the write queue, and the child after both. The
console's terminals share nothing with the rest but the process.

## Modules

| module | models | proofs |
|---|---|---|
| `Gate` | the abstract lock: who is inside, and whether anyone else gets in | `WritersProofs` |
| `LeaseLock` | the lease and everything that holds it; implements `Gate` | `WritersProofs` |
| `ConceptIndex` | writers, queue, workers, builds, concept graph; uses `Gate` | `ConceptIndexProofs` |
| `WriteQueue` | the write queue on its event loop | `WritersProofs` |
| `IndexJobs` | index and delete jobs on the code graphs and their durable flags; uses `Gate` | `IndexJobsProofs` |
| `CodeIndex` | the pollers, watchers and users that submit such jobs (extends `IndexJobs`) | `CodeIndexProofs` |
| `CodeLinks` | what is linked to the graphs: bindings, refreshes, links (extends `IndexJobs`) | `CodeLinksProofs` |
| `Compaction` | candidates, reviews and the memories they hide | `HousekeepingProofs` |
| `EngineClient` | the supervisor, the client and the child process of the code graph | `EngineClientProofs` |
| `MemoryStore` | memories, chunks, a document and its mirror | `MemoryStoreProofs` |
| `Terminal` | the terminal sessions of the console | `HousekeepingProofs` |
| `MCLeaseLock`, `MCConceptIndex`, `MCWriteQueue`, `MCCodeIndex`, `MCCodeLinks`, `MCCompaction`, `MCEngineClient`, `MCMemoryStore`, `MCTerminal` | the model values of the runs | |

How they compose. `Gate` is the hinge: `LeaseLock` has the clocks, heartbeats and
stalls, and is shown to implement it; the modules that use a lease have it
without a clock, as a holder that can be lost, and are shown to use it as `Gate`
allows. `IndexJobs` is a system of jobs that is left open: `CodeIndex` and
`CodeLinks` each say when jobs are submitted and what else happens meanwhile, and
every step of either is proved to be a step of `IndexJobs` or none of its
business, so that what is proved of the jobs holds in both.

Definitions named `Slip...` are plausible slips of the code next to them. They
are in no specification; each breaks one of the properties when it replaces the
definition it stands beside, which shows that the property depends on it.

### LeaseLock

A *holder* is one operation, as every acquisition draws a fresh uuid. `owner`,
`work` and `beat` are its three threads of control: the code that acquires and
releases, the code that writes the guarded store, and the heartbeat. Each SQL
statement is one step; the clock is read in the step before it (`Ask`/`Acquire`,
`BeatAsk`/`Renew`), so a statement may run any time after the value it compares
with was read. `InThread` holders are those of `gate_sync` and `run_exclusive`,
whose acquisition, work and release are in one thread; the others are coroutines
that hold the lease while `asyncio.to_thread` works, and `Cancel` ends them
while their `work` goes on. `Heeding` holders look at `lost` between two writes.

`Prompt` holders are the assumption behind any lease: their heartbeat runs when
it is due and its renewals reach the database before the clock moves. For all
others the heartbeat may stall for any time, and any renewal or release may
raise. Time is bounded by `MaxTime`; with `TTL = 3`, `Beat = 1` and
`MaxTime = 5` a hold is renewed, expires, is taken over and the previous holder
wakes up to find out.

### ConceptIndex

The memory database (`content`, `row`, and the open transaction `txn`) and the
concept database (`graph`, `schema`) change in separate steps. An agent is a
worker or a build; `pc` is its coroutine and `thread` its extraction thread,
which outlives a cancelled coroutine. A content hash is modelled by the content
and an extraction yields one fact named by the content (none for `Barren`
contents), so `graph[m]` tells whether the graph says what memory `m` says now,
what it said before, or both. The time stamps that `retire_indexed` compares are
modelled by what they decide: `row[m].before` is the set of builds whose
`created_at` is later than the row's `enqueued_at`, and a stamp is taken in
`BeginWrite`, before the commit. `leased_until` is the flag `due`, which may turn
true at any time (`RowDue`), as the heartbeat of a batch may fail silently. The
build lock is its holder; `Stall` takes it away from a live process (what
`LeaseLock` says a missed heartbeat can do) and `Notice` raises `lost` later.

A cleanup of the graph may fail, the endpoint's after a delete as well as
`_retract` after an extraction (`CleansUp`): both log it and go on, the row is dropped
all the same, and `used.left` remembers the memories whose facts are left, until a
later cleanup of them succeeds.

`Faults` names what may go wrong in a run and `MaxFaults` how often: a failed
extraction, a failed cleanup, an error outside the guarded writes, a crash, a stopped
worker, a cancelled build, a stall, a reset, a write that overlaps the start of a
build, a console replace. `MaxWrites` bounds the writes of content. Three writes and
two faults are enough for a rewrite under an extraction whose first attempt failed or
crashed, and for a row parked and revived; two workers on one memory are enough for a
reclaimed row, since the queue's rows do not interact.

### WriteQueue

asyncio runs one task at a time in the order they became ready, and this order
matters (a stop may overtake a woken caller), so the model is the loop: `ready`
is its queue and a step runs the task at its head to the next suspension. The
operators under "asyncio.Queue" model the library's queue: `put` blocks on a full
queue, a free slot wakes the first putter, a woken putter that finds the queue
full again goes to the end of the line, a cancelled one passes its wake-up on.
`Instant` requests are callables that do not suspend the worker (a delete, for
one); the others wait for a thread (an embedding) and end in `Complete`. There
are at most two queues since a process shuts down once. Four callers on a queue
of one slot give a served, a queued and two blocked requests, one of which leaves.

### IndexJobs, CodeIndex, CodeLinks

A root directory is its project. The state of its tree is a number that each edit
increments; `graph[r]` is the state the engine read when it last indexed `r`. A
job runs in a thread of its own (`run_exclusive`, `gate_sync`): it asks for the
gate and ends as busy when that is taken, the engine reads the tree and *later*
writes its graph, `clear_index_blocks` is two statements, a delete is resolution,
engine, cleanup and tombstone in that order. A crash leaves the gate `Lapsed`
until the lease ends.

A call of the engine that fails may be one that only its client has given up
(`CbmTimeoutError` after 300 seconds,
`../marm_graph/core/cbm_client.py:43-51,375-376`): the job ends as an error and the
gate opens, while the child goes on. `late` is what children were asked to do by jobs
that have ended so, or crashed; `LateWrite` does one of them, outside the gate and at
any time, or never. An index writes what it had read, or what the tree is by then; a
delete deletes. Nobody settles flags, cleans links or queues a refresh after it. Each
write of a flag may raise (`mark_unindexable`, the two statements of
`clear_index_blocks`, `suppress_watch`), which ends the job with an exception, or with
"failed" for the last. `gone` and `verdict` only remember what has happened; so do
`unsettled`, the roots whose flags were left at odds with their graph by a raised
statement, a crash or a late write, until an index settles them, and `adrift`, the
roots whose graph a child has changed late, until a job does.

`CodeIndex`: the pc of a poller names the await it is in, and its snapshot of the
watch set, the list it got, and the git state it holds in `cand` are read before that
await and used after it. `debounce`, `overdue`, `retry` are its deadlines; a tick
compares them with the time it began at (`BeforeScan`). Events are delivered later
than the edit, and never once the observer has died. `Sites` says which roots are git
repositories and which cannot be watched, and the run starts from either. `Faults` has
one name for each failure the code handles: flags that cannot be read, a failed list,
a root or a git answer that is missing, no client, an engine that fails, the path
limit, a verdict or a clearing that cannot be written, a save that fails, a dead
observer, the switch, a delete that leaves no tombstone, a cancelled request, a stop,
a crash; one of them, any one, happens in a behaviour. `overtaken` and `putoff`
remember the two windows that the code leaves open (below). One root is enough since
the parts of a poller's state do not interact across roots; the gate is contended by
the user's calls.

`CodeLinks`: `row` is the one refresh of a project with its cursor, snapshot
(`stamp`), token and attempts; a worker claims it under the concept lease, reads a page of
entities, asks the engine for each (`found`), stores a link and settles the page:
complete, advance or fail. Entities are numbered as their ids grow, and may be
extracted between two pages. `Symbol` says what each state of a tree has for each
entity: one symbol, none, or several (which changes nothing). Workers lose the
lease (`Stall`) and go on until they look at `lost`. `Home` says which scope each
entity is extracted from, as a page is of the entities of one scope and passes over
the others. Three entities of two scopes and pages of one make the cursor matter,
an edit makes a page stale, and a user's binding moves the project to the other
scope. `strays` counts who was in the middle of something when a project went: linkers with
a looked-up link, and users, those included whose binding the cleanup has just taken.

### Compaction

One database, several processes; what a process read before its transaction is in
`pc`, `arg`, `base`, `meta`, `todo`. `text[m]` is a memory's content hash,
`into[m]` its `compacted_into`. A scan is five steps (read the active rows, read
each row's sources, mark it, find a cluster, store it under the lock); a review
looks first and writes later; `Apply` looks again under the lock.
Three memories and two candidates make every overlap of two clusters; two
processes make one late.

### EngineClient

Callers are threads, and so is the shutdown (`Stopper`). The steps are those
between which another thread can run: `close` does without the client's lock when
it cannot get it in time, so that each step of `_spawn` that touches `_proc`,
`_closed` or `_out_q` is one of its own. `child[c]` is the c-th process with the
requests in its inbox and the lines it has written; it answers in order, refuses
with an error, keeps silent, or dies. A caller may give up waiting at any time.
Two callers and three faults are enough for a death in a call, another in the
handshake of its successor, and a refusal after that.

### MemoryStore

Each request is an actor, as requests come from several processes: `Store` looks for
the exact text without a lock, `Search` finds a similar memory, `Read` takes a copy,
`Merge` compares under the lock, `Insert` looks once more. A content is the sequence
of the texts merged into it, so it can be told what was lost of it. The chunk write
that a transaction spawns is in `task` and goes on after the request has ended; it
compares hashes before it writes. A save of the document is three transactions in two
databases (`Save`, `Mirror`, `LinkDoc`), any of which may be the last. `Sanitized` is
`sanitize_content`, any function of texts: stores, replaces and mirrors write what it
leaves of a text (secrets masked, markup escaped, no more than 10,000 characters),
while `docs.content` is the whole text. Nothing is assumed of it: it is not
idempotent, as an escaped text escapes again. `a` and `A` are two spellings with one
hash, both long; `b` is short; `aa` is too long for a memory, and `a` is what is left
of it. Three requests are enough for a store overtaken by another, then a delete or
replace; for a save that fails followed by another; for two chunk writes of one memory
with a rechunk between them.

### Terminal

A session is a shell, a reader thread (`reader`, `chunk`, `scroll`), a command thread
(`cmds`, `cmd`, `finished`) and whom it is shown to (`emit`, `token`). A client is a
web socket with a handler (`stage`, `mine`, `mark`), what the handler has sent to a
thread (`hand`, `held`) and a pump (`wire`, `sent`). `Spawn`, `Announce`, `Spawned` are the
places of one spawn between which another thread can act, `Look`, `Found`,
`TakeOver`, `Snapshot`, `Replay`, `Attached` those of one attach. The shell is external: it
writes, stops reading (`Wedge`), gives up its terminal and runs on (`HangUp`), or exits. A
descriptor is a number, and a closed one is given to the next that opens.
`marks` remembers the courses of events for which the code does not keep a promise.
A chunk stands for any output, `Keep` for the length of the scrollback. Two clients
are a spawner and one that attaches, or two that attach after each other.

## Runs

| run | question | bounds | result |
|---|---|---|---|
| `lease_lock` | does the lease keep its promises to holders that keep up, whatever the others do? is it a gate? | three holders, five ticks | holds, 926 k states |
| `lease_cancel` | can a cancelled holder write together with the next one? | two holders | it can: finding 1 |
| `concept_workers` | two workers and a build, errors and crashes, under fairness: is anything brought back or stuck, is the lease used as a gate? | one memory, two contents, three writes, two faults | holds, 163 k states |
| `concept_faults` | every kind of fault: is the queue current, and is something forgotten when nobody overlaps? | a worker and a build, two writes, any two faults | holds, 1.5 M states |
| `concept_overlap` | is a write that overlaps the start of a build ever lost? | a build, two writes | it is: finding 2 |
| `write_queue` | full queue, leaving callers, shutdown and calls after it: does every call end, is a stop clean? | four callers, one slot | holds, 56 k states |
| `code_index` | is a change ever lost, a baseline a lie, a deleted project back; does the graph catch up? | one poller, one user with two calls (one after a fault), one edit, any one of 17 faults, a repository or an unwatchable directory; late writes of the engine | holds, 700 k states |
| `code_links` | do links follow the graph, is a deleted project forgotten, does every refresh end? | three entities of two scopes in pages of one, two workers of which one also builds, a job, a user, two requests, one edit, any one of 11 faults; late writes of the engine | holds, 309 k states |
| `compaction` | are verdicts final, hidden memories findable, and their texts read? | two processes, three memories, two candidates, two writes, one prompt; memories and processes are symmetric | holds, 1.4 M states |
| `engine_client` | is a process left behind, an answer misdirected, slow work killed, a caller stuck? | two callers, a shutdown, three faults, any number of timeouts | holds, 427 k states |
| `memory_store` | do chunks, stored texts and mirrors stay true to what they stand for, and do long memories get their chunks? | three requests of any kind, four texts, one fault | holds, 1.1 M states |
| `terminal` | is output missed, a shell left behind, an end untold? | one shell with two chunks, a scrollback of one, two clients, three requests, any one of four faults; clients are symmetric | holds, 3.0 M states |

All runs switch deadlock checking off: clocks, writes, calls and requests are
bounded, and the system stops when they are spent. Whether anything is *stuck* is
the question of the liveness properties.

### Properties

- `LeaseLock`: `WritersExclusive` (mutual exclusion of uncancelled holders),
  `LostIsTrue` (no false alarm, of either check), `LiveHoldIsSafe` (a live hold
  ends only by its own release), `LeaseIsAGate` (the refinement).
- `ConceptIndex`: `NothingForgotten` is what the outbox is for; it is false in five
  situations that the code admits, and `ForgetsNothingInTurn` is the same promise
  outside them. They are: a cancelled or stalled holder that goes on writing (`stop`,
  `detach`, `stall`), a write overlapping the start of a build (`overlap`), a console
  replace that withdraws the live memory's facts and then fails (`replace`), and a
  rebuild that could not extract an unqueued memory (`reset` with `extract`).
  `NoPhantom` and `WorkersLeaveNoPhantom` are the same pair for deletes; both except a
  memory whose cleanup has failed (`used.left`), and the latter still holds of every
  other memory after such a failure. `QueueIsCurrent` and `RetiresWhatItClaimed` are
  what the token and hash comparisons are for, `SessionsUseAGate` is the use of the
  lease, and `EveryRowSettles` the liveness.
- `WriteQueue`: `StopIsClean` (join counts what is owed, no write is cut, and a
  stop drains when no instant request and no caller that left breaks its wake-ups:
  `SteadyStopDrains`), `EveryCallEnds`.
- `CodeIndex`: `BaselineIsHonest` (no poller trusts a state that no index read),
  `ChangeIsNoticed` (no edit falls between event, deadline and look),
  `TombstoneMeansGone` and `LastVerdictStands` (the durable flags, of all processes,
  of the roots that are not `unsettled`), `DeletedStaysDeleted` (but by a child that
  writes late), `KeepsCurrent` (the graph is its tree in the end). A root is out of
  the reach of `BaselineIsHonest`, `KeepsCurrent` and `LinksFollowGraph` while it is
  `adrift`, which is what a late write does to it, until it is indexed again.
- `CodeLinks`: `LinksFollowGraph` (no page is skipped, no newer refresh settled by
  an older one), `DeletedIsForgotten`, `EveryRefreshEnds`.
- `Compaction`: `ReviewsAreFinal` (one open candidate per memory, a rejected pair
  is not proposed again, one verdict per candidate and its row tells which),
  `SourcesHaveTheirSummary`, `NothingHiddenUnread`.
- `EngineClient`: `NoOrphan`, `OutcomesAreTrue` (an answer is to one's own question,
  and one fault alone is hidden from callers), `SparesWorkInFlight`, `EveryCallEnds`.
- `MemoryStore`: `ChunksFollowContent`, `StoresKeepTheirWord` (a stored text stays,
  and two stores of it make one memory), `MirrorFollowsDoc` (a synced mirror
  is what the sanitizer leaves of the document, and there is one), `ChunkedInTheEnd`.
- `Terminal`: `NothingIsMissed` (attach against the reader, and against the client
  that was there before), `NoneIsStranded` (somebody will let go of each shell),
  `EndsAreTold` (after the output, and to the client). `Unmarked` names the courses of
  events, listed under "Known disagreements", in which the code does not keep them.

### Fairness

Fairness is assumed of what has begun, and of time; never of users or of faults.

- `ConceptIndex`: weak fairness of every worker's polling (`_run` wakes after each
  debounce interval), of the coroutines and threads once started, of the commit of
  an open transaction, and of leases running out.
- `WriteQueue`: weak fairness of the loop, and of the thread that computes an
  embedding. Calls, cancellations and the shutdown are not fair.
- `CodeIndex`: weak fairness of coroutines and the end of leases, and of each job (its
  own step, or the cleanup of a delete); late writes of a child are not fair, as it
  may be stuck for good. Strong fairness of deadlines, one of a root at least: whether
  the debounce or the reconcile deadline passes first is left open. A tick reads the
  clock once, before its scan, so a deadline that passes during a scan is not seen by
  it, and a poller that scans again and again disables that step without end: but time
  does pass between two scans. Events need not be delivered, servers started, or the
  switch turned on.
- `CodeLinks`: weak fairness of jobs, of workers and builds that have begun, of
  leases and waiting times; strong fairness of `Claim`, as builds may hold the lock
  each time a worker wakes up, but none holds it for ever.
- `EngineClient`: weak fairness of each thread. The child owes nothing: a caller
  that it keeps silent to has a timeout.
- `MemoryStore`: some request or chunk write that can go on does. Each is a
  bounded number of steps, so no more is needed.

## Proofs

All theorems are for every value of the constants under the named assumptions of the
modules (`HoldersAssumption`, `TimeAssumption`, `ConceptAssumption`,
`IndexJobsAssumption`, `CodeIndexAssumption`, `CodeLinksAssumption`,
`EngineAssumption`, `StoreAssumption`, `CompactionAssumption`, `QueueAssumption`,
`TerminalAssumption`), which TLC evaluates in the runs. The types of `CodeIndex`,
`CodeLinks`, `EngineClient` and `MemoryStore` are proved and not checked again in
their runs.

Two modules of the model share `WritersProofs`: the write queue keeps the writers of
one process apart, and the lease those of all processes. `HousekeepingProofs` has the two
that do away with what nobody looks after: `Compaction`, and the sweep of `Terminal`.

**The lease.** `WritersProofs` proves, for any set of holders, any TTL, any heartbeat
interval shorter than the TTL and any bound on the clock: `TypeCorrect`, `Invariance`,
`Exclusion`, `NoFalseAlarm`, `NoTheft`, `NoRegain`, and `GateExclusion`: where every
prompt holder works in the thread that owns its lease, as all operations of the code
index do, the writers never overlap, with no exception for a cancellation. None of the
promises is inductive. `IInv` adds what ties them together: `StampsInv` (clock values
in hand are never ahead of the clock, those of a prompt holder never behind, and no
row expires more than a TTL from now), `FreshInv` (a holder that has not acquired left
no trace, so a uuid is used once), `PromptInv` (a prompt holder owns the row while its
with block runs, and its next beat comes before the expiry: the induction over time
needs the exact expiry in each state of the heartbeat), `HeartbeatInv` (the row
expires no later than a TTL after `last_renewed`, which makes the staleness check
sound) and `ThreadInv`. Each action preserves each part; `Tick` needs that time does
not pass over a due beat of a prompt holder. Exclusion follows: two prompt holders in
their with blocks would both own the one row.

`LeaseImplementsGate` is the refinement: the operations inside are the attached
holders, and the gate is shut while the row is live. A step of the clock may open
it only when the row expires, which `PromptInv` excludes while a prompt holder is
inside. `GateExcludes` draws the consequence by the refinement alone: what `Gate` promises
of two prompt operations, that they are never inside together, holds of the lease.

**The concept queue.** `ConceptIndexProofs` proves, for any number of memories,
contents, workers and builds, any batch size and number of attempts and any faults,
the module's type invariant, that a queue row carries the hash of what its memory says
now, and that a worker retires only what it claimed. `QueueIsCurrent` needs more than
itself: that an open write transaction is one of a memory that was not deleted
(`TxnInv`; the commit puts a row in the queue), that a deleted memory has neither
content nor row for good (`GoneInv`), and that a row has an owner exactly while it is
leased (`RowInv`, so that a failed attempt recorded under the worker's token has
attempts left and names a content). Apart from the two writers' steps, every step
leaves a row, drops it or moves it to another state with the same hash (`Moves`),
which is what the per-action lemmas show. Retirement rests on `ClaimedInv`: a memory a
worker was given, and that it finds without content, is one that was deleted, so its
row is gone already and `SettleDeleted` drops nobody else's row, whether or not its
cleanup succeeds. `SessionsFitTheGate` proves the use of the lease: whoever is in a
with block holds the lock unless a process has stalled (`SessionInv`), an acquisition
finds the lock free, and every other step only leaves (`OnlyLeave`).

`NoPhantoms` and `ForgetsNothing` prove the promises of the outbox, `WorkersLeaveNoPhantom`
and `ForgetsNothingInTurn`, from `ForgetInv`. The order of things comes first (`OrderInv`):
while no process has stalled, sessions come one at a time, a thread is where its
coroutine waits for it, and the rows of a batch are there until the batch is settled.
A deleted memory that is still cited, and of which no cleanup has failed since the last
that did not, is then in the hands of a worker that will find out
(`FoundOut`), as the hashes are read again after the extraction; a reset graph is empty
until it is rebuilt. For the other half, `ReportInv`: of a memory that was not
written since the agent claimed it, what the thread has read is what the memory
says, and what it reports as indexed is; and a build that reset the graph passes over
nothing that is not queued (`RebuildInv`). A row may be settled, then, only when the
memory is indexed or the row is newer than the claim. TLC had checked `ForgetInv` in the
run `concept_faults` before it was proved.

**The write queue.** `QueueTypeCorrect` and `StopsAreClean`, for any number of
callers, any of them instant, starting or leaving, and any bound of the queue
(`QueueAssumption` only says that the tasks of the loop are distinct and that there is
a slot). None of the three parts of `StopIsClean` is inductive. `JoinCountsWhatIsOwed`
and `NeverCutsAWrite` rest on what queues, worker, loop and stop know of each other:
there is one queue until a stop has ended (`MadeInv`); a worker has a request in hand
exactly while it is busy, and ends when the stop has told it (`WorkerInv`); it is due
at most once (`ReadyInv`); and once join has let go, the worker stands before the stop
in the loop at most at its head and with an empty queue, so that it begins nothing
more (`LetGoInv`). `SteadyStopDrains` is about the order of the loop. The line is that
of the blocked callers (`LineInv`, of all runs), and in a steady run an accepted
request is queued or served (`AcceptedInv`); a putter that was woken stands before its
worker in the loop and there is one at most, while the worker is busy (`WokenInv`),
hence with the worker at the head nobody is on his way; and a line waits for a full
queue or for whoever is on his way (`LineWaits`). So when join lets go nobody waits at
all (`NobodyWaits`), which is `Drained`. `Steady` is what makes the wake-up come a
turn before the end of the service; a step never makes a run steady again
(`SteadyWas`). TLC had checked `StopInv` on the instance of the run, with a longer
queue and with every caller leaving.

**Jobs, code index, code links.** `IndexJobsProofs` proves `JobsInv` of jobs of any
number and composition. What makes `TombstoneMeansGone` and `LastVerdictStands`
inductive is that a job between its first and last step in the gate *is* the holder
(`GateIsHeld`; a crash ends the jobs of its process, so that a lapsed gate has nobody
inside), hence alone: between a delete and its tombstone nothing is written back
(`StaysEmpty`), a job that is clearing blocks was the last to index (`IsLatest`), and
the block of a root agrees with its verdict or is about to be cleared (`BlockAgrees`,
whose two halves are the two statements of `clear_index_blocks`). All of it is of the
roots that are not `unsettled`: a root enters that set in the step that makes its
flags wrong, be it a statement that raises, a crash or a late write, and leaves it
when an index has cleared both. `JobsImplementGate` shows that jobs use the gate as
`Gate` says. `CodeIndexIsJobs` and `CodeLinksAreJobs` show step by step that
`CodeIndex!Spec` and `CodeLinks!Spec` imply `JobsSpec`, so that `TombstonesMeanGone`,
`LastVerdictsStand`, `LinkedTombstonesMeanGone` and the use of the gate follow in both
by temporal logic alone.

The four safety properties of the pollers themselves are proved of `CodeIndex` for any
number of servers, users and roots. All rest on `BaseInv`: types, `JobsInv`, and that
a poller waits for its own job, an index of the root it is at (`PollersWait`).
`DeletedForGood` needs `GoneInv`: a root that was deleted, and that no child has
brought back, has a tombstone, or its delete is still in the gate, and a poller whose
job is on its way to it was overtaken; the gate keeps the one apart from the other.
`ChangesAreNoticed` needs `NoticeInv`: the same for the roots a poller does not watch
and for what it reads while it looks, down to the candidate of an index that is
running. `BaselinesAreHonest` needs `BaselineInv`: a state is `Reached` when the graph
and every running read of the tree are at or past it, or `Pending` behind an index
that will be, and no step of any job undoes either, because an index that has read the
tree is alone in the gate until it has written what it read (`WrittenIsTaken`). A late
write may undo both, in the step that sets the root adrift.

Two safety properties of the links are proved next to `TypeCorrect`, for any
number of projects, scopes, entities, workers, builds, users and faults and any page
size. Both rest on `LinksBase`: types, `JobsInv`, and what each linker, refresh, user
and gone project keeps to. Its two useful parts are `Alone` (who holds the concept
lock is the only linker at work, unless a heartbeat was missed) and `ClaimsFit` (a
claim whose token is still the row's has its scope and its cursor).

`LinksAreCurrent` needs `LinksInv`. A project is `Calm` while nobody is about to queue
a refresh for it; only an enqueue makes it calm, and that owes every entity of the
scope. While it is calm, and no child has written its graph late, each entity agrees
with the graph, or is owed by the row, or is in the hands of a build (`NoneIsMissed`);
a page that its worker will be allowed to settle is done as far as the worker has come
(`PageIsDone`); an answer that is about to be written is of the current graph, or the
entity is owed again (`AnswerIsRight`); and a build that did not see the binding began
before the refresh was queued (`BuildsLink`). Settling a page moves the cursor over
entities that agree, which is where a settlement under somebody else's token would
break it.

`DeletedStaysForgotten` needs `ForgottenInv`, which counts: the links of a gone
project and the linkers that may still leave one are together no more than
its `strays`, and a row or a binding comes from a user who is one of them. A linker
that writes the link it had looked up passes from one side of the sum to the other.
As pages and rows are chosen by least and greatest numbers of finite sets, the
module proves that these exist.

**Compaction.** `HousekeepingProofs`, for any number of memories, processes and
candidates, any lengths of texts and any number of writes: `TypeCorrect`,
`ReviewsFinal`, `SourcesHaveSummaries`, `HiddenWasRead`. A process between two of its steps
knows which candidate it looked at and little else (`ArgsFit`), so `ReviewsFinal` comes
from what `Apply` and `Store` look at again under the lock, and from the one write
that does not look, `mark_stale_candidates` (`VerdictInv`: what it has
overwritten stays stale). `HiddenWasRead` needs `ReadInv`: the words of an open candidate
were read of its sources after its snapshot, and the texts of those only grow while
it stays open (a replace or a delete makes it stale), so an equal hash at the apply means
that nothing was written between snapshot and summary.

**The client.** `EngineClientProofs`, for any number of callers and faults:
`TypesHold`, `NothingIsOrphaned`, `EachGetsItsOwn`, `WorkInFlightIsSpared`,
`OutcomesTrue`. The first two rest on `ClientInv`: any running child is the client's,
or in the hands of a thread that will kill it or look at `closed` again
(`EveryChildIsKept`), and where `_proc` may be overwritten it names nothing that runs
(`ProcIsKnown`). The lockless close is what makes this hard: `_proc` may be cleared
between any two steps of a spawn, and `ProcIsDoomed` says that after a close whatever
is still there is about to be taken back by one of the two. The next two rest on
`WireInv`: ids grow, requests and lines are in their order, and what bears the id that
a thread waits for was sent by it (`InOrder`, `OwnId`), so late answers to others are
passed over; and while the client is open, the pipe that is read is that of the child
that is written to, and a child that is replaced owes nothing (`ReadsItsOwn`).
`OutcomesTrue` adds that one fault alone is hidden from callers, which needs
`FaultInv`: every death and every refusal that is still unread was counted
(`FaultsAreCounted`); an open client kills neither its child nor the next one, so one
that does not run has died (`NotKilled`); and a call that starts another child has one
fault behind it, so that a fault of that child is a second (`SecondsCost`). TLC had
checked it in the run `engine_client` first.

**The memory store.** `MemoryStoreProofs`, for any requests, texts, memories and
faults: `TypeCorrect` (with what a request knows at each place: a text, a target, and
a copy of a row with room for one more), `ChunksFollow` (inductive with the types: a
chunk write looks at the hash in the step that writes, and every transaction that
changes a content clears the chunks), `StoresKeep` (`KeepInv` adds that an id not
drawn has left no trace) and `MirrorFollows`. The last needs `MirrorInv`: the ids that
a document or a save names were drawn (`Named`, so that a new mirror is none of them);
unless some have raced, one save is under way at most, and writes what the document
says into the mirror it names (`OneSave`); a linked mirror that nobody edited says
what the sanitizer leaves of the document (`MirrorSays`); and live rows that bear the
document's id are one (`OneMirror`).

**The terminals.** `HousekeepingProofs`, for any number of sessions, clients,
descriptors and faults, any length of output and of the scrollback:
`TerminalTypesHold`, `NothingIsEverMissed`, `NoneIsEverStranded`, `EndsAreAlwaysTold`,
all from `TerminalInvariant`. Two threads and a loop write what one session is, so
each part of `TerminalInv` says what one of them may rely on. `ShellsInv`: until it is
finished a shell has its descriptor to itself, though closed numbers are given out
again, and `_emit` is the client of `_owner_token` or nobody. `HandsInv`: what a
handler has in its locals between two steps. `TokensInv`: a session that is shown to
nobody had a client that has left, which is what the token check of `detach` is for.
`ShownInv`: a chunk of the scrollback has been told to the client, or is in the hands
of the reader, or of the replay; the reader buffers before it emits and `attach` sets
the target before it copies, and in any interleaving of the two one of them still has
the chunk. `EndingInv`: only a session that is about to end leaves the registry, and
no step takes that back. `OutputInv`: a session that nobody ends comes to its end by
its reader, which has then read all there is. `NoneIsStranded` and `EndsAreTold` are
inductive beside these. The proof carries them as `Guarded`, a condition of one
session, and `ToldOver`, one of a session and a client, so that an action is only
asked about what it touches; together with the other parts (`Grounds`) these two imply
them. TLC checked each part as an invariant of a smaller instance first.

**Only model-checked.** All liveness, which needs `ENABLED`. Every safety property of the
passing runs is the property of a theorem. What recursive functions compute on all inputs,
which would take induction over data, is stated nowhere.

## Findings

Each is a run whose property is a sentence of the repository and fails.

1. `concept_build_lock` releases the lease on cancellation while the thread it
   started goes on (`core/concept_build_lock.py:174-185`); `worker.stop` cancels
   after a grace period. `gate_sync` / `run_exclusive` do not have the problem.
2. `retire_indexed` compares the time of enqueueing, not of the commit, with the
   start of the build (`core/concept_queue.py:288-292`).

### Known disagreements without a run of their own

These were met while modelling. A name in parentheses is the exception that a
property above makes for it; the property fails without it.

- *Concept indexing.* A manual build withdraws nothing of a memory deleted under it
  (`endpoints/concepts.py:375`), as a worker does, so that `NoPhantom` is false of
  builds and `WorkersLeaveNoPhantom` is what holds. A cleanup that fails is logged and
  never tried again, neither by the endpoint (`endpoints/memory.py:74-82`) nor by
  `_retract` (`core/concept_worker.py:318-328`), after which the worker drops the row:
  "the entities the user asked to be gone" (its docstring) stay for good
  (`used.left`).
- *Write queue.* A stop strands a caller that was blocked on the full queue when
  the last request served never suspends the worker (`core/write_queue.py:54`; the
  premise `Steady`). A start during the final await of a stop leaves a worker
  behind, and the next call makes a second (`core/write_queue.py:46,61`,
  `core/memory.py:123-129`).
- *Code index.* `index_block` is read before the gate is taken and not under it
  (`core/graph_index_worker.py:259`): a poller overtaken by a delete undoes it
  (`overtaken`). After a refused gate the deadlines are gone and the change waits for
  the next reconciliation (`putoff`). A crash between the engine's delete and
  `suppress_watch`, or between its write and `clear_index_blocks`, leaves tombstone
  and graph in disagreement. So does, without any crash, a `clear` or
  `mark_unindexable` that raises on a locked database (`core/runtime_flags.py:78-101`;
  `unsettled`): the index is done, the caller gets an exception, and the tombstone or
  the mark stays, though `core/graph_index_repository.py:34-35` has the blocks settled
  before the lease is released. An index or a delete whose client gave up after its
  timeout is carried out by the child after the gate was released (`adrift`): a
  deleted project comes back with its tombstone, a project whose delete had timed out
  is gone without a tombstone, its links left behind, and an older tree may replace a
  newer one in the graph.
- *Code links.* A link looked up before a delete is written after its cleanup, and a
  user's binding may be confirmed while its project is deleted (`strays`). When the
  project is meanwhile indexed into another scope, the late `enqueue_refresh` of such
  a binding (`endpoints/graph.py:486`) overwrites the refresh that the new binding
  queued; it is completed without work, as it names a binding that is gone. An index
  that a child completes late queues no refresh (`adrift`), nor does one whose
  `clear_index_blocks` raises (`"forgotten"`). A crash between graph and
  `enqueue_refresh`, or a build without an engine, leaves entities unlinked with
  nothing queued (`"crash"`, `"forgotten"`).
- *Compaction.* `mark_stale_candidates` (`core/compaction.py:412-471`) overwrites a
  verdict it did not read (`overrun`). A preview is read when a cluster is found,
  its snapshot when it is stored (`blurred`). A source that is already hidden may be
  replaced or merged into (`touched`). The delete of a log entry tells neither summary nor
  candidate (`dropped`). A candidate that expires as `nudge_exhausted` is neither
  promoted nor staled, and its cluster is refused from then on, where
  `core/compaction_scheduler.py` says that candidates are never permanently dead-ended.
- *Client.* `_alive` reads `self._proc` twice (`../marm_graph/core/cbm_client.py:117`),
  so that a close in between makes a call end in an `AttributeError` (outcome `broken`). A
  handshake that times out on a respawn leaves a live child that later calls use
  uninitialised. A JSON-RPC error kills a live child and repeats the call.
- *Memory store.* A text that was merged into a document's mirror, or answered with
  it, is gone at the next save, where `core/memory_ops.py:52-53` says that
  consolidation never destroys text (the premise `~row[m].doc`). Two saves that
  overlap may leave the mirror older than the document while both report `synced`
  (`raced`). A document of more than 10,000 characters has a mirror of its first
  10,000 (`core/memory_ops.py:454`, `core/memory_utils.py:373-374`), with whose chunks
  recall then works, and the save reports `synced` all the same. A mirror whose type a
  user has changed is not found again, and the next save that has to look for it makes
  a second (`edited`).
- *Terminal.* A spawner reads its token when the spawn has returned, perhaps that of a
  client that has attached since, and its disconnect detaches that client
  (`console/terminal/router.py:267`, against `pty_session.py:354-356`; `borrowed`).
  The sweep may take and kill a session between a client's look at the registry and
  the end of its attach (`router.py:275-281`). Output that is read during an attach is
  shown twice (`pty_session.py:357-366`, against its docstring). A read of half a
  character is taken for the end of the shell, which is killed
  (`pty_session.py:151,398`; `torn`). A late reader reads a descriptor that was closed
  and is a new session's (`pty_session.py:434`; `stolen`). Output or an exit may come
  before the status "running" that `tests/test_console_terminal_pty_session.py:120`
  has first. A client that attaches when the exit has been emitted is not told
  (`late`). One that spawns again before the exit was pumped leaves the finished
  session in the registry. A late `mark_attached` after another client has attached
  and left keeps a shell from the sweep for good (`overtaken`). A thread that cannot
  be started leaves a registered shell that nobody finishes (`NoneIsStranded` asks for
  a command thread). A write that raises on a terminal whose shell is gone ends the
  command loop: the last output may be lost, and a shell that runs on is not killed
  (`raised`); the same comes of an input that cannot be encoded
  (`pty_session.py:154`), for which the model has no step. A kill that is queued
  behind a write that blocks is not carried out (`Wedge`).

## Not modelled

What the modules leave out of the parts they model:

- `ConceptIndex`: a console replace whose own cleanup fails (it changes nothing),
  merging of names, migrations of the schema, progress columns.
- `Compaction`: similarity, age and scope of memories, the timing of cooldowns, scan
  fingerprints, the write counters that trigger a scan, merges into a summary, and the
  mark that keeps a restored source from being merged into (the model allows a merge
  that the code refuses).
- `CodeIndex`, `CodeLinks`: records of a console job's progress, read-only endpoints,
  runtime presets; anchor hashes of links; how a scope is matched to a project.
- `EngineClient`: a write to the child's pipe that blocks because the child has
  stopped reading (`../marm_graph/core/cbm_client.py:295`; it has no timeout), pages
  of the tool list, what the router makes of a payload, and `GRAPH_ENABLED=false`,
  under which nothing is started.
- `MemoryStore`: sessions, projects and platforms (one scope), what `sanitize_content`
  does beyond being a function, classification, access times, more than one document,
  encoders; re-indexing of the packaged docs.
- `Terminal`: resizing, the Windows backend, the checks of origin and key, the codec.

Parts that are not modelled: recall, ranking and scoring read and compute with
vectors. The rate limiter and the protocol delivery state are used without a
suspension between read and write. Distillation and documentation are text processing
over single statements; scratch notes and log entries are rows changed by one
statement each. The console is a second front end over the same writers, reached
through the same queue; its jobs record progress. Configuration, command line, client
set-up, local models and docker commands parse, format and run programs. The state
file of a background server is written by one process. The code graph engine is an
external binary, modelled by its answers. Benchmarks, smoke tests and `marm-console/`,
`docs/`, `skills/` hold no state of the server. By number of lines these are most of
the repository, and so most of it is outside this project; by number of things that
can go wrong between two processes, little is.

## Plan

Done: the lease and its refinement; the concept queue; the write queue; the code
index, the code links and their jobs; compaction; the engine's client; the memory
store; the console's terminals; a theorem for every safety property of their runs.
Next, in this order:

1. `IndexPromise`, the abstract specification of the index (a memory is fresh,
   owed or indexed), implemented by `ConceptIndex` in turn; `ForgetInv` has what
   the refinement needs.
2. A second document and a second session in `MemoryStore`, and the composition of
   `MemoryStore` with `Compaction`, which now share only the merge.
3. Two sessions in the run of `Terminal` (too large at present).
