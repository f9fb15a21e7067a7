---------------------------- MODULE EngineClient ----------------------------
(***************************************************************************)
(* The child process of the code graph: the supervisor that starts it once *)
(* and stops it once (core/graph_supervisor.py), and the client that talks *)
(* to it over its pipes (marm_graph/core/cbm_client.py).  Callers are      *)
(* threads: the first one starts the child for all, each then makes one    *)
(* tool call, and Stopper is the thread of a shutdown.                     *)
(*                                                                         *)
(* The child is external: it answers requests one after the other, refuses *)
(* them with a JSON-RPC error, keeps silent or dies.  child[c] is the c-th *)
(* process spawned: its requests, and what it wrote that nobody has read;  *)
(* its end of file is read once that is used up.  A request is its id, who *)
(* made it and what for.  0 stands for Python's None where a process may   *)
(* be.  Only one client object is ever made: a failed start is not tried   *)
(* again, and a stopped supervisor starts nothing.                         *)
(*                                                                         *)
(* MaxFaults bounds deaths, refusals and failed starts together; timeouts  *)
(* are not counted.  Slip... are plausible slips of the code.              *)
(***************************************************************************)
EXTENDS Integers, Sequences

CONSTANTS Callers, Stopper, None, MaxFaults

ASSUME EngineAssumption ==
    /\ Stopper \notin Callers /\ None \notin Callers \cup {Stopper}
    /\ MaxFaults \in Nat

VARIABLES
    supLock,    \* GraphSupervisor._lock
    ready,      \* _ready
    stopped,    \* _stopped
    available,  \* _available, with _client
    lock,       \* CbmClient._lock
    closed,     \* _closed
    proc,       \* _proc
    queue,      \* _out_q, as the process it is filled by
    lastId,     \* _next_id
    child,      \* the processes spawned so far
    pc,         \* where a thread is
    task,       \* "start", "tools" or "call"
    attempt,    \* of a call
    mine,       \* the local variable `proc` of _spawn, close, _force_respawn
    asked,      \* the id a thread waits for
    outcome,    \* how its call has ended
    reply,      \* the answer it was given
    faults

supervisor == <<supLock, ready, stopped, available>>
client == <<lock, closed, proc, queue, lastId>>
locals == <<task, attempt, mine, asked, outcome, reply>>
vars == <<supervisor, client, child, pc, locals, faults>>

Threads == Callers \cup {Stopper}

Goto(t, there) == pc' = [pc EXCEPT ![t] = there]

Fault == faults < MaxFaults /\ faults' = faults + 1

Fresh == [state |-> "running", inbox |-> <<>>, out |-> <<>>]
Running(c) == c # 0 /\ child[c].state = "running"

\* terminate, or kill when that takes too long.
Killed(c) == IF Running(c) THEN [child EXCEPT ![c].state = "killed"] ELSE child

NoReply == [from |-> None, what |-> "none"]

Init ==
    /\ supLock = None /\ lock = None
    /\ ready = FALSE /\ stopped = FALSE /\ available = FALSE /\ closed = FALSE
    /\ proc = 0 /\ queue = 0 /\ lastId = 0
    /\ child = <<>>
    /\ pc = [t \in Threads |-> "idle"]
    /\ task = [t \in Threads |-> "call"]
    /\ attempt = [t \in Threads |-> 1]
    /\ mine = [t \in Threads |-> 0]
    /\ asked = [t \in Threads |-> 0]
    /\ outcome = [t \in Threads |-> "none"]
    /\ reply = [t \in Threads |-> NoReply]
    /\ faults = 0

-----------------------------------------------------------------------------
(* The supervisor: _ensure_started and get_client. *)

Settled == ready \/ stopped

Begin(t) ==
    /\ pc[t] = "idle" /\ t \in Callers
    /\ Goto(t, IF Settled THEN "look" ELSE "enter")
    /\ UNCHANGED <<supervisor, client, child, locals, faults>>

\* The lock, and the same question again under it.
Enter(t) ==
    /\ pc[t] = "enter"
    /\ supLock = None
    /\ IF Settled
         THEN Goto(t, "look") /\ UNCHANGED <<supLock, task>>
         ELSE /\ supLock' = t
              /\ task' = [task EXCEPT ![t] = "start"]
              /\ Goto(t, "take")
    /\ UNCHANGED <<ready, stopped, available, client, child, attempt, mine,
                   asked, outcome, reply, faults>>

\* check_schema: the tools listed are the expected ones, or the start fails.
Schema(t) ==
    /\ pc[t] = "schema"
    /\ \/ /\ available' = TRUE /\ ready' = TRUE /\ supLock' = None
          /\ Goto(t, "look")
          /\ UNCHANGED faults
       \/ /\ Fault
          /\ Goto(t, "close")
          /\ UNCHANGED <<available, ready, supLock>>
    /\ UNCHANGED <<stopped, client, child, locals>>

\* The start failed and its client is closed.
GiveUp(t) ==
    /\ pc[t] = "giveup"
    /\ ready' = TRUE /\ supLock' = None
    /\ Goto(t, "look")
    /\ UNCHANGED <<stopped, available, client, child, locals, faults>>

Look(t) ==
    /\ pc[t] = "look"
    /\ IF available
         THEN /\ task' = [task EXCEPT ![t] = "call"]
              /\ Goto(t, "take")
              /\ UNCHANGED outcome
         ELSE /\ outcome' = [outcome EXCEPT ![t] = "unavailable"]
              /\ Goto(t, "done")
              /\ UNCHANGED task
    /\ UNCHANGED <<supervisor, client, child, attempt, mine, asked, reply,
                   faults>>

-----------------------------------------------------------------------------
(* The client: start, list_tools and call_tool under its lock. *)

\* An exception leaves the with block: a start fails, a call ends.
Leave(t, how) ==
    /\ lock' = None
    /\ IF task[t] = "call"
         THEN Goto(t, "done") /\ outcome' = [outcome EXCEPT ![t] = how]
         ELSE Goto(t, "close") /\ UNCHANGED outcome

\* _alive reads self._proc twice, and close may clear it in between.
Take(t) ==
    /\ pc[t] = "take"
    /\ lock = None
    /\ lock' = t
    /\ Goto(t, IF proc = 0 THEN "spawn" ELSE "poll")
    /\ UNCHANGED <<supervisor, closed, proc, queue, lastId, child, locals,
                   faults>>

\* There is a child to talk to.
Established(t) ==
    IF task[t] = "start"
      THEN lock' = None /\ task' = [task EXCEPT ![t] = "tools"] /\ Goto(t, "take")
      ELSE UNCHANGED <<lock, task>> /\ Goto(t, "send")

\* None.poll() raises what no docstring names.
Poll(t) ==
    /\ pc[t] = "poll"
    /\ IF proc = 0 THEN Leave(t, "broken") /\ UNCHANGED task
       ELSE /\ IF Running(proc) THEN Established(t)
                                ELSE Goto(t, "spawn") /\ UNCHANGED <<lock, task>>
            /\ UNCHANGED outcome
    /\ UNCHANGED <<supervisor, closed, proc, queue, lastId, child, attempt,
                   mine, asked, reply, faults>>

\* Repeated for as long as it fails.
SlipBroke(t) ==
    IF task[t] = "call" /\ pc[t] \in {"send", "read"}
      THEN /\ attempt' = [attempt EXCEPT ![t] = @ + 1]
           /\ Goto(t, "respawn")
           /\ UNCHANGED <<lock, outcome>>
      ELSE Leave(t, "error") /\ UNCHANGED attempt

\* A CbmError that is no timeout: the first attempt of a call is repeated with
\* another child, everything else ends.
Broke(t) ==
    IF task[t] = "call" /\ attempt[t] = 1 /\ pc[t] \in {"send", "read"}
      THEN /\ attempt' = [attempt EXCEPT ![t] = 2]
           /\ Goto(t, "respawn")
           /\ UNCHANGED <<lock, outcome>>
      ELSE Leave(t, "error") /\ UNCHANGED attempt

\* _write and the id before it: of the handshake, a page of tools, or a call.
Send(t) ==
    /\ pc[t] \in {"hello", "send"}
    /\ lastId' = lastId + 1
    /\ asked' = [asked EXCEPT ![t] = lastId']
    /\ IF Running(proc)
         THEN /\ child' = [child EXCEPT ![proc].inbox = Append(@,
                    [id |-> lastId', from |-> t,
                     what |-> IF pc[t] = "hello" THEN "hello" ELSE task[t]])]
              /\ Goto(t, IF pc[t] = "hello" THEN "greeted" ELSE "read")
              /\ UNCHANGED <<lock, attempt, outcome>>
         ELSE Broke(t) /\ UNCHANGED child
    /\ UNCHANGED <<supervisor, closed, proc, queue, task, mine, reply, faults>>

\* It takes the next line.
SlipMatches(t, m) == m.id <= asked[t]

\* _read_response takes the line with the id it expects.
Matches(t, m) == m.id = asked[t]

\* What an answer to what was asked leads to.
Answered(t, m) ==
    CASE pc[t] = "greeted" ->
           Goto(t, "notify") /\ UNCHANGED <<lock, outcome, reply>>
      [] pc[t] = "read" /\ task[t] = "tools" ->
           lock' = None /\ Goto(t, "schema") /\ UNCHANGED <<outcome, reply>>
      [] pc[t] = "read" /\ task[t] = "call" ->
           /\ lock' = None /\ Goto(t, "done")
           /\ outcome' = [outcome EXCEPT ![t] = "answer"]
           /\ reply' = [reply EXCEPT ![t] = [from |-> m.from, what |-> m.what]]

Waiting(t) == pc[t] \in {"greeted", "read"}

Receive(t) ==
    /\ Waiting(t)
    /\ child[queue].out # <<>>
    /\ child' = [child EXCEPT ![queue].out = Tail(@)]
    /\ LET m == Head(child[queue].out) IN
       \/ ~Matches(t, m) /\ UNCHANGED <<lock, pc, attempt, outcome, reply>>
       \/ Matches(t, m) /\ m.ok /\ Answered(t, m) /\ UNCHANGED attempt
       \/ Matches(t, m) /\ ~m.ok /\ Broke(t) /\ UNCHANGED reply
    /\ UNCHANGED <<supervisor, closed, proc, queue, lastId, task, mine, asked,
                   faults>>

Eof(t) ==
    /\ Waiting(t)
    /\ child[queue].out = <<>> /\ ~Running(queue)
    /\ Broke(t)
    /\ UNCHANGED <<supervisor, closed, proc, queue, lastId, child, task, mine,
                   asked, reply, faults>>

\* The handshake has no timeout of its own.
SlipPatience(t) == pc[t] = "read"

\* startup_timeout or call_timeout is over.
Patience(t) == Waiting(t)

\* A timeout is one more failure to be repeated.
SlipTimedOut(t) == Broke(t)

\* CbmTimeoutError is raised again, never repeated.
TimedOut(t) == Leave(t, "timeout") /\ UNCHANGED attempt

TimeOut(t) ==
    /\ Patience(t)
    /\ TimedOut(t)
    /\ UNCHANGED <<supervisor, closed, proc, queue, lastId, child, task, mine,
                   asked, reply, faults>>

-----------------------------------------------------------------------------
(* _spawn and _force_respawn. *)

Spawn(t) ==
    /\ pc[t] = "spawn"
    /\ IF closed THEN Leave(t, "error")
                 ELSE Goto(t, "popen") /\ UNCHANGED <<lock, outcome>>
    /\ UNCHANGED <<supervisor, closed, proc, queue, lastId, child, task,
                   attempt, mine, asked, reply, faults>>

Popen(t) ==
    /\ pc[t] = "popen"
    /\ \/ /\ child' = Append(child, Fresh)
          /\ mine' = [mine EXCEPT ![t] = Len(child')]
          /\ Goto(t, "install")
          /\ UNCHANGED <<lock, outcome, faults>>
       \/ Fault /\ Leave(t, "error") /\ UNCHANGED <<child, mine>>
    /\ UNCHANGED <<supervisor, closed, proc, queue, lastId, task, attempt,
                   asked, reply>>

Install(t) ==
    /\ pc[t] = "install"
    /\ proc' = mine[t]
    /\ Goto(t, "recheck")
    /\ UNCHANGED <<supervisor, lock, closed, queue, lastId, child, locals,
                   faults>>

\* The child of a client closed meanwhile is taken back and terminated.
Disown(t) ==
    /\ proc' = IF proc = mine[t] THEN 0 ELSE proc
    /\ Goto(t, "condemn")

\* The new child is used without asking again.
SlipRecheck(t) ==
    /\ pc[t] = "recheck"
    /\ queue' = mine[t] /\ Goto(t, "hello")
    /\ UNCHANGED <<supervisor, lock, closed, proc, lastId, child, locals,
                   faults>>

\* A closed client takes the child back, an open one gives it a queue and a
\* reader of its own.
Recheck(t) ==
    /\ pc[t] = "recheck"
    /\ IF closed THEN Disown(t) /\ UNCHANGED queue
                 ELSE queue' = mine[t] /\ Goto(t, "hello") /\ UNCHANGED proc
    /\ UNCHANGED <<supervisor, lock, closed, lastId, child, locals, faults>>

Condemn(t) ==
    /\ pc[t] = "condemn"
    /\ child' = Killed(mine[t])
    /\ Leave(t, "error")
    /\ UNCHANGED <<supervisor, closed, proc, queue, lastId, task, attempt,
                   mine, asked, reply, faults>>

\* The notification that ends the handshake.
Notify(t) ==
    /\ pc[t] = "notify"
    /\ IF Running(proc) THEN Goto(t, "spawned") /\ UNCHANGED <<lock, outcome>>
                        ELSE Leave(t, "error")
    /\ UNCHANGED <<supervisor, closed, proc, queue, lastId, child, task,
                   attempt, mine, asked, reply, faults>>

Spawned(t) ==
    /\ pc[t] = "spawned"
    /\ IF closed \/ proc # mine[t]
         THEN Disown(t) /\ UNCHANGED <<lock, task>>
         ELSE Established(t) /\ UNCHANGED proc
    /\ UNCHANGED <<supervisor, closed, queue, lastId, child, attempt, mine,
                   asked, outcome, reply, faults>>

Respawn(t) ==
    /\ pc[t] = "respawn"
    /\ mine' = [mine EXCEPT ![t] = proc]
    /\ proc' = 0
    /\ Goto(t, "kill")
    /\ UNCHANGED <<supervisor, lock, closed, queue, lastId, child, task,
                   attempt, asked, outcome, reply, faults>>

Kill(t) ==
    /\ pc[t] = "kill"
    /\ child' = Killed(mine[t])
    /\ Goto(t, "spawn")
    /\ UNCHANGED <<supervisor, client, locals, faults>>

-----------------------------------------------------------------------------
(* close, by the thread whose start failed and by the supervisor's stop. *)

Close(t) ==
    /\ pc[t] = "close"
    /\ closed' = TRUE
    /\ Goto(t, "closing")
    /\ UNCHANGED <<supervisor, lock, proc, queue, lastId, child, locals,
                   faults>>

\* With the lock the child is read and cleared in one; without it, after
\* _CLOSE_LOCK_WAIT_SECONDS, in two steps.
CloseRead(t) ==
    /\ pc[t] = "closing"
    /\ mine' = [mine EXCEPT ![t] = proc]
    /\ IF lock = None THEN proc' = 0 /\ Goto(t, "terminate")
                      ELSE Goto(t, "clear") /\ UNCHANGED proc
    /\ UNCHANGED <<supervisor, lock, closed, queue, lastId, child, task,
                   attempt, asked, outcome, reply, faults>>

CloseClear(t) ==
    /\ pc[t] = "clear"
    /\ proc' = 0
    /\ Goto(t, "terminate")
    /\ UNCHANGED <<supervisor, lock, closed, queue, lastId, child, locals,
                   faults>>

Terminate(t) ==
    /\ pc[t] = "terminate"
    /\ child' = Killed(mine[t])
    /\ Goto(t, IF t = Stopper THEN "stop" ELSE "giveup")
    /\ UNCHANGED <<supervisor, client, locals, faults>>

\* stop waits for a start that is under way.
StopBegin ==
    /\ pc[Stopper] = "idle"
    /\ supLock = None
    /\ supLock' = Stopper
    /\ Goto(Stopper, IF available THEN "close" ELSE "stop")
    /\ UNCHANGED <<ready, stopped, available, client, child, locals, faults>>

StopEnd ==
    /\ pc[Stopper] = "stop"
    /\ available' = FALSE /\ stopped' = TRUE /\ ready' = FALSE
    /\ supLock' = None
    /\ Goto(Stopper, "done")
    /\ UNCHANGED <<client, child, locals, faults>>

-----------------------------------------------------------------------------
(* The child, external. *)

\* The requests are served in their order.
Serves(c, ok) ==
    /\ Running(c) /\ child[c].inbox # <<>>
    /\ LET r == Head(child[c].inbox) IN
       child' = [child EXCEPT
                   ![c].inbox = Tail(@),
                   ![c].out = Append(@, [id |-> r.id, from |-> r.from,
                                         what |-> r.what, ok |-> ok])]
    /\ UNCHANGED <<supervisor, client, pc, locals>>

Dies(c) ==
    /\ Running(c)
    /\ Fault
    /\ child' = [child EXCEPT ![c].state = "died"]
    /\ UNCHANGED <<supervisor, client, pc, locals>>

Engine ==
    \E c \in 1 .. Len(child) :
        \/ Serves(c, TRUE) /\ UNCHANGED faults
        \/ Serves(c, FALSE) /\ Fault
        \/ Dies(c)

-----------------------------------------------------------------------------
Thread(t) ==
    \/ Begin(t) \/ Enter(t) \/ Schema(t) \/ GiveUp(t) \/ Look(t)
    \/ Take(t) \/ Poll(t) \/ Send(t) \/ Receive(t) \/ Eof(t) \/ TimeOut(t)
    \/ Spawn(t) \/ Popen(t) \/ Install(t) \/ Recheck(t) \/ Condemn(t)
    \/ Notify(t) \/ Spawned(t) \/ Respawn(t) \/ Kill(t)
    \/ Close(t) \/ CloseRead(t) \/ CloseClear(t) \/ Terminate(t)

Stop == StopBegin \/ StopEnd

Next == (\E t \in Threads : Thread(t)) \/ Stop \/ Engine

Spec == Init /\ [][Next]_vars

\* Threads are scheduled, and no lock is taken more than a few times; nothing
\* is assumed of the child.
FairSpec ==
    Spec /\ WF_vars(Stop) /\ \A t \in Threads : WF_vars(Thread(t))

-----------------------------------------------------------------------------
Requests == [id : Nat, from : Threads, what : {"hello", "tools", "call"}]
Lines == [id : Nat, from : Threads, what : {"hello", "tools", "call"},
          ok : BOOLEAN]
Process == [state : {"running", "died", "killed"}, inbox : Seq(Requests),
            out : Seq(Lines)]
Procs == 0 .. Len(child)

PCs == {"idle", "enter", "schema", "giveup", "look", "take", "poll", "hello",
        "send", "greeted", "read", "spawn", "popen", "install", "recheck",
        "condemn", "notify", "spawned", "respawn", "kill", "close", "closing",
        "clear", "terminate", "stop", "done"}

FlagsType ==
    /\ ready \in BOOLEAN /\ stopped \in BOOLEAN /\ available \in BOOLEAN
    /\ closed \in BOOLEAN

ClientType ==
    /\ supLock \in Threads \cup {None} /\ lock \in Threads \cup {None}
    /\ proc \in Procs /\ queue \in Procs /\ lastId \in Nat
    /\ faults \in 0 .. MaxFaults

ThreadsType ==
    /\ pc \in [Threads -> PCs]
    /\ task \in [Threads -> {"start", "tools", "call"}]
    /\ attempt \in [Threads -> {1, 2}]
    /\ mine \in [Threads -> Procs]
    /\ asked \in [Threads -> 0 .. lastId]
    /\ outcome \in [Threads -> {"none", "unavailable", "answer", "error",
                                "timeout", "broken"}]
    /\ reply \in [Threads -> [from : Threads \cup {None},
                              what : {"none", "hello", "tools", "call"}]]

TypeOK == child \in Seq(Process) /\ FlagsType /\ ClientType /\ ThreadsType

ClosingAt == {"closing", "clear", "terminate"}

\* No process outlives the client: once it is closed, and what closes it has
\* terminated the child it found, a process still runs only in the hands of a
\* thread that is about to look at `closed`, or about to kill it.
NoOrphan ==
    closed /\ (\A t \in Threads : pc[t] \notin ClosingAt) =>
        \A c \in 1 .. Len(child) : Running(c) =>
            \E t \in Threads :
                mine[t] = c /\ pc[t] \in {"install", "recheck", "condemn",
                                          "kill"}

\* "this must NOT trigger a kill+retry, which would destroy in-flight work"
\* (CbmTimeoutError): a child that still owes an answer is killed only by the
\* end of the client.
SparesWorkInFlight ==
    [][\A c \in 1 .. Len(child) :
          child[c].state = "running" /\ child'[c].state = "killed" =>
              closed \/ child[c].inbox = <<>>]_vars

\* A caller is answered what it asked, whatever earlier callers have left in
\* the pipe when they gave up waiting.
AnswersAreOwn ==
    \A t \in Callers : outcome[t] = "answer" =>
        reply[t] = [from |-> t, what |-> "call"]

\* "Transparently respawns a dead child once": no caller of an open client
\* sees an error for a single death, refusal or failed start of a child.
OneFaultIsHidden ==
    \A t \in Callers : outcome[t] = "error" => closed \/ faults >= 2

OutcomesAreTrue == AnswersAreOwn /\ OneFaultIsHidden

\* Every call and the stop come to an end, even if the child never says a word.
EveryCallEnds == \A t \in Threads : pc[t] # "idle" ~> pc[t] = "done"
-----------------------------------------------------------------------------
(* The inductive invariant behind NoOrphan, SparesWorkInFlight and            *)
(* AnswersAreOwn.                                                             *)

\* Between taking the lock and the end of the with block.
Locked == {"poll", "hello", "send", "greeted", "read", "spawn", "popen",
           "install", "recheck", "condemn", "notify", "spawned", "respawn",
           "kill"}

\* The handshake with a child that has its queue.
Greeting == {"hello", "greeted", "notify", "spawned"}

Placed ==
    \A t \in Threads :
        /\ pc[t] \in Locked => lock = t
        /\ pc[t] \in {"send", "read"} => task[t] # "start"
        /\ pc[t] \in {"install", "recheck", "condemn"} \cup Greeting =>
              mine[t] # 0
        /\ pc[t] \in Greeting \cup {"send", "read"} => queue # 0
        /\ pc[t] \in ClosingAt \cup {"condemn"} => closed

\* A child is the client's, or in the hands of a thread that will kill it or
\* look at `closed`.
Keeping == {"install", "recheck", "condemn", "kill", "clear", "terminate"}

EveryChildIsKept ==
    \A c \in 1 .. Len(child) : Running(c) =>
        c = proc \/ \E t \in Threads : mine[t] = c /\ pc[t] \in Keeping

\* Where proc may be overwritten it names nothing that runs; after that it is
\* what the thread has installed, until a close clears it.
IdleProc(t) ==
    /\ pc[t] \in {"spawn", "popen", "install"} => ~Running(proc)
    /\ pc[t] = "kill" => proc = 0

HeldProc(t) ==
    /\ pc[t] = "recheck" => proc \in {0, mine[t]}
    /\ pc[t] \in {"recheck"} \cup Greeting /\ ~closed => proc = mine[t]

Rechecked(c) == \E t \in Threads : pc[t] = "recheck" /\ mine[t] = c

ProcIsQueued == proc # 0 => queue # 0 \/ Rechecked(proc)

\* A closed client's child is about to be cleared or taken back.
ProcIsDoomed ==
    /\ closed /\ proc # 0 =>
          Rechecked(proc) \/ \E t \in Threads : pc[t] \in {"closing", "clear"}
    /\ \A t \in Threads :
          pc[t] = "clear" => proc \in {0, mine[t]} \/ Rechecked(proc)

ProcIsKnown ==
    /\ \A t \in Threads : IdleProc(t) /\ HeldProc(t)
    /\ ProcIsQueued /\ ProcIsDoomed

\* Who waits is the last to have asked, and the child serves in order.
Orderly(requests, lines, last) ==
    /\ \A i \in 1 .. Len(requests) :
          /\ requests[i].id <= last
          /\ \A j \in 1 .. Len(requests) :
                i < j => requests[i].id < requests[j].id
          /\ \A k \in 1 .. Len(lines) : lines[k].id < requests[i].id
    /\ \A k \in 1 .. Len(lines) : lines[k].id <= last

InOrder ==
    /\ \A t \in Threads : Waiting(t) => asked[t] = lastId
    /\ \A c \in 1 .. Len(child) : Orderly(child[c].inbox, child[c].out, lastId)

\* What bears the id a thread waits for is its own.
Bearing(s, id, t, what) ==
    \A i \in 1 .. Len(s) :
        s[i].id = id => s[i].from = t /\ s[i].what = what

Meant(t) == IF pc[t] = "greeted" THEN "hello" ELSE task[t]

OwnId ==
    \A t \in Threads, c \in 1 .. Len(child) : Waiting(t) =>
        /\ Bearing(child[c].inbox, asked[t], t, Meant(t))
        /\ Bearing(child[c].out, asked[t], t, Meant(t))

\* While the client is open the child that is read is the one that is written
\* to, and a child on its way out owes nothing.
Owing(c) == Running(c) /\ child[c].inbox # <<>>

ReadsProc == proc # 0 => proc = queue \/ Rechecked(proc)

SparesProc(t) ==
    /\ pc[t] \in {"send", "read"} => proc # 0
    /\ pc[t] = "respawn" => ~Owing(proc)
    /\ pc[t] = "kill" => ~Owing(mine[t])

ReadsItsOwn == ~closed => ReadsProc /\ \A t \in Threads : SparesProc(t)

ClientInv == TypeOK /\ Placed /\ EveryChildIsKept /\ ProcIsKnown
WireInv == InOrder /\ OwnId /\ ReadsItsOwn /\ AnswersAreOwn
EngineInv == ClientInv /\ WireInv

(* And behind OneFaultIsHidden: what is still to be seen of the faults.       *)

\* A refusal nobody has read, or a death.
Refused(c) == \E i \in 1 .. Len(child[c].out) : ~child[c].out[i].ok
Faulty(c) == child[c].state = "died" \/ Refused(c)

FaultsAreCounted == \A c \in 1 .. Len(child) : Faulty(c) => faults >= 1

\* An open client has killed neither its child nor the next one.
Fresher == {"install", "recheck"} \cup Greeting

NotKilled ==
    ~closed =>
        /\ proc # 0 => child[proc].state # "killed"
        /\ \A t \in Threads :
              pc[t] \in Fresher => child[mine[t]].state # "killed"

\* It has a child once it is in use, or has lost one.
ProcIsThere ==
    ~closed /\ proc = 0 =>
        \/ faults >= 1
        \/ /\ ~available
           /\ \A t \in Threads :
                 pc[t] # "schema" /\ (pc[t] = "take" => task[t] = "start")

\* A call starts another child for a fault, and a fault of that child is one
\* more.
Starting == {"respawn", "kill", "spawn", "popen"} \cup Fresher
Repeated(t) == pc[t] \in {"send", "read"} /\ attempt[t] = 2
Another(t, c) ==
    \/ pc[t] \in Fresher /\ c = mine[t]
    \/ Repeated(t) /\ c = proc

CountsTwo(t) ==
    /\ pc[t] \in Starting \/ Repeated(t) => faults >= 1
    /\ \A c \in 1 .. Len(child) : Another(t, c) /\ Faulty(c) => faults >= 2

SecondsCost == ~closed => \A t \in Threads : task[t] = "call" => CountsTwo(t)

\* attempt is of the call under way.
AttemptFits(t) ==
    /\ attempt[t] = 2 =>
          /\ task[t] = "call"
          /\ pc[t] \in (Locked \ {"poll"}) \cup {"done"}
    /\ pc[t] \in {"respawn", "kill"} => attempt[t] = 2

AttemptsFit == \A t \in Threads : AttemptFits(t)

FaultInv ==
    /\ FaultsAreCounted /\ NotKilled /\ ProcIsThere /\ SecondsCost
    /\ AttemptsFit /\ OneFaultIsHidden
=============================================================================
