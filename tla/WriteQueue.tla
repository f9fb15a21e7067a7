----------------------------- MODULE WriteQueue -----------------------------
(***************************************************************************)
(* The serialized write queue of a process: core/write_queue.py behind the *)
(* facade in core/memory.py that makes, starts, stops and forgets it.      *)
(*                                                                         *)
(* Everything runs on one asyncio event loop, so the model is the loop:    *)
(* `ready` is its queue of tasks due to run, a step runs the task at its   *)
(* head until it suspends, and the order in which tasks were made ready is *)
(* the order in which they run. What comes from outside is a new call, a   *)
(* caller that gives up, the shutdown, and the end of a write that waits   *)
(* for a thread. A request in Instant never suspends (no embedding to      *)
(* compute): it is served between two awaits of the worker.                *)
(*                                                                         *)
(* The definitions named Slip... are plausible slips of the code, each of  *)
(* which breaks one of the properties.                                     *)
(***************************************************************************)
EXTENDS Naturals, Sequences, SequencesExt

CONSTANTS
    Callers,    \* one per call of the queue, each with one request
    Instant,    \* the requests served without suspending the worker
    Starters,   \* the callers that call start_write_queue first (console_*)
    Leavers,    \* the callers that may be cancelled while they wait
    Stopper,    \* the task of stop_write_queue
    NoOne,
    MaxSize     \* MAX_QUEUE_SIZE

\* A process shuts down once, so there is a queue before that and at most one
\* after it.
Queues == {1, 2}

ASSUME QueueAssumption ==
    /\ Instant \subseteq Callers /\ Starters \subseteq Callers
    /\ Leavers \subseteq Callers
    /\ Callers \cap Queues = {}
    /\ Stopper \notin Callers \cup Queues /\ NoOne \notin Callers
    /\ MaxSize \in Nat \ {0}

VARIABLES
    ready,      \* the event loop: callers, queues (their workers), Stopper
    current,    \* memory._write_queue, 0 for None
    made,       \* how many queues there have been
    items,      \* asyncio.Queue: what is queued
    putters,    \* asyncio.Queue: callers waiting for a free slot
    unfinished, \* asyncio.Queue: put and not yet task_done
    stopping,   \* _stopping
    worker,     \* _worker_task
    doomed,     \* the worker was cancelled and has not heard of it
    serving,    \* the request the worker awaits
    pc,         \* a caller
    home,       \* the queue a caller called, 0 before
    stop,       \* stop_write_queue
    early       \* the callers that waited when the stop began

queue == <<items, putters, unfinished>>
queueVars == <<ready, current, made, queue, stopping, worker, doomed, serving,
               pc, home, stop, early>>

Waiting == {"blocked", "woken", "waiting"}

QueueInit ==
    /\ ready = <<>> /\ current = 0 /\ made = 0
    /\ items = [q \in Queues |-> <<>>] /\ putters = [q \in Queues |-> <<>>]
    /\ unfinished = [q \in Queues |-> 0]
    /\ stopping = [q \in Queues |-> FALSE]
    /\ worker = [q \in Queues |-> "none"]
    /\ doomed = [q \in Queues |-> FALSE]
    /\ serving = [q \in Queues |-> NoOne]
    /\ pc = [c \in Callers |-> "out"] /\ home = [c \in Callers |-> 0]
    /\ stop = "off" /\ early = {}

Running(t) == ready # <<>> /\ Head(ready) = t

-----------------------------------------------------------------------------
(* asyncio.Queue *)

\* One slot too many.
SlipFull(q) == Len(items[q]) > MaxSize

Full(q) == Len(items[q]) >= MaxSize

\* put_nowait: a worker asleep in get is made ready.
PutNowait(c, q) ==
    /\ items' = [items EXCEPT ![q] = Append(@, c)]
    /\ unfinished' = [unfinished EXCEPT ![q] = @ + 1]
    /\ pc' = [pc EXCEPT ![c] = "waiting"]
    /\ UNCHANGED putters

Block(c, q) ==
    /\ putters' = [putters EXCEPT ![q] = Append(@, c)]
    /\ pc' = [pc EXCEPT ![c] = "blocked"]
    /\ UNCHANGED <<items, unfinished>>

\* The worker of q is in get and the queue is about to have an item.
Wakes(q) == IF worker[q] = "getting" THEN <<q>> ELSE <<>>
Woken(q) == IF worker[q] = "getting" THEN "ready" ELSE worker[q]

\* The putters that a free slot of q wakes: the first one.
Next1(q) == IF putters[q] = <<>> THEN <<>> ELSE <<Head(putters[q])>>
WakeFirst(q) ==
    putters' = [putters EXCEPT ![q] = IF @ = <<>> THEN @ ELSE Tail(@)]

-----------------------------------------------------------------------------
(* put and put_callable *)

Call(c) ==
    /\ pc[c] = "out"
    /\ pc' = [pc EXCEPT ![c] = "called"]
    /\ ready' = Append(ready, c)
    /\ UNCHANGED <<current, made, queue, stopping, worker, doomed, serving,
                   home, stop, early>>

\* A task is only replaced, never made in the first place.
SlipNeedsWorker(q) == worker[q] = "dead"

\* WriteQueue.start has something to do.
NeedsWorker(q) == worker[q] \in {"none", "dead"}

\* A call runs to its first suspension: the facade makes a queue when there is
\* none and starts it (a Starter always starts it), and put refuses, waits for
\* a slot or takes one.
RunCall(c) ==
    LET q == IF current = 0 THEN made + 1 ELSE current
        starts == (current = 0 \/ c \in Starters) /\ NeedsWorker(q)
        stops == stopping[q] /\ ~starts
        taken == ~stops /\ ~Full(q)
    IN
    /\ Running(c) /\ pc[c] = "called"
    /\ current' = q
    /\ made' = IF q > made THEN q ELSE made
    /\ home' = [home EXCEPT ![c] = q]
    /\ stopping' = [stopping EXCEPT ![q] = stops]
    /\ doomed' = [doomed EXCEPT ![q] = @ /\ ~starts]
    /\ IF stops THEN pc' = [pc EXCEPT ![c] = "refused"] /\ UNCHANGED queue
       ELSE IF Full(q) THEN Block(c, q)
       ELSE PutNowait(c, q)
    /\ worker' = [worker EXCEPT ![q] = CASE starts -> "ready"
                                         [] taken /\ ~starts -> Woken(q)
                                         [] OTHER -> @]
    /\ ready' = Tail(ready) \o (CASE starts -> <<q>>
                                  [] taken /\ ~starts -> Wakes(q)
                                  [] OTHER -> <<>>)
    /\ UNCHANGED <<serving, stop, early>>

\* A blocked put goes on; it does not look at _stopping again. The slot that
\* woke it may be gone, and then it goes to the end of the line.
RunPut(c) ==
    LET q == home[c] IN
    /\ Running(c) /\ pc[c] = "woken"
    /\ IF Full(q) THEN Block(c, q) ELSE PutNowait(c, q)
    /\ worker' = [worker EXCEPT ![q] = IF Full(q) THEN @ ELSE Woken(q)]
    /\ ready' = Tail(ready) \o (IF Full(q) THEN <<>> ELSE Wakes(q))
    /\ UNCHANGED <<current, made, stopping, doomed, serving, home, stop, early>>

\* A caller is cancelled (its client went away): its request stays queued, its
\* place in the line goes, and a wake-up it no longer needs is passed on.
CallerLeaves(c) ==
    /\ c \in Leavers
    /\ pc[c] \in Waiting
    /\ pc' = [pc EXCEPT ![c] = IF @ = "woken" THEN "leaving" ELSE "gone"]
    /\ IF pc[c] = "blocked"
         THEN \E i \in 1 .. Len(putters[home[c]]) :
                 /\ putters[home[c]][i] = c
                 /\ putters' = [putters EXCEPT ![home[c]] = RemoveAt(@, i)]
         ELSE UNCHANGED putters
    /\ UNCHANGED <<ready, current, made, items, unfinished, stopping, worker,
                   doomed, serving, home, stop, early>>

RunLeave(c) ==
    LET q == home[c]
        passed == IF Full(q) THEN <<>> ELSE Next1(q)
    IN
    /\ Running(c) /\ pc[c] = "leaving"
    /\ pc' = [d \in Callers |-> CASE d = c -> "gone"
                                  [] d \in ToSet(passed) -> "woken"
                                  [] OTHER -> pc[d]]
    /\ IF Full(q) THEN UNCHANGED putters ELSE WakeFirst(q)
    /\ ready' = Tail(ready) \o passed
    /\ UNCHANGED <<current, made, items, unfinished, stopping, worker, doomed,
                   serving, home, stop, early>>

-----------------------------------------------------------------------------
(* _worker *)

\* task_done only when there is somebody to answer.
SlipDone(q, c) ==
    unfinished' = [unfinished EXCEPT ![q] = IF pc[c] = "gone" THEN @ ELSE @ - 1]

\* task_done, whatever became of the request.
Done(q, c) == unfinished' = [unfinished EXCEPT ![q] = @ - 1]

\* The future is resolved or rejected, unless its caller has left.
Answered(c) == IF pc[c] = "waiting" THEN "answered" ELSE pc[c]

\* join is let go when the last request is done.
Joins(q) == IF stop = "joining" /\ current = q /\ unfinished[q] = 1
              THEN <<Stopper>> ELSE <<>>

\* The cancellation arrives, and whoever waits for the end of the worker goes
\* on. What is in the queue stays there.
WorkerDies(q) ==
    /\ doomed[q]
    /\ worker' = [worker EXCEPT ![q] = "dead"]
    /\ ready' = Append(Tail(ready), Stopper)
    /\ UNCHANGED <<queue, serving, pc>>

WorkerSleeps(q) ==
    /\ ~doomed[q] /\ worker[q] = "ready"
    /\ items[q] = <<>>
    /\ worker' = [worker EXCEPT ![q] = "getting"]
    /\ ready' = Tail(ready)
    /\ UNCHANGED <<queue, serving, pc>>

\* get_nowait frees a slot and wakes the first putter. A request that suspends
\* gives the loop back; an Instant one is served and done before anyone runs.
WorkerTakes(q) ==
    LET c == Head(items[q])
        woken == Next1(q)
        Awakes(f) == [d \in Callers |->
                        IF d \in ToSet(woken) THEN "woken" ELSE f[d]]
    IN
    /\ ~doomed[q] /\ worker[q] = "ready"
    /\ items[q] # <<>>
    /\ items' = [items EXCEPT ![q] = Tail(@)]
    /\ WakeFirst(q)
    /\ IF c \in Instant
         THEN /\ pc' = Awakes([pc EXCEPT ![c] = Answered(c)])
              /\ Done(q, c)
              /\ ready' = ready \o woken \o Joins(q)
              /\ UNCHANGED <<worker, serving>>
         ELSE /\ pc' = Awakes(pc)
              /\ worker' = [worker EXCEPT ![q] = "busy"]
              /\ serving' = [serving EXCEPT ![q] = c]
              /\ ready' = Tail(ready) \o woken
              /\ UNCHANGED unfinished

\* The write is done or has failed; the worker goes on to the next request.
WorkerAnswers(q) ==
    LET c == serving[q] IN
    /\ ~doomed[q] /\ worker[q] = "resuming"
    /\ pc' = [pc EXCEPT ![c] = Answered(c)]
    /\ Done(q, c)
    /\ ready' = ready \o Joins(q)
    /\ worker' = [worker EXCEPT ![q] = "ready"]
    /\ serving' = [serving EXCEPT ![q] = NoOne]
    /\ UNCHANGED <<items, putters>>

RunWorker(q) ==
    /\ Running(q)
    /\ WorkerDies(q) \/ WorkerSleeps(q) \/ WorkerTakes(q) \/ WorkerAnswers(q)
    /\ UNCHANGED <<current, made, stopping, doomed, home, stop, early>>

\* The thread the worker waits for has an answer.
Complete(q) ==
    /\ worker[q] = "busy"
    /\ worker' = [worker EXCEPT ![q] = "resuming"]
    /\ ready' = Append(ready, q)
    /\ UNCHANGED <<current, made, queue, stopping, doomed, serving, pc, home,
                   stop, early>>

-----------------------------------------------------------------------------
(* stop_write_queue and WriteQueue.stop *)

Shutdown ==
    /\ stop = "off"
    /\ stop' = "called"
    /\ ready' = Append(ready, Stopper)
    /\ UNCHANGED <<current, made, queue, stopping, worker, doomed, serving, pc,
                   home, early>>

NothingToStop ==
    /\ stop = "called" /\ current = 0
    /\ stop' = "done"
    /\ ready' = Tail(ready)
    /\ UNCHANGED <<current, stopping, worker, doomed, early>>

\* Is there anything to wait for: only what is queued, not what is served.
SlipUndone(q) == Len(items[q])

Undone(q) == unfinished[q]

BeginStop ==
    /\ stop = "called" /\ current # 0
    /\ stopping' = [stopping EXCEPT ![current] = TRUE]
    /\ early' = {c \in Callers : pc[c] \in Waiting}
    /\ stop' = "joining"
    /\ ready' = IF Undone(current) > 0 THEN Tail(ready) ELSE ready
    /\ UNCHANGED <<current, worker, doomed>>

\* join returned, and does not look again: cancel the worker and wait for it.
CancelWorker ==
    /\ stop = "joining"
    /\ doomed' = [doomed EXCEPT ![current] = TRUE]
    /\ worker' = [worker EXCEPT ![current] = Woken(current)]
    /\ ready' = Tail(ready) \o Wakes(current)
    /\ stop' = "unwinding"
    /\ UNCHANGED <<current, stopping, early>>

\* The facade forgets the queue.
EndStop ==
    /\ stop = "unwinding"
    /\ current' = 0
    /\ stop' = "done"
    /\ ready' = Tail(ready)
    /\ UNCHANGED <<stopping, worker, doomed, early>>

RunStop ==
    /\ Running(Stopper)
    /\ NothingToStop \/ BeginStop \/ CancelWorker \/ EndStop
    /\ UNCHANGED <<made, queue, serving, pc, home>>

-----------------------------------------------------------------------------
Loop ==
    \/ \E c \in Callers : RunCall(c) \/ RunPut(c) \/ RunLeave(c)
    \/ \E q \in Queues : RunWorker(q)
    \/ RunStop

QueueNext ==
    \/ Loop
    \/ \E c \in Callers : Call(c) \/ CallerLeaves(c)
    \/ \E q \in Queues : Complete(q)
    \/ Shutdown

QueueSpec == QueueInit /\ [][QueueNext]_queueVars

\* The loop runs what is ready, and the thread of a write ends.
Fairness == WF_queueVars(Loop) /\ \A q \in Queues : WF_queueVars(Complete(q))

FairSpec == QueueSpec /\ Fairness

-----------------------------------------------------------------------------
QueueTypeOK ==
    /\ ready \in Seq(Callers \cup Queues \cup {Stopper})
    /\ current \in {0} \cup Queues /\ made \in {0} \cup Queues
    /\ items \in [Queues -> Seq(Callers)]
    /\ putters \in [Queues -> Seq(Callers)]
    /\ unfinished \in [Queues -> Nat]
    /\ stopping \in [Queues -> BOOLEAN] /\ doomed \in [Queues -> BOOLEAN]
    /\ worker \in [Queues -> {"none", "ready", "getting", "busy", "resuming",
                               "dead"}]
    /\ serving \in [Queues -> Callers \cup {NoOne}]
    /\ pc \in [Callers -> Waiting \cup {"out", "called", "answered", "refused",
                                        "leaving", "gone"}]
    /\ home \in [Callers -> {0} \cup Queues]
    /\ stop \in {"off", "called", "joining", "unwinding", "done"}
    /\ early \subseteq Callers
    /\ \A q \in Queues : Len(items[q]) <= MaxSize

\* Nothing is done twice or never: join counts exactly the requests queued and
\* the one being served, so a stop waits for as long as it has to and a caller
\* who left does not keep it waiting for ever.
JoinCountsWhatIsOwed ==
    \A q \in Queues :
        unfinished[q] = Len(items[q]) + (IF serving[q] = NoOne THEN 0 ELSE 1)

\* A stop never cancels the worker in the middle of a write, which would leave
\* its caller without an answer and the write in an unknown state.
NeverCutsAWrite ==
    \A q \in Queues : doomed[q] /\ worker[q] # "dead" => serving[q] = NoOne

\* "Drain and stop the serialized write queue" (memory.stop_write_queue): who
\* waited when the stop began has been answered when it is over, a caller
\* blocked on a full queue included.
StopDrains ==
    stop = "done" => \A c \in early : pc[c] \notin Waiting

\* No request was served without a suspension of the worker and no caller has
\* left the line, so every wake-up of a putter came a turn of the loop before
\* the end of what was being served.
Steady ==
    /\ \A c \in Instant : pc[c] = "out"
    /\ \A c \in Callers : pc[c] \notin {"leaving", "gone"}

\* As long as that is so, the stop keeps its promise, blocked callers included:
\* join cannot return between the wake-up of a putter and its put.
SteadyStopDrains == Steady => StopDrains

\* A stop is clean: it waits for what is owed and no longer, cuts no write and
\* leaves nobody waiting.
StopIsClean == JoinCountsWhatIsOwed /\ NeverCutsAWrite /\ SteadyStopDrains

\* Every call ends: it is answered or refused, whatever fills the queue, leaves
\* the line or overtakes it there, and whatever is refused, made anew or drained
\* in a shutdown meanwhile. Only a stop that is not Steady may leave it waiting.
EveryCallEnds ==
    \A c \in Callers :
        pc[c] = "called" ~> \/ pc[c] \in {"answered", "refused", "gone"}
                            \/ stop = "done" /\ ~Steady
-----------------------------------------------------------------------------
(* The inductive invariant behind QueueTypeOK and StopIsClean.               *)

Scheduled(t) == \E i \in 1 .. Len(ready) : ready[i] = t

\* There is one queue until a stop has ended, and another one at most.
MadeInv ==
    /\ current \in {0, made}
    /\ stop # "done" => made <= 1
    /\ current = 0 => made <= 1 /\ (made = 0 \/ stop = "done")
    /\ stop \in {"joining", "unwinding"} => current = 1
    /\ \A q \in Queues : worker[q] = "none" <=> q > made

\* A worker has a request in hand while it is busy, and ends when the stop has
\* told it.
WorkerInv ==
    \A q \in Queues :
        /\ serving[q] # NoOne <=> worker[q] \in {"busy", "resuming"}
        /\ worker[q] = "dead" => doomed[q]
        /\ doomed[q] => stop \in {"unwinding", "done"} /\ worker[q] # "none"

Once(t) == \A i, j \in 1 .. Len(ready) :
    ready[i] = t /\ ready[j] = t => i = j

\* A worker is due to run at most once, and the stop until it has begun.
ReadyInv ==
    /\ \A q \in Queues :
          Once(q) /\ (Scheduled(q) => worker[q] \in {"ready", "resuming"})
    /\ stop = "off" => ~Scheduled(Stopper)
    /\ stop = "called" => Once(Stopper)

\* Once join has let go, the worker does not begin another request before the
\* stop goes on.
LetGoInv ==
    stop = "joining" => \A j \in 1 .. Len(ready) : ready[j] = Stopper =>
        /\ serving[current] = NoOne
        /\ \A i \in 1 .. j - 1 : ready[i] = current =>
              i = 1 /\ worker[current] = "ready" /\ items[current] = <<>>

\* Whoever has a request in the queue has called it.
CalledInv ==
    /\ \A q \in Queues :
          /\ \A i \in 1 .. Len(items[q]) : pc[items[q][i]] # "out"
          /\ serving[q] # NoOne => pc[serving[q]] # "out"
          /\ \A i \in 1 .. Len(putters[q]) :
                pc[putters[q][i]] \notin {"out", "called"}
    /\ \A c \in early : pc[c] \notin {"out", "called"}
    /\ \A c \in Callers :
          pc[c] \notin {"out", "called"} => home[c] \in 1 .. made

\* The line is that of the blocked callers.
InLine(c, q) == \E i \in 1 .. Len(putters[q]) : putters[q][i] = c

LineInv ==
    /\ \A q \in Queues : \A i, j \in 1 .. Len(putters[q]) :
          /\ pc[putters[q][i]] = "blocked" /\ home[putters[q][i]] = q
          /\ putters[q][i] = putters[q][j] => i = j
    /\ \A c \in Callers : pc[c] = "blocked" => InLine(c, home[c])

\* An accepted request waits for its turn or has it.
AcceptedInv ==
    \A c \in Callers : pc[c] = "waiting" =>
        \/ \E i \in 1 .. Len(items[home[c]]) : items[home[c]][i] = c
        \/ serving[home[c]] = c

\* A putter that was woken runs before its queue's worker does, and no two of
\* a queue are awake.
Awake(c, q) == pc[c] = "woken" /\ home[c] = q

GoesFirst(c, q) ==
    /\ worker[q] \in {"busy", "resuming"}
    /\ \E i \in 1 .. Len(ready) :
          /\ ready[i] = c
          /\ \A j \in 1 .. Len(ready) : ready[j] = q => i < j
    /\ Len(items[q]) + 1 >= MaxSize
    /\ \A d \in Callers : Awake(d, q) => d = c

WokenInv ==
    \A q \in Queues : \A c \in Callers : Awake(c, q) => GoesFirst(c, q)

\* The line waits for a slot, or its first is on its way to one.
LineWaits ==
    \A q \in Queues : putters[q] # <<>> =>
        Full(q) \/ \E c \in Callers : Awake(c, q)

\* From the moment join lets go, nobody waits who did when the stop began.
Drained ==
    /\ stop \in {"off", "called"} => early = {}
    /\ \/ stop \in {"unwinding", "done"}
       \/ stop = "joining" /\ Scheduled(Stopper)
       => \A c \in early : pc[c] \notin Waiting

SteadyInv ==
    Steady => AcceptedInv /\ WokenInv /\ LineWaits /\ Drained

StopInv ==
    /\ QueueTypeOK /\ JoinCountsWhatIsOwed /\ NeverCutsAWrite
    /\ MadeInv /\ WorkerInv /\ ReadyInv /\ LetGoInv /\ CalledInv
    /\ LineInv /\ SteadyInv
=============================================================================
