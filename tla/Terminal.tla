------------------------------ MODULE Terminal ------------------------------
(***************************************************************************)
(* The terminals of the console (console/terminal/): shells that outlive   *)
(* the web sockets they are shown on.  A session is a shell on a pseudo-   *)
(* terminal with a reader thread and a command thread; a client is one web *)
(* socket with its handler and its pump, two coroutines of the console's   *)
(* loop, and with what the handler has sent to a thread; the sweep kills   *)
(* sessions that nobody has come back to.                                  *)
(*                                                                         *)
(* A step is what runs between two points where another thread can make a  *)
(* difference: attach takes the target, then reads the scrollback, then    *)
(* replays it.  That _safe_emit reads the target before it calls it makes  *)
(* none: an event that is late for a client could have been early.  wire[c]*)
(* is what was put into the queue of client c, sent[c] how much of it the  *)
(* pump has sent; an output chunk is the shell that wrote it and a number. *)
(* Descriptors are external: a closed one is given to the next that opens. *)
(*                                                                         *)
(* Resizing, the codec of the output and the checks of a request are left  *)
(* out.  MaxOut bounds the chunks of a shell, MaxAsks the requests of all  *)
(* clients, MaxFaults the faults.  Slip... are plausible slips of the code.*)
(***************************************************************************)
EXTENDS Integers, Sequences, FiniteSets

CONSTANTS Sessions, Clients, Fds, Nil,
          Keep,       \* SCROLLBACK_BUFFER_LIMIT, in chunks
          MaxOut, MaxAsks, Faults, MaxFaults

ASSUME TerminalAssumption ==
    /\ Nil \notin Sessions \cup Clients \cup Fds
    /\ Keep \in Nat \ {0} /\ MaxOut \in Nat /\ MaxAsks \in Nat
    /\ MaxFaults \in Nat
    /\ Faults \subseteq {"torn", "hang", "wedge", "thread"}

VARIABLES
    shell,      \* the process on the terminal, and what it does to it
    wrote,      \* chunks it has written
    taken,      \* chunks that have been read of it
    fd,         \* the descriptor of the terminal
    open,       \* which terminal a descriptor is open on
    reader,     \* where _read_loop is
    chunk,      \* the chunk it has buffered and not yet emitted
    scroll,     \* _buffer
    cmds,       \* _commands
    cmd,        \* where _command_loop or _finish is
    finished,   \* _finished
    emit,       \* _emit, as the client it puts events into the queue of
    token,      \* _owner_token, as the client it was made for
    registry,   \* TerminalRegistry._sessions
    detached,   \* TerminalRegistry._detached_at
    doomed,     \* what the sweep has taken and not yet killed
    socket,     \* whether the web socket of a client is open
    stage,      \* where its handler is
    hand,       \* the session a thread of the handler is at work on
    mine,       \* its local variable `session`
    mark,       \* its local variable `owner_token`
    held,       \* the snapshot that its thread has taken
    wire, sent, pump,
    known,      \* sessions whose id a browser was sent
    condemned,  \* sessions that a client has asked to kill
    swept,      \* sessions the sweep has taken
    asks, faults,
    marks       \* what has happened that a promise does not cover

terminal == <<shell, wrote, taken, fd, open>>
commands == <<cmds, cmd, finished>>
threads == <<reader, chunk, scroll, commands>>
owner == <<emit, token>>
entries == <<registry, detached, doomed, swept>>
handler == <<socket, stage, hand, mine, mark, held>>
events == <<wire, sent, pump, known>>
bounds == <<asks, faults>>
terminalVars == <<terminal, threads, owner, entries, handler, events, condemned,
                  bounds, marks>>

Goto(c, there) == stage' = [stage EXCEPT ![c] = there]

Fault(f) ==
    /\ f \in Faults /\ faults < MaxFaults
    /\ faults' = faults + 1 /\ asks' = asks

Ask == asks < MaxAsks /\ asks' = asks + 1 /\ faults' = faults

If(happened, m) == IF happened THEN {m} ELSE {}
Mark(new) == marks' = marks \cup new

StatusEvent(s) == [type |-> "status", id |-> s, data |-> <<>>]
ExitEvent(s) == [type |-> "exit", id |-> s, data |-> <<>>]
DataEvent(s, chunks) == [type |-> "data", id |-> s, data |-> chunks]

\* _safe_emit: a session without a client drops its events, and so does a client
\* that is gone.
EmitTo(c, e) ==
    wire' = IF c = Nil \/ stage[c] = "gone" THEN wire
            ELSE [wire EXCEPT ![c] = Append(@, e)]
Emit(s, e) == EmitTo(emit[s], e)

\* TerminalSession.send: once a session is finished nobody reads its commands.
Send(s, what) ==
    cmds' = IF finished[s] THEN cmds ELSE [cmds EXCEPT ![s] = Append(@, what)]

TerminalInit ==
    /\ shell = [s \in Sessions |-> "none"]
    /\ wrote = [s \in Sessions |-> 0]
    /\ taken = [s \in Sessions |-> 0]
    /\ fd = [s \in Sessions |-> Nil]
    /\ open = [f \in Fds |-> Nil]
    /\ reader = [s \in Sessions |-> "off"]
    /\ chunk = [s \in Sessions |-> <<>>]
    /\ scroll = [s \in Sessions |-> <<>>]
    /\ cmds = [s \in Sessions |-> <<>>]
    /\ cmd = [s \in Sessions |-> "off"]
    /\ finished = [s \in Sessions |-> FALSE]
    /\ emit = [s \in Sessions |-> Nil]
    /\ token = [s \in Sessions |-> Nil]
    /\ registry = {} /\ detached = {} /\ doomed = {} /\ swept = {}
    /\ socket = [c \in Clients |-> "open"]
    /\ stage = [c \in Clients |-> "ready"]
    /\ hand = [c \in Clients |-> Nil]
    /\ mine = [c \in Clients |-> Nil]
    /\ mark = [c \in Clients |-> Nil]
    /\ held = [c \in Clients |-> <<>>]
    /\ wire = [c \in Clients |-> <<>>]
    /\ sent = [c \in Clients |-> 0]
    /\ pump = [c \in Clients |-> TRUE]
    /\ known = {} /\ condemned = {}
    /\ asks = 0 /\ faults = 0 /\ marks = {}

-----------------------------------------------------------------------------
(* The shell, which is external: it writes, reads what it is sent or does    *)
(* not, gives up its terminal, or exits.                                     *)

Up(s) == shell[s] \in {"up", "wedged", "hung"}

Output(s) ==
    /\ shell[s] \in {"up", "wedged"} /\ wrote[s] < MaxOut
    /\ wrote' = [wrote EXCEPT ![s] = @ + 1]
    /\ UNCHANGED <<shell, taken, fd, open, threads, owner, entries, handler, events,
                   condemned, bounds, marks>>

Become(s, state) ==
    /\ shell' = [shell EXCEPT ![s] = state]
    /\ UNCHANGED <<wrote, taken, fd, open, threads, owner, entries, handler, events,
                   condemned, marks>>

ShellExit(s) == Up(s) /\ Become(s, "down") /\ UNCHANGED bounds
Wedge(s) == shell[s] = "up" /\ Become(s, "wedged") /\ Fault("wedge")
HangUp(s) == shell[s] = "up" /\ Become(s, "hung") /\ Fault("hang")

-----------------------------------------------------------------------------
(* The reader thread.                                                        *)

\* What a read of the descriptor reads, which after a close may be another's.
Source(s) == open[fd[s]]
Ended(t) == shell[t] \in {"hung", "down"} /\ taken[t] = wrote[t]

Trimmed(q) == IF Len(q) > Keep THEN SubSeq(q, Len(q) - Keep + 1, Len(q)) ELSE q

\* A chunk is read and buffered.
Read(s) ==
    /\ reader[s] = "read" /\ Source(s) # Nil
    /\ LET t == Source(s)
           new == <<t, taken[t] + 1>> IN
       /\ taken[t] < wrote[t]
       /\ taken' = [taken EXCEPT ![t] = @ + 1]
       /\ chunk' = [chunk EXCEPT ![s] = <<new>>]
       /\ scroll' = [scroll EXCEPT ![s] = Trimmed(Append(@, new))]
       /\ Mark(If(t # s, "stolen"))
    /\ reader' = [reader EXCEPT ![s] = "kept"]
    /\ UNCHANGED <<shell, wrote, fd, open, commands, owner, entries, handler, events,
                   condemned, bounds>>

ReadEmit(s) ==
    /\ reader[s] = "kept"
    /\ Emit(s, DataEvent(s, chunk[s]))
    /\ chunk' = [chunk EXCEPT ![s] = <<>>]
    /\ reader' = [reader EXCEPT ![s] = "read"]
    /\ UNCHANGED <<terminal, scroll, commands, owner, entries, handler, sent, pump,
                   known, condemned, bounds, marks>>

\* As if the output ended with the shell, the rest of it unread.
SlipReadEnd(s) ==
    /\ reader[s] = "read"
    /\ Source(s) # Nil => shell[Source(s)] \in {"hung", "down"}
    /\ reader' = [reader EXCEPT ![s] = "end"]
    /\ UNCHANGED <<terminal, chunk, scroll, commands, owner, entries, handler, events,
                   condemned, bounds, marks>>

\* The end of the output; a closed descriptor is an error, and read as an end.
\* (A read that was blocked when its descriptor was closed ends all the same.)
ReadEnd(s) ==
    /\ reader[s] = "read"
    /\ Source(s) # Nil => (Ended(s) \/ Ended(Source(s)))
    /\ reader' = [reader EXCEPT ![s] = "end"]
    /\ UNCHANGED <<terminal, chunk, scroll, commands, owner, entries, handler, events,
                   condemned, bounds, marks>>

\* A read that ends inside a character decodes to nothing, which the loop takes
\* for the end.
ReadTorn(s) ==
    /\ reader[s] = "read" /\ Source(s) = s /\ taken[s] < wrote[s]
    /\ taken' = [taken EXCEPT ![s] = @ + 1]
    /\ reader' = [reader EXCEPT ![s] = "end"]
    /\ Fault("torn") /\ Mark({"torn"})
    /\ UNCHANGED <<shell, wrote, fd, open, chunk, scroll, commands, owner, entries,
                   handler, events, condemned>>

ReaderKill(s) ==
    /\ reader[s] = "end"
    /\ Send(s, "kill")
    /\ reader' = [reader EXCEPT ![s] = "over"]
    /\ UNCHANGED <<terminal, chunk, scroll, cmd, finished, owner, entries, handler,
                   events, condemned, bounds, marks>>

-----------------------------------------------------------------------------
(* The command thread, which waits for the process and finishes the session. *)

NextIs(s, what) == cmd[s] = "idle" /\ cmds[s] # <<>> /\ Head(cmds[s]) = what

\* A write blocks while the shell does not read; on a terminal that the shell
\* has left it may raise, and the loop ends without a kill.
DoWrite(s) ==
    /\ NextIs(s, "write") /\ shell[s] # "wedged"
    /\ cmds' = [cmds EXCEPT ![s] = Tail(@)]
    /\ \/ cmd' = cmd
       \/ shell[s] \in {"hung", "down"} /\ cmd' = [cmd EXCEPT ![s] = "wait"]
    /\ Mark(If(cmd' # cmd, "raised"))
    /\ UNCHANGED <<terminal, reader, chunk, scroll, finished, owner, entries, handler,
                   events, condemned, bounds>>

DoKill(s) ==
    /\ NextIs(s, "kill")
    /\ cmds' = [cmds EXCEPT ![s] = Tail(@)]
    /\ shell' = [shell EXCEPT ![s] = "down"]
    /\ cmd' = [cmd EXCEPT ![s] = "wait"]
    /\ UNCHANGED <<wrote, taken, fd, open, reader, chunk, scroll, finished, owner,
                   entries, handler, events, condemned, bounds, marks>>

\* wait returns; _finish sets the event and closes the descriptor.
Finish(s) ==
    /\ cmd[s] = "wait" /\ shell[s] = "down"
    /\ finished' = [finished EXCEPT ![s] = TRUE]
    /\ cmds' = [cmds EXCEPT ![s] = <<>>]
    /\ open' = [open EXCEPT ![fd[s]] = Nil]
    /\ cmd' = [cmd EXCEPT ![s] = "closed"]
    /\ UNCHANGED <<shell, wrote, taken, fd, reader, chunk, scroll, owner, entries,
                   handler, events, condemned, bounds, marks>>

ExitEmit(s) ==
    /\ cmd[s] = "closed"
    /\ Emit(s, ExitEvent(s))
    /\ cmd' = [cmd EXCEPT ![s] = "over"]
    /\ UNCHANGED <<terminal, reader, chunk, scroll, cmds, finished, owner, entries,
                   handler, sent, pump, known, condemned, bounds, marks>>

-----------------------------------------------------------------------------
(* A client: spawning.  The arguments of a spawn may be refused.             *)

Listening(c) == stage[c] = "ready" /\ socket[c] = "open"

\* A client has one session at a time; it may drop one that has finished and
\* is still to be removed.
Unbound(c) == mine[c] # Nil => finished[mine[c]]
Rebind(c, s) == mine' = [mine EXCEPT ![c] = s]

SpawnRefused(c) ==
    /\ Listening(c) /\ Unbound(c) /\ Ask
    /\ Rebind(c, Nil)
    /\ UNCHANGED <<terminal, threads, owner, entries, socket, stage, hand, mark, held,
                   events, condemned, marks>>

\* The shell runs and the session is registered before any of its threads.
Forked(c, s) ==
    /\ Listening(c) /\ Unbound(c)
    /\ shell[s] = "none"
    /\ \E f \in Fds :
          /\ open[f] = Nil
          /\ fd' = [fd EXCEPT ![s] = f]
          /\ open' = [open EXCEPT ![f] = s]
    /\ shell' = [shell EXCEPT ![s] = "up"]
    /\ emit' = [emit EXCEPT ![s] = c]
    /\ token' = [token EXCEPT ![s] = c]
    /\ registry' = registry \cup {s}
    /\ UNCHANGED <<wrote, taken, chunk, scroll, cmds, finished, detached, doomed, swept,
                   socket, mark, held, events, condemned>>

Spawn(c, s) ==
    /\ Forked(c, s) /\ Ask
    /\ reader' = [reader EXCEPT ![s] = "read"]
    /\ cmd' = [cmd EXCEPT ![s] = "idle"]
    /\ hand' = [hand EXCEPT ![c] = s]
    /\ Goto(c, "announce")
    /\ UNCHANGED <<mine, marks>>

\* A thread that cannot be started is a RuntimeError, told as a failed spawn.
SpawnFails(c, s) ==
    /\ Forked(c, s) /\ Fault("thread")
    /\ \E at \in {"off", "read"} : reader' = [reader EXCEPT ![s] = at]
    /\ Rebind(c, Nil)
    /\ UNCHANGED <<cmd, hand, stage, marks>>

Announce(c) ==
    /\ stage[c] = "announce"
    /\ Emit(hand[c], StatusEvent(hand[c]))
    /\ Goto(c, "spawned")
    /\ UNCHANGED <<terminal, threads, owner, entries, socket, hand, mine, mark, held,
                   sent, pump, known, condemned, bounds, marks>>

\* The coroutine asks the session whose it is only now.
Spawned(c) ==
    /\ stage[c] = "spawned"
    /\ Rebind(c, hand[c])
    /\ mark' = [mark EXCEPT ![c] = token[hand[c]]]
    /\ hand' = [hand EXCEPT ![c] = Nil]
    /\ Goto(c, "ready")
    /\ Mark(If(token[hand[c]] # c, "borrowed"))
    /\ UNCHANGED <<terminal, threads, owner, entries, socket, held, events, condemned,
                   bounds>>

-----------------------------------------------------------------------------
(* A client: attaching.                                                      *)

\* registry.get, in a thread.
Look(c, s) ==
    /\ Listening(c) /\ Unbound(c) /\ s \in known \cap registry /\ Ask
    /\ hand' = [hand EXCEPT ![c] = s]
    /\ Goto(c, "found")
    /\ UNCHANGED <<terminal, threads, owner, entries, socket, mine, mark, held, events,
                   condemned, marks>>

Found(c) ==
    /\ stage[c] = "found"
    /\ IF finished[hand[c]]
       THEN /\ Goto(c, "ready")
            /\ hand' = [hand EXCEPT ![c] = Nil]
            /\ mine' = mine
       ELSE /\ Goto(c, "attach")
            /\ Rebind(c, hand[c])
            /\ hand' = hand
    /\ UNCHANGED <<terminal, threads, owner, entries, socket, mark, held, events,
                   condemned, bounds, marks>>

\* As if attaching did not replay.
SlipTakeOver(c) ==
    /\ stage[c] = "attach"
    /\ emit' = [emit EXCEPT ![hand[c]] = c]
    /\ token' = [token EXCEPT ![hand[c]] = c]
    /\ Goto(c, "attached")
    /\ UNCHANGED <<terminal, threads, entries, socket, hand, mine, mark, held, events,
                   condemned, bounds, marks>>

\* attach, in a thread: the target, the scrollback, the replay.
TakeOver(c) ==
    /\ stage[c] = "attach"
    /\ emit' = [emit EXCEPT ![hand[c]] = c]
    /\ token' = [token EXCEPT ![hand[c]] = c]
    /\ Goto(c, "snapshot")
    /\ Mark(If(cmd[hand[c]] = "over", "late"))
    /\ UNCHANGED <<terminal, threads, entries, socket, hand, mine, mark, held, events,
                   condemned, bounds>>

Snapshot(c) ==
    /\ stage[c] = "snapshot"
    /\ held' = [held EXCEPT ![c] = scroll[hand[c]]]
    /\ Goto(c, IF scroll[hand[c]] = <<>> THEN "attached" ELSE "replay")
    /\ UNCHANGED <<terminal, threads, owner, entries, socket, hand, mine, mark, events,
                   condemned, bounds, marks>>

Replay(c) ==
    /\ stage[c] = "replay"
    /\ Emit(hand[c], DataEvent(hand[c], held[c]))
    /\ held' = [held EXCEPT ![c] = <<>>]
    /\ Goto(c, "attached")
    /\ UNCHANGED <<terminal, threads, owner, entries, socket, hand, mine, mark, sent,
                   pump, known, condemned, bounds, marks>>

\* Back in the coroutine, with the token that attach returned: mark_attached.
Attached(c) ==
    /\ stage[c] = "attached"
    /\ mark' = [mark EXCEPT ![c] = c]
    /\ detached' = detached \ {hand[c]}
    /\ EmitTo(c, StatusEvent(hand[c]))
    /\ hand' = [hand EXCEPT ![c] = Nil]
    /\ Goto(c, "ready")
    /\ Mark(If(token[hand[c]] # c, "overtaken"))
    /\ UNCHANGED <<terminal, threads, owner, registry, doomed, swept, socket, mine, held,
                   sent, pump, known, condemned, bounds>>

-----------------------------------------------------------------------------
(* A client: input, kill, and its end.                                       *)

AskWrite(c) ==
    /\ Listening(c) /\ mine[c] # Nil /\ Ask
    /\ Send(mine[c], "write")
    /\ UNCHANGED <<terminal, reader, chunk, scroll, cmd, finished, owner, entries,
                   handler, events, condemned, marks>>

AskKill(c) ==
    /\ Listening(c) /\ mine[c] # Nil /\ Ask
    /\ Send(mine[c], "kill")
    /\ condemned' = condemned \cup {mine[c]}
    /\ UNCHANGED <<terminal, reader, chunk, scroll, cmd, finished, owner, entries,
                   handler, events, marks>>

Disconnect(c) ==
    /\ socket[c] = "open"
    /\ socket' = [socket EXCEPT ![c] = "closed"]
    /\ UNCHANGED <<terminal, threads, owner, entries, stage, hand, mine, mark, held, events,
                   condemned, bounds, marks>>

\* TerminalRegistry.remove.
Remove(s) == registry' = registry \ {s} /\ detached' = detached \ {s}

\* As if there were no token.
SlipOwns(c, s) == TRUE

\* The token keeps a client from detaching the next one.
Owns(c, s) == token[s] = mark[c]

\* As if mark_detached did not ask whether the session is still there.
SlipDetach(c, s) ==
    /\ emit' = IF Owns(c, s) THEN [emit EXCEPT ![s] = Nil] ELSE emit
    /\ detached' = IF Owns(c, s) THEN detached \cup {s} ELSE detached
    /\ registry' = registry

\* detach and mark_detached, with nothing of the loop in between.
Detach(c, s) ==
    /\ emit' = IF Owns(c, s) THEN [emit EXCEPT ![s] = Nil] ELSE emit
    /\ detached' = IF Owns(c, s) /\ s \in registry THEN detached \cup {s}
                   ELSE detached
    /\ registry' = registry

\* The end of a handler; its pump is cancelled, and nobody reads its queue.
Leave(c) ==
    /\ stage[c] = "ready" /\ socket[c] = "closed"
    /\ IF mine[c] = Nil THEN UNCHANGED <<emit, registry, detached>>
       ELSE IF finished[mine[c]] THEN Remove(mine[c]) /\ emit' = emit
       ELSE Detach(c, mine[c])
    /\ Goto(c, "gone")
    /\ pump' = [pump EXCEPT ![c] = FALSE]
    /\ mine' = [mine EXCEPT ![c] = Nil]
    /\ mark' = [mark EXCEPT ![c] = Nil]
    /\ wire' = [wire EXCEPT ![c] = <<>>]
    /\ sent' = [sent EXCEPT ![c] = 0]
    /\ UNCHANGED <<terminal, threads, token, doomed, swept, socket, hand, held, known,
                   condemned, bounds, marks>>

\* _pump: an event that cannot be sent ends it.
Pump(c) ==
    /\ pump[c] /\ sent[c] < Len(wire[c])
    /\ LET e == wire[c][sent[c] + 1] IN
       /\ IF e.type = "exit" THEN Remove(e.id) ELSE UNCHANGED <<registry, detached>>
       /\ IF socket[c] = "open"
          THEN /\ sent' = [sent EXCEPT ![c] = @ + 1]
               /\ known' = known \cup {e.id}
               /\ pump' = pump
          ELSE /\ pump' = [pump EXCEPT ![c] = FALSE]
               /\ UNCHANGED <<sent, known>>
    /\ UNCHANGED <<terminal, threads, owner, doomed, swept, handler, wire, condemned,
                   bounds, marks>>

-----------------------------------------------------------------------------
(* The sweep, of sessions that have been detached for long enough.           *)

\* sweep_expired, in a thread.
Sweep ==
    /\ doomed = {}
    /\ \E expired \in SUBSET detached \ {{}} :
          /\ doomed' = expired \cap registry
          /\ swept' = swept \cup (expired \cap registry)
          /\ registry' = registry \ expired
          /\ detached' = detached \ expired
    /\ UNCHANGED <<terminal, threads, owner, handler, events, condemned, bounds, marks>>

SweepKill(s) ==
    /\ s \in doomed
    /\ doomed' = doomed \ {s}
    /\ Send(s, "kill")
    /\ UNCHANGED <<terminal, reader, chunk, scroll, cmd, finished, owner, registry,
                   detached, swept, handler, events, condemned, bounds, marks>>

-----------------------------------------------------------------------------
ReaderStep(s) == Read(s) \/ ReadEmit(s) \/ ReadEnd(s) \/ ReaderKill(s)

CommandStep(s) == DoWrite(s) \/ DoKill(s) \/ Finish(s) \/ ExitEmit(s)

HandlerStep(c) ==
    \/ Announce(c) \/ Spawned(c) \/ Found(c) \/ TakeOver(c) \/ Snapshot(c)
    \/ Replay(c) \/ Attached(c) \/ Leave(c)

Request(c) ==
    \/ SpawnRefused(c) \/ AskWrite(c) \/ AskKill(c) \/ Disconnect(c)
    \/ \E s \in Sessions : Spawn(c, s) \/ SpawnFails(c, s) \/ Look(c, s)

TerminalNext ==
    \/ \E s \in Sessions :
       \/ Output(s) \/ ShellExit(s) \/ Wedge(s) \/ HangUp(s) \/ ReadTorn(s)
       \/ ReaderStep(s) \/ CommandStep(s) \/ SweepKill(s)
    \/ \E c \in Clients : Request(c) \/ HandlerStep(c) \/ Pump(c)
    \/ Sweep

TerminalSpec == TerminalInit /\ [][TerminalNext]_terminalVars

-----------------------------------------------------------------------------
Marks == {"torn", "stolen", "raised", "borrowed", "late", "overtaken"}
Chunks == Sessions \X Nat
Event == [type : {"status", "exit", "data"}, id : Sessions, data : Seq(Chunks)]

ShellsType ==
    /\ shell \in [Sessions -> {"none", "up", "wedged", "hung", "down"}]
    /\ wrote \in [Sessions -> 0 .. MaxOut] /\ taken \in [Sessions -> 0 .. MaxOut]
    /\ \A s \in Sessions : taken[s] <= wrote[s]
    /\ fd \in [Sessions -> Fds \cup {Nil}]
    /\ open \in [Fds -> Sessions \cup {Nil}]

ThreadsType ==
    /\ reader \in [Sessions -> {"off", "read", "kept", "end", "over"}]
    /\ chunk \in [Sessions -> Seq(Chunks)] /\ scroll \in [Sessions -> Seq(Chunks)]
    /\ \A s \in Sessions : Len(scroll[s]) <= Keep
    /\ cmds \in [Sessions -> Seq({"write", "kill"})]
    /\ cmd \in [Sessions -> {"off", "idle", "wait", "closed", "over"}]
    /\ finished \in [Sessions -> BOOLEAN]

EntriesType ==
    /\ emit \in [Sessions -> Clients \cup {Nil}]
    /\ token \in [Sessions -> Clients \cup {Nil}]
    /\ registry \subseteq Sessions /\ detached \subseteq registry
    /\ doomed \subseteq swept /\ swept \subseteq Sessions \ registry

HandlersType ==
    /\ socket \in [Clients -> {"open", "closed"}]
    /\ stage \in [Clients -> {"ready", "announce", "spawned", "found", "attach",
                              "snapshot", "replay", "attached", "gone"}]
    /\ hand \in [Clients -> Sessions \cup {Nil}]
    /\ mine \in [Clients -> Sessions \cup {Nil}]
    /\ mark \in [Clients -> Clients \cup {Nil}]
    /\ held \in [Clients -> Seq(Chunks)]

EventsType ==
    /\ wire \in [Clients -> Seq(Event)]
    /\ sent \in [Clients -> Nat] /\ pump \in [Clients -> BOOLEAN]
    /\ \A c \in Clients : sent[c] <= Len(wire[c])
    /\ known \subseteq Sessions /\ condemned \subseteq Sessions

BoundsType ==
    asks \in 0 .. MaxAsks /\ faults \in 0 .. MaxFaults /\ marks \subseteq Marks

TerminalTypeOK ==
    /\ ShellsType /\ ThreadsType /\ EntriesType /\ HandlersType /\ EventsType
    /\ BoundsType

ChunksOf(q) == {q[i] : i \in 1 .. Len(q)}
Told(c) == UNION {ChunksOf(wire[c][i].data) : i \in 1 .. Len(wire[c])}

Unmarked(these) == marks \cap these = {}

(* What the terminals promise.  A promise that the code keeps but for one    *)
(* course of events names the mark of that course.                           *)

Replaying(c, s) == hand[c] = s /\ stage[c] \in {"snapshot", "replay"}

\* A client whose session nobody has taken over is the one it is shown to, and has
\* been told all of its scrollback: a disconnect does not clear the target of a newer
\* client (the token of attach and detach), however the reader's buffering and
\* emitting fell between the steps of attach. The code breaks the first when the
\* spawner reads its token after another client has attached.
NothingIsMissed ==
    \A s \in Sessions, c \in Clients :
        /\ stage[c] = "ready" /\ mine[c] = s /\ token[s] = c /\ Unmarked({"borrowed"})
           => emit[s] = c
        /\ emit[s] = c /\ stage[c] # "gone" /\ ~Replaying(c, s)
           => ChunksOf(scroll[s]) \subseteq Told(c) \cup ChunksOf(chunk[s])

KillSent(s) == \E i \in 1 .. Len(cmds[s]) : cmds[s][i] = "kill"

Ending(s) ==
    \/ s \in doomed \/ reader[s] \in {"end", "over"}
    \/ cmd[s] \in {"wait", "closed", "over"}
    \/ KillSent(s)

Attended(s) ==
    \E c \in Clients : hand[c] = s \/ (mine[c] = s /\ emit[s] = c)

\* A shell that is up and has its threads can be found, and is shown to a client
\* that will let go of it or is on the list of the sweep: none runs on that nobody
\* would ever kill.  The code breaks it when a token is read late and when a client
\* attaches after the one it was overtaken by has left; a shell whose command thread
\* could not be started is beyond it.
NoneIsStranded ==
    Unmarked({"borrowed", "overtaken"}) =>
    \A s \in Sessions : Up(s) /\ cmd[s] # "off" /\ ~Ending(s) =>
        s \in registry /\ (s \in detached \/ Attended(s))

\* An exit that nobody asked for comes after the last of the output, and the client
\* that is shown a session is told its exit.  Excepted are a write that raised, a
\* read of another shell's output or of half a character, and a client that
\* attached when the exit had been told.
EndsAreTold ==
    \A s \in Sessions : cmd[s] = "over" =>
        /\ Unmarked({"raised", "stolen", "torn"}) /\ s \notin condemned \cup swept =>
               taken[s] = wrote[s] /\ chunk[s] = <<>>
        /\ Unmarked({"late"}) => \A c \in Clients : emit[s] = c /\ stage[c] # "gone" =>
               \E i \in 1 .. Len(wire[c]) : wire[c][i] = ExitEvent(s)

-----------------------------------------------------------------------------
(* The inductive invariant: what makes these promises hold.                  *)

Fresh(s) ==
    /\ reader[s] = "off" /\ cmd[s] = "off" /\ scroll[s] = <<>> /\ cmds[s] = <<>>
    /\ emit[s] = Nil /\ token[s] = Nil
    /\ s \notin registry \cup swept

\* A shell that has its descriptor to itself until it is finished, and belongs to
\* the client its token was made for.
ShellFits(s) ==
    /\ shell[s] = "none" => Fresh(s)
    /\ shell[s] # "none" => fd[s] \in Fds /\ token[s] \in Clients
    /\ finished[s] <=> cmd[s] \in {"closed", "over"}
    /\ shell[s] # "none" /\ ~finished[s] => open[fd[s]] = s
    /\ reader[s] # "kept" => chunk[s] = <<>>
    /\ emit[s] \in {token[s], Nil}

ShellsInv == \A s \in Sessions : ShellFits(s)

\* A thread of a handler is at work on a shell that runs or has run.
HandFits(c) ==
    /\ hand[c] = Nil <=> stage[c] \in {"ready", "gone"}
    /\ \A s \in Sessions : s \in {hand[c], mine[c]} => shell[s] # "none"
    /\ stage[c] \in {"attach", "snapshot", "replay", "attached"} => mine[c] = hand[c]
    /\ stage[c] \in {"announce", "spawned", "found"} => Unbound(c)

HandsInv == \A c \in Clients : HandFits(c)

\* A token is that of its client, and a session without a target had one that left.
TokensInv ==
    Unmarked({"borrowed"}) =>
    /\ \A c \in Clients :
          /\ mark[c] \in {c, Nil}
          /\ stage[c] \in {"ready", "found"} /\ mine[c] # Nil => mark[c] = c
    /\ \A s \in Sessions :
          emit[s] = Nil /\ token[s] # Nil => stage[token[s]] = "gone"

\* What is in the scrollback has been told, or will be: by the reader or the replay.
Holds(c, s) == IF hand[c] = s /\ stage[c] = "replay" THEN ChunksOf(held[c]) ELSE {}

ShownTo(s, c) ==
    emit[s] = c /\ stage[c] # "gone" /\ (hand[c] = s => stage[c] # "snapshot") =>
    ChunksOf(scroll[s]) \subseteq Told(c) \cup ChunksOf(chunk[s]) \cup Holds(c, s)

ShownInv == \A s \in Sessions, c \in Clients : ShownTo(s, c)

\* Only a session that ends leaves the registry.
EndFits(s) ==
    /\ s \in swept => Ending(s)
    /\ shell[s] # "none" /\ ~Ending(s) => s \in registry

ExitsFit(c) ==
    \A i \in 1 .. Len(wire[c]) :
        wire[c][i].type = "exit" => cmd[wire[c][i].id] = "over"

EndingInv ==
    (\A s \in Sessions : EndFits(s)) /\ (\A c \in Clients : ExitsFit(c))

\* A session that nobody ends comes to its end by the reader, which has read all.
OutputFits(s) ==
    s \notin condemned \cup swept =>
    /\ Unmarked({"raised"}) /\ (KillSent(s) \/ cmd[s] \in {"wait", "closed", "over"})
       => reader[s] = "over"
    /\ Unmarked({"raised", "stolen", "torn"}) /\ reader[s] \in {"end", "over"}
       => Ended(s)

OutputInv == \A s \in Sessions : OutputFits(s)

TerminalInv ==
    /\ TerminalTypeOK /\ ShellsInv /\ HandsInv /\ TokensInv /\ ShownInv
    /\ EndingInv /\ OutputInv /\ NoneIsStranded /\ EndsAreTold
=============================================================================
