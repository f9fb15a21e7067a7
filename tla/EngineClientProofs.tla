------------------------- MODULE EngineClientProofs -------------------------
(* The client of the code graph engine, for any number of callers and of     *)
(* faults: no process outlives it, no caller gets another's answer or hears   *)
(* of a single fault, and no child is killed that still owes an answer.      *)
EXTENDS EngineClient, SequenceTheorems, TLAPS

-----------------------------------------------------------------------------
(* What a step does to the children. *)

LEMMA KilledOne ==
    ASSUME child \in Seq(Process), NEW c \in 0 .. Len(child),
           child' = Killed(c)
    PROVE  /\ child' \in Seq(Process) /\ Len(child') = Len(child)
           /\ \A d \in 1 .. Len(child) :
                 /\ child'[d].inbox = child[d].inbox
                 /\ child'[d].out = child[d].out
                 /\ child'[d].state = IF d = c /\ child[d].state = "running"
                                      THEN "killed" ELSE child[d].state
<1>1. \A d \in 1 .. Len(child) : child[d] \in Process OBVIOUS
<1>2. CASE Running(c)
  <2>1. c \in 1 .. Len(child) BY <1>2 DEF Running
  <2> DEFINE p == [child[c] EXCEPT !.state = "killed"]
  <2>2. /\ p \in Process /\ p.state = "killed"
        /\ p.inbox = child[c].inbox /\ p.out = child[c].out
    BY <1>1, <2>1 DEF Process
  <2>3. child' = [child EXCEPT ![c] = p] BY <1>2 DEF Killed
  <2> HIDE DEF p
  <2>4. QED BY <1>2, <2>1, <2>2, <2>3 DEF Running
<1>3. CASE ~Running(c) BY <1>3 DEF Killed, Running
<1>4. QED BY <1>2, <1>3

LEMMA SpawnedOne ==
    ASSUME child \in Seq(Process), child' = Append(child, Fresh)
    PROVE  /\ child' \in Seq(Process) /\ Len(child') = Len(child) + 1
           /\ \A d \in 1 .. Len(child) : child'[d] = child[d]
           /\ child'[Len(child')] = Fresh
<1>1. Fresh \in Process BY DEF Fresh, Process
<1>2. QED BY <1>1

LEMMA SentOne ==
    ASSUME child \in Seq(Process), NEW c \in 1 .. Len(child),
           NEW m \in Requests,
           child' = [child EXCEPT ![c].inbox = Append(@, m)]
    PROVE  /\ child' \in Seq(Process) /\ Len(child') = Len(child)
           /\ \A d \in 1 .. Len(child) : d # c => child'[d] = child[d]
           /\ child'[c].state = child[c].state /\ child'[c].out = child[c].out
           /\ child[c].inbox \in Seq(Requests)
           /\ child'[c].inbox = Append(child[c].inbox, m)
<1>1. child[c] \in Process OBVIOUS
<1>2. child[c].inbox \in Seq(Requests) BY <1>1 DEF Process
<1>3. Append(child[c].inbox, m) \in Seq(Requests) BY <1>2
<1>4. [child[c] EXCEPT !.inbox = Append(@, m)] \in Process
  BY <1>1, <1>3 DEF Process
<1>5. QED BY <1>1, <1>2, <1>4 DEF Process

LEMMA ReadOne ==
    ASSUME child \in Seq(Process), NEW c \in 1 .. Len(child),
           child[c].out # <<>>,
           child' = [child EXCEPT ![c].out = Tail(@)]
    PROVE  /\ child' \in Seq(Process) /\ Len(child') = Len(child)
           /\ \A d \in 1 .. Len(child) : d # c => child'[d] = child[d]
           /\ child'[c].state = child[c].state
           /\ child'[c].inbox = child[c].inbox
           /\ child[c].out \in Seq(Lines)
           /\ child'[c].out = Tail(child[c].out)
<1>1. child[c] \in Process OBVIOUS
<1>2. child[c].out \in Seq(Lines) BY <1>1 DEF Process
<1>3. Tail(child[c].out) \in Seq(Lines) BY <1>2
<1>4. [child[c] EXCEPT !.out = Tail(@)] \in Process BY <1>1, <1>3 DEF Process
<1>5. QED BY <1>1, <1>2, <1>4 DEF Process

LEMMA ServedOne ==
    ASSUME child \in Seq(Process), NEW c \in 1 .. Len(child), NEW ok \in BOOLEAN,
           Serves(c, ok)
    PROVE  LET r == Head(child[c].inbox)
               m == [id |-> r.id, from |-> r.from, what |-> r.what, ok |-> ok]
           IN /\ child' \in Seq(Process) /\ Len(child') = Len(child)
              /\ \A d \in 1 .. Len(child) : d # c => child'[d] = child[d]
              /\ child'[c].state = child[c].state
              /\ child[c].inbox \in Seq(Requests) /\ child[c].inbox # <<>>
              /\ child'[c].inbox = Tail(child[c].inbox)
              /\ m \in Lines /\ child[c].out \in Seq(Lines)
              /\ child'[c].out = Append(child[c].out, m)
<1> DEFINE r == Head(child[c].inbox)
<1> DEFINE m == [id |-> r.id, from |-> r.from, what |-> r.what, ok |-> ok]
<1>1. child[c] \in Process OBVIOUS
<1>2. child[c].inbox \in Seq(Requests) /\ child[c].out \in Seq(Lines)
  BY <1>1 DEF Process
<1>3. child[c].inbox # <<>> BY DEF Serves
<1>4. r \in Requests BY <1>2, <1>3
<1>5. m \in Lines BY <1>4 DEF Requests, Lines
<1>6. Tail(child[c].inbox) \in Seq(Requests) BY <1>2, <1>3
<1>7. Append(child[c].out, m) \in Seq(Lines) BY <1>2, <1>5
<1> HIDE DEF m, r
<1> DEFINE p == [child[c] EXCEPT !.inbox = Tail(@), !.out = Append(@, m)]
<1>8. child' = [child EXCEPT ![c] = p] BY DEF Serves, m, r
<1> HIDE DEF p
<1>9. /\ p \in Process /\ p.state = child[c].state
      /\ p.inbox = Tail(child[c].inbox) /\ p.out = Append(child[c].out, m)
  BY <1>1, <1>6, <1>7 DEF Process, p
<1>10. /\ child' \in Seq(Process) /\ Len(child') = Len(child)
       /\ \A d \in 1 .. Len(child) : d # c => child'[d] = child[d]
       /\ child'[c].state = child[c].state
       /\ child'[c].inbox = Tail(child[c].inbox)
       /\ child'[c].out = Append(child[c].out, m)
  BY <1>8, <1>9
<1>11. QED BY <1>2, <1>3, <1>5, <1>10 DEF m, r

LEMMA DiedOne ==
    ASSUME child \in Seq(Process), NEW c \in 1 .. Len(child),
           child' = [child EXCEPT ![c].state = "died"]
    PROVE  /\ child' \in Seq(Process) /\ Len(child') = Len(child)
           /\ \A d \in 1 .. Len(child) :
                 /\ child'[d].inbox = child[d].inbox
                 /\ child'[d].out = child[d].out
                 /\ child'[d].state = IF d = c THEN "died" ELSE child[d].state
<1> DEFINE p == [child[c] EXCEPT !.state = "died"]
<1>1. child[c] \in Process OBVIOUS
<1>2. /\ p \in Process /\ p.state = "died"
      /\ p.inbox = child[c].inbox /\ p.out = child[c].out
  BY <1>1 DEF Process
<1>3. child' = [child EXCEPT ![c] = p] OBVIOUS
<1> HIDE DEF p
<1>4. QED BY <1>2, <1>3

-----------------------------------------------------------------------------
(* What the threads write and read. *)

\* The request of a Send.
Request(t) == [id |-> lastId + 1, from |-> t,
               what |-> IF pc[t] = "hello" THEN "hello" ELSE task[t]]

LEMMA SendWrites ==
    ASSUME TypeOK, Placed, NEW t \in Threads, Send(t)
    PROVE  \/ ~Running(proc) /\ UNCHANGED child
           \/ /\ Running(proc) /\ proc \in 1 .. Len(child)
              /\ Request(t) \in Requests
              /\ child' = [child EXCEPT ![proc].inbox = Append(@, Request(t))]
<1>1. CASE Running(proc)
  <2>1. proc \in 1 .. Len(child)
    BY <1>1 DEF Running, TypeOK, ClientType, Procs
  <2>2. lastId \in Nat /\ lastId' = lastId + 1
    BY DEF Send, TypeOK, ClientType
  <2>3. (IF pc[t] = "hello" THEN "hello" ELSE task[t])
            \in {"hello", "tools", "call"}
    BY DEF Send, TypeOK, ThreadsType, Placed
  <2>4. Request(t) \in Requests BY <2>2, <2>3 DEF Request, Requests
  <2>5. child' = [child EXCEPT ![proc].inbox = Append(@, Request(t))]
    BY <1>1, <2>2 DEF Send, Request
  <2>6. QED BY <1>1, <2>1, <2>4, <2>5
<1>2. CASE ~Running(proc) BY <1>2 DEF Send
<1>3. QED BY <1>1, <1>2

\* A line read is for somebody else, refused, or an answer to what t asked.
LEMMA ReceiveReads ==
    ASSUME TypeOK, Placed, NEW t \in Threads, Receive(t)
    PROVE  /\ queue \in 1 .. Len(child) /\ child[queue].out # <<>>
           /\ child' = [child EXCEPT ![queue].out = Tail(@)]
           /\ LET m == Head(child[queue].out) IN
              \/ UNCHANGED <<lock, pc, attempt, outcome, reply>>
              \/ m.id = asked[t] /\ Broke(t) /\ UNCHANGED reply
              \/ /\ pc[t] = "greeted" /\ pc' = [pc EXCEPT ![t] = "notify"]
                 /\ UNCHANGED <<lock, attempt, outcome, reply>>
              \/ /\ pc[t] = "read" /\ pc' = [pc EXCEPT ![t] = "schema"]
                 /\ lock' = None /\ UNCHANGED <<attempt, outcome, reply>>
              \/ /\ pc[t] = "read" /\ pc' = [pc EXCEPT ![t] = "done"]
                 /\ task[t] = "call"
                 /\ m.id = asked[t]
                 /\ lock' = None /\ UNCHANGED attempt
                 /\ outcome' = [outcome EXCEPT ![t] = "answer"]
                 /\ reply' = [reply EXCEPT ![t] = [from |-> m.from,
                                                  what |-> m.what]]
<1>1. pc[t] \in {"greeted", "read"} BY DEF Receive, Waiting
<1>2. queue \in 1 .. Len(child)
  BY <1>1 DEF Placed, Greeting, TypeOK, ClientType, Procs
<1> DEFINE m == Head(child[queue].out)
<1>3. \/ UNCHANGED <<lock, pc, attempt, outcome, reply>>
      \/ m.id = asked[t] /\ Broke(t) /\ UNCHANGED reply
      \/ m.id = asked[t] /\ Answered(t, m) /\ UNCHANGED attempt
  BY DEF Receive, Matches
<1>4. pc[t] = "read" => task[t] \in {"tools", "call"}
  BY DEF TypeOK, ThreadsType, Placed
<1> HIDE DEF m
<1>5. CASE m.id = asked[t] /\ Answered(t, m) /\ UNCHANGED attempt
  <2>1. CASE pc[t] = "greeted"
    <3>1. /\ pc' = [pc EXCEPT ![t] = "notify"]
          /\ UNCHANGED <<lock, attempt, outcome, reply>>
      BY <1>5, <2>1 DEF Answered, Goto
    <3>2. QED BY <1>2, <2>1, <3>1 DEF Receive
  <2>2. CASE pc[t] = "read" /\ task[t] = "tools"
    <3>1. /\ pc' = [pc EXCEPT ![t] = "schema"] /\ lock' = None
          /\ UNCHANGED <<attempt, outcome, reply>>
      BY <1>5, <2>2 DEF Answered, Goto
    <3>2. QED BY <1>2, <2>2, <3>1 DEF Receive
  <2>3. CASE pc[t] = "read" /\ task[t] = "call"
    <3>1. /\ pc' = [pc EXCEPT ![t] = "done"] /\ lock' = None
          /\ outcome' = [outcome EXCEPT ![t] = "answer"]
          /\ reply' = [reply EXCEPT ![t] = [from |-> m.from, what |-> m.what]]
      BY <1>5, <2>3 DEF Answered, Goto
    <3>2. QED BY <1>2, <1>5, <2>3, <3>1 DEF Receive, m
  <2>4. QED BY <1>1, <1>2, <1>4, <1>5, <2>1, <2>2, <2>3 DEF Receive
<1>6. QED BY <1>2, <1>3, <1>5 DEF Receive, m

LEMMA LinesAreTyped ==
    ASSUME TypeOK, NEW c \in 1 .. Len(child), child[c].out # <<>>
    PROVE  Head(child[c].out) \in Lines
<1>1. child[c] \in Process BY DEF TypeOK
<1>2. child[c].out \in Seq(Lines) BY <1>1 DEF Process
<1>3. QED BY <1>2

LEMMA HandsAreTyped ==
    ASSUME TypeOK, NEW t \in Threads PROVE mine[t] \in 0 .. Len(child)
BY DEF TypeOK, ThreadsType, Procs

-----------------------------------------------------------------------------
(* Types, the lock, and where a thread may be. *)

LEMMA ThreadsMoveChildren ==
    ASSUME TypeOK, Placed,
           NEW t \in Threads, Thread(t)
    PROVE  child' \in Seq(Process) /\ Len(child') >= Len(child)
<1> USE DEF supervisor, client, locals
<1> child \in Seq(Process) BY DEF TypeOK
<1>1. CASE Begin(t) BY <1>1 DEF Begin
<1>2. CASE Enter(t) BY <1>2 DEF Enter
<1>3. CASE Schema(t) BY <1>3 DEF Schema, Fault
<1>4. CASE GiveUp(t) BY <1>4 DEF GiveUp
<1>5. CASE Look(t) BY <1>5 DEF Look
<1>6. CASE Take(t) BY <1>6 DEF Take
<1>7. CASE Poll(t) BY <1>7 DEF Poll, Leave, Established
<1>8. CASE Send(t)
  BY <1>8, SendWrites, SentOne
<1>9. CASE Receive(t)
  BY <1>9, ReceiveReads, ReadOne
<1>10. CASE Eof(t) BY <1>10 DEF Eof, Broke, Leave
<1>11. CASE TimeOut(t) BY <1>11 DEF TimeOut, Patience, TimedOut, Leave
<1>12. CASE Spawn(t) BY <1>12 DEF Spawn, Leave
<1>13. CASE Popen(t)
  BY <1>13, SpawnedOne DEF Popen
<1>14. CASE Install(t) BY <1>14 DEF Install
<1>15. CASE Recheck(t) BY <1>15 DEF Recheck, Disown
<1>16. CASE Condemn(t)
  BY <1>16, HandsAreTyped, KilledOne DEF Condemn
<1>17. CASE Notify(t) BY <1>17 DEF Notify, Leave
<1>18. CASE Spawned(t) BY <1>18 DEF Spawned, Disown, Established
<1>19. CASE Respawn(t) BY <1>19 DEF Respawn
<1>20. CASE Kill(t)
  BY <1>20, HandsAreTyped, KilledOne DEF Kill
<1>21. CASE Close(t) BY <1>21 DEF Close
<1>22. CASE CloseRead(t) BY <1>22 DEF CloseRead
<1>23. CASE CloseClear(t) BY <1>23 DEF CloseClear
<1>24. CASE Terminate(t)
  BY <1>24, HandsAreTyped, KilledOne DEF Terminate
<1>25. QED BY <1>1, <1>2, <1>3, <1>4, <1>5, <1>6, <1>7, <1>8, <1>9, <1>10,
       <1>11, <1>12, <1>13, <1>14, <1>15, <1>16, <1>17, <1>18, <1>19, <1>20,
       <1>21, <1>22, <1>23, <1>24 DEF Thread

LEMMA ThreadsKeepFlags ==
    ASSUME FlagsType,
           NEW t \in Threads, Thread(t)
    PROVE  FlagsType'
<1> USE DEF FlagsType, Goto, supervisor, client, locals
<1>1. CASE Begin(t) BY <1>1 DEF Begin
<1>2. CASE Enter(t) BY <1>2 DEF Enter
<1>3. CASE Schema(t) BY <1>3 DEF Schema, Fault
<1>4. CASE GiveUp(t) BY <1>4 DEF GiveUp
<1>5. CASE Look(t) BY <1>5 DEF Look
<1>6. CASE Take(t) BY <1>6 DEF Take
<1>7. CASE Poll(t) BY <1>7 DEF Poll, Leave, Established
<1>8. CASE Send(t) BY <1>8 DEF Send, Broke, Leave
<1>9. CASE Receive(t) BY <1>9 DEF Receive, Matches, Answered, Broke, Leave
<1>10. CASE Eof(t) BY <1>10 DEF Eof, Broke, Leave
<1>11. CASE TimeOut(t) BY <1>11 DEF TimeOut, Patience, TimedOut, Leave
<1>12. CASE Spawn(t) BY <1>12 DEF Spawn, Leave
<1>13. CASE Popen(t) BY <1>13 DEF Popen, Fault, Leave
<1>14. CASE Install(t) BY <1>14 DEF Install
<1>15. CASE Recheck(t) BY <1>15 DEF Recheck, Disown
<1>16. CASE Condemn(t) BY <1>16 DEF Condemn, Leave
<1>17. CASE Notify(t) BY <1>17 DEF Notify, Leave
<1>18. CASE Spawned(t) BY <1>18 DEF Spawned, Disown, Established
<1>19. CASE Respawn(t) BY <1>19 DEF Respawn
<1>20. CASE Kill(t) BY <1>20 DEF Kill
<1>21. CASE Close(t) BY <1>21 DEF Close
<1>22. CASE CloseRead(t) BY <1>22 DEF CloseRead
<1>23. CASE CloseClear(t) BY <1>23 DEF CloseClear
<1>24. CASE Terminate(t) BY <1>24 DEF Terminate
<1>25. QED BY <1>1, <1>2, <1>3, <1>4, <1>5, <1>6, <1>7, <1>8, <1>9, <1>10,
       <1>11, <1>12, <1>13, <1>14, <1>15, <1>16, <1>17, <1>18, <1>19, <1>20,
       <1>21, <1>22, <1>23, <1>24 DEF Thread

LEMMA ThreadsKeepClient ==
    ASSUME TypeOK, Placed,
           NEW t \in Threads, Thread(t)
    PROVE  ClientType'
<1> USE DEF TypeOK, ClientType, ThreadsType, Procs, Threads, Goto, supervisor, client, locals
<1> USE EngineAssumption
<1>a. Len(child') >= Len(child) BY ThreadsMoveChildren
<1>1. CASE Begin(t) BY <1>1, <1>a DEF Begin
<1>2. CASE Enter(t) BY <1>2, <1>a DEF Enter
<1>3. CASE Schema(t) BY <1>3, <1>a DEF Schema, Fault
<1>4. CASE GiveUp(t) BY <1>4, <1>a DEF GiveUp
<1>5. CASE Look(t) BY <1>5, <1>a DEF Look
<1>6. CASE Take(t) BY <1>6, <1>a DEF Take
<1>7. CASE Poll(t) BY <1>7, <1>a DEF Poll, Leave, Established
<1>8. CASE Send(t) BY <1>8, <1>a, SMTT(30) DEF Send, Broke, Leave
<1>9. CASE Receive(t)
  BY <1>9, <1>a, ReceiveReads, SMTT(30) DEF Receive, Broke, Leave
<1>10. CASE Eof(t) BY <1>10, <1>a DEF Eof, Broke, Leave
<1>11. CASE TimeOut(t) BY <1>11, <1>a DEF TimeOut, Patience, TimedOut, Leave
<1>12. CASE Spawn(t) BY <1>12, <1>a DEF Spawn, Leave
<1>13. CASE Popen(t) BY <1>13, <1>a, SMTT(30) DEF Popen, Fault, Leave
<1>14. CASE Install(t) BY <1>14, <1>a DEF Install
<1>15. CASE Recheck(t) BY <1>15, <1>a DEF Recheck, Disown
<1>16. CASE Condemn(t) BY <1>16, <1>a DEF Condemn, Leave
<1>17. CASE Notify(t) BY <1>17, <1>a DEF Notify, Leave
<1>18. CASE Spawned(t) BY <1>18, <1>a DEF Spawned, Disown, Established
<1>19. CASE Respawn(t) BY <1>19, <1>a DEF Respawn
<1>20. CASE Kill(t) BY <1>20, <1>a DEF Kill
<1>21. CASE Close(t) BY <1>21, <1>a DEF Close
<1>22. CASE CloseRead(t) BY <1>22, <1>a DEF CloseRead
<1>23. CASE CloseClear(t) BY <1>23, <1>a DEF CloseClear
<1>24. CASE Terminate(t) BY <1>24, <1>a DEF Terminate
<1>25. QED BY <1>1, <1>2, <1>3, <1>4, <1>5, <1>6, <1>7, <1>8, <1>9, <1>10,
       <1>11, <1>12, <1>13, <1>14, <1>15, <1>16, <1>17, <1>18, <1>19, <1>20,
       <1>21, <1>22, <1>23, <1>24 DEF Thread

LEMMA ThreadsKeepPCs ==
    ASSUME TypeOK, Placed,
           NEW t \in Threads, Thread(t)
    PROVE  pc' \in [Threads -> PCs]
<1> USE DEF PCs, Goto
<1> pc \in [Threads -> PCs] BY DEF TypeOK, ThreadsType
<1>1. CASE Begin(t) BY <1>1 DEF Begin
<1>2. CASE Enter(t) BY <1>2 DEF Enter
<1>3. CASE Schema(t) BY <1>3 DEF Schema, Fault
<1>4. CASE GiveUp(t) BY <1>4 DEF GiveUp
<1>5. CASE Look(t) BY <1>5 DEF Look
<1>6. CASE Take(t) BY <1>6 DEF Take
<1>7. CASE Poll(t) BY <1>7 DEF Poll, Leave, Established
<1>8. CASE Send(t) BY <1>8 DEF Send, Broke, Leave
<1>9. CASE Receive(t)
  BY <1>9, ReceiveReads DEF Receive, Broke, Leave
<1>10. CASE Eof(t) BY <1>10 DEF Eof, Broke, Leave
<1>11. CASE TimeOut(t) BY <1>11 DEF TimeOut, Patience, TimedOut, Leave
<1>12. CASE Spawn(t) BY <1>12 DEF Spawn, Leave
<1>13. CASE Popen(t) BY <1>13 DEF Popen, Fault, Leave
<1>14. CASE Install(t) BY <1>14 DEF Install
<1>15. CASE Recheck(t) BY <1>15 DEF Recheck, Disown
<1>16. CASE Condemn(t) BY <1>16 DEF Condemn, Leave
<1>17. CASE Notify(t) BY <1>17 DEF Notify, Leave
<1>18. CASE Spawned(t) BY <1>18 DEF Spawned, Disown, Established
<1>19. CASE Respawn(t) BY <1>19 DEF Respawn
<1>20. CASE Kill(t) BY <1>20 DEF Kill
<1>21. CASE Close(t) BY <1>21 DEF Close
<1>22. CASE CloseRead(t) BY <1>22 DEF CloseRead
<1>23. CASE CloseClear(t) BY <1>23 DEF CloseClear
<1>24. CASE Terminate(t) BY <1>24 DEF Terminate
<1>25. QED BY <1>1, <1>2, <1>3, <1>4, <1>5, <1>6, <1>7, <1>8, <1>9, <1>10,
       <1>11, <1>12, <1>13, <1>14, <1>15, <1>16, <1>17, <1>18, <1>19, <1>20,
       <1>21, <1>22, <1>23, <1>24 DEF Thread

LEMMA ThreadsKeepThreads ==
    ASSUME TypeOK, Placed,
           NEW t \in Threads, Thread(t)
    PROVE  ThreadsType'
<1> USE DEF TypeOK, ClientType, ThreadsType, Procs, Goto, supervisor, client, locals
<1>a. Len(child') >= Len(child) BY ThreadsMoveChildren
<1>b. pc' \in [Threads -> PCs] BY ThreadsKeepPCs
<1>1. CASE Begin(t) BY <1>1, <1>a, <1>b DEF Begin
<1>2. CASE Enter(t) BY <1>2, <1>a, <1>b DEF Enter
<1>3. CASE Schema(t) BY <1>3, <1>a, <1>b DEF Schema, Fault
<1>4. CASE GiveUp(t) BY <1>4, <1>a, <1>b DEF GiveUp
<1>5. CASE Look(t) BY <1>5, <1>a, <1>b DEF Look
<1>6. CASE Take(t) BY <1>6, <1>a, <1>b DEF Take
<1>7. CASE Poll(t) BY <1>7, <1>a, <1>b DEF Poll, Leave, Established
<1>8. CASE Send(t)
  <2>1. /\ task' \in [Threads -> {"start", "tools", "call"}]
        /\ attempt' \in [Threads -> {1, 2}]
    BY <1>8, <1>a
       DEF Send, Broke, Leave
  <2>2. outcome' \in [Threads -> {"none", "unavailable", "answer", "error",
                                  "timeout", "broken"}]
    BY <1>8, <1>a
       DEF Send, Broke, Leave
  <2>3. mine' \in [Threads -> Procs'] /\ asked' \in [Threads -> 0 .. lastId']
    BY <1>8, <1>a
       DEF Send, Broke, Leave
  <2>4. reply' \in [Threads -> [from : Threads \cup {None},
                               what : {"none", "hello", "tools", "call"}]]
    BY <1>8, <1>a
       DEF Send, Broke, Leave
  <2>5. QED BY <1>b, <2>1, <2>2, <2>3, <2>4
<1>9. CASE Receive(t)
  <2>1. /\ task' \in [Threads -> {"start", "tools", "call"}]
        /\ attempt' \in [Threads -> {1, 2}]
    BY <1>9, <1>a, LinesAreTyped, ReceiveReads
       DEF Receive, Broke, Leave, Lines
  <2>2. outcome' \in [Threads -> {"none", "unavailable", "answer", "error",
                                  "timeout", "broken"}]
    BY <1>9, <1>a, LinesAreTyped, ReceiveReads
       DEF Receive, Broke, Leave, Lines
  <2>3. mine' \in [Threads -> Procs'] /\ asked' \in [Threads -> 0 .. lastId']
    BY <1>9, <1>a, LinesAreTyped, ReceiveReads
       DEF Receive, Broke, Leave, Lines
  <2>4. reply' \in [Threads -> [from : Threads \cup {None},
                               what : {"none", "hello", "tools", "call"}]]
    <3> DEFINE m == Head(child[queue].out)
    <3>1. m \in Lines BY <1>9, LinesAreTyped, ReceiveReads
    <3>2. [from |-> m.from, what |-> m.what]
              \in [from : Threads \cup {None},
                   what : {"none", "hello", "tools", "call"}]
      BY <3>1 DEF Lines
    <3>3. \/ UNCHANGED reply
          \/ reply' = [reply EXCEPT ![t] = [from |-> m.from,
                                           what |-> m.what]]
      BY <1>9, ReceiveReads
    <3> HIDE DEF m
    <3>4. QED BY <3>2, <3>3
  <2>5. QED BY <1>b, <2>1, <2>2, <2>3, <2>4
<1>10. CASE Eof(t) BY <1>10, <1>a, <1>b DEF Eof, Broke, Leave
<1>11. CASE TimeOut(t) BY <1>11, <1>a, <1>b DEF TimeOut, Patience, TimedOut, Leave
<1>12. CASE Spawn(t) BY <1>12, <1>a, <1>b DEF Spawn, Leave
<1>13. CASE Popen(t)
  <2>1. /\ task' \in [Threads -> {"start", "tools", "call"}]
        /\ attempt' \in [Threads -> {1, 2}]
    BY <1>13, <1>a
       DEF Popen, Fault, Leave
  <2>2. outcome' \in [Threads -> {"none", "unavailable", "answer", "error",
                                  "timeout", "broken"}]
    BY <1>13, <1>a
       DEF Popen, Fault, Leave
  <2>3. mine' \in [Threads -> Procs'] /\ asked' \in [Threads -> 0 .. lastId']
    BY <1>13, <1>a
       DEF Popen, Fault, Leave
  <2>4. reply' \in [Threads -> [from : Threads \cup {None},
                               what : {"none", "hello", "tools", "call"}]]
    BY <1>13, <1>a
       DEF Popen, Fault, Leave
  <2>5. QED BY <1>b, <2>1, <2>2, <2>3, <2>4
<1>14. CASE Install(t) BY <1>14, <1>a, <1>b DEF Install
<1>15. CASE Recheck(t) BY <1>15, <1>a, <1>b DEF Recheck, Disown
<1>16. CASE Condemn(t)
  <2>1. /\ task' \in [Threads -> {"start", "tools", "call"}]
        /\ attempt' \in [Threads -> {1, 2}]
    BY <1>16, <1>a
       DEF Condemn, Leave
  <2>2. outcome' \in [Threads -> {"none", "unavailable", "answer", "error",
                                  "timeout", "broken"}]
    BY <1>16, <1>a
       DEF Condemn, Leave
  <2>3. mine' \in [Threads -> Procs'] /\ asked' \in [Threads -> 0 .. lastId']
    BY <1>16, <1>a
       DEF Condemn, Leave
  <2>4. reply' \in [Threads -> [from : Threads \cup {None},
                               what : {"none", "hello", "tools", "call"}]]
    BY <1>16, <1>a
       DEF Condemn, Leave
  <2>5. QED BY <1>b, <2>1, <2>2, <2>3, <2>4
<1>17. CASE Notify(t) BY <1>17, <1>a, <1>b DEF Notify, Leave
<1>18. CASE Spawned(t) BY <1>18, <1>a, <1>b DEF Spawned, Disown, Established
<1>19. CASE Respawn(t) BY <1>19, <1>a, <1>b DEF Respawn
<1>20. CASE Kill(t) BY <1>20, <1>a, <1>b, SMTT(30) DEF Kill
<1>21. CASE Close(t) BY <1>21, <1>a, <1>b DEF Close
<1>22. CASE CloseRead(t) BY <1>22, <1>a, <1>b DEF CloseRead
<1>23. CASE CloseClear(t) BY <1>23, <1>a, <1>b DEF CloseClear
<1>24. CASE Terminate(t) BY <1>24, <1>a, <1>b, SMTT(30) DEF Terminate
<1>25. QED BY <1>1, <1>2, <1>3, <1>4, <1>5, <1>6, <1>7, <1>8, <1>9, <1>10,
       <1>11, <1>12, <1>13, <1>14, <1>15, <1>16, <1>17, <1>18, <1>19, <1>20,
       <1>21, <1>22, <1>23, <1>24 DEF Thread

LEMMA ThreadsKeepPlaces ==
    ASSUME TypeOK, Placed, ProcIsKnown,
           NEW t \in Threads, Thread(t)
    PROVE  Placed'
<1> USE DEF TypeOK, ClientType, ThreadsType, Placed, ProcIsKnown, HeldProc, ProcIsQueued, Rechecked, Locked, Greeting, ClosingAt, Threads, Goto, supervisor, client, locals
<1> USE EngineAssumption
<1>1. CASE Begin(t) BY <1>1 DEF Begin
<1>2. CASE Enter(t) BY <1>2 DEF Enter
<1>3. CASE Schema(t) BY <1>3 DEF Schema, Fault
<1>4. CASE GiveUp(t) BY <1>4 DEF GiveUp
<1>5. CASE Look(t) BY <1>5 DEF Look
<1>6. CASE Take(t) BY <1>6 DEF Take
<1>7. CASE Poll(t) BY <1>7 DEF Poll, Leave, Established
<1>8. CASE Send(t) BY <1>8 DEF Send, Broke, Leave
<1>9. CASE Receive(t)
  BY <1>9, ReceiveReads DEF Receive, Broke, Leave, Waiting
<1>10. CASE Eof(t) BY <1>10 DEF Eof, Broke, Leave, Waiting
<1>11. CASE TimeOut(t) BY <1>11 DEF TimeOut, Patience, TimedOut, Leave, Waiting
<1>12. CASE Spawn(t) BY <1>12 DEF Spawn, Leave
<1>13. CASE Popen(t) BY <1>13 DEF Popen, Fault, Leave
<1>14. CASE Install(t) BY <1>14 DEF Install
<1>15. CASE Recheck(t) BY <1>15 DEF Recheck, Disown
<1>16. CASE Condemn(t)
  <2>1. /\ lock = t /\ lock' = None
        /\ UNCHANGED <<closed, queue, mine, task>>
        /\ \E there \in {"done", "close"} : pc' = [pc EXCEPT ![t] = there]
    BY <1>16 DEF Condemn, Leave
  <2>2. QED BY <2>1
<1>17. CASE Notify(t) BY <1>17 DEF Notify, Leave
<1>18. CASE Spawned(t) BY <1>18 DEF Spawned, Disown, Established
<1>19. CASE Respawn(t) BY <1>19 DEF Respawn
<1>20. CASE Kill(t) BY <1>20 DEF Kill
<1>21. CASE Close(t) BY <1>21 DEF Close
<1>22. CASE CloseRead(t) BY <1>22 DEF CloseRead
<1>23. CASE CloseClear(t) BY <1>23 DEF CloseClear
<1>24. CASE Terminate(t) BY <1>24 DEF Terminate
<1>25. QED BY <1>1, <1>2, <1>3, <1>4, <1>5, <1>6, <1>7, <1>8, <1>9, <1>10,
       <1>11, <1>12, <1>13, <1>14, <1>15, <1>16, <1>17, <1>18, <1>19, <1>20,
       <1>21, <1>22, <1>23, <1>24 DEF Thread

LEMMA ThreadsMoveStates ==
    ASSUME TypeOK, Placed,
           NEW t \in Threads, Thread(t)
    PROVE  /\ \A c \in 1 .. Len(child) :
                 child'[c].state = "running" => child[c].state = "running"
           /\ pc[t] \in {"condemn", "kill", "terminate"} =>
                 mine[t] = 0 \/ child'[mine[t]].state # "running"
           /\ \/ Len(child') = Len(child)
              \/ /\ pc[t] = "popen" /\ pc' = [pc EXCEPT ![t] = "install"]
                 /\ Len(child') = Len(child) + 1
                 /\ mine' = [mine EXCEPT ![t] = Len(child')]
<1> USE DEF Running, Goto, supervisor, client, locals
<1> child \in Seq(Process) BY DEF TypeOK
<1>1. CASE Begin(t) BY <1>1 DEF Begin
<1>2. CASE Enter(t) BY <1>2 DEF Enter
<1>3. CASE Schema(t) BY <1>3 DEF Schema, Fault
<1>4. CASE GiveUp(t) BY <1>4 DEF GiveUp
<1>5. CASE Look(t) BY <1>5 DEF Look
<1>6. CASE Take(t) BY <1>6 DEF Take
<1>7. CASE Poll(t) BY <1>7 DEF Poll, Leave, Established
<1>8. CASE Send(t)
  BY <1>8, SendWrites, SentOne DEF Send
<1>9. CASE Receive(t)
  BY <1>9, ReceiveReads, ReadOne DEF Receive, Waiting
<1>10. CASE Eof(t) BY <1>10 DEF Eof, Broke, Leave, Waiting
<1>11. CASE TimeOut(t) BY <1>11 DEF TimeOut, Patience, TimedOut, Leave, Waiting
<1>12. CASE Spawn(t) BY <1>12 DEF Spawn, Leave
<1>13. CASE Popen(t)
  BY <1>13, SpawnedOne DEF Popen
<1>14. CASE Install(t) BY <1>14 DEF Install
<1>15. CASE Recheck(t) BY <1>15 DEF Recheck, Disown
<1>16. CASE Condemn(t)
  <2>1. mine[t] \in 0 .. Len(child) BY HandsAreTyped
  <2>2. child' = Killed(mine[t]) /\ mine' = mine BY <1>16 DEF Condemn
  <2>3. Len(child') = Len(child)
    BY <2>1, <2>2, KilledOne
  <2>4. \A c \in 1 .. Len(child) :
            /\ child'[c].state = "running" => child[c].state = "running"
            /\ c = mine[t] => child'[c].state # "running"
    BY <2>1, <2>2, KilledOne
  <2>5. QED BY <2>1, <2>2, <2>3, <2>4
<1>17. CASE Notify(t) BY <1>17 DEF Notify, Leave
<1>18. CASE Spawned(t) BY <1>18 DEF Spawned, Disown, Established
<1>19. CASE Respawn(t) BY <1>19 DEF Respawn
<1>20. CASE Kill(t)
  <2>1. mine[t] \in 0 .. Len(child) BY HandsAreTyped
  <2>2. child' = Killed(mine[t]) /\ mine' = mine BY <1>20 DEF Kill
  <2>3. Len(child') = Len(child)
    BY <2>1, <2>2, KilledOne
  <2>4. \A c \in 1 .. Len(child) :
            /\ child'[c].state = "running" => child[c].state = "running"
            /\ c = mine[t] => child'[c].state # "running"
    BY <2>1, <2>2, KilledOne
  <2>5. QED BY <2>1, <2>2, <2>3, <2>4
<1>21. CASE Close(t) BY <1>21 DEF Close
<1>22. CASE CloseRead(t) BY <1>22 DEF CloseRead
<1>23. CASE CloseClear(t) BY <1>23 DEF CloseClear
<1>24. CASE Terminate(t)
  <2>1. mine[t] \in 0 .. Len(child) BY HandsAreTyped
  <2>2. child' = Killed(mine[t]) /\ mine' = mine BY <1>24 DEF Terminate
  <2>3. Len(child') = Len(child)
    BY <2>1, <2>2, KilledOne
  <2>4. \A c \in 1 .. Len(child) :
            /\ child'[c].state = "running" => child[c].state = "running"
            /\ c = mine[t] => child'[c].state # "running"
    BY <2>1, <2>2, KilledOne
  <2>5. QED BY <2>1, <2>2, <2>3, <2>4
<1>25. QED BY <1>1, <1>2, <1>3, <1>4, <1>5, <1>6, <1>7, <1>8, <1>9, <1>10,
       <1>11, <1>12, <1>13, <1>14, <1>15, <1>16, <1>17, <1>18, <1>19, <1>20,
       <1>21, <1>22, <1>23, <1>24 DEF Thread

LEMMA OthersStay ==
    ASSUME TypeOK, Placed,
           NEW t \in Threads, Thread(t)
    PROVE  \A u \in Threads \ {t} :
               /\ pc'[u] = pc[u] /\ mine'[u] = mine[u]
               /\ task'[u] = task[u] /\ asked'[u] = asked[u]
<1> USE DEF Goto, supervisor, client, locals
<1> /\ pc \in [Threads -> PCs] /\ DOMAIN mine = Threads
    /\ DOMAIN task = Threads /\ DOMAIN asked = Threads
  BY DEF TypeOK, ThreadsType
<1>1. CASE Begin(t) BY <1>1 DEF Begin
<1>2. CASE Enter(t) BY <1>2 DEF Enter
<1>3. CASE Schema(t) BY <1>3 DEF Schema, Fault
<1>4. CASE GiveUp(t) BY <1>4 DEF GiveUp
<1>5. CASE Look(t) BY <1>5 DEF Look
<1>6. CASE Take(t) BY <1>6 DEF Take
<1>7. CASE Poll(t) BY <1>7 DEF Poll, Leave, Established
<1>8. CASE Send(t) BY <1>8 DEF Send, Broke, Leave
<1>9. CASE Receive(t)
  BY <1>9, ReceiveReads DEF Receive, Broke, Leave
<1>10. CASE Eof(t) BY <1>10 DEF Eof, Broke, Leave
<1>11. CASE TimeOut(t) BY <1>11 DEF TimeOut, Patience, TimedOut, Leave
<1>12. CASE Spawn(t) BY <1>12 DEF Spawn, Leave
<1>13. CASE Popen(t) BY <1>13 DEF Popen, Fault, Leave
<1>14. CASE Install(t) BY <1>14 DEF Install
<1>15. CASE Recheck(t) BY <1>15 DEF Recheck, Disown
<1>16. CASE Condemn(t) BY <1>16 DEF Condemn, Leave
<1>17. CASE Notify(t) BY <1>17 DEF Notify, Leave
<1>18. CASE Spawned(t) BY <1>18 DEF Spawned, Disown, Established
<1>19. CASE Respawn(t) BY <1>19 DEF Respawn
<1>20. CASE Kill(t) BY <1>20 DEF Kill
<1>21. CASE Close(t) BY <1>21 DEF Close
<1>22. CASE CloseRead(t) BY <1>22 DEF CloseRead
<1>23. CASE CloseClear(t) BY <1>23 DEF CloseClear
<1>24. CASE Terminate(t) BY <1>24 DEF Terminate
<1>25. QED BY <1>1, <1>2, <1>3, <1>4, <1>5, <1>6, <1>7, <1>8, <1>9, <1>10,
       <1>11, <1>12, <1>13, <1>14, <1>15, <1>16, <1>17, <1>18, <1>19, <1>20,
       <1>21, <1>22, <1>23, <1>24 DEF Thread

-----------------------------------------------------------------------------
(* Who keeps a child. *)

LEMMA ThreadsKnowIdle ==
    ASSUME TypeOK, Placed, ProcIsKnown,
           NEW t \in Threads, Thread(t)
    PROVE  \A u \in Threads : IdleProc(u)'
<1> USE DEF Running, IdleProc, Locked, Goto, supervisor, client, locals
<1>a. \A c \in 1 .. Len(child) :
          child'[c].state = "running" => child[c].state = "running"
  BY ThreadsMoveStates
<1>b. proc \in 0 .. Len(child) BY DEF TypeOK, ClientType, Procs
<1>c. /\ pc \in [Threads -> PCs] /\ DOMAIN mine = Threads
      /\ Placed /\ None \notin Threads
  BY EngineAssumption DEF TypeOK, ThreadsType, Threads
<1> SUFFICES ASSUME NEW u \in Threads PROVE IdleProc(u)'
  OBVIOUS
<1>d. IdleProc(u) /\ IdleProc(t) BY DEF ProcIsKnown
<1>1. CASE Begin(t) BY <1>1, <1>a, <1>b, <1>c, <1>d DEF Placed, Begin
<1>2. CASE Enter(t) BY <1>2, <1>a, <1>b, <1>c, <1>d DEF Placed, Enter
<1>3. CASE Schema(t) BY <1>3, <1>a, <1>b, <1>c, <1>d DEF Placed, Schema, Fault
<1>4. CASE GiveUp(t) BY <1>4, <1>a, <1>b, <1>c, <1>d DEF Placed, GiveUp
<1>5. CASE Look(t) BY <1>5, <1>a, <1>b, <1>c, <1>d DEF Placed, Look
<1>6. CASE Take(t) BY <1>6, <1>a, <1>b, <1>c, <1>d DEF Placed, Take
<1>7. CASE Poll(t) BY <1>7, <1>a, <1>b, <1>c, <1>d DEF Placed, Poll, Leave, Established
<1>8. CASE Send(t) BY <1>8, <1>a, <1>b, <1>c, <1>d DEF Placed, Send, Broke, Leave
<1>9. CASE Receive(t)
  BY <1>9, <1>a, <1>b, <1>c, <1>d, ReceiveReads
     DEF Receive, Waiting, Broke, Leave, Placed
<1>10. CASE Eof(t) BY <1>10, <1>a, <1>b, <1>c, <1>d DEF Placed, Eof, Broke, Leave, Waiting
<1>11. CASE TimeOut(t) BY <1>11, <1>a, <1>b, <1>c, <1>d DEF Placed, TimeOut, Patience, TimedOut, Leave, Waiting
<1>12. CASE Spawn(t) BY <1>12, <1>a, <1>b, <1>c, <1>d DEF Placed, Spawn, Leave
<1>13. CASE Popen(t) BY <1>13, <1>a, <1>b, <1>c, <1>d DEF Placed, Popen, Fault, Leave
<1>14. CASE Install(t) BY <1>14, <1>a, <1>b, <1>c, <1>d DEF Placed, Install
<1>15. CASE Recheck(t) BY <1>15, <1>a, <1>b, <1>c, <1>d DEF Placed, Recheck, Disown
<1>16. CASE Condemn(t) BY <1>16, <1>a, <1>b, <1>c, <1>d DEF Placed, Condemn, Leave
<1>17. CASE Notify(t) BY <1>17, <1>a, <1>b, <1>c, <1>d DEF Placed, Notify, Leave
<1>18. CASE Spawned(t) BY <1>18, <1>a, <1>b, <1>c, <1>d DEF Placed, Spawned, Disown, Established
<1>19. CASE Respawn(t) BY <1>19, <1>a, <1>b, <1>c, <1>d DEF Placed, Respawn
<1>20. CASE Kill(t) BY <1>20, <1>a, <1>b, <1>c, <1>d DEF Placed, Kill
<1>21. CASE Close(t) BY <1>21, <1>a, <1>b, <1>c, <1>d DEF Placed, Close
<1>22. CASE CloseRead(t) BY <1>22, <1>a, <1>b, <1>c, <1>d DEF Placed, CloseRead
<1>23. CASE CloseClear(t) BY <1>23, <1>a, <1>b, <1>c, <1>d DEF Placed, CloseClear
<1>24. CASE Terminate(t) BY <1>24, <1>a, <1>b, <1>c, <1>d DEF Placed, Terminate
<1>25. QED BY <1>1, <1>2, <1>3, <1>4, <1>5, <1>6, <1>7, <1>8, <1>9, <1>10,
       <1>11, <1>12, <1>13, <1>14, <1>15, <1>16, <1>17, <1>18, <1>19, <1>20,
       <1>21, <1>22, <1>23, <1>24 DEF Thread

LEMMA ThreadsKnowHeld ==
    ASSUME TypeOK, Placed, ProcIsKnown,
           NEW t \in Threads, Thread(t)
    PROVE  \A u \in Threads : HeldProc(u)'
<1> USE DEF HeldProc, Locked, Greeting, ClosingAt, Goto, supervisor, client, locals
<1>a. \A c \in 1 .. Len(child) :
          child'[c].state = "running" => child[c].state = "running"
  BY ThreadsMoveStates
<1>b. proc \in 0 .. Len(child) BY DEF TypeOK, ClientType, Procs
<1>c. /\ pc \in [Threads -> PCs] /\ DOMAIN mine = Threads
      /\ Placed /\ None \notin Threads
  BY EngineAssumption DEF TypeOK, ThreadsType, Threads
<1> SUFFICES ASSUME NEW u \in Threads PROVE HeldProc(u)'
  OBVIOUS
<1>d. HeldProc(u) /\ HeldProc(t) BY DEF ProcIsKnown
<1>1. CASE Begin(t) BY <1>1, <1>a, <1>b, <1>c, <1>d DEF Placed, Begin
<1>2. CASE Enter(t) BY <1>2, <1>a, <1>b, <1>c, <1>d DEF Placed, Enter
<1>3. CASE Schema(t) BY <1>3, <1>a, <1>b, <1>c, <1>d DEF Placed, Schema, Fault
<1>4. CASE GiveUp(t) BY <1>4, <1>a, <1>b, <1>c, <1>d DEF Placed, GiveUp
<1>5. CASE Look(t) BY <1>5, <1>a, <1>b, <1>c, <1>d DEF Placed, Look
<1>6. CASE Take(t) BY <1>6, <1>a, <1>b, <1>c, <1>d DEF Placed, Take
<1>7. CASE Poll(t) BY <1>7, <1>a, <1>b, <1>c, <1>d DEF Placed, Poll, Leave, Established
<1>8. CASE Send(t) BY <1>8, <1>a, <1>b, <1>c, <1>d DEF Placed, Send, Broke, Leave
<1>9. CASE Receive(t)
  BY <1>9, <1>a, <1>b, <1>c, <1>d, ReceiveReads
     DEF Receive, Waiting, Broke, Leave, Placed
<1>10. CASE Eof(t) BY <1>10, <1>a, <1>b, <1>c, <1>d DEF Placed, Eof, Broke, Leave, Waiting
<1>11. CASE TimeOut(t) BY <1>11, <1>a, <1>b, <1>c, <1>d DEF Placed, TimeOut, Patience, TimedOut, Leave, Waiting
<1>12. CASE Spawn(t) BY <1>12, <1>a, <1>b, <1>c, <1>d DEF Placed, Spawn, Leave
<1>13. CASE Popen(t) BY <1>13, <1>a, <1>b, <1>c, <1>d DEF Placed, Popen, Fault, Leave
<1>14. CASE Install(t) BY <1>14, <1>a, <1>b, <1>c, <1>d DEF Placed, Install
<1>15. CASE Recheck(t) BY <1>15, <1>a, <1>b, <1>c, <1>d DEF Placed, Recheck, Disown
<1>16. CASE Condemn(t) BY <1>16, <1>a, <1>b, <1>c, <1>d DEF Placed, Condemn, Leave
<1>17. CASE Notify(t) BY <1>17, <1>a, <1>b, <1>c, <1>d DEF Placed, Notify, Leave
<1>18. CASE Spawned(t) BY <1>18, <1>a, <1>b, <1>c, <1>d DEF Placed, Spawned, Disown, Established
<1>19. CASE Respawn(t) BY <1>19, <1>a, <1>b, <1>c, <1>d DEF Placed, Respawn
<1>20. CASE Kill(t) BY <1>20, <1>a, <1>b, <1>c, <1>d DEF Placed, Kill
<1>21. CASE Close(t) BY <1>21, <1>a, <1>b, <1>c, <1>d DEF Placed, Close
<1>22. CASE CloseRead(t) BY <1>22, <1>a, <1>b, <1>c, <1>d DEF Placed, CloseRead
<1>23. CASE CloseClear(t) BY <1>23, <1>a, <1>b, <1>c, <1>d DEF Placed, CloseClear
<1>24. CASE Terminate(t) BY <1>24, <1>a, <1>b, <1>c, <1>d DEF Placed, Terminate
<1>25. QED BY <1>1, <1>2, <1>3, <1>4, <1>5, <1>6, <1>7, <1>8, <1>9, <1>10,
       <1>11, <1>12, <1>13, <1>14, <1>15, <1>16, <1>17, <1>18, <1>19, <1>20,
       <1>21, <1>22, <1>23, <1>24 DEF Thread

LEMMA ThreadsKnowQueue ==
    ASSUME TypeOK, Placed, ProcIsKnown,
           NEW t \in Threads, Thread(t)
    PROVE  ProcIsQueued'
<1> USE DEF ProcIsQueued, HeldProc, Rechecked, Locked, Goto, supervisor, client, locals
<1>a. \A c \in 1 .. Len(child) :
          child'[c].state = "running" => child[c].state = "running"
  BY ThreadsMoveStates
<1>b. proc \in 0 .. Len(child) BY DEF TypeOK, ClientType, Procs
<1>c. /\ pc \in [Threads -> PCs] /\ DOMAIN mine = Threads
      /\ Placed /\ None \notin Threads
  BY EngineAssumption DEF TypeOK, ThreadsType, Threads
<1>d. HeldProc(t) /\ ProcIsQueued BY DEF ProcIsKnown
<1>1. CASE Begin(t) BY <1>1, <1>a, <1>b, <1>c, <1>d DEF Placed, Begin
<1>2. CASE Enter(t) BY <1>2, <1>a, <1>b, <1>c, <1>d DEF Placed, Enter
<1>3. CASE Schema(t) BY <1>3, <1>a, <1>b, <1>c, <1>d DEF Placed, Schema, Fault
<1>4. CASE GiveUp(t) BY <1>4, <1>a, <1>b, <1>c, <1>d DEF Placed, GiveUp
<1>5. CASE Look(t) BY <1>5, <1>a, <1>b, <1>c, <1>d DEF Placed, Look
<1>6. CASE Take(t) BY <1>6, <1>a, <1>b, <1>c, <1>d DEF Placed, Take
<1>7. CASE Poll(t) BY <1>7, <1>a, <1>b, <1>c, <1>d DEF Placed, Poll, Leave, Established
<1>8. CASE Send(t) BY <1>8, <1>a, <1>b, <1>c, <1>d DEF Placed, Send, Broke, Leave
<1>9. CASE Receive(t)
  BY <1>9, <1>a, <1>b, <1>c, <1>d, ReceiveReads
     DEF Receive, Waiting, Broke, Leave, Placed
<1>10. CASE Eof(t) BY <1>10, <1>a, <1>b, <1>c, <1>d DEF Placed, Eof, Broke, Leave, Waiting
<1>11. CASE TimeOut(t) BY <1>11, <1>a, <1>b, <1>c, <1>d DEF Placed, TimeOut, Patience, TimedOut, Leave, Waiting
<1>12. CASE Spawn(t) BY <1>12, <1>a, <1>b, <1>c, <1>d DEF Placed, Spawn, Leave
<1>13. CASE Popen(t) BY <1>13, <1>a, <1>b, <1>c, <1>d DEF Placed, Popen, Fault, Leave
<1>14. CASE Install(t) BY <1>14, <1>a, <1>b, <1>c, <1>d DEF Placed, Install
<1>15. CASE Recheck(t) BY <1>15, <1>a, <1>b, <1>c, <1>d DEF Placed, Recheck, Disown
<1>16. CASE Condemn(t) BY <1>16, <1>a, <1>b, <1>c, <1>d DEF Placed, Condemn, Leave
<1>17. CASE Notify(t) BY <1>17, <1>a, <1>b, <1>c, <1>d DEF Placed, Notify, Leave
<1>18. CASE Spawned(t) BY <1>18, <1>a, <1>b, <1>c, <1>d DEF Placed, Spawned, Disown, Established
<1>19. CASE Respawn(t) BY <1>19, <1>a, <1>b, <1>c, <1>d DEF Placed, Respawn
<1>20. CASE Kill(t) BY <1>20, <1>a, <1>b, <1>c, <1>d DEF Placed, Kill
<1>21. CASE Close(t) BY <1>21, <1>a, <1>b, <1>c, <1>d DEF Placed, Close
<1>22. CASE CloseRead(t) BY <1>22, <1>a, <1>b, <1>c, <1>d DEF Placed, CloseRead
<1>23. CASE CloseClear(t) BY <1>23, <1>a, <1>b, <1>c, <1>d DEF Placed, CloseClear
<1>24. CASE Terminate(t) BY <1>24, <1>a, <1>b, <1>c, <1>d DEF Placed, Terminate
<1>25. QED BY <1>1, <1>2, <1>3, <1>4, <1>5, <1>6, <1>7, <1>8, <1>9, <1>10,
       <1>11, <1>12, <1>13, <1>14, <1>15, <1>16, <1>17, <1>18, <1>19, <1>20,
       <1>21, <1>22, <1>23, <1>24 DEF Thread

LEMMA ThreadsDoom ==
    ASSUME TypeOK, Placed, ProcIsKnown,
           NEW t \in Threads, Thread(t)
    PROVE  ProcIsDoomed'
<1> USE DEF ProcIsDoomed, HeldProc, Rechecked, Locked, ClosingAt, Goto, supervisor, client, locals
<1>a. \A c \in 1 .. Len(child) :
          child'[c].state = "running" => child[c].state = "running"
  BY ThreadsMoveStates
<1>b. proc \in 0 .. Len(child) BY DEF TypeOK, ClientType, Procs
<1>c. /\ pc \in [Threads -> PCs] /\ DOMAIN mine = Threads
      /\ Placed /\ None \notin Threads
  BY EngineAssumption DEF TypeOK, ThreadsType, Threads
<1>d. HeldProc(t) /\ ProcIsDoomed BY DEF ProcIsKnown
<1>1. CASE Begin(t) BY <1>1, <1>a, <1>b, <1>c, <1>d DEF Placed, Begin
<1>2. CASE Enter(t) BY <1>2, <1>a, <1>b, <1>c, <1>d DEF Placed, Enter
<1>3. CASE Schema(t) BY <1>3, <1>a, <1>b, <1>c, <1>d DEF Placed, Schema, Fault
<1>4. CASE GiveUp(t) BY <1>4, <1>a, <1>b, <1>c, <1>d DEF Placed, GiveUp
<1>5. CASE Look(t) BY <1>5, <1>a, <1>b, <1>c, <1>d DEF Placed, Look
<1>6. CASE Take(t) BY <1>6, <1>a, <1>b, <1>c, <1>d DEF Placed, Take
<1>7. CASE Poll(t) BY <1>7, <1>a, <1>b, <1>c, <1>d DEF Placed, Poll, Leave, Established
<1>8. CASE Send(t) BY <1>8, <1>a, <1>b, <1>c, <1>d DEF Placed, Send, Broke, Leave
<1>9. CASE Receive(t)
  BY <1>9, <1>a, <1>b, <1>c, <1>d, ReceiveReads
     DEF Receive, Waiting, Broke, Leave, Placed
<1>10. CASE Eof(t) BY <1>10, <1>a, <1>b, <1>c, <1>d DEF Placed, Eof, Broke, Leave, Waiting
<1>11. CASE TimeOut(t) BY <1>11, <1>a, <1>b, <1>c, <1>d DEF Placed, TimeOut, Patience, TimedOut, Leave, Waiting
<1>12. CASE Spawn(t) BY <1>12, <1>a, <1>b, <1>c, <1>d DEF Placed, Spawn, Leave
<1>13. CASE Popen(t) BY <1>13, <1>a, <1>b, <1>c, <1>d DEF Placed, Popen, Fault, Leave
<1>14. CASE Install(t) BY <1>14, <1>a, <1>b, <1>c, <1>d DEF Placed, Install
<1>15. CASE Recheck(t) BY <1>15, <1>a, <1>b, <1>c, <1>d DEF Placed, Recheck, Disown
<1>16. CASE Condemn(t) BY <1>16, <1>a, <1>b, <1>c, <1>d DEF Placed, Condemn, Leave
<1>17. CASE Notify(t) BY <1>17, <1>a, <1>b, <1>c, <1>d DEF Placed, Notify, Leave
<1>18. CASE Spawned(t) BY <1>18, <1>a, <1>b, <1>c, <1>d DEF Placed, Spawned, Disown, Established
<1>19. CASE Respawn(t) BY <1>19, <1>a, <1>b, <1>c, <1>d DEF Placed, Respawn
<1>20. CASE Kill(t) BY <1>20, <1>a, <1>b, <1>c, <1>d DEF Placed, Kill
<1>21. CASE Close(t) BY <1>21, <1>a, <1>b, <1>c, <1>d DEF Placed, Close
<1>22. CASE CloseRead(t) BY <1>22, <1>a, <1>b, <1>c, <1>d DEF Placed, CloseRead
<1>23. CASE CloseClear(t) BY <1>23, <1>a, <1>b, <1>c, <1>d DEF Placed, CloseClear
<1>24. CASE Terminate(t) BY <1>24, <1>a, <1>b, <1>c, <1>d DEF Placed, Terminate
<1>25. QED BY <1>1, <1>2, <1>3, <1>4, <1>5, <1>6, <1>7, <1>8, <1>9, <1>10,
       <1>11, <1>12, <1>13, <1>14, <1>15, <1>16, <1>17, <1>18, <1>19, <1>20,
       <1>21, <1>22, <1>23, <1>24 DEF Thread

LEMMA ThreadsHandOn ==
    ASSUME TypeOK, Placed, ProcIsKnown, Running(proc),
           NEW t \in Threads, Thread(t)
    PROVE  \/ proc' = proc
           \/ mine'[t] = proc /\ pc'[t] \in Keeping
           \/ \E u \in Threads \ {t} : mine[u] = proc /\ pc[u] \in Keeping
<1> USE DEF Running, Goto, supervisor, client, locals
<1>a. /\ pc \in [Threads -> PCs] /\ DOMAIN mine = Threads
      /\ mine[t] \in 0 .. Len(child) /\ proc \in 0 .. Len(child)
  BY DEF TypeOK, ThreadsType, ClientType, Procs
<1>b. /\ IdleProc(t)
      /\ pc[t] = "clear" => proc \in {0, mine[t]} \/ Rechecked(proc)
  BY DEF ProcIsKnown, ProcIsDoomed
<1>1. CASE Begin(t) BY <1>1 DEF Begin
<1>2. CASE Enter(t) BY <1>2 DEF Enter
<1>3. CASE Schema(t) BY <1>3 DEF Schema, Fault
<1>4. CASE GiveUp(t) BY <1>4 DEF GiveUp
<1>5. CASE Look(t) BY <1>5 DEF Look
<1>6. CASE Take(t) BY <1>6 DEF Take
<1>7. CASE Poll(t) BY <1>7 DEF Poll, Leave, Established
<1>8. CASE Send(t) BY <1>8 DEF Send, Broke, Leave
<1>9. CASE Receive(t) BY <1>9 DEF Receive, Matches, Answered, Broke, Leave
<1>10. CASE Eof(t) BY <1>10 DEF Eof, Broke, Leave
<1>11. CASE TimeOut(t) BY <1>11 DEF TimeOut, Patience, TimedOut, Leave
<1>12. CASE Spawn(t) BY <1>12 DEF Spawn, Leave
<1>13. CASE Popen(t) BY <1>13 DEF Popen, Fault, Leave
<1>14. CASE Install(t)
  BY <1>14, <1>b DEF Install, IdleProc
<1>15. CASE Recheck(t)
  BY <1>15, <1>a DEF Recheck, Disown, Keeping
<1>16. CASE Condemn(t) BY <1>16 DEF Condemn, Leave
<1>17. CASE Notify(t) BY <1>17 DEF Notify, Leave
<1>18. CASE Spawned(t)
  BY <1>18, <1>a DEF Spawned, Disown, Established, Keeping
<1>19. CASE Respawn(t)
  BY <1>19, <1>a DEF Respawn, Keeping
<1>20. CASE Kill(t) BY <1>20 DEF Kill
<1>21. CASE Close(t) BY <1>21 DEF Close
<1>22. CASE CloseRead(t)
  BY <1>22, <1>a DEF CloseRead, Keeping
<1>23. CASE CloseClear(t)
  BY <1>23, <1>a, <1>b DEF CloseClear, Rechecked, Keeping
<1>24. CASE Terminate(t) BY <1>24 DEF Terminate
<1>25. QED BY <1>1, <1>2, <1>3, <1>4, <1>5, <1>6, <1>7, <1>8, <1>9, <1>10,
       <1>11, <1>12, <1>13, <1>14, <1>15, <1>16, <1>17, <1>18, <1>19, <1>20,
       <1>21, <1>22, <1>23, <1>24 DEF Thread

LEMMA ThreadsHoldOn ==
    ASSUME TypeOK, Placed, ProcIsKnown,
           NEW t \in Threads, Thread(t),
           mine[t] # 0, pc[t] \in Keeping,
           child'[mine[t]].state = "running"
    PROVE  \/ proc' = mine[t]
           \/ mine'[t] = mine[t] /\ pc'[t] \in Keeping
<1> USE DEF Keeping, Goto, supervisor, client, locals
<1>a. /\ pc \in [Threads -> PCs] /\ DOMAIN mine = Threads
      /\ mine[t] \in 0 .. Len(child) /\ proc \in 0 .. Len(child)
  BY DEF TypeOK, ThreadsType, ClientType, Procs
<1>b. /\ pc[t] \notin {"condemn", "kill", "terminate"}
      /\ pc[t] = "recheck" /\ ~closed => proc = mine[t]
  BY ThreadsMoveStates DEF ProcIsKnown, HeldProc
<1>1. CASE Begin(t) BY <1>1, <1>a, <1>b DEF Begin
<1>2. CASE Enter(t) BY <1>2, <1>a, <1>b DEF Enter
<1>3. CASE Schema(t) BY <1>3, <1>a, <1>b DEF Schema, Fault
<1>4. CASE GiveUp(t) BY <1>4, <1>a, <1>b DEF GiveUp
<1>5. CASE Look(t) BY <1>5, <1>a, <1>b DEF Look
<1>6. CASE Take(t) BY <1>6, <1>a, <1>b DEF Take
<1>7. CASE Poll(t) BY <1>7, <1>a, <1>b DEF Poll, Leave, Established
<1>8. CASE Send(t) BY <1>8, <1>a, <1>b DEF Send, Broke, Leave
<1>9. CASE Receive(t)
    BY <1>9, <1>a, <1>b DEF Receive, Matches, Answered, Broke, Leave, Waiting
<1>10. CASE Eof(t) BY <1>10, <1>a, <1>b DEF Eof, Broke, Leave, Waiting
<1>11. CASE TimeOut(t) BY <1>11, <1>a, <1>b DEF TimeOut, Patience, TimedOut, Leave, Waiting
<1>12. CASE Spawn(t) BY <1>12, <1>a, <1>b DEF Spawn, Leave
<1>13. CASE Popen(t) BY <1>13, <1>a, <1>b DEF Popen, Fault, Leave
<1>14. CASE Install(t) BY <1>14, <1>a, <1>b DEF Install
<1>15. CASE Recheck(t) BY <1>15, <1>a, <1>b DEF Recheck, Disown
<1>16. CASE Condemn(t) BY <1>16, <1>a, <1>b DEF Condemn, Leave
<1>17. CASE Notify(t) BY <1>17, <1>a, <1>b DEF Notify, Leave
<1>18. CASE Spawned(t) BY <1>18, <1>a, <1>b DEF Spawned, Disown, Established
<1>19. CASE Respawn(t) BY <1>19, <1>a, <1>b DEF Respawn
<1>20. CASE Kill(t) BY <1>20, <1>a, <1>b DEF Kill
<1>21. CASE Close(t) BY <1>21, <1>a, <1>b DEF Close
<1>22. CASE CloseRead(t) BY <1>22, <1>a, <1>b DEF CloseRead
<1>23. CASE CloseClear(t) BY <1>23, <1>a, <1>b DEF CloseClear
<1>24. CASE Terminate(t) BY <1>24, <1>a, <1>b DEF Terminate
<1>25. QED BY <1>1, <1>2, <1>3, <1>4, <1>5, <1>6, <1>7, <1>8, <1>9, <1>10,
       <1>11, <1>12, <1>13, <1>14, <1>15, <1>16, <1>17, <1>18, <1>19, <1>20,
       <1>21, <1>22, <1>23, <1>24 DEF Thread

LEMMA ThreadsKeepChildren ==
    ASSUME TypeOK, Placed, ProcIsKnown, EveryChildIsKept,
           NEW t \in Threads, Thread(t)
    PROVE  EveryChildIsKept'
<1> SUFFICES ASSUME NEW c \in 1 .. Len(child'), Running(c)'
             PROVE  c = proc' \/ \E u \in Threads :
                                    mine'[u] = c /\ pc'[u] \in Keeping
  BY DEF EveryChildIsKept
<1>1. /\ pc \in [Threads -> PCs] /\ DOMAIN mine = Threads
      /\ Len(child) \in Nat
  BY DEF TypeOK, ThreadsType
<1>2. ASSUME c \notin 1 .. Len(child)
      PROVE  mine'[t] = c /\ pc'[t] \in Keeping
  <2>1. Len(child') # Len(child) BY <1>2
  <2>2. /\ pc' = [pc EXCEPT ![t] = "install"]
        /\ Len(child') = Len(child) + 1
        /\ mine' = [mine EXCEPT ![t] = Len(child')]
    BY <2>1, ThreadsMoveStates
  <2>3. c = Len(child') BY <1>1, <1>2, <2>2
  <2>4. QED BY <1>1, <2>2, <2>3 DEF Keeping
<1>3. ASSUME c \in 1 .. Len(child)
      PROVE  c = proc' \/ \E u \in Threads :
                             mine'[u] = c /\ pc'[u] \in Keeping
  <2>1. child'[c].state = "running" /\ Running(c)
    BY <1>3, ThreadsMoveStates DEF Running
  <2>2. c = proc \/ \E u \in Threads : mine[u] = c /\ pc[u] \in Keeping
    BY <1>3, <2>1 DEF EveryChildIsKept
  <2>3. ASSUME NEW u \in Threads \ {t}, mine[u] = c, pc[u] \in Keeping
        PROVE  mine'[u] = c /\ pc'[u] \in Keeping
    BY <2>3, OthersStay
  <2>4. ASSUME c = proc
        PROVE  c = proc' \/ \E u \in Threads :
                               mine'[u] = c /\ pc'[u] \in Keeping
    BY <2>1, <2>3, <2>4, ThreadsHandOn
  <2>5. ASSUME mine[t] = c, pc[t] \in Keeping
        PROVE  c = proc' \/ (mine'[t] = c /\ pc'[t] \in Keeping)
    <3>1. c # 0 BY <1>3
    <3>2. QED BY <2>1, <2>5, <3>1, ThreadsHoldOn
  <2>6. QED BY <2>2, <2>3, <2>4, <2>5
<1>4. QED BY <1>2, <1>3

LEMMA EngineMoves ==
    ASSUME TypeOK, Engine
    PROVE  /\ child' \in Seq(Process) /\ Len(child') = Len(child)
           /\ \A c \in 1 .. Len(child) :
                 /\ child'[c].state = "running" => child[c].state = "running"
                 /\ child'[c].state = "killed" => child[c].state = "killed"
           /\ faults' \in 0 .. MaxFaults
           /\ UNCHANGED <<supervisor, client, pc, locals>>
<1> child \in Seq(Process) BY DEF TypeOK
<1>1. faults \in 0 .. MaxFaults /\ MaxFaults \in Nat
  BY EngineAssumption DEF TypeOK, ClientType
<1>2. PICK c \in 1 .. Len(child) :
          \/ Serves(c, TRUE) /\ UNCHANGED faults
          \/ Serves(c, FALSE) /\ Fault
          \/ Dies(c)
  BY DEF Engine
<1>3. UNCHANGED faults \/ Fault BY <1>2 DEF Dies
<1>4. faults' \in 0 .. MaxFaults BY <1>1, <1>3 DEF Fault
<1>5. CASE Dies(c)
  <2>1. /\ UNCHANGED <<supervisor, client, pc, locals>>
        /\ child' = [child EXCEPT ![c].state = "died"]
        /\ child[c].state = "running"
    BY <1>5 DEF Dies, Running
  <2>2. /\ child' \in Seq(Process) /\ Len(child') = Len(child)
        /\ \A d \in 1 .. Len(child) :
              child'[d].state = IF d = c THEN "died" ELSE child[d].state
    BY <2>1, DiedOne
  <2>3. QED BY <1>4, <2>1, <2>2
<1>6. CASE Serves(c, TRUE) \/ Serves(c, FALSE)
  <2>1. PICK ok \in BOOLEAN : Serves(c, ok) BY <1>6
  <2>2. UNCHANGED <<supervisor, client, pc, locals>> BY <2>1 DEF Serves
  <2>3. QED BY <1>4, <2>1, <2>2, ServedOne
<1>7. QED BY <1>2, <1>5, <1>6

LEMMA EngineKeepsClient == ASSUME ClientInv, Engine PROVE ClientInv'
<1> USE DEF ClientInv, supervisor, client, locals
<1>1. /\ child' \in Seq(Process) /\ Len(child') = Len(child)
      /\ \A c \in 1 .. Len(child) :
            child'[c].state = "running" => child[c].state = "running"
      /\ faults' \in 0 .. MaxFaults
      /\ UNCHANGED <<supervisor, client, pc, locals>>
  BY EngineMoves
<1>2. TypeOK'
  BY <1>1 DEF TypeOK, FlagsType, ClientType, ThreadsType, Procs
<1>3. Placed' BY <1>1 DEF Placed
<1>4. EveryChildIsKept' BY <1>1 DEF EveryChildIsKept, Running
<1>5. ProcIsKnown'
  <2>1. proc \in 0 .. Len(child) BY DEF TypeOK, ClientType, Procs
  <2>2. \A t \in Threads : IdleProc(t)' /\ HeldProc(t)'
    BY <1>1, <2>1 DEF ProcIsKnown, IdleProc, HeldProc, Running
  <2>3. ProcIsQueued' /\ ProcIsDoomed'
    BY <1>1 DEF ProcIsKnown, ProcIsQueued, ProcIsDoomed, Rechecked
  <2>4. QED BY <2>2, <2>3 DEF ProcIsKnown
<1>6. QED BY <1>2, <1>3, <1>4, <1>5

LEMMA StopMoves ==
    ASSUME TypeOK, Stop
    PROVE  /\ UNCHANGED <<client, child, locals, faults>>
           /\ \/ pc[Stopper] = "idle" /\ pc' = [pc EXCEPT ![Stopper] = "close"]
              \/ pc[Stopper] = "idle" /\ pc' = [pc EXCEPT ![Stopper] = "stop"]
              \/ pc[Stopper] = "stop" /\ pc' = [pc EXCEPT ![Stopper] = "done"]
           /\ supLock' \in Threads \cup {None} /\ FlagsType'
BY DEF Stop, StopBegin, StopEnd, Goto, TypeOK, FlagsType, ClientType, Threads,
       client

LEMMA StopKeepsClient == ASSUME ClientInv, Stop PROVE ClientInv'
<1> USE DEF ClientInv, client, locals
<1>1. /\ UNCHANGED <<client, child, locals, faults>>
      /\ supLock' \in Threads \cup {None} /\ FlagsType'
      /\ Stopper \in Threads /\ pc \in [Threads -> PCs]
  BY StopMoves DEF Threads, TypeOK, ThreadsType
<1>2. PICK here \in {"idle", "stop"}, there \in {"close", "stop", "done"} :
          pc[Stopper] = here /\ pc' = [pc EXCEPT ![Stopper] = there]
  BY StopMoves
<1>3. TypeOK'
  <2>1. pc' \in [Threads -> PCs] BY <1>1, <1>2 DEF PCs
  <2>2. QED BY <1>1, <2>1 DEF TypeOK, ClientType, ThreadsType, Procs
<1>4. Placed' BY <1>1, <1>2 DEF Placed, Locked, Greeting, ClosingAt
<1>5. EveryChildIsKept'
  BY <1>1, <1>2 DEF EveryChildIsKept, Keeping, Running
<1>6. ProcIsKnown'
  <2>1. \A t \in Threads : IdleProc(t)' /\ HeldProc(t)'
    BY <1>1, <1>2 DEF ProcIsKnown, IdleProc, HeldProc, Greeting, Running
  <2>2. \A c : Rechecked(c) <=> Rechecked(c)'
    BY <1>1, <1>2 DEF Rechecked
  <2>3. ProcIsQueued' /\ ProcIsDoomed'
    BY <1>1, <1>2, <2>2 DEF ProcIsKnown, ProcIsQueued, ProcIsDoomed
  <2>4. QED BY <2>1, <2>3 DEF ProcIsKnown
<1>7. QED BY <1>3, <1>4, <1>5, <1>6

LEMMA StartsWithClient == ASSUME Init PROVE ClientInv
<1> USE EngineAssumption DEF Init
<1>1. TypeOK
  <2>1. child \in Seq(Process) /\ Len(child) = 0 OBVIOUS
  <2>2. FlagsType BY DEF FlagsType
  <2>3. ClientType BY <2>1 DEF ClientType, Procs
  <2>4. ThreadsType BY <2>1 DEF ThreadsType, Procs, PCs, NoReply
  <2>5. QED BY <2>1, <2>2, <2>3, <2>4 DEF TypeOK
<1>2. Placed BY DEF Placed, Locked, Greeting, ClosingAt
<1>3. EveryChildIsKept BY DEF EveryChildIsKept
<1>4. ProcIsKnown
  BY DEF ProcIsKnown, IdleProc, HeldProc, Greeting, ProcIsQueued, ProcIsDoomed
<1>5. QED BY <1>1, <1>2, <1>3, <1>4 DEF ClientInv

LEMMA StepsKeepClient == ASSUME ClientInv, [Next]_vars PROVE ClientInv'
<1>1. ASSUME NEW t \in Threads, Thread(t) PROVE ClientInv'
  <2> USE <1>1 DEF ClientInv
  <2>1. TypeOK'
    BY ThreadsMoveChildren, ThreadsKeepFlags, ThreadsKeepClient,
       ThreadsKeepThreads DEF TypeOK
  <2>2. Placed' BY ThreadsKeepPlaces
  <2>3. EveryChildIsKept' BY ThreadsKeepChildren
  <2>4. ProcIsKnown'
    BY ThreadsKnowIdle, ThreadsKnowHeld, ThreadsKnowQueue, ThreadsDoom
       DEF ProcIsKnown
  <2>5. QED BY <2>1, <2>2, <2>3, <2>4
<1>2. CASE UNCHANGED vars
  BY <1>2 DEF ClientInv, TypeOK, FlagsType, ClientType, ThreadsType, Procs,
              Placed, EveryChildIsKept, ProcIsKnown, IdleProc, HeldProc,
              ProcIsQueued, ProcIsDoomed, Rechecked, Running, vars, supervisor,
              client, locals
<1>3. QED BY <1>1, <1>2, StopKeepsClient, EngineKeepsClient DEF Next

LEMMA ClientInvariance == Spec => []ClientInv
BY StartsWithClient, StepsKeepClient, PTL DEF Spec

\* The types of the client's model.
THEOREM TypesHold == Spec => []TypeOK
BY ClientInvariance, PTL DEF ClientInv

\* Whatever callers, deaths, refusals and timeouts a shutdown meets, and
\* whether or not it got the lock, no process of the engine outlives the
\* client (close and the second look of _spawn at _closed).
THEOREM NothingIsOrphaned == Spec => []NoOrphan
<1>1. ASSUME ClientInv PROVE NoOrphan
  <2> SUFFICES ASSUME closed, \A t \in Threads : pc[t] \notin ClosingAt,
                      NEW c \in 1 .. Len(child), Running(c)
               PROVE  \E t \in Threads :
                          /\ mine[t] = c
                          /\ pc[t] \in {"install", "recheck", "condemn", "kill"}
    BY DEF NoOrphan
  <2>1. c = proc \/ \E t \in Threads : mine[t] = c /\ pc[t] \in Keeping
    BY <1>1 DEF ClientInv, EveryChildIsKept
  <2>2. CASE c = proc
    <3>1. c # 0 BY DEF Running
    <3>2. Rechecked(proc)
      BY <1>1, <2>2, <3>1
         DEF ClientInv, ProcIsKnown, ProcIsDoomed, ClosingAt
    <3>3. QED BY <2>2, <3>2 DEF Rechecked
  <2>3. QED BY <2>1, <2>2 DEF Keeping, ClosingAt
<1>2. QED BY <1>1, ClientInvariance, PTL

-----------------------------------------------------------------------------
(* What is on the wire. *)

LEMMA RequestsStayOrderly ==
    ASSUME NEW requests \in Seq(Requests), NEW lines \in Seq(Lines),
           NEW last \in Nat, Orderly(requests, lines, last),
           NEW m \in Requests, m.id = last + 1
    PROVE  Orderly(Append(requests, m), lines, last + 1)
<1>0. /\ \A i \in 1 .. Len(requests) : requests[i] \in Requests
      /\ \A k \in 1 .. Len(lines) : lines[k] \in Lines
  OBVIOUS
<1>1. /\ \A i \in 1 .. Len(requests) : requests[i].id \in Nat
      /\ \A k \in 1 .. Len(lines) : lines[k].id \in Nat
  BY <1>0 DEF Requests, Lines
<1> DEFINE new == Append(requests, m)
<1>2. /\ Len(new) = Len(requests) + 1
      /\ \A i \in 1 .. Len(new) :
            IF i = Len(requests) + 1 THEN new[i] = m ELSE new[i] = requests[i]
  OBVIOUS
<1>3. /\ Len(requests) \in Nat /\ Len(lines) \in Nat
      /\ m.id \in Nat
  BY DEF Requests
<1> HIDE DEF new
<1>4. \A i \in 1 .. Len(new) :
          i = Len(requests) + 1 \/ i \in 1 .. Len(requests)
  BY <1>2, <1>3
<1>5. ASSUME NEW i \in 1 .. Len(new)
      PROVE  /\ new[i].id <= last + 1
             /\ \A k \in 1 .. Len(lines) : lines[k].id < new[i].id
  <2>1. CASE i = Len(requests) + 1
    BY <1>1, <1>2, <1>3, <2>1 DEF Orderly
  <2>2. CASE i \in 1 .. Len(requests)
    BY <1>1, <1>2, <1>3, <2>2 DEF Orderly
  <2>3. QED BY <1>4, <2>1, <2>2
<1>6. ASSUME NEW i \in 1 .. Len(new), NEW j \in 1 .. Len(new), i < j
      PROVE  new[i].id < new[j].id
  <2>1. i \in 1 .. Len(requests) /\ new[i] = requests[i]
    BY <1>2, <1>3, <1>6
  <2>2. CASE j = Len(requests) + 1
    BY <1>1, <1>2, <1>3, <2>1, <2>2 DEF Orderly
  <2>3. CASE j \in 1 .. Len(requests)
    BY <1>2, <1>3, <1>6, <2>1, <2>3 DEF Orderly
  <2>4. QED BY <1>4, <2>2, <2>3
<1>7. \A k \in 1 .. Len(lines) : lines[k].id <= last + 1
  BY <1>1 DEF Orderly
<1>8. Orderly(new, lines, last + 1) BY <1>5, <1>6, <1>7 DEF Orderly
<1>9. QED BY <1>8 DEF new

LEMMA OrderlyLater ==
    ASSUME NEW requests \in Seq(Requests), NEW lines \in Seq(Lines),
           NEW last \in Nat, Orderly(requests, lines, last)
    PROVE  /\ Orderly(requests, lines, last + 1)
           /\ \A i \in 1 .. Len(requests) : requests[i].id # last + 1
           /\ \A k \in 1 .. Len(lines) : lines[k].id # last + 1
<1>1. /\ \A i \in 1 .. Len(requests) : requests[i] \in Requests
      /\ \A k \in 1 .. Len(lines) : lines[k] \in Lines
  OBVIOUS
<1>2. /\ \A i \in 1 .. Len(requests) : requests[i].id \in Nat
      /\ \A k \in 1 .. Len(lines) : lines[k].id \in Nat
  BY <1>1 DEF Requests, Lines
<1>3. \A i \in Nat : i <= last => i <= last + 1 /\ i # last + 1 OBVIOUS
<1>4. /\ \A i \in 1 .. Len(requests) :
            requests[i].id <= last + 1 /\ requests[i].id # last + 1
      /\ \A k \in 1 .. Len(lines) :
            lines[k].id <= last + 1 /\ lines[k].id # last + 1
  BY <1>2, <1>3 DEF Orderly
<1>5. QED BY <1>4 DEF Orderly

LEMMA ServedStayOrderly ==
    ASSUME NEW requests \in Seq(Requests), NEW lines \in Seq(Lines),
           NEW last \in Nat, Orderly(requests, lines, last),
           requests # <<>>,
           NEW m \in Lines, m.id = Head(requests).id
    PROVE  Orderly(Tail(requests), Append(lines, m), last)
<1>0. /\ \A i \in 1 .. Len(requests) : requests[i] \in Requests
      /\ \A k \in 1 .. Len(lines) : lines[k] \in Lines
  OBVIOUS
<1>1. /\ \A i \in 1 .. Len(requests) : requests[i].id \in Nat
      /\ \A k \in 1 .. Len(lines) : lines[k].id \in Nat
  BY <1>0 DEF Requests, Lines
<1>2. m.id = requests[1].id /\ 1 \in 1 .. Len(requests) OBVIOUS
<1>3. /\ Len(Tail(requests)) = Len(requests) - 1
      /\ \A i \in 1 .. Len(requests) - 1 : Tail(requests)[i] = requests[i + 1]
  OBVIOUS
<1>4. /\ Len(Append(lines, m)) = Len(lines) + 1
      /\ \A k \in 1 .. Len(lines) : Append(lines, m)[k] = lines[k]
      /\ Append(lines, m)[Len(lines) + 1] = m
  OBVIOUS
<1> DEFINE rest == Tail(requests)
           more == Append(lines, m)
<1> HIDE DEF rest, more
<1>5. ASSUME NEW i \in 1 .. Len(rest)
      PROVE  /\ rest[i].id <= last
             /\ \A j \in 1 .. Len(rest) : i < j => rest[i].id < rest[j].id
             /\ \A k \in 1 .. Len(more) : more[k].id < rest[i].id
  <2>1. i + 1 \in 1 .. Len(requests) /\ 1 < i + 1 /\ rest[i] = requests[i + 1]
    BY <1>2, <1>3, <1>5 DEF rest
  <2>2. rest[i].id <= last /\ m.id < rest[i].id BY <1>2, <2>1 DEF Orderly
  <2>3. ASSUME NEW j \in 1 .. Len(rest), i < j PROVE rest[i].id < rest[j].id
    <3>1. j + 1 \in 1 .. Len(requests) /\ i + 1 < j + 1
          /\ rest[j] = requests[j + 1]
      BY <1>3, <2>3 DEF rest
    <3>2. QED BY <2>1, <3>1 DEF Orderly
  <2>4. ASSUME NEW k \in 1 .. Len(more) PROVE more[k].id < rest[i].id
    <3>1. CASE k \in 1 .. Len(lines)
      BY <1>4, <2>1, <3>1 DEF Orderly, more
    <3>2. CASE k = Len(lines) + 1 BY <1>4, <2>2, <3>2 DEF more
    <3>3. QED BY <1>4, <3>1, <3>2 DEF more
  <2>5. QED BY <2>2, <2>3, <2>4
<1>6. \A k \in 1 .. Len(more) : more[k].id <= last
  BY <1>2, <1>4 DEF Orderly, more
<1>7. QED BY <1>5, <1>6 DEF Orderly, rest, more

LEMMA ReadStayOrderly ==
    ASSUME NEW requests, NEW lines \in Seq(Lines), NEW last,
           Orderly(requests, lines, last), lines # <<>>
    PROVE  Orderly(requests, Tail(lines), last)
BY DEF Orderly

LEMMA BearingIsKept ==
    ASSUME NEW S, NEW s \in Seq(S), NEW id, NEW t, NEW what,
           Bearing(s, id, t, what)
    PROVE  /\ s # <<>> => Bearing(Tail(s), id, t, what)
           /\ \A m \in S : (m.id = id => m.from = t /\ m.what = what) =>
                  Bearing(Append(s, m), id, t, what)
BY DEF Bearing

\* A step that neither asks, serves nor reads.
Quiet ==
    /\ UNCHANGED <<lastId, asked>>
    /\ \A u \in Threads :
          Waiting(u)' => pc'[u] = pc[u] /\ task'[u] = task[u]
    /\ \A c \in 1 .. Len(child') :
          \/ /\ c \in 1 .. Len(child)
             /\ child'[c].inbox = child[c].inbox
             /\ child'[c].out = child[c].out
          \/ child'[c].inbox = <<>> /\ child'[c].out = <<>>

LEMMA QuietKeepsWire ==
    ASSUME InOrder, OwnId, Quiet PROVE InOrder' /\ OwnId'
<1>1. \A t \in Threads : Waiting(t)' => Waiting(t) /\ Meant(t)' = Meant(t)
  BY DEF Quiet, Waiting, Meant
<1>2. InOrder'
  <2>1. \A t \in Threads : Waiting(t)' => asked'[t] = lastId'
    BY <1>1 DEF InOrder, Quiet
  <2>2. ASSUME NEW c \in 1 .. Len(child')
        PROVE  Orderly(child'[c].inbox, child'[c].out, lastId')
    <3>1. CASE child'[c].inbox = <<>> /\ child'[c].out = <<>>
      BY <3>1 DEF Orderly
    <3>2. QED BY <3>1 DEF InOrder, Quiet
  <2>3. QED BY <2>1, <2>2 DEF InOrder
<1>3. OwnId'
  <2> SUFFICES ASSUME NEW t \in Threads, NEW c \in 1 .. Len(child'),
                      Waiting(t)'
               PROVE  /\ Bearing(child'[c].inbox, asked'[t], t, Meant(t)')
                      /\ Bearing(child'[c].out, asked'[t], t, Meant(t)')
    BY DEF OwnId
  <2>1. CASE child'[c].inbox = <<>> /\ child'[c].out = <<>>
    BY <2>1 DEF Bearing
  <2>2. QED BY <1>1, <2>1 DEF OwnId, Quiet
<1>4. QED BY <1>2, <1>3

LEMMA ChildIsProcess ==
    ASSUME TypeOK, NEW c \in 1 .. Len(child)
    PROVE  child[c].inbox \in Seq(Requests) /\ child[c].out \in Seq(Lines)
<1>1. child[c] \in Process BY DEF TypeOK
<1>2. QED BY <1>1 DEF Process

LEMMA EngineKeepsWire ==
    ASSUME TypeOK, InOrder, OwnId, Engine PROVE InOrder' /\ OwnId'
<1>1. UNCHANGED <<lastId, asked, pc, task>> BY EngineMoves DEF client, locals
<1>2. PICK c \in 1 .. Len(child) :
          Serves(c, TRUE) \/ Serves(c, FALSE) \/ Dies(c)
  BY DEF Engine
<1>3. CASE Dies(c)
  <2>1. Quiet BY <1>1, <1>3, DiedOne DEF Quiet, Dies, TypeOK
  <2>2. QED BY <2>1, QuietKeepsWire
<1>4. CASE Serves(c, TRUE) \/ Serves(c, FALSE)
  <2>1. PICK ok \in BOOLEAN : Serves(c, ok) BY <1>4
  <2> DEFINE r == Head(child[c].inbox)
             m == [id |-> r.id, from |-> r.from, what |-> r.what, ok |-> ok]
  <2>2. /\ Len(child') = Len(child)
        /\ \A d \in 1 .. Len(child) : d # c => child'[d] = child[d]
        /\ child[c].inbox \in Seq(Requests) /\ child[c].inbox # <<>>
        /\ child'[c].inbox = Tail(child[c].inbox)
        /\ m \in Lines /\ child[c].out \in Seq(Lines)
        /\ child'[c].out = Append(child[c].out, m)
    BY <2>1, ServedOne DEF TypeOK
  <2>3. /\ m.id = r.id /\ m.from = r.from /\ m.what = r.what
        /\ r = child[c].inbox[1] /\ 1 \in 1 .. Len(child[c].inbox)
    BY <2>2
  <2> HIDE DEF m, r
  <2>4. lastId \in Nat BY DEF TypeOK, ClientType
  <2>5. Orderly(child'[c].inbox, child'[c].out, lastId)
    BY <2>2, <2>3, <2>4, ServedStayOrderly DEF InOrder, r
  <2>6. InOrder' BY <1>1, <2>2, <2>5 DEF InOrder, Waiting
  <2>7. OwnId'
    <3> SUFFICES ASSUME NEW t \in Threads, NEW d \in 1 .. Len(child),
                        Waiting(t)
                 PROVE  /\ Bearing(child'[d].inbox, asked[t], t, Meant(t))
                        /\ Bearing(child'[d].out, asked[t], t, Meant(t))
      BY <1>1, <2>2 DEF OwnId, Waiting, Meant
    <3>1. /\ Bearing(child[d].inbox, asked[t], t, Meant(t))
          /\ Bearing(child[d].out, asked[t], t, Meant(t))
      BY DEF OwnId
    <3>2. CASE d = c
      <4>1. m.id = asked[t] => m.from = t /\ m.what = Meant(t)
        BY <2>3, <3>1, <3>2 DEF Bearing
      <4>2. QED BY <2>2, <3>1, <3>2, <4>1, BearingIsKept
    <3>3. QED BY <2>2, <3>1, <3>2
  <2>8. QED BY <2>6, <2>7
<1>5. QED BY <1>2, <1>3, <1>4

LEMMA OthersAreQuiet ==
    ASSUME TypeOK, Placed,
           NEW t \in Threads, Thread(t)
    PROVE  Quiet \/ Send(t) \/ Receive(t)
<1> USE DEF Quiet, Waiting, Goto, supervisor, client, locals
<1> /\ child \in Seq(Process) /\ pc \in [Threads -> PCs]
    /\ task \in [Threads -> {"start", "tools", "call"}]
  BY DEF TypeOK, ThreadsType
<1>1. CASE Begin(t) BY <1>1 DEF Begin
<1>2. CASE Enter(t) BY <1>2 DEF Enter
<1>3. CASE Schema(t) BY <1>3 DEF Schema, Fault
<1>4. CASE GiveUp(t) BY <1>4 DEF GiveUp
<1>5. CASE Look(t) BY <1>5 DEF Look
<1>6. CASE Take(t) BY <1>6 DEF Take
<1>7. CASE Poll(t) BY <1>7 DEF Poll, Leave, Established
<1>8. CASE Send(t)
  BY <1>8
<1>9. CASE Receive(t)
  BY <1>9
<1>10. CASE Eof(t) BY <1>10 DEF Eof, Broke, Leave
<1>11. CASE TimeOut(t) BY <1>11 DEF TimeOut, Patience, TimedOut, Leave
<1>12. CASE Spawn(t) BY <1>12 DEF Spawn, Leave
<1>13. CASE Popen(t)
  <2>1. CASE child' = Append(child, Fresh)
    <3>1. \A c \in 1 .. Len(child') :
              child'[c] = Fresh \/ (c \in 1 .. Len(child) /\ child'[c] = child[c])
      BY <2>1, SpawnedOne
    <3>2. Fresh.inbox = <<>> /\ Fresh.out = <<>> BY DEF Fresh
    <3> HIDE DEF Goto
    <3>3. UNCHANGED <<lastId, asked, task>> BY <1>13 DEF Popen
    <3>4. \A u \in Threads : Waiting(u)' => pc'[u] = pc[u]
      BY <1>13 DEF Popen, Leave, Goto
    <3>5. QED BY <3>1, <3>2, <3>3, <3>4
  <2>2. CASE UNCHANGED child BY <1>13, <2>2 DEF Popen, Fault, Leave
  <2>3. QED BY <1>13, <2>1, <2>2 DEF Popen
<1>14. CASE Install(t) BY <1>14 DEF Install
<1>15. CASE Recheck(t) BY <1>15 DEF Recheck, Disown
<1>16. CASE Condemn(t)
  <2>1. mine[t] \in 0 .. Len(child) BY HandsAreTyped
  <2>2. child' = Killed(mine[t]) BY <1>16 DEF Condemn
  <2>3. /\ Len(child') = Len(child)
        /\ \A c \in 1 .. Len(child) : /\ child'[c].inbox = child[c].inbox
                                     /\ child'[c].out = child[c].out
    BY <2>1, <2>2, KilledOne
  <2>4. QED BY <1>16, <2>3 DEF Condemn, Leave
<1>17. CASE Notify(t) BY <1>17 DEF Notify, Leave
<1>18. CASE Spawned(t) BY <1>18 DEF Spawned, Disown, Established
<1>19. CASE Respawn(t) BY <1>19 DEF Respawn
<1>20. CASE Kill(t)
  <2>1. mine[t] \in 0 .. Len(child) BY HandsAreTyped
  <2>2. child' = Killed(mine[t]) BY <1>20 DEF Kill
  <2>3. /\ Len(child') = Len(child)
        /\ \A c \in 1 .. Len(child) : /\ child'[c].inbox = child[c].inbox
                                     /\ child'[c].out = child[c].out
    BY <2>1, <2>2, KilledOne
  <2>4. QED BY <1>20, <2>3 DEF Kill, Leave
<1>21. CASE Close(t) BY <1>21 DEF Close
<1>22. CASE CloseRead(t) BY <1>22 DEF CloseRead
<1>23. CASE CloseClear(t) BY <1>23 DEF CloseClear
<1>24. CASE Terminate(t)
  <2>1. mine[t] \in 0 .. Len(child) BY HandsAreTyped
  <2>2. child' = Killed(mine[t]) BY <1>24 DEF Terminate
  <2>3. /\ Len(child') = Len(child)
        /\ \A c \in 1 .. Len(child) : /\ child'[c].inbox = child[c].inbox
                                     /\ child'[c].out = child[c].out
    BY <2>1, <2>2, KilledOne
  <2>4. QED BY <1>24, <2>3 DEF Terminate, Leave
<1>25. QED BY <1>1, <1>2, <1>3, <1>4, <1>5, <1>6, <1>7, <1>8, <1>9, <1>10,
       <1>11, <1>12, <1>13, <1>14, <1>15, <1>16, <1>17, <1>18, <1>19, <1>20,
       <1>21, <1>22, <1>23, <1>24 DEF Thread

LEMMA SendKeepsWire ==
    ASSUME TypeOK, Placed, InOrder, OwnId, NEW t \in Threads, Send(t)
    PROVE  InOrder' /\ OwnId'
<1>1. /\ lastId \in Nat /\ lastId' = lastId + 1
      /\ asked' = [asked EXCEPT ![t] = lastId + 1]
      /\ asked \in [Threads -> 0 .. lastId] /\ pc \in [Threads -> PCs]
      /\ task' = task /\ pc[t] \in {"hello", "send"}
  BY DEF Send, TypeOK, ClientType, ThreadsType
<1>2. \A u \in Threads : pc[u] \in Locked => u = t
  BY <1>1 DEF Placed, Locked
<1>3. \A u \in Threads : Waiting(u)' => u = t
  BY <1>2, OthersStay DEF Waiting, Locked, Thread
<1>4. CASE ~Running(proc) /\ UNCHANGED child
  <2>1. pc'[t] \notin {"greeted", "read"}
    BY <1>1, <1>4 DEF Send, Broke, Leave, Goto
  <2>2. \A u \in Threads : ~Waiting(u)' BY <1>3, <2>1 DEF Waiting
  <2>3. ASSUME NEW c \in 1 .. Len(child)
        PROVE  Orderly(child[c].inbox, child[c].out, lastId + 1)
    BY <1>1, ChildIsProcess, OrderlyLater DEF InOrder
  <2>4. QED BY <1>1, <1>4, <2>2, <2>3 DEF InOrder, OwnId
<1>5. CASE /\ Running(proc) /\ proc \in 1 .. Len(child)
           /\ Request(t) \in Requests
           /\ child' = [child EXCEPT ![proc].inbox = Append(@, Request(t))]
  <2>1. /\ Len(child') = Len(child)
        /\ \A d \in 1 .. Len(child) : d # proc => child'[d] = child[d]
        /\ child'[proc].out = child[proc].out
        /\ child[proc].inbox \in Seq(Requests)
        /\ child'[proc].inbox = Append(child[proc].inbox, Request(t))
    BY <1>5, SentOne DEF TypeOK
  <2>2. /\ Request(t).id = lastId + 1 /\ Request(t).from = t
        /\ pc'[t] = IF pc[t] = "hello" THEN "greeted" ELSE "read"
        /\ Request(t).what = Meant(t)'
    BY <1>1, <1>5 DEF Request, Send, Meant, Goto
  <2>3. ASSUME NEW c \in 1 .. Len(child)
        PROVE  /\ child[c].inbox \in Seq(Requests)
               /\ child[c].out \in Seq(Lines)
               /\ Orderly(child[c].inbox, child[c].out, lastId)
               /\ \A i \in 1 .. Len(child[c].inbox) :
                     child[c].inbox[i].id # lastId + 1
               /\ \A k \in 1 .. Len(child[c].out) :
                     child[c].out[k].id # lastId + 1
    <3>1. /\ child[c].inbox \in Seq(Requests) /\ child[c].out \in Seq(Lines)
          /\ Orderly(child[c].inbox, child[c].out, lastId)
      BY ChildIsProcess DEF InOrder
    <3>2. QED BY <1>1, <3>1, OrderlyLater
  <2>4. ASSUME NEW c \in 1 .. Len(child)
        PROVE  Orderly(child'[c].inbox, child'[c].out, lastId + 1)
    <3>1. CASE c = proc
      BY <1>1, <1>5, <2>1, <2>2, <2>3, <3>1, RequestsStayOrderly
    <3>2. CASE c # proc BY <1>1, <2>1, <2>3, <3>2, OrderlyLater
    <3>3. QED BY <3>1, <3>2
  <2>5. InOrder' BY <1>1, <1>3, <2>1, <2>4 DEF InOrder
  <2>6. OwnId'
    <3> SUFFICES ASSUME NEW c \in 1 .. Len(child)
                 PROVE  /\ Bearing(child'[c].inbox, lastId + 1, t, Meant(t)')
                        /\ Bearing(child'[c].out, lastId + 1, t, Meant(t)')
      BY <1>1, <1>3, <2>1 DEF OwnId
    <3>1. /\ Bearing(child[c].inbox, lastId + 1, t, Meant(t)')
          /\ Bearing(child[c].out, lastId + 1, t, Meant(t)')
      BY <2>3 DEF Bearing
    <3>2. QED BY <1>5, <2>1, <2>2, <2>3, <3>1, BearingIsKept
  <2>7. QED BY <2>5, <2>6
<1>6. QED BY <1>4, <1>5, SendWrites

LEMMA ReceiveKeepsWire ==
    ASSUME TypeOK, Placed, InOrder, OwnId, NEW t \in Threads, Receive(t)
    PROVE  InOrder' /\ OwnId'
<1>1. /\ Len(child') = Len(child) /\ queue \in 1 .. Len(child)
      /\ \A d \in 1 .. Len(child) : d # queue => child'[d] = child[d]
      /\ child'[queue].inbox = child[queue].inbox
      /\ child[queue].out \in Seq(Lines) /\ child[queue].out # <<>>
      /\ child'[queue].out = Tail(child[queue].out)
  BY ReceiveReads, ReadOne DEF TypeOK
<1>2. UNCHANGED <<lastId, asked, task>> BY DEF Receive
<1>3. \A u \in Threads : Waiting(u)' => Waiting(u) /\ Meant(u)' = Meant(u)
  <2>1. pc'[t] = pc[t] \/ pc'[t] \notin {"greeted", "read"}
    BY ReceiveReads DEF Broke, Leave, Goto, TypeOK, ThreadsType
  <2>2. QED BY <1>2, <2>1, OthersStay DEF Waiting, Meant, Thread
<1>4. InOrder'
  <2>1. Orderly(child'[queue].inbox, child'[queue].out, lastId)
    BY <1>1, ReadStayOrderly DEF InOrder
  <2>2. QED BY <1>1, <1>2, <1>3, <2>1 DEF InOrder
<1>5. OwnId'
  <2> SUFFICES ASSUME NEW u \in Threads, NEW c \in 1 .. Len(child), Waiting(u)
               PROVE  /\ Bearing(child'[c].inbox, asked[u], u, Meant(u))
                      /\ Bearing(child'[c].out, asked[u], u, Meant(u))
    BY <1>1, <1>2, <1>3 DEF OwnId
  <2>1. /\ Bearing(child[c].inbox, asked[u], u, Meant(u))
        /\ Bearing(child[c].out, asked[u], u, Meant(u))
    BY DEF OwnId
  <2>2. CASE c = queue BY <1>1, <2>1, <2>2, BearingIsKept
  <2>3. QED BY <1>1, <2>1, <2>2
<1>6. QED BY <1>4, <1>5

LEMMA StepsKeepWire ==
    ASSUME ClientInv, InOrder, OwnId, [Next]_vars PROVE InOrder' /\ OwnId'
<1> USE DEF ClientInv
<1>1. ASSUME NEW t \in Threads, Thread(t) PROVE InOrder' /\ OwnId'
  BY <1>1, OthersAreQuiet, QuietKeepsWire, SendKeepsWire, ReceiveKeepsWire
<1>2. CASE Stop
  <2>1. Quiet
    <3>1. UNCHANGED <<client, child, locals>> BY <1>2, StopMoves
    <3>2. \A u \in Threads : Waiting(u)' => pc'[u] = pc[u]
      BY <1>2, StopMoves DEF Waiting, TypeOK, ThreadsType, Threads
    <3>3. QED BY <3>1, <3>2 DEF Quiet, client, locals
  <2>2. QED BY <2>1, QuietKeepsWire
<1>3. CASE UNCHANGED vars
  BY <1>3 DEF vars, client, locals, InOrder, OwnId, Waiting, Meant
<1>4. QED BY <1>1, <1>2, <1>3, EngineKeepsWire DEF Next

-----------------------------------------------------------------------------
(* Which child is killed, and whose answer is taken. *)

LEMMA OutsidersLeaveProc ==
    ASSUME TypeOK, Placed, NEW t \in Threads, Thread(t),
           pc[t] \notin Locked
    PROVE  proc' = proc \/ closed
<1> USE DEF Locked, Waiting, ClosingAt, Goto, supervisor, client, locals
<1>1. CASE Begin(t) BY <1>1 DEF Placed, Begin
<1>2. CASE Enter(t) BY <1>2 DEF Placed, Enter
<1>3. CASE Schema(t) BY <1>3 DEF Placed, Schema, Fault
<1>4. CASE GiveUp(t) BY <1>4 DEF Placed, GiveUp
<1>5. CASE Look(t) BY <1>5 DEF Placed, Look
<1>6. CASE Take(t) BY <1>6 DEF Placed, Take
<1>7. CASE Poll(t) BY <1>7 DEF Placed, Poll, Leave, Established
<1>8. CASE Send(t) BY <1>8 DEF Placed, Send, Broke, Leave
<1>9. CASE Receive(t) BY <1>9 DEF Placed, Receive, Matches, Answered, Broke, Leave
<1>10. CASE Eof(t) BY <1>10 DEF Placed, Eof, Broke, Leave
<1>11. CASE TimeOut(t) BY <1>11 DEF Placed, TimeOut, Patience, TimedOut, Leave
<1>12. CASE Spawn(t) BY <1>12 DEF Placed, Spawn, Leave
<1>13. CASE Popen(t) BY <1>13 DEF Placed, Popen, Fault, Leave
<1>14. CASE Install(t) BY <1>14 DEF Placed, Install
<1>15. CASE Recheck(t) BY <1>15 DEF Placed, Recheck, Disown
<1>16. CASE Condemn(t) BY <1>16 DEF Placed, Condemn, Leave
<1>17. CASE Notify(t) BY <1>17 DEF Placed, Notify, Leave
<1>18. CASE Spawned(t) BY <1>18 DEF Placed, Spawned, Disown, Established
<1>19. CASE Respawn(t) BY <1>19 DEF Placed, Respawn
<1>20. CASE Kill(t) BY <1>20 DEF Placed, Kill
<1>21. CASE Close(t) BY <1>21 DEF Placed, Close
<1>22. CASE CloseRead(t) BY <1>22 DEF Placed, CloseRead
<1>23. CASE CloseClear(t) BY <1>23 DEF Placed, CloseClear
<1>24. CASE Terminate(t) BY <1>24 DEF Placed, Terminate
<1>25. QED BY <1>1, <1>2, <1>3, <1>4, <1>5, <1>6, <1>7, <1>8, <1>9, <1>10,
       <1>11, <1>12, <1>13, <1>14, <1>15, <1>16, <1>17, <1>18, <1>19, <1>20,
       <1>21, <1>22, <1>23, <1>24 DEF Thread

LEMMA ThreadsRead ==
    ASSUME TypeOK, Placed, ProcIsKnown, ~closed, ReadsProc,
           NEW t \in Threads, Thread(t)
    PROVE  closed' \/ ReadsProc'
<1> USE DEF ReadsProc, HeldProc, Rechecked, Locked, Waiting, Goto, supervisor, client, locals
<1>a. /\ pc \in [Threads -> PCs] /\ DOMAIN mine = Threads
      /\ Placed /\ HeldProc(t)
  BY DEF TypeOK, ThreadsType, ProcIsKnown
<1>1. CASE Begin(t) BY <1>1, <1>a DEF Placed, Begin
<1>2. CASE Enter(t) BY <1>2, <1>a DEF Placed, Enter
<1>3. CASE Schema(t) BY <1>3, <1>a DEF Placed, Schema, Fault
<1>4. CASE GiveUp(t) BY <1>4, <1>a DEF Placed, GiveUp
<1>5. CASE Look(t) BY <1>5, <1>a DEF Placed, Look
<1>6. CASE Take(t) BY <1>6, <1>a DEF Placed, Take
<1>7. CASE Poll(t) BY <1>7, <1>a DEF Placed, Poll, Leave, Established
<1>8. CASE Send(t) BY <1>8, <1>a DEF Placed, Send, Broke, Leave
<1>9. CASE Receive(t)
  BY <1>9, <1>a, ReceiveReads DEF Receive, Broke, Leave, Placed
<1>10. CASE Eof(t) BY <1>10, <1>a DEF Placed, Eof, Broke, Leave
<1>11. CASE TimeOut(t) BY <1>11, <1>a DEF Placed, TimeOut, Patience, TimedOut, Leave
<1>12. CASE Spawn(t) BY <1>12, <1>a DEF Placed, Spawn, Leave
<1>13. CASE Popen(t) BY <1>13, <1>a DEF Placed, Popen, Fault, Leave
<1>14. CASE Install(t) BY <1>14, <1>a DEF Placed, Install
<1>15. CASE Recheck(t) BY <1>15, <1>a DEF Placed, Recheck, Disown
<1>16. CASE Condemn(t) BY <1>16, <1>a DEF Placed, Condemn, Leave
<1>17. CASE Notify(t) BY <1>17, <1>a DEF Placed, Notify, Leave
<1>18. CASE Spawned(t) BY <1>18, <1>a DEF Placed, Spawned, Disown, Established
<1>19. CASE Respawn(t) BY <1>19, <1>a DEF Placed, Respawn
<1>20. CASE Kill(t) BY <1>20, <1>a DEF Placed, Kill
<1>21. CASE Close(t) BY <1>21, <1>a DEF Placed, Close
<1>22. CASE CloseRead(t) BY <1>22, <1>a DEF Placed, CloseRead
<1>23. CASE CloseClear(t) BY <1>23, <1>a DEF Placed, CloseClear
<1>24. CASE Terminate(t) BY <1>24, <1>a DEF Placed, Terminate
<1>25. QED BY <1>1, <1>2, <1>3, <1>4, <1>5, <1>6, <1>7, <1>8, <1>9, <1>10,
       <1>11, <1>12, <1>13, <1>14, <1>15, <1>16, <1>17, <1>18, <1>19, <1>20,
       <1>21, <1>22, <1>23, <1>24 DEF Thread

LEMMA ThreadsSpareTheirs ==
    ASSUME TypeOK, Placed, ProcIsKnown, InOrder, ~closed, ReadsProc,
           NEW t \in Threads, Thread(t), SparesProc(t)
    PROVE  closed' \/ SparesProc(t)'
<1> USE DEF SparesProc, Owing, Goto, supervisor, client, locals
<1>a. /\ pc \in [Threads -> PCs] /\ DOMAIN mine = Threads
      /\ proc \in 0 .. Len(child)
  BY DEF TypeOK, ThreadsType, ClientType, Procs
<1>b. /\ pc[t] \in Greeting => proc = mine[t] /\ mine[t] # 0
      /\ pc[t] \in Locked => ~Rechecked(proc) \/ pc[t] = "recheck"
  BY DEF Placed, ProcIsKnown, HeldProc, Rechecked, Locked
<1>1. CASE Begin(t) BY <1>1, <1>a, <1>b DEF Begin
<1>2. CASE Enter(t) BY <1>2, <1>a, <1>b DEF Enter
<1>3. CASE Schema(t) BY <1>3, <1>a, <1>b DEF Schema, Fault
<1>4. CASE GiveUp(t) BY <1>4, <1>a, <1>b DEF GiveUp
<1>5. CASE Look(t) BY <1>5, <1>a, <1>b DEF Look
<1>6. CASE Take(t) BY <1>6, <1>a, <1>b DEF Take
<1>7. CASE Poll(t) BY <1>7, <1>a, <1>b DEF Poll, Leave, Established
<1>8. CASE Send(t)
  <2>1. CASE Running(proc)
    <3>1. pc'[t] \in {"greeted", "read"} BY <1>8, <1>a, <2>1 DEF Send
    <3>2. proc # 0 /\ proc' = proc BY <1>8, <2>1 DEF Send, Running
    <3>3. QED BY <3>1, <3>2
  <2>2. CASE ~Running(proc)
    <3>1. child' = child /\ proc' = proc BY <1>8, <2>2 DEF Send
    <3>2. pc'[t] \notin {"send", "read", "kill"}
      BY <1>8, <1>a, <2>2 DEF Send, Broke, Leave
    <3>3. QED BY <2>2, <3>1, <3>2 DEF Running
  <2>3. QED BY <2>1, <2>2
<1>9. CASE Receive(t)
  <2> DEFINE m == Head(child[queue].out)
  <2>1. /\ proc' = proc /\ queue \in 1 .. Len(child)
        /\ child[queue].out \in Seq(Lines) /\ child[queue].out # <<>>
        /\ child'[queue].inbox = child[queue].inbox
        /\ pc[t] \in {"greeted", "read"}
    BY <1>9, ReceiveReads, ReadOne DEF Receive, Waiting, TypeOK
  <2>2. \/ pc' = pc
        \/ pc'[t] \notin {"send", "read", "respawn", "kill"}
        \/ pc[t] = "read" /\ pc'[t] = "respawn" /\ m.id = asked[t]
    BY <1>9, <1>a, <2>1, ReceiveReads DEF Broke, Leave
  <2>3. ASSUME pc[t] = "read", m.id = asked[t]
        PROVE  proc = queue /\ child[queue].inbox = <<>>
    <3>1. proc = queue BY <1>b, <2>3 DEF ReadsProc, SparesProc, Locked
    <3>2. m.id = lastId BY <2>3 DEF InOrder, Waiting
    <3>3. m = child[queue].out[1] /\ 1 \in 1 .. Len(child[queue].out)
      BY <2>1
    <3>4. child[queue].inbox \in Seq(Requests) BY <2>1, ChildIsProcess
    <3> HIDE DEF m
    <3>5. ASSUME child[queue].inbox # <<>> PROVE FALSE
      <4>1. 1 \in 1 .. Len(child[queue].inbox) BY <3>4, <3>5
      <4>2. child[queue].inbox[1] \in Requests BY <3>4, <4>1
      <4>3. child[queue].inbox[1].id \in Nat BY <4>2 DEF Requests
      <4>4. child[queue].inbox[1].id <= lastId
        BY <2>1, <4>1 DEF InOrder, Orderly
      <4>5. lastId < child[queue].inbox[1].id
        BY <2>1, <3>2, <3>3, <4>1 DEF InOrder, Orderly
      <4>6. lastId \in Nat BY DEF TypeOK, ClientType
      <4>7. QED BY <4>3, <4>4, <4>5, <4>6
    <3>6. QED BY <3>1, <3>5
  <2> HIDE DEF m
  <2>4. QED BY <2>1, <2>2, <2>3
<1>10. CASE Eof(t)
  <2>1. child' = child /\ proc' = proc /\ ~Running(queue) /\ Waiting(t)
    BY <1>10, <1>a, <1>b DEF Eof
  <2>2. \/ pc'[t] \notin {"send", "read", "respawn", "kill"}
        \/ pc[t] = "read" /\ pc'[t] = "respawn"
    BY <1>10, <1>a DEF Eof, Broke, Leave, Waiting
  <2>3. pc[t] = "read" => proc = queue
    BY <1>b DEF ReadsProc, SparesProc, Locked
  <2>4. QED BY <2>1, <2>2, <2>3 DEF Running
<1>11. CASE TimeOut(t) BY <1>11, <1>a, <1>b DEF TimeOut, Patience, TimedOut, Leave, Waiting
<1>12. CASE Spawn(t) BY <1>12, <1>a, <1>b DEF Spawn, Leave
<1>13. CASE Popen(t) BY <1>13, <1>a, <1>b DEF Popen, Fault, Leave
<1>14. CASE Install(t) BY <1>14, <1>a, <1>b DEF Install
<1>15. CASE Recheck(t) BY <1>15, <1>a, <1>b DEF Recheck, Disown
<1>16. CASE Condemn(t) BY <1>16, <1>a, <1>b DEF Condemn, Leave
<1>17. CASE Notify(t) BY <1>17, <1>a, <1>b DEF Notify, Leave
<1>18. CASE Spawned(t) BY <1>18, <1>a, <1>b DEF Spawned, Disown, Established, Greeting
<1>19. CASE Respawn(t) BY <1>19, <1>a, <1>b DEF Respawn, Running
<1>20. CASE Kill(t) BY <1>20, <1>a, <1>b DEF Kill
<1>21. CASE Close(t) BY <1>21, <1>a, <1>b DEF Close
<1>22. CASE CloseRead(t) BY <1>22, <1>a, <1>b DEF CloseRead
<1>23. CASE CloseClear(t) BY <1>23, <1>a, <1>b DEF CloseClear
<1>24. CASE Terminate(t) BY <1>24, <1>a, <1>b DEF Terminate
<1>25. QED BY <1>1, <1>2, <1>3, <1>4, <1>5, <1>6, <1>7, <1>8, <1>9, <1>10,
       <1>11, <1>12, <1>13, <1>14, <1>15, <1>16, <1>17, <1>18, <1>19, <1>20,
       <1>21, <1>22, <1>23, <1>24 DEF Thread

LEMMA ClosedStays ==
    ASSUME closed,
           NEW t \in Threads, Thread(t)
    PROVE  closed'
<1> USE DEF Goto, supervisor, client, locals
<1>1. CASE Begin(t) BY <1>1 DEF Begin
<1>2. CASE Enter(t) BY <1>2 DEF Enter
<1>3. CASE Schema(t) BY <1>3 DEF Schema, Fault
<1>4. CASE GiveUp(t) BY <1>4 DEF GiveUp
<1>5. CASE Look(t) BY <1>5 DEF Look
<1>6. CASE Take(t) BY <1>6 DEF Take
<1>7. CASE Poll(t) BY <1>7 DEF Poll, Leave, Established
<1>8. CASE Send(t) BY <1>8 DEF Send, Broke, Leave
<1>9. CASE Receive(t) BY <1>9 DEF Receive, Matches, Answered, Broke, Leave
<1>10. CASE Eof(t) BY <1>10 DEF Eof, Broke, Leave
<1>11. CASE TimeOut(t) BY <1>11 DEF TimeOut, Patience, TimedOut, Leave
<1>12. CASE Spawn(t) BY <1>12 DEF Spawn, Leave
<1>13. CASE Popen(t) BY <1>13 DEF Popen, Fault, Leave
<1>14. CASE Install(t) BY <1>14 DEF Install
<1>15. CASE Recheck(t) BY <1>15 DEF Recheck, Disown
<1>16. CASE Condemn(t) BY <1>16 DEF Condemn, Leave
<1>17. CASE Notify(t) BY <1>17 DEF Notify, Leave
<1>18. CASE Spawned(t) BY <1>18 DEF Spawned, Disown, Established
<1>19. CASE Respawn(t) BY <1>19 DEF Respawn
<1>20. CASE Kill(t) BY <1>20 DEF Kill
<1>21. CASE Close(t) BY <1>21 DEF Close
<1>22. CASE CloseRead(t) BY <1>22 DEF CloseRead
<1>23. CASE CloseClear(t) BY <1>23 DEF CloseClear
<1>24. CASE Terminate(t) BY <1>24 DEF Terminate
<1>25. QED BY <1>1, <1>2, <1>3, <1>4, <1>5, <1>6, <1>7, <1>8, <1>9, <1>10,
       <1>11, <1>12, <1>13, <1>14, <1>15, <1>16, <1>17, <1>18, <1>19, <1>20,
       <1>21, <1>22, <1>23, <1>24 DEF Thread

LEMMA EngineServes ==
    ASSUME TypeOK, Engine
    PROVE  \A c \in 1 .. Len(child) :
               child'[c].inbox = child[c].inbox \/ child[c].inbox # <<>>
<1>1. PICK c \in 1 .. Len(child) :
          Serves(c, TRUE) \/ Serves(c, FALSE) \/ Dies(c)
  BY DEF Engine
<1>2. CASE Dies(c) BY <1>2, DiedOne DEF Dies, TypeOK
<1>3. CASE Serves(c, TRUE) \/ Serves(c, FALSE)
  BY <1>3, ServedOne DEF TypeOK
<1>4. QED BY <1>1, <1>2, <1>3

\* Another thread does not touch a child that the holder of the lock uses.
LEMMA ThreadsSpareOthers ==
    ASSUME TypeOK, Placed, ~closed, NEW t \in Threads, Thread(t),
           NEW u \in Threads \ {t}, SparesProc(u)
    PROVE  SparesProc(u)'
<1>1. pc'[u] = pc[u] /\ mine'[u] = mine[u] BY OthersStay
<1>2. CASE pc[u] \notin Locked BY <1>1, <1>2 DEF SparesProc, Locked
<1>3. CASE pc[u] \in Locked
  <2>1. pc[t] \notin Locked BY <1>3 DEF Placed
  <2>2. proc' = proc BY <2>1, OutsidersLeaveProc
  <2>3. ~Send(t) BY <2>1 DEF Send, Locked
  <2>4. /\ proc \in 0 .. Len(child) /\ mine[u] \in 0 .. Len(child)
        /\ Len(child) \in Nat
    BY DEF TypeOK, ClientType, ThreadsType, Procs
  <2>5. ASSUME NEW c \in 0 .. Len(child), ~Owing(c) PROVE ~Owing(c)'
    <3>1. CASE c = 0 BY <3>1 DEF Owing, Running
    <3>2. CASE c \in 1 .. Len(child)
      <4>1. Len(child') >= Len(child) BY ThreadsMoveChildren
      <4>2. c \in 1 .. Len(child') BY <2>4, <3>2, <4>1, ThreadsMoveStates
      <4>3. Running(c)' => Running(c)
        BY <3>2, ThreadsMoveStates DEF Running
      <4>4. child'[c].inbox = <<>> \/ child'[c].inbox = child[c].inbox
        <5>1. CASE Quiet BY <4>2, <5>1 DEF Quiet
        <5>2. CASE Receive(t)
          BY <3>2, <5>2, ReceiveReads, ReadOne DEF TypeOK
        <5>3. QED BY <2>3, <5>1, <5>2, OthersAreQuiet
      <4>5. QED BY <2>5, <4>3, <4>4 DEF Owing
    <3>3. QED BY <3>1, <3>2
  <2>6. QED BY <1>1, <2>2, <2>4, <2>5 DEF SparesProc
<1>4. QED BY <1>2, <1>3

LEMMA StepsReadTheirOwn ==
    ASSUME ClientInv, InOrder, ReadsItsOwn, [Next]_vars PROVE ReadsItsOwn'
<1> USE DEF ClientInv
<1>1. ASSUME NEW t \in Threads, Thread(t) PROVE ReadsItsOwn'
  <2>1. CASE closed
    <3>1. closed' BY <1>1, <2>1, ClosedStays
    <3>2. QED BY <3>1 DEF ReadsItsOwn
  <2>2. CASE ~closed
    <3>1. closed' \/ ReadsProc'
      BY <1>1, <2>2, ThreadsRead DEF ReadsItsOwn
    <3>2. ASSUME NEW u \in Threads PROVE closed' \/ SparesProc(u)'
      BY <1>1, <2>2, ThreadsSpareTheirs, ThreadsSpareOthers DEF ReadsItsOwn
    <3>3. QED BY <3>1, <3>2 DEF ReadsItsOwn
  <2>3. QED BY <2>1, <2>2
<1>2. CASE Stop
  <2>1. UNCHANGED <<client, child, locals>> BY <1>2, StopMoves
  <2>2. \A u \in Threads :
            \/ pc'[u] = pc[u]
            \/ /\ pc[u] \in {"idle", "stop"}
               /\ pc'[u] \in {"close", "stop", "done"}
    BY <1>2, StopMoves DEF TypeOK, ThreadsType, Threads
  <2>3. QED BY <2>1, <2>2
            DEF ReadsItsOwn, ReadsProc, Rechecked, SparesProc, Owing, Running,
                client, locals
<1>3. CASE Engine
  <2>1. /\ Len(child') = Len(child)
        /\ \A c \in 1 .. Len(child) :
              /\ child'[c].state = "running" => child[c].state = "running"
              /\ \/ child'[c].inbox = child[c].inbox
                 \/ child[c].inbox # <<>>
        /\ UNCHANGED <<client, pc, locals>>
    BY <1>3, EngineMoves, EngineServes
  <2>2. /\ proc \in 0 .. Len(child)
        /\ \A u \in Threads : mine[u] \in 0 .. Len(child)
    BY DEF TypeOK, ClientType, ThreadsType, Procs
  <2>3. \A c \in 0 .. Len(child) : ~Owing(c) => ~Owing(c)'
    BY <2>1 DEF Owing, Running
  <2>4. QED BY <2>1, <2>2, <2>3
            DEF ReadsItsOwn, ReadsProc, Rechecked, SparesProc, client, locals
<1>4. CASE UNCHANGED vars
  BY <1>4 DEF vars, client, locals, ReadsItsOwn, ReadsProc, Rechecked,
              SparesProc, Owing, Running
<1>5. QED BY <1>1, <1>2, <1>3, <1>4 DEF Next

LEMMA OutcomesMove ==
    ASSUME TypeOK, Placed,
           NEW t \in Threads, Thread(t)
    PROVE  \/ UNCHANGED <<outcome, reply>>
           \/ /\ reply' = reply
              /\ \E how : /\ outcome' = [outcome EXCEPT ![t] = how]
                         /\ how # "answer"
           \/ Receive(t)
<1> USE DEF Goto, supervisor, client, locals
<1>1. CASE Begin(t) BY <1>1 DEF Begin
<1>2. CASE Enter(t) BY <1>2 DEF Enter
<1>3. CASE Schema(t) BY <1>3 DEF Schema, Fault
<1>4. CASE GiveUp(t) BY <1>4 DEF GiveUp
<1>5. CASE Look(t) BY <1>5 DEF Look
<1>6. CASE Take(t) BY <1>6 DEF Take
<1>7. CASE Poll(t) BY <1>7 DEF Poll, Leave, Established
<1>8. CASE Send(t) BY <1>8 DEF Send, Broke, Leave
<1>9. CASE Receive(t)
  BY <1>9
<1>10. CASE Eof(t) BY <1>10 DEF Eof, Broke, Leave
<1>11. CASE TimeOut(t) BY <1>11 DEF TimeOut, Patience, TimedOut, Leave
<1>12. CASE Spawn(t) BY <1>12 DEF Spawn, Leave
<1>13. CASE Popen(t) BY <1>13 DEF Popen, Fault, Leave
<1>14. CASE Install(t) BY <1>14 DEF Install
<1>15. CASE Recheck(t) BY <1>15 DEF Recheck, Disown
<1>16. CASE Condemn(t) BY <1>16 DEF Condemn, Leave
<1>17. CASE Notify(t) BY <1>17 DEF Notify, Leave
<1>18. CASE Spawned(t) BY <1>18 DEF Spawned, Disown, Established
<1>19. CASE Respawn(t) BY <1>19 DEF Respawn
<1>20. CASE Kill(t) BY <1>20 DEF Kill
<1>21. CASE Close(t) BY <1>21 DEF Close
<1>22. CASE CloseRead(t) BY <1>22 DEF CloseRead
<1>23. CASE CloseClear(t) BY <1>23 DEF CloseClear
<1>24. CASE Terminate(t) BY <1>24 DEF Terminate
<1>25. QED BY <1>1, <1>2, <1>3, <1>4, <1>5, <1>6, <1>7, <1>8, <1>9, <1>10,
       <1>11, <1>12, <1>13, <1>14, <1>15, <1>16, <1>17, <1>18, <1>19, <1>20,
       <1>21, <1>22, <1>23, <1>24 DEF Thread

LEMMA KillsAreSpared ==
    ASSUME TypeOK, Placed, ReadsItsOwn,
           NEW t \in Threads, Thread(t)
    PROVE  \A c \in 1 .. Len(child) :
               child[c].state = "running" /\ child'[c].state = "killed" =>
                   closed \/ child[c].inbox = <<>>
<1> USE DEF supervisor, client, locals
<1> child \in Seq(Process) BY DEF TypeOK
<1>1. CASE Begin(t) BY <1>1 DEF Begin
<1>2. CASE Enter(t) BY <1>2 DEF Enter
<1>3. CASE Schema(t) BY <1>3 DEF Schema, Fault
<1>4. CASE GiveUp(t) BY <1>4 DEF GiveUp
<1>5. CASE Look(t) BY <1>5 DEF Look
<1>6. CASE Take(t) BY <1>6 DEF Take
<1>7. CASE Poll(t) BY <1>7 DEF Poll, Leave, Established
<1>8. CASE Send(t)
  BY <1>8, SendWrites, SentOne
<1>9. CASE Receive(t)
  BY <1>9, ReceiveReads, ReadOne
<1>10. CASE Eof(t) BY <1>10 DEF Eof, Broke, Leave
<1>11. CASE TimeOut(t) BY <1>11 DEF TimeOut, Patience, TimedOut, Leave
<1>12. CASE Spawn(t) BY <1>12 DEF Spawn, Leave
<1>13. CASE Popen(t)
  BY <1>13, SpawnedOne DEF Popen
<1>14. CASE Install(t) BY <1>14 DEF Install
<1>15. CASE Recheck(t) BY <1>15 DEF Recheck, Disown
<1>16. CASE Condemn(t)
  BY <1>16 DEF Condemn, Placed
<1>17. CASE Notify(t) BY <1>17 DEF Notify, Leave
<1>18. CASE Spawned(t) BY <1>18 DEF Spawned, Disown, Established
<1>19. CASE Respawn(t) BY <1>19 DEF Respawn
<1>20. CASE Kill(t)
  <2>1. mine[t] \in 0 .. Len(child) BY HandsAreTyped
  <2>2. \A c \in 1 .. Len(child) :
            child'[c].state = "killed" /\ child[c].state = "running" =>
                c = mine[t]
    BY <1>20, <2>1, KilledOne DEF Kill
  <2>3. closed \/ ~Owing(mine[t]) BY <1>20 DEF Kill, ReadsItsOwn, SparesProc
  <2>4. QED BY <2>2, <2>3 DEF Owing, Running
<1>21. CASE Close(t) BY <1>21 DEF Close
<1>22. CASE CloseRead(t) BY <1>22 DEF CloseRead
<1>23. CASE CloseClear(t) BY <1>23 DEF CloseClear
<1>24. CASE Terminate(t)
  BY <1>24 DEF Terminate, Placed, ClosingAt
<1>25. QED BY <1>1, <1>2, <1>3, <1>4, <1>5, <1>6, <1>7, <1>8, <1>9, <1>10,
       <1>11, <1>12, <1>13, <1>14, <1>15, <1>16, <1>17, <1>18, <1>19, <1>20,
       <1>21, <1>22, <1>23, <1>24 DEF Thread

LEMMA StepsAnswerTheirOwn ==
    ASSUME ClientInv, OwnId, AnswersAreOwn, [Next]_vars PROVE AnswersAreOwn'
<1> USE DEF ClientInv
<1>1. /\ outcome \in [Threads -> {"none", "unavailable", "answer", "error",
                                  "timeout", "broken"}]
      /\ DOMAIN reply = Threads
  BY DEF TypeOK, ThreadsType
<1>2. CASE UNCHANGED <<outcome, reply>> BY <1>2 DEF AnswersAreOwn
<1>3. ASSUME NEW t \in Threads, NEW how, how # "answer", reply' = reply,
             \/ outcome' = outcome
             \/ outcome' = [outcome EXCEPT ![t] = how]
      PROVE  AnswersAreOwn'
  <2>1. SUFFICES ASSUME NEW u \in Callers, outcome'[u] = "answer"
                 PROVE  reply'[u] = [from |-> u, what |-> "call"]
    BY DEF AnswersAreOwn
  <2>2. u \in Threads BY DEF Threads
  <2>3. outcome[u] = "answer" BY <1>1, <1>3, <2>1, <2>2
  <2>4. QED BY <1>3, <2>3 DEF AnswersAreOwn
<1>4. ASSUME NEW t \in Threads, Thread(t) PROVE AnswersAreOwn'
  <2>1. CASE Receive(t)
    <3> DEFINE m == Head(child[queue].out)
    <3>1. /\ queue \in 1 .. Len(child) /\ Waiting(t)
          /\ child[queue].out \in Seq(Lines) /\ child[queue].out # <<>>
      BY <2>1, ReceiveReads, ChildIsProcess DEF Receive
    <3>2. m = child[queue].out[1] /\ 1 \in 1 .. Len(child[queue].out)
      BY <3>1
    <3>3. m.id = asked[t] => m.from = t /\ m.what = Meant(t)
      BY <3>1, <3>2 DEF OwnId, Bearing
    <3>4. \/ UNCHANGED <<outcome, reply>>
          \/ Broke(t) /\ UNCHANGED reply
          \/ /\ pc[t] = "read" /\ task[t] = "call" /\ m.id = asked[t]
             /\ outcome' = [outcome EXCEPT ![t] = "answer"]
             /\ reply' = [reply EXCEPT ![t] = [from |-> m.from,
                                              what |-> m.what]]
      BY <2>1, ReceiveReads
    <3> HIDE DEF m
    <3>5. CASE Broke(t) /\ UNCHANGED reply
      <4>1. reply' = reply BY <3>5
      <4>2. \/ outcome' = outcome
            \/ outcome' = [outcome EXCEPT ![t] = "error"]
        BY <3>5 DEF Broke, Leave
      <4>3. QED BY <1>3, <4>1, <4>2
    <3>6. CASE /\ pc[t] = "read" /\ task[t] = "call" /\ m.id = asked[t]
               /\ outcome' = [outcome EXCEPT ![t] = "answer"]
               /\ reply' = [reply EXCEPT ![t] = [from |-> m.from,
                                                what |-> m.what]]
      <4>1. [from |-> m.from, what |-> m.what] = [from |-> t, what |-> "call"]
        BY <3>3, <3>6 DEF Meant
      <4>2. QED BY <1>1, <3>6, <4>1 DEF AnswersAreOwn
    <3>7. QED BY <1>2, <3>4, <3>5, <3>6
  <2>2. CASE ~Receive(t)
    <3>1. CASE UNCHANGED <<outcome, reply>> BY <1>2, <3>1
    <3>2. CASE /\ reply' = reply
               /\ \E how : /\ outcome' = [outcome EXCEPT ![t] = how]
                          /\ how # "answer"
      BY <1>3, <3>2
    <3>3. QED BY <1>4, <2>2, <3>1, <3>2, OutcomesMove
  <2>3. QED BY <2>1, <2>2
<1>5. CASE Stop BY <1>2, <1>5, StopMoves DEF locals
<1>6. CASE Engine BY <1>2, <1>6, EngineMoves DEF locals
<1>7. CASE UNCHANGED vars BY <1>2, <1>7 DEF vars, locals
<1>8. QED BY <1>4, <1>5, <1>6, <1>7 DEF Next

LEMMA WireInvariance == Spec => []EngineInv
<1>1. ASSUME Init PROVE EngineInv
  <2>1. InOrder /\ OwnId BY <1>1 DEF Init, InOrder, OwnId, Waiting
  <2>2. ReadsItsOwn
    BY <1>1 DEF Init, ReadsItsOwn, ReadsProc, SparesProc
  <2>3. AnswersAreOwn
    BY <1>1 DEF Init, AnswersAreOwn, Threads
  <2>4. QED BY <1>1, <2>1, <2>2, <2>3, StartsWithClient
            DEF EngineInv, WireInv
<1>2. ASSUME EngineInv, [Next]_vars PROVE EngineInv'
  BY <1>2, StepsKeepClient, StepsKeepWire, StepsReadTheirOwn,
     StepsAnswerTheirOwn DEF EngineInv, WireInv
<1>3. QED BY <1>1, <1>2, PTL DEF Spec

\* However many callers have given up waiting and left their answers in the
\* pipe, a caller is answered what it asked (_read_response).
THEOREM EachGetsItsOwn == Spec => []AnswersAreOwn
BY WireInvariance, PTL DEF EngineInv, WireInv

\* A child that still owes an answer to anybody is killed only by the end of
\* the client: neither a timeout nor the refusal of another request does it
\* (call_tool, _force_respawn).
THEOREM WorkInFlightIsSpared == Spec => SparesWorkInFlight
<1>1. ASSUME EngineInv, [Next]_vars, NEW c \in 1 .. Len(child),
             child[c].state = "running", child'[c].state = "killed"
      PROVE  closed \/ child[c].inbox = <<>>
  <2> USE DEF EngineInv, ClientInv, WireInv
  <2>1. ASSUME NEW t \in Threads, Thread(t)
        PROVE  closed \/ child[c].inbox = <<>>
    BY <1>1, <2>1, KillsAreSpared
  <2>2. ~Stop BY <1>1, StopMoves
  <2>3. ~Engine BY <1>1, EngineMoves
  <2>4. QED BY <1>1, <2>1, <2>2, <2>3 DEF Next, vars
<1>2. EngineInv /\ [Next]_vars =>
          [\A c \in 1 .. Len(child) :
              child[c].state = "running" /\ child'[c].state = "killed" =>
                  closed \/ child[c].inbox = <<>>]_vars
  BY <1>1
<1>3. QED BY <1>2, WireInvariance, PTL DEF Spec, SparesWorkInFlight
-----------------------------------------------------------------------------
(* What is left of the faults to be seen. *)

LEMMA ThreadsTouchChildren ==
    ASSUME NEW t \in Threads, Thread(t)
    PROVE  \/ UNCHANGED child
           \/ Send(t) \/ Receive(t) \/ Popen(t)
           \/ Condemn(t) \/ Kill(t) \/ Terminate(t)
BY DEF Thread, Begin, Enter, Schema, GiveUp, Look, Take, Poll, Eof, TimeOut,
       Spawn, Install, Recheck, Notify, Spawned, Respawn, Close, CloseRead,
       CloseClear, supervisor, client, locals

\* No thread makes a child fail, and an open client kills one only when it is
\* to be replaced.
LEMMA ThreadsBlameNone ==
    ASSUME TypeOK, Placed, NEW t \in Threads, Thread(t)
    PROVE  /\ Len(child') >= Len(child)
           /\ \A c \in 1 .. Len(child) :
                 /\ Faulty(c)' => Faulty(c)
                 /\ child'[c].state = "killed" =>
                       \/ child[c].state = "killed" \/ closed
                       \/ pc[t] = "kill" /\ c = mine[t]
           /\ \A c \in (1 .. Len(child')) \ (1 .. Len(child)) :
                 ~Faulty(c)' /\ child'[c].state = "running"
<1> USE DEF Faulty, Refused
<1> child \in Seq(Process) BY DEF TypeOK
<1>1. CASE UNCHANGED child BY <1>1
<1>2. CASE Send(t)
  <2>1. CASE UNCHANGED child BY <2>1, <1>1
  <2>2. CASE child' # child
    <3>1. /\ Len(child') = Len(child)
          /\ \A c \in 1 .. Len(child) :
                child'[c].state = child[c].state /\ child'[c].out = child[c].out
      BY <1>2, <2>2, SendWrites, SentOne
    <3>2. QED BY <3>1
  <2>3. QED BY <2>1, <2>2
<1>3. CASE Receive(t)
  <2>1. /\ queue \in 1 .. Len(child) /\ Len(child') = Len(child)
        /\ \A c \in 1 .. Len(child) : c # queue => child'[c] = child[c]
        /\ child'[queue].state = child[queue].state
        /\ child[queue].out \in Seq(Lines) /\ child[queue].out # <<>>
        /\ child'[queue].out = Tail(child[queue].out) /\ queue' = queue
    BY <1>3, ReceiveReads, ReadOne DEF Receive
  <2>2. ASSUME NEW i \in 1 .. Len(child'[queue].out)
        PROVE  /\ i + 1 \in 1 .. Len(child[queue].out)
               /\ child'[queue].out[i] = child[queue].out[i + 1]
    BY <2>1
  <2>3. Refused(queue)' => Refused(queue) BY <2>1, <2>2
  <2>4. QED BY <2>1, <2>3
<1>4. CASE Popen(t)
  <2>1. CASE UNCHANGED child BY <2>1, <1>1
  <2>2. CASE child' = Append(child, Fresh)
    <3>1. /\ Len(child') = Len(child) + 1 /\ Len(child) \in Nat
          /\ \A c \in 1 .. Len(child) : child'[c] = child[c]
          /\ child'[Len(child')] = Fresh
      BY <2>2, SpawnedOne
    <3>2. Fresh.state = "running" /\ Fresh.out = <<>> BY DEF Fresh
    <3>3. QED BY <3>1, <3>2
  <2>3. QED BY <1>4, <2>1, <2>2 DEF Popen
<1>5. CASE Condemn(t) \/ Kill(t) \/ Terminate(t)
  <2>1. mine[t] \in 0 .. Len(child) BY HandsAreTyped
  <2>2. child' = Killed(mine[t]) BY <1>5 DEF Condemn, Kill, Terminate
  <2>3. closed \/ pc[t] = "kill"
    BY <1>5 DEF Condemn, Kill, Terminate, Placed, ClosingAt
  <2>4. /\ Len(child') = Len(child)
        /\ \A c \in 1 .. Len(child) :
              /\ child'[c].out = child[c].out
              /\ child'[c].state = IF c = mine[t] /\ child[c].state = "running"
                                   THEN "killed" ELSE child[c].state
    BY <2>1, <2>2, KilledOne
  <2>5. QED BY <2>3, <2>4
<1>6. QED BY <1>1, <1>2, <1>3, <1>4, <1>5, ThreadsTouchChildren

LEMMA ThreadsMoveFaults ==
    ASSUME TypeOK, Placed, NEW t \in Threads, Thread(t)
    PROVE  /\ faults \in Nat /\ faults' \in Nat /\ faults' >= faults
           /\ \A u \in Threads \ {t} :
                 attempt'[u] = attempt[u] /\ outcome'[u] = outcome[u]
<1> USE DEF Goto, supervisor, client, locals
<1>a. faults \in Nat /\ DOMAIN attempt = Threads /\ DOMAIN outcome = Threads
  BY EngineAssumption DEF TypeOK, ClientType, ThreadsType
<1>1. CASE Begin(t) BY <1>1, <1>a DEF Begin
<1>2. CASE Enter(t) BY <1>2, <1>a DEF Enter
<1>3. CASE Schema(t) BY <1>3, <1>a DEF Schema, Fault
<1>4. CASE GiveUp(t) BY <1>4, <1>a DEF GiveUp
<1>5. CASE Look(t) BY <1>5, <1>a DEF Look
<1>6. CASE Take(t) BY <1>6, <1>a DEF Take
<1>7. CASE Poll(t) BY <1>7, <1>a DEF Poll, Leave, Established
<1>8. CASE Send(t) BY <1>8, <1>a DEF Send, Broke, Leave
<1>9. CASE Receive(t) BY <1>9, <1>a, ReceiveReads DEF Receive, Broke, Leave
<1>10. CASE Eof(t) BY <1>10, <1>a DEF Eof, Broke, Leave, Waiting
<1>11. CASE TimeOut(t)
  BY <1>11, <1>a DEF TimeOut, Patience, TimedOut, Leave, Waiting
<1>12. CASE Spawn(t) BY <1>12, <1>a DEF Spawn, Leave
<1>13. CASE Popen(t) BY <1>13, <1>a DEF Popen, Fault, Leave
<1>14. CASE Install(t) BY <1>14, <1>a DEF Install
<1>15. CASE Recheck(t) BY <1>15, <1>a DEF Recheck, Disown
<1>16. CASE Condemn(t) BY <1>16, <1>a DEF Condemn, Leave
<1>17. CASE Notify(t) BY <1>17, <1>a DEF Notify, Leave
<1>18. CASE Spawned(t) BY <1>18, <1>a DEF Spawned, Disown, Established
<1>19. CASE Respawn(t) BY <1>19, <1>a DEF Respawn
<1>20. CASE Kill(t) BY <1>20, <1>a DEF Kill
<1>21. CASE Close(t) BY <1>21, <1>a DEF Close
<1>22. CASE CloseRead(t) BY <1>22, <1>a DEF CloseRead
<1>23. CASE CloseClear(t) BY <1>23, <1>a DEF CloseClear
<1>24. CASE Terminate(t) BY <1>24, <1>a DEF Terminate
<1>25. QED BY <1>1, <1>2, <1>3, <1>4, <1>5, <1>6, <1>7, <1>8, <1>9, <1>10,
       <1>11, <1>12, <1>13, <1>14, <1>15, <1>16, <1>17, <1>18, <1>19, <1>20,
       <1>21, <1>22, <1>23, <1>24 DEF Thread

\* While the client is open, one that does not run has died.
LEMMA StoppedIsFaulty ==
    ASSUME TypeOK, NotKilled, ~closed, proc # 0, ~Running(proc)
    PROVE  proc \in 1 .. Len(child) /\ Faulty(proc)
<1>1. proc \in 1 .. Len(child) BY DEF TypeOK, ClientType, Procs
<1>2. child[proc] \in Process BY <1>1 DEF TypeOK
<1>3. QED BY <1>1, <1>2 DEF NotKilled, Running, Process, Faulty

\* Who waits reads the child it has asked, and at the handshake its own.
LEMMA AsksItsChild ==
    ASSUME TypeOK, Placed, ProcIsKnown, ReadsItsOwn, ~closed,
           NEW t \in Threads
    PROVE  /\ pc[t] \in {"send", "read"} => proc # 0
           /\ pc[t] \in Greeting => proc = mine[t] /\ proc # 0
           /\ Waiting(t) => queue = proc
<1>1. pc[t] \in {"send", "read"} => proc # 0 BY DEF ReadsItsOwn, SparesProc
<1>2. pc[t] \in Greeting => proc = mine[t] /\ proc # 0
  BY DEF ProcIsKnown, HeldProc, Placed
<1>3. Waiting(t) => ~Rechecked(proc)
  BY DEF Waiting, Rechecked, Placed, Locked
<1>4. QED BY <1>1, <1>2, <1>3 DEF ReadsItsOwn, ReadsProc, Waiting, Greeting

\* What breaks a request is a fault of the child it is for.
Breaks(t) ==
    \/ Send(t) /\ ~Running(proc)
    \/ Eof(t)
    \/ Receive(t) /\ Matches(t, Head(child[queue].out))
                  /\ ~Head(child[queue].out).ok

LEMMA BreaksAreFaults ==
    ASSUME TypeOK, Placed, ProcIsKnown, ReadsItsOwn, NotKilled, ~closed,
           NEW t \in Threads, Breaks(t)
    PROVE  /\ pc[t] \in {"hello", "send", "greeted", "read"}
           /\ proc \in 1 .. Len(child) /\ Faulty(proc)
           /\ pc[t] \in {"hello", "greeted"} => proc = mine[t]
<1>1. pc[t] \in {"hello", "send", "greeted", "read"}
  BY DEF Breaks, Send, Eof, Receive, Waiting
<1>2. /\ proc # 0
      /\ pc[t] \in {"hello", "greeted"} => proc = mine[t]
      /\ Waiting(t) => queue = proc
  BY <1>1, AsksItsChild DEF Greeting
<1>3. proc \in 1 .. Len(child) BY <1>2 DEF TypeOK, ClientType, Procs
<1>4. CASE ~Running(proc) BY <1>1, <1>2, <1>4, StoppedIsFaulty
<1>5. CASE Running(proc)
  <2>1. /\ Waiting(t) /\ queue = proc /\ child[proc].out # <<>>
        /\ ~Head(child[proc].out).ok
    BY <1>2, <1>5 DEF Breaks, Eof, Receive
  <2>2. child[proc].out \in Seq(Lines) BY <1>3, ChildIsProcess
  <2>3. 1 \in 1 .. Len(child[proc].out) /\ ~child[proc].out[1].ok
    BY <2>1, <2>2
  <2>4. QED BY <1>1, <1>2, <1>3, <2>3 DEF Faulty, Refused
<1>6. QED BY <1>4, <1>5

\* Receive, as far as it matters here.
LEMMA ReceiveMoves ==
    ASSUME TypeOK, Placed, NEW t \in Threads, Receive(t)
    PROVE  \/ UNCHANGED <<pc, attempt, outcome>>
           \/ Breaks(t) /\ Broke(t)
           \/ /\ pc[t] = "greeted" /\ pc' = [pc EXCEPT ![t] = "notify"]
              /\ UNCHANGED <<attempt, outcome>>
           \/ /\ pc[t] = "read" /\ task[t] = "tools" /\ UNCHANGED attempt
              /\ pc' = [pc EXCEPT ![t] = "schema"] /\ UNCHANGED outcome
           \/ /\ pc[t] = "read" /\ task[t] = "call" /\ UNCHANGED attempt
              /\ pc' = [pc EXCEPT ![t] = "done"]
              /\ outcome' = [outcome EXCEPT ![t] = "answer"]
<1>1. pc[t] \in {"greeted", "read"} BY DEF Receive, Waiting
<1>2. pc[t] = "read" => task[t] \in {"tools", "call"}
  BY DEF TypeOK, ThreadsType, Placed
<1> DEFINE m == Head(child[queue].out)
<1>3. \/ UNCHANGED <<lock, pc, attempt, outcome, reply>>
      \/ Breaks(t) /\ Broke(t)
      \/ Answered(t, m) /\ UNCHANGED attempt
  BY DEF Receive, Breaks
<1>4. CASE Answered(t, m) /\ UNCHANGED attempt
  <2> HIDE DEF m
  <2>1. CASE pc[t] = "greeted" BY <1>4, <2>1 DEF Answered, Goto
  <2>2. CASE pc[t] = "read" /\ task[t] = "tools"
    BY <1>4, <2>2 DEF Answered, Goto
  <2>3. CASE pc[t] = "read" /\ task[t] = "call"
    BY <1>4, <2>3 DEF Answered, Goto
  <2>4. QED BY <1>1, <1>2, <2>1, <2>2, <2>3
<1>5. QED BY <1>3, <1>4

LEMMA ProcMoves ==
    ASSUME NEW t \in Threads, Thread(t)
    PROVE  proc' = proc \/ proc' = 0 \/ (pc[t] = "install" /\ proc' = mine[t])
BY DEF Thread, Begin, Enter, Schema, GiveUp, Look, Take, Poll, Send, Receive,
       Eof, TimeOut, Spawn, Popen, Install, Recheck, Condemn, Notify, Spawned,
       Respawn, Kill, Close, CloseRead, CloseClear, Terminate, Disown,
       supervisor, client, locals

LEMMA FreshAreNew ==
    ASSUME TypeOK, Placed, NEW t \in Threads, Thread(t), pc'[t] \in Fresher
    PROVE  \/ pc[t] \in Fresher /\ mine'[t] = mine[t]
           \/ /\ pc[t] = "popen" /\ pc'[t] = "install"
              /\ mine'[t] = Len(child') /\ Len(child') = Len(child) + 1
<1> USE DEF Fresher, Greeting, Goto, supervisor, client, locals
<1>a. pc \in [Threads -> PCs] /\ DOMAIN mine = Threads
  BY DEF TypeOK, ThreadsType
<1>1. CASE Begin(t) BY <1>1, <1>a DEF Begin
<1>2. CASE Enter(t) BY <1>2, <1>a DEF Enter
<1>3. CASE Schema(t) BY <1>3, <1>a DEF Schema, Fault
<1>4. CASE GiveUp(t) BY <1>4, <1>a DEF GiveUp
<1>5. CASE Look(t) BY <1>5, <1>a DEF Look
<1>6. CASE Take(t) BY <1>6, <1>a DEF Take
<1>7. CASE Poll(t) BY <1>7, <1>a DEF Poll, Leave, Established
<1>8. CASE Send(t) BY <1>8, <1>a DEF Send, Broke, Leave
<1>9. CASE Receive(t)
  BY <1>9, <1>a, ReceiveMoves DEF Receive, Broke, Leave, Waiting
<1>10. CASE Eof(t) BY <1>10, <1>a DEF Eof, Broke, Leave, Waiting
<1>11. CASE TimeOut(t)
  BY <1>11, <1>a DEF TimeOut, Patience, TimedOut, Leave, Waiting
<1>12. CASE Spawn(t) BY <1>12, <1>a DEF Spawn, Leave
<1>13. CASE Popen(t)
  BY <1>13, <1>a, SpawnedOne DEF Popen, Fault, Leave, TypeOK
<1>14. CASE Install(t) BY <1>14, <1>a DEF Install
<1>15. CASE Recheck(t) BY <1>15, <1>a DEF Recheck, Disown
<1>16. CASE Condemn(t) BY <1>16, <1>a DEF Condemn, Leave
<1>17. CASE Notify(t) BY <1>17, <1>a DEF Notify, Leave
<1>18. CASE Spawned(t) BY <1>18, <1>a DEF Spawned, Disown, Established
<1>19. CASE Respawn(t) BY <1>19, <1>a DEF Respawn
<1>20. CASE Kill(t) BY <1>20, <1>a DEF Kill
<1>21. CASE Close(t) BY <1>21, <1>a DEF Close
<1>22. CASE CloseRead(t) BY <1>22, <1>a DEF CloseRead
<1>23. CASE CloseClear(t) BY <1>23, <1>a DEF CloseClear
<1>24. CASE Terminate(t) BY <1>24, <1>a DEF Terminate
<1>25. QED BY <1>1, <1>2, <1>3, <1>4, <1>5, <1>6, <1>7, <1>8, <1>9, <1>10,
       <1>11, <1>12, <1>13, <1>14, <1>15, <1>16, <1>17, <1>18, <1>19, <1>20,
       <1>21, <1>22, <1>23, <1>24 DEF Thread

LEMMA ThreadsKeepAttempts ==
    ASSUME TypeOK, Placed, AttemptsFit, NEW t \in Threads, Thread(t)
    PROVE  AttemptsFit'
<1> USE DEF AttemptFits, Locked, Waiting, Goto, supervisor, client, locals
<1>a. /\ pc \in [Threads -> PCs] /\ DOMAIN attempt = Threads
      /\ DOMAIN task = Threads
      /\ AttemptFits(t)
  BY DEF TypeOK, ThreadsType, AttemptsFit
<1>b. \A u \in Threads \ {t} : AttemptFits(u)'
  BY ThreadsMoveFaults, OthersStay DEF AttemptsFit
<1> SUFFICES AttemptFits(t)' BY <1>b DEF AttemptsFit
<1>1. CASE Begin(t) BY <1>1, <1>a DEF Begin
<1>2. CASE Enter(t) BY <1>2, <1>a DEF Enter
<1>3. CASE Schema(t) BY <1>3, <1>a DEF Schema, Fault
<1>4. CASE GiveUp(t) BY <1>4, <1>a DEF GiveUp
<1>5. CASE Look(t) BY <1>5, <1>a DEF Look
<1>6. CASE Take(t) BY <1>6, <1>a DEF Take
<1>7. CASE Poll(t) BY <1>7, <1>a DEF Poll, Leave, Established
<1>8. CASE Send(t) BY <1>8, <1>a DEF Send, Broke, Leave
<1>9. CASE Receive(t)
  BY <1>9, <1>a, ReceiveMoves DEF Receive, Broke, Leave
<1>10. CASE Eof(t) BY <1>10, <1>a DEF Eof, Broke, Leave, Waiting
<1>11. CASE TimeOut(t)
  BY <1>11, <1>a DEF TimeOut, Patience, TimedOut, Leave, Waiting
<1>12. CASE Spawn(t) BY <1>12, <1>a DEF Spawn, Leave
<1>13. CASE Popen(t) BY <1>13, <1>a DEF Popen, Fault, Leave
<1>14. CASE Install(t) BY <1>14, <1>a DEF Install
<1>15. CASE Recheck(t) BY <1>15, <1>a DEF Recheck, Disown
<1>16. CASE Condemn(t) BY <1>16, <1>a DEF Condemn, Leave
<1>17. CASE Notify(t) BY <1>17, <1>a DEF Notify, Leave
<1>18. CASE Spawned(t) BY <1>18, <1>a DEF Spawned, Disown, Established
<1>19. CASE Respawn(t) BY <1>19, <1>a DEF Respawn
<1>20. CASE Kill(t) BY <1>20, <1>a DEF Kill
<1>21. CASE Close(t) BY <1>21, <1>a DEF Close
<1>22. CASE CloseRead(t) BY <1>22, <1>a DEF CloseRead
<1>23. CASE CloseClear(t) BY <1>23, <1>a DEF CloseClear
<1>24. CASE Terminate(t) BY <1>24, <1>a DEF Terminate
<1>25. QED BY <1>1, <1>2, <1>3, <1>4, <1>5, <1>6, <1>7, <1>8, <1>9, <1>10,
       <1>11, <1>12, <1>13, <1>14, <1>15, <1>16, <1>17, <1>18, <1>19, <1>20,
       <1>21, <1>22, <1>23, <1>24 DEF Thread

LEMMA ThreadsKillNone ==
    ASSUME TypeOK, Placed, ProcIsKnown, NotKilled, NEW t \in Threads, Thread(t)
    PROVE  NotKilled'
<1>1. SUFFICES ASSUME ~closed' PROVE NotKilled' BY DEF NotKilled
<1>2. ~closed BY <1>1, ClosedStays
<1>3. ASSUME NEW c \in 1 .. Len(child), child[c].state # "killed",
             pc[t] = "kill" => c # mine[t]
      PROVE  child'[c].state # "killed"
  BY <1>2, <1>3, ThreadsBlameNone
<1>4. pc[t] = "kill" => proc = 0 BY DEF ProcIsKnown, IdleProc
<1>5. /\ proc \in 0 .. Len(child) /\ Len(child) \in Nat
      /\ mine \in [Threads -> 0 .. Len(child)]
  BY DEF TypeOK, ClientType, ThreadsType, Procs
<1>6. ASSUME NEW u \in Threads, pc'[u] \in Fresher
      PROVE  child'[mine'[u]].state # "killed"
  <2>1. CASE u # t
    <3>1. pc[u] \in Fresher /\ mine'[u] = mine[u] BY <1>6, <2>1, OthersStay
    <3>2. pc[t] # "kill"
      BY <2>1, <3>1 DEF Placed, Locked, Fresher, Greeting
    <3>3. mine[u] # 0 BY <3>1 DEF Placed, Fresher
    <3>4. QED BY <1>2, <1>3, <1>5, <3>1, <3>2, <3>3 DEF NotKilled
  <2>2. CASE u = t
    <3>1. \/ pc[t] \in Fresher /\ mine'[t] = mine[t]
          \/ /\ mine'[t] = Len(child') /\ Len(child') = Len(child) + 1
      BY <1>2, <1>6, <2>2, FreshAreNew
    <3>2. CASE pc[t] \in Fresher /\ mine'[t] = mine[t]
      <4>1. mine[t] # 0 /\ pc[t] # "kill"
        BY <3>2 DEF Placed, Fresher, Greeting
      <4>2. QED BY <1>2, <1>3, <1>5, <2>2, <3>2, <4>1 DEF NotKilled
    <3>3. CASE mine'[t] = Len(child') /\ Len(child') = Len(child) + 1
      BY <1>5, <2>2, <3>3, ThreadsBlameNone
    <3>4. QED BY <3>1, <3>2, <3>3
  <2>3. QED BY <2>1, <2>2
<1>7. ASSUME proc' # 0 PROVE child'[proc'].state # "killed"
  <2>1. \/ proc' = proc
        \/ pc[t] = "install" /\ proc' = mine[t]
    BY <1>7, ProcMoves
  <2>2. CASE proc' = proc
    BY <1>2, <1>3, <1>4, <1>5, <1>7, <2>2 DEF NotKilled
  <2>3. CASE pc[t] = "install" /\ proc' = mine[t]
    BY <1>2, <1>3, <1>5, <1>7, <2>3 DEF NotKilled, Fresher
  <2>4. QED BY <2>1, <2>2, <2>3
<1>8. QED BY <1>6, <1>7 DEF NotKilled

LEMMA ClearsProc ==
    ASSUME NEW t \in Threads, Thread(t), proc' # proc, proc' = 0, ~closed
    PROVE  \/ pc[t] \in {"respawn", "closing", "clear"}
           \/ pc[t] = "spawned" /\ proc # mine[t]
           \/ pc[t] = "install" /\ mine[t] = 0
BY DEF Thread, Begin, Enter, Schema, GiveUp, Look, Take, Poll, Send, Receive,
       Eof, TimeOut, Spawn, Popen, Install, Recheck, Condemn, Notify, Spawned,
       Respawn, Kill, Close, CloseRead, CloseClear, Terminate, Disown,
       supervisor, client, locals

LEMMA ComesToUse ==
    ASSUME TypeOK, Placed, NEW t \in Threads, Thread(t),
           proc = 0, ~available, pc[t] \notin {"schema", "read", "spawned"}
    PROVE  /\ available' = available /\ pc'[t] # "schema"
           /\ pc'[t] = "take" => task'[t] = "start"
<1> USE DEF Running, Goto, supervisor, client, locals
<1>a. /\ pc \in [Threads -> PCs] /\ DOMAIN task = Threads /\ proc = 0
      /\ ~available /\ pc[t] \notin {"schema", "read", "spawned"}
  BY DEF TypeOK, ThreadsType
<1>1. CASE Begin(t) BY <1>1, <1>a DEF Begin
<1>2. CASE Enter(t) BY <1>2, <1>a DEF Enter
<1>3. CASE Schema(t) BY <1>3, <1>a DEF Schema, Fault
<1>4. CASE GiveUp(t) BY <1>4, <1>a DEF GiveUp
<1>5. CASE Look(t) BY <1>5, <1>a DEF Look
<1>6. CASE Take(t) BY <1>6, <1>a DEF Take
<1>7. CASE Poll(t) BY <1>7, <1>a DEF Poll, Leave, Established
<1>8. CASE Send(t) BY <1>8, <1>a DEF Send, Broke, Leave
<1>9. CASE Receive(t)
  BY <1>9, <1>a, ReceiveMoves DEF Receive, Broke, Leave, Waiting
<1>10. CASE Eof(t) BY <1>10, <1>a DEF Eof, Broke, Leave, Waiting
<1>11. CASE TimeOut(t)
  BY <1>11, <1>a DEF TimeOut, Patience, TimedOut, Leave, Waiting
<1>12. CASE Spawn(t) BY <1>12, <1>a DEF Spawn, Leave
<1>13. CASE Popen(t) BY <1>13, <1>a DEF Popen, Fault, Leave
<1>14. CASE Install(t) BY <1>14, <1>a DEF Install
<1>15. CASE Recheck(t) BY <1>15, <1>a DEF Recheck, Disown
<1>16. CASE Condemn(t) BY <1>16, <1>a DEF Condemn, Leave
<1>17. CASE Notify(t) BY <1>17, <1>a DEF Notify, Leave
<1>18. CASE Spawned(t) BY <1>18, <1>a DEF Spawned, Disown, Established
<1>19. CASE Respawn(t) BY <1>19, <1>a DEF Respawn
<1>20. CASE Kill(t) BY <1>20, <1>a DEF Kill
<1>21. CASE Close(t) BY <1>21, <1>a DEF Close
<1>22. CASE CloseRead(t) BY <1>22, <1>a DEF CloseRead
<1>23. CASE CloseClear(t) BY <1>23, <1>a DEF CloseClear
<1>24. CASE Terminate(t) BY <1>24, <1>a DEF Terminate
<1>25. QED BY <1>1, <1>2, <1>3, <1>4, <1>5, <1>6, <1>7, <1>8, <1>9, <1>10,
       <1>11, <1>12, <1>13, <1>14, <1>15, <1>16, <1>17, <1>18, <1>19, <1>20,
       <1>21, <1>22, <1>23, <1>24 DEF Thread

\* An open client loses its child to a fault, and is in use only with one.
LEMMA ThreadsKeepProc ==
    ASSUME ClientInv, ReadsItsOwn, AttemptsFit, SecondsCost, ProcIsThere,
           NEW t \in Threads, Thread(t)
    PROVE  ProcIsThere'
<1> USE DEF Goto, Starting, supervisor, client, locals
<1>1. SUFFICES ASSUME ~closed', proc' = 0, ~(faults' >= 1)
               PROVE  /\ ~available'
                      /\ \A u \in Threads :
                            /\ pc'[u] # "schema"
                            /\ pc'[u] = "take" => task'[u] = "start"
  BY DEF ProcIsThere
<1>2. ~closed BY <1>1, ClosedStays
<1>3. /\ TypeOK /\ Placed /\ ~(faults >= 1) /\ pc \in [Threads -> PCs]
      /\ DOMAIN mine = Threads /\ DOMAIN task = Threads
  BY <1>1, ThreadsMoveFaults DEF ClientInv, TypeOK, ThreadsType
<1>4. proc = 0
  <2>1. pc[t] # "respawn"
    BY <1>2, <1>3 DEF AttemptsFit, AttemptFits, SecondsCost, CountsTwo
  <2>2. /\ pc[t] \notin {"closing", "clear"}
        /\ pc[t] = "spawned" => proc = mine[t]
        /\ pc[t] = "install" => mine[t] # 0
    BY <1>2 DEF ClientInv, Placed, ClosingAt, ProcIsKnown, HeldProc, Greeting
  <2>3. QED BY <1>1, <1>2, <2>1, <2>2, ClearsProc
<1>5. /\ ~available
      /\ \A u \in Threads :
            pc[u] # "schema" /\ (pc[u] = "take" => task[u] = "start")
  BY <1>2, <1>3, <1>4 DEF ProcIsThere
<1>6. pc[t] \notin {"read", "spawned"}
  BY <1>2, <1>4, AsksItsChild DEF ClientInv, Greeting
<1>7. available' = available /\ pc'[t] # "schema"
      /\ (pc'[t] = "take" => task'[t] = "start")
  BY <1>3, <1>4, <1>5, <1>6, ComesToUse
<1>8. QED BY <1>5, <1>7, <1>3, OthersStay

\* What a call does with the fault it meets.
LEMMA ThreadsCountTheirs ==
    ASSUME ClientInv, ReadsItsOwn, FaultsAreCounted, NotKilled, ProcIsThere,
           SecondsCost, AttemptsFit, NEW t \in Threads, Thread(t),
           ~closed', task'[t] = "call"
    PROVE  CountsTwo(t)'
<1> USE DEF CountsTwo, Another, Repeated, Starting, Fresher, Greeting, Goto,
            supervisor, client, locals
<1>a. /\ pc \in [Threads -> PCs] /\ DOMAIN mine = Threads
      /\ DOMAIN attempt = Threads /\ attempt[t] \in {1, 2}
      /\ DOMAIN task = Threads /\ Len(child) \in Nat
      /\ TypeOK /\ Placed
  BY DEF ClientInv, TypeOK, ThreadsType
<1>b. /\ faults \in Nat /\ faults' \in Nat /\ faults' >= faults
      /\ \A c \in 1 .. Len(child') :
            Faulty(c)' => Faulty(c) /\ c \in 1 .. Len(child)
  BY <1>a, ThreadsMoveFaults, ThreadsBlameNone
<1>c. ~closed BY ClosedStays
<1>d. /\ task[t] = "call" => CountsTwo(t)
      /\ AttemptFits(t)
      /\ \A c \in 1 .. Len(child) : Faulty(c) => faults >= 1
  BY <1>c DEF SecondsCost, AttemptsFit, FaultsAreCounted
<1>e. task'[t] = "call" BY DEF ClientInv
<1>f. ASSUME Breaks(t), Broke(t), UNCHANGED <<task, mine, proc>>
      PROVE  CountsTwo(t)'
  <2>1. Faulty(proc) /\ proc \in 1 .. Len(child)
    BY <1>a, <1>c, <1>f, BreaksAreFaults DEF ClientInv
  <2>2. pc'[t] \in {"respawn", "done", "close"}
    BY <1>a, <1>f DEF Broke, Leave
  <2>3. QED BY <1>b, <1>d, <2>1, <2>2
<1>1. CASE Begin(t) BY <1>1, <1>a, <1>b, <1>d, <1>e DEF Begin
<1>2. CASE Enter(t) BY <1>2, <1>a, <1>b, <1>d, <1>e DEF Enter
<1>3. CASE Schema(t) BY <1>3, <1>a, <1>b, <1>d, <1>e DEF Schema, Fault
<1>4. CASE GiveUp(t) BY <1>4, <1>a, <1>b, <1>d, <1>e DEF GiveUp
<1>5. CASE Look(t) BY <1>5, <1>a, <1>b, <1>d, <1>e DEF Look
<1>6. CASE Take(t)
  <2>1. pc[t] = "take" /\ proc = 0 => faults >= 1
    BY <1>6, <1>c, <1>e DEF ProcIsThere, Take
  <2>2. pc'[t] \in {"spawn", "poll"} /\ (pc'[t] = "spawn" => proc = 0)
    BY <1>6, <1>a DEF Take
  <2>3. QED BY <1>6, <1>b, <2>1, <2>2 DEF Take
<1>7. CASE Poll(t)
  <2>1. CASE pc'[t] = "spawn"
    <3>1. proc # 0 /\ ~Running(proc)
      BY <1>7, <1>a, <2>1 DEF Poll, Leave, Established
    <3>2. faults >= 1 BY <1>a, <1>c, <1>d, <3>1, StoppedIsFaulty
    <3>3. QED BY <1>b, <2>1, <3>2
  <2>2. CASE pc'[t] # "spawn"
    <3>1. attempt'[t] = 1 BY <1>7, <1>a, <1>d DEF Poll, AttemptFits
    <3>2. pc'[t] \in {"send", "take", "done", "close"}
      BY <1>7, <1>a, <2>2 DEF Poll, Leave, Established
    <3>3. QED BY <3>1, <3>2
  <2>3. QED BY <2>1, <2>2
<1>8. CASE Send(t)
  <2>1. CASE Running(proc)
    <3>1. /\ \/ pc[t] = "hello" /\ pc'[t] = "greeted"
             \/ pc[t] = "send" /\ pc'[t] = "read"
          /\ UNCHANGED <<task, mine, proc, attempt>>
      BY <1>8, <1>a, <2>1 DEF Send
    <3>2. QED BY <1>b, <1>d, <1>e, <3>1
  <2>2. CASE ~Running(proc)
    BY <1>8, <1>f, <2>2 DEF Send, Breaks
  <2>3. QED BY <2>1, <2>2
<1>9. CASE Receive(t)
  <2>1. UNCHANGED <<task, mine, proc>> BY <1>9 DEF Receive
  <2>2. CASE Breaks(t) /\ Broke(t) BY <1>f, <2>1, <2>2
  <2>3. CASE ~(Breaks(t) /\ Broke(t))
    <3>1. /\ attempt' = attempt
          /\ \/ pc' = pc
             \/ pc[t] = "greeted" /\ pc'[t] = "notify"
             \/ pc'[t] \in {"schema", "done"}
      BY <1>9, <1>a, <2>3, ReceiveMoves
    <3>2. QED BY <1>b, <1>d, <1>e, <2>1, <3>1
  <2>4. QED BY <2>2, <2>3
<1>10. CASE Eof(t)
  BY <1>10, <1>f DEF Eof, Breaks
<1>11. CASE TimeOut(t)
  BY <1>11, <1>a DEF TimeOut, TimedOut, Leave
<1>12. CASE Spawn(t) BY <1>12, <1>a, <1>b, <1>d, <1>e DEF Spawn, Leave
<1>13. CASE Popen(t)
  <2>1. CASE pc'[t] = "install"
    <3>1. mine'[t] = Len(child') /\ Len(child') = Len(child) + 1
      BY <1>13, <1>a, <2>1, FreshAreNew DEF Popen
    <3>2. QED BY <1>13, <1>b, <1>d, <1>e, <2>1, <3>1 DEF Popen
  <2>2. CASE pc'[t] # "install"
    BY <1>13, <1>a, <2>2 DEF Popen, Leave
  <2>3. QED BY <2>1, <2>2
<1>14. CASE Install(t) BY <1>14, <1>a, <1>b, <1>d, <1>e DEF Install
<1>15. CASE Recheck(t)
  BY <1>15, <1>a, <1>b, <1>c, <1>d, <1>e DEF Recheck
<1>16. CASE Condemn(t)
  BY <1>16, <1>a DEF Condemn, Leave
<1>17. CASE Notify(t) BY <1>17, <1>a, <1>b, <1>d, <1>e DEF Notify, Leave
<1>18. CASE Spawned(t)
  <2>1. proc = mine[t] BY <1>18, <1>a, <1>c, AsksItsChild DEF ClientInv, Spawned
  <2>2. /\ pc'[t] \in {"send", "take"} /\ task[t] = "call"
        /\ UNCHANGED <<mine, proc, attempt>>
    BY <1>18, <1>a, <1>c, <1>e, <2>1 DEF Spawned, Established
  <2>3. QED BY <1>18, <1>b, <1>d, <2>1, <2>2 DEF Spawned
<1>19. CASE Respawn(t)
  BY <1>19, <1>a, <1>b, <1>d, <1>e DEF Respawn
<1>20. CASE Kill(t)
  BY <1>20, <1>a, <1>b, <1>d, <1>e DEF Kill
<1>21. CASE Close(t) BY <1>21, <1>a, <1>b, <1>d, <1>e DEF Close
<1>22. CASE CloseRead(t) BY <1>22, <1>a, <1>b, <1>d, <1>e DEF CloseRead
<1>23. CASE CloseClear(t) BY <1>23, <1>a, <1>b, <1>d, <1>e DEF CloseClear
<1>24. CASE Terminate(t) BY <1>24, <1>a, <1>b, <1>d, <1>e DEF Terminate
<1>25. QED BY <1>1, <1>2, <1>3, <1>4, <1>5, <1>6, <1>7, <1>8, <1>9, <1>10,
       <1>11, <1>12, <1>13, <1>14, <1>15, <1>16, <1>17, <1>18, <1>19, <1>20,
       <1>21, <1>22, <1>23, <1>24 DEF Thread

LEMMA ThreadsCountOthers ==
    ASSUME ClientInv, SecondsCost, NEW t \in Threads, Thread(t),
           ~closed', NEW u \in Threads \ {t}, task'[u] = "call"
    PROVE  CountsTwo(u)'
<1> USE DEF ClientInv
<1>1. /\ pc'[u] = pc[u] /\ mine'[u] = mine[u] /\ attempt'[u] = attempt[u]
      /\ task[u] = "call"
  BY OthersStay, ThreadsMoveFaults
<1>2. ~closed /\ CountsTwo(u) BY <1>1, ClosedStays DEF SecondsCost
<1>3. pc[u] \in Locked => proc' = proc
  BY <1>2, OutsidersLeaveProc DEF Placed
<1>4. /\ faults \in Nat /\ faults' \in Nat /\ faults' >= faults
      /\ \A c \in 1 .. Len(child') :
            Faulty(c)' => Faulty(c) /\ c \in 1 .. Len(child)
  BY ThreadsMoveFaults, ThreadsBlameNone
<1>5. Repeated(u)' <=> Repeated(u) BY <1>1 DEF Repeated
<1>6. \A c : Another(u, c)' => Another(u, c)
  BY <1>1, <1>3 DEF Another, Repeated, Locked
<1>7. QED BY <1>1, <1>2, <1>4, <1>5, <1>6 DEF CountsTwo

\* An error is told to a caller of an open client only after two faults.
LEMMA ThreadsEarnErrors ==
    ASSUME ClientInv, ReadsItsOwn, NotKilled, SecondsCost, AttemptsFit,
           OneFaultIsHidden, NEW t \in Threads, Thread(t)
    PROVE  OneFaultIsHidden'
<1> USE DEF Another, Repeated, Starting, Fresher, Greeting, Goto,
            supervisor, client, locals
<1>a. /\ outcome \in [Threads -> {"none", "unavailable", "answer", "error",
                                  "timeout", "broken"}]
      /\ TypeOK /\ Placed /\ attempt[t] \in {1, 2}
  BY DEF ClientInv, TypeOK, ThreadsType
<1>b. /\ faults \in Nat /\ faults' \in Nat /\ faults' >= faults
      /\ \A u \in Threads \ {t} : outcome'[u] = outcome[u]
      /\ closed => closed'
  BY <1>a, ThreadsMoveFaults, ClosedStays
<1>c. SUFFICES ASSUME t \in Callers, outcome'[t] = "error",
                      outcome[t] # "error", ~closed
               PROVE  faults' >= 2
  BY <1>a, <1>b DEF OneFaultIsHidden, Threads
<1>d. task[t] = "call" =>
          /\ pc[t] \in Starting \/ Repeated(t) => faults >= 1
          /\ \A c \in 1 .. Len(child) : Another(t, c) /\ Faulty(c) => faults >= 2
  BY <1>c DEF SecondsCost, CountsTwo
<1>e. ASSUME Breaks(t), Broke(t) PROVE faults >= 2
  <2>1. /\ pc[t] \in {"hello", "send", "greeted", "read"}
        /\ proc \in 1 .. Len(child) /\ Faulty(proc)
        /\ pc[t] \in {"hello", "greeted"} => proc = mine[t]
    BY <1>a, <1>c, <1>e, BreaksAreFaults DEF ClientInv
  <2>2. /\ task[t] = "call"
        /\ pc[t] \in {"send", "read"} => attempt[t] = 2
    BY <1>a, <1>c, <1>e, <2>1 DEF Broke, Leave
  <2>3. Another(t, proc) BY <2>1, <2>2
  <2>4. QED BY <1>d, <2>1, <2>2, <2>3
<1>1. CASE Begin(t) BY <1>1, <1>a, <1>b, <1>c DEF Begin
<1>2. CASE Enter(t) BY <1>2, <1>a, <1>b, <1>c DEF Enter
<1>3. CASE Schema(t) BY <1>3, <1>a, <1>b, <1>c DEF Schema, Fault
<1>4. CASE GiveUp(t) BY <1>4, <1>a, <1>b, <1>c DEF GiveUp
<1>5. CASE Look(t) BY <1>5, <1>a, <1>b, <1>c DEF Look
<1>6. CASE Take(t) BY <1>6, <1>a, <1>b, <1>c DEF Take
<1>7. CASE Poll(t) BY <1>7, <1>a, <1>b, <1>c DEF Poll, Leave, Established
<1>8. CASE Send(t)
  BY <1>8, <1>b, <1>c, <1>e DEF Send, Breaks
<1>9. CASE Receive(t)
  BY <1>9, <1>a, <1>b, <1>c, <1>e, ReceiveMoves
<1>10. CASE Eof(t)
  BY <1>10, <1>b, <1>e DEF Eof, Breaks
<1>11. CASE TimeOut(t)
  BY <1>11, <1>a, <1>b, <1>c DEF TimeOut, Patience, TimedOut, Leave, Waiting
<1>12. CASE Spawn(t) BY <1>12, <1>a, <1>b, <1>c DEF Spawn, Leave
<1>13. CASE Popen(t)
  <2>1. task[t] = "call" /\ faults' = faults + 1
    BY <1>13, <1>a, <1>c DEF Popen, Fault, Leave
  <2>2. faults >= 1 BY <1>13, <1>d, <2>1 DEF Popen
  <2>3. QED BY <1>b, <2>1, <2>2
<1>14. CASE Install(t) BY <1>14, <1>a, <1>b, <1>c DEF Install
<1>15. CASE Recheck(t) BY <1>15, <1>a, <1>b, <1>c DEF Recheck, Disown
<1>16. CASE Condemn(t)
  BY <1>16, <1>a, <1>c DEF Condemn, Placed
<1>17. CASE Notify(t)
  <2>1. task[t] = "call" /\ ~Running(proc)
    BY <1>17, <1>a, <1>c DEF Notify, Leave
  <2>2. proc = mine[t] /\ proc # 0
    BY <1>17, <1>a, <1>c, AsksItsChild DEF ClientInv, Notify
  <2>3. Faulty(proc) /\ proc \in 1 .. Len(child)
    BY <1>a, <1>c, <2>1, <2>2, StoppedIsFaulty
  <2>4. QED BY <1>17, <1>b, <1>d, <2>1, <2>2, <2>3 DEF Notify
<1>18. CASE Spawned(t)
  BY <1>18, <1>a, <1>b, <1>c DEF Spawned, Disown, Established
<1>19. CASE Respawn(t) BY <1>19, <1>a, <1>b, <1>c DEF Respawn
<1>20. CASE Kill(t) BY <1>20, <1>a, <1>b, <1>c DEF Kill
<1>21. CASE Close(t) BY <1>21, <1>a, <1>b, <1>c DEF Close
<1>22. CASE CloseRead(t) BY <1>22, <1>a, <1>b, <1>c DEF CloseRead
<1>23. CASE CloseClear(t) BY <1>23, <1>a, <1>b, <1>c DEF CloseClear
<1>24. CASE Terminate(t) BY <1>24, <1>a, <1>b, <1>c DEF Terminate
<1>25. QED BY <1>1, <1>2, <1>3, <1>4, <1>5, <1>6, <1>7, <1>8, <1>9, <1>10,
       <1>11, <1>12, <1>13, <1>14, <1>15, <1>16, <1>17, <1>18, <1>19, <1>20,
       <1>21, <1>22, <1>23, <1>24 DEF Thread

LEMMA ThreadsKeepFaults ==
    ASSUME ClientInv, ReadsItsOwn, FaultInv, NEW t \in Threads, Thread(t)
    PROVE  FaultInv'
<1> USE DEF FaultInv
<1>1. TypeOK /\ Placed /\ ProcIsKnown BY DEF ClientInv
<1>2. FaultsAreCounted'
  BY <1>1, ThreadsMoveFaults, ThreadsBlameNone DEF FaultsAreCounted
<1>3. NotKilled' BY <1>1, ThreadsKillNone
<1>4. ProcIsThere' BY ThreadsKeepProc
<1>5. SecondsCost'
  <2>1. SUFFICES ASSUME ~closed', NEW u \in Threads, task'[u] = "call"
                 PROVE  CountsTwo(u)'
    BY DEF SecondsCost
  <2>2. QED BY <2>1, ThreadsCountTheirs, ThreadsCountOthers
<1>6. AttemptsFit' BY <1>1, ThreadsKeepAttempts
<1>7. OneFaultIsHidden' BY ThreadsEarnErrors
<1>8. QED BY <1>2, <1>3, <1>4, <1>5, <1>6, <1>7

\* Every fault of a child is counted when it happens.
LEMMA EngineCounts ==
    ASSUME TypeOK, Engine
    PROVE  /\ faults \in Nat /\ Len(child') = Len(child)
           /\ \/ faults' = faults + 1
              \/ faults' = faults
                 /\ \A c \in 1 .. Len(child) : Faulty(c)' => Faulty(c)
<1>1. faults \in Nat /\ Len(child') = Len(child)
  BY EngineAssumption, EngineMoves DEF TypeOK, ClientType
<1>2. PICK c \in 1 .. Len(child) :
          \/ Serves(c, TRUE) /\ UNCHANGED faults
          \/ Serves(c, FALSE) /\ Fault
          \/ Dies(c)
  BY DEF Engine
<1>3. CASE Serves(c, TRUE) /\ UNCHANGED faults
  <2> DEFINE r == Head(child[c].inbox)
  <2> DEFINE m == [id |-> r.id, from |-> r.from, what |-> r.what, ok |-> TRUE]
  <2>1. /\ \A d \in 1 .. Len(child) : d # c => child'[d] = child[d]
        /\ child'[c].state = child[c].state
        /\ m \in Lines /\ child[c].out \in Seq(Lines)
        /\ child'[c].out = Append(child[c].out, m)
    BY <1>3, ServedOne DEF TypeOK
  <2>2. m.ok OBVIOUS
  <2> HIDE DEF m
  <2>3. ASSUME NEW i \in 1 .. Len(child'[c].out), ~child'[c].out[i].ok
        PROVE  i \in 1 .. Len(child[c].out) /\ ~child[c].out[i].ok
    BY <2>1, <2>2, <2>3
  <2>4. ASSUME NEW d \in 1 .. Len(child), Faulty(d)' PROVE Faulty(d)
    <3>1. CASE d # c BY <2>1, <2>4, <3>1 DEF Faulty, Refused
    <3>2. CASE d = c BY <2>1, <2>3, <2>4, <3>2 DEF Faulty, Refused
    <3>3. QED BY <3>1, <3>2
  <2>5. QED BY <1>1, <1>3, <2>4
<1>4. CASE (Serves(c, FALSE) /\ Fault) \/ Dies(c)
  BY <1>1, <1>4 DEF Fault, Dies
<1>5. QED BY <1>2, <1>3, <1>4

LEMMA EngineKeepsFaults ==
    ASSUME ClientInv, FaultInv, Engine PROVE FaultInv'
<1> USE DEF FaultInv, ClientInv, supervisor, client, locals
<1>1. UNCHANGED <<supervisor, client, pc, locals>> BY EngineMoves
<1>2. /\ faults \in Nat /\ Len(child') = Len(child)
      /\ \/ faults' = faults + 1
         \/ faults' = faults
            /\ \A c \in 1 .. Len(child) : Faulty(c)' => Faulty(c)
  BY EngineCounts
<1>3. FaultsAreCounted' BY <1>2 DEF FaultsAreCounted
<1>4. NotKilled'
  <2>1. \A c \in 1 .. Len(child) :
            child'[c].state = "killed" => child[c].state = "killed"
    BY EngineMoves
  <2>2. /\ proc \in 0 .. Len(child)
        /\ \A u \in Threads : /\ mine[u] \in 0 .. Len(child)
                              /\ pc[u] \in Fresher => mine[u] # 0
    BY DEF TypeOK, ClientType, ThreadsType, Procs, Placed, Fresher
  <2>3. QED BY <1>1, <2>1, <2>2 DEF NotKilled
<1>5. ProcIsThere' BY <1>1, <1>2 DEF ProcIsThere
<1>6. SecondsCost'
  <2>1. SUFFICES ASSUME ~closed, NEW u \in Threads, task[u] = "call"
                 PROVE  CountsTwo(u)'
    BY <1>1 DEF SecondsCost
  <2>2. CountsTwo(u) BY <2>1 DEF SecondsCost
  <2>3. /\ Repeated(u)' <=> Repeated(u)
        /\ \A c : Another(u, c)' <=> Another(u, c)
    BY <1>1 DEF Repeated, Another
  <2>4. \A c : Another(u, c) => pc[u] \in Starting \/ Repeated(u)
    BY DEF Another, Starting
  <2>5. QED BY <1>1, <1>2, <2>2, <2>3, <2>4 DEF CountsTwo
<1>7. AttemptsFit' BY <1>1 DEF AttemptsFit, AttemptFits
<1>8. OneFaultIsHidden' BY <1>1, <1>2 DEF OneFaultIsHidden
<1>9. QED BY <1>3, <1>4, <1>5, <1>6, <1>7, <1>8

LEMMA StopKeepsFaults ==
    ASSUME ClientInv, FaultInv, Stop PROVE FaultInv'
<1> USE DEF FaultInv, ClientInv, client, locals
<1>1. /\ UNCHANGED <<client, child, locals, faults>>
      /\ pc \in [Threads -> PCs] /\ Stopper \in Threads
      /\ \A u \in Threads :
            \/ pc'[u] = pc[u]
            \/ /\ pc[u] \in {"idle", "stop"}
               /\ pc'[u] \in {"close", "stop", "done"}
  BY StopMoves DEF TypeOK, ThreadsType, Threads
<1>2. available' => available BY DEF Stop, StopBegin, StopEnd
<1>3. \A c : Faulty(c)' <=> Faulty(c) BY <1>1 DEF Faulty, Refused
<1>4. FaultsAreCounted' BY <1>1, <1>3 DEF FaultsAreCounted
<1>5. NotKilled' BY <1>1 DEF NotKilled, Fresher, Greeting
<1>6. ProcIsThere' BY <1>1, <1>2 DEF ProcIsThere
<1>7. SecondsCost'
  BY <1>1, <1>3 DEF SecondsCost, CountsTwo, Another, Repeated, Starting,
                    Fresher, Greeting
<1>8. AttemptsFit' BY <1>1 DEF AttemptsFit, AttemptFits, Locked
<1>9. OneFaultIsHidden' BY <1>1 DEF OneFaultIsHidden
<1>10. QED BY <1>4, <1>5, <1>6, <1>7, <1>8, <1>9

LEMMA StepsKeepFaults ==
    ASSUME EngineInv, FaultInv, [Next]_vars PROVE FaultInv'
<1> USE DEF EngineInv, WireInv
<1>1. CASE UNCHANGED vars
  BY <1>1 DEF vars, supervisor, client, locals, FaultInv, FaultsAreCounted,
              NotKilled, ProcIsThere, SecondsCost, CountsTwo, Another,
              Repeated, AttemptsFit, AttemptFits, OneFaultIsHidden, Faulty,
              Refused
<1>2. QED BY <1>1, ThreadsKeepFaults, EngineKeepsFaults, StopKeepsFaults
          DEF Next

\* A caller of an open client is told of an error only when two deaths,
\* refusals or failed starts have come together, and what it is answered is its
\* own ("Transparently respawns a dead child once", call_tool).
THEOREM OutcomesTrue == Spec => []OutcomesAreTrue
<1>1. ASSUME Init PROVE FaultInv
  BY <1>1 DEF Init, FaultInv, FaultsAreCounted, NotKilled, Fresher, Greeting,
              ProcIsThere, SecondsCost, CountsTwo, Another, Repeated, Starting,
              AttemptsFit, AttemptFits, OneFaultIsHidden, Threads
<1>2. EngineInv /\ FaultInv /\ [Next]_vars => FaultInv' BY StepsKeepFaults
<1>3. EngineInv /\ FaultInv => OutcomesAreTrue
  BY DEF EngineInv, WireInv, FaultInv, OutcomesAreTrue
<1>4. QED BY <1>1, <1>2, <1>3, WireInvariance, PTL DEF Spec
=============================================================================
