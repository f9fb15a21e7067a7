---------------------------- MODULE WritersProofs -----------------------------
(***************************************************************************)
(* What keeps the writers of a database apart, proved for every value of   *)
(* the constants: within a process the serialized write queue, for any     *)
(* number of callers and any bound; between the processes the lease, for   *)
(* every set of holders, every TTL, heartbeat interval and horizon.        *)
(***************************************************************************)
EXTENDS LeaseLock, WriteQueue, SequenceTheorems, TLAPS

-----------------------------------------------------------------------------
(* The write queue.                                                          *)

Tasks == Callers \cup Queues \cup {Stopper}

LEMMA Apart ==
    /\ \A c \in Callers : c \notin Queues /\ c # Stopper /\ c # NoOne
    /\ Stopper \notin Queues
    /\ 1 \in Queues /\ 2 \in Queues /\ Queues \subseteq Nat
    /\ \A q \in Queues : q = 1 \/ q = 2
    /\ 0 \notin Queues
    /\ MaxSize \in Nat /\ MaxSize >= 1
BY QueueAssumption DEF Queues

-----------------------------------------------------------------------------
(* What a step does to the loop.                                             *)

\* The loop drops its first k tasks and gets those of s.
Runs(k, s) ==
    /\ k <= Len(ready)
    /\ Len(ready') = Len(ready) - k + Len(s)
    /\ \A i \in 1 .. Len(ready') :
          ready'[i] = IF i + k <= Len(ready) THEN ready[i + k]
                      ELSE s[i + k - Len(ready)]

Kept(k, t) == \E i \in 1 .. Len(ready) : i > k /\ ready[i] = t
Added(s, t) == \E i \in 1 .. Len(s) : s[i] = t

LEMMA RunsOn ==
    ASSUME ready \in Seq(Tasks), NEW s \in Seq(Tasks), ready' = ready \o s
    PROVE  ready' \in Seq(Tasks) /\ Runs(0, s)
<1>1. ready' \in Seq(Tasks) OBVIOUS
<1>2. Len(ready') = Len(ready) + Len(s) OBVIOUS
<1>3. QED BY <1>1, <1>2 DEF Runs

LEMMA RunsHead ==
    ASSUME ready \in Seq(Tasks), ready # <<>>, NEW s \in Seq(Tasks),
           ready' = Tail(ready) \o s
    PROVE  ready' \in Seq(Tasks) /\ Runs(1, s)
<1>0. Tail(ready) \in Seq(Tasks) /\ Len(Tail(ready)) = Len(ready) - 1
  OBVIOUS
<1>1. ready' \in Seq(Tasks) BY <1>0
<1>2. Len(ready') = Len(ready) - 1 + Len(s) BY <1>0
<1>3. \A i \in 1 .. Len(ready) - 1 : Tail(ready)[i] = ready[i + 1]
  OBVIOUS
<1>4. QED BY <1>0, <1>1, <1>2, <1>3 DEF Runs

LEMMA RunsStill ==
    ASSUME ready \in Seq(Tasks), UNCHANGED ready PROVE Runs(0, <<>>)
BY DEF Runs

LEMMA RunsAppend ==
    ASSUME ready \in Seq(Tasks), NEW t \in Tasks, ready' = Append(ready, t)
    PROVE  ready' \in Seq(Tasks) /\ Runs(0, <<t>>)
BY DEF Runs

LEMMA RunsTail ==
    ASSUME ready \in Seq(Tasks), ready # <<>>, ready' = Tail(ready)
    PROVE  ready' \in Seq(Tasks) /\ Runs(1, <<>>)
BY DEF Runs

LEMMA WhoIsDue ==
    ASSUME ready \in Seq(Tasks), ready' \in Seq(Tasks), NEW k \in {0, 1},
           NEW s \in Seq(Tasks), Runs(k, s), NEW t
    PROVE  Scheduled(t)' <=> Kept(k, t) \/ Added(s, t)
<1>1. ASSUME Scheduled(t)' PROVE Kept(k, t) \/ Added(s, t)
  <2>1. PICK i \in 1 .. Len(ready') : ready'[i] = t BY <1>1 DEF Scheduled
  <2>2. CASE i + k <= Len(ready)
    <3>1. i + k \in 1 .. Len(ready) /\ i + k > k BY <2>2
    <3>2. ready[i + k] = t BY <2>1, <2>2 DEF Runs
    <3>3. QED BY <3>1, <3>2 DEF Kept
  <2>3. CASE ~(i + k <= Len(ready))
    <3>1. i + k - Len(ready) \in 1 .. Len(s) BY <2>3 DEF Runs
    <3>2. s[i + k - Len(ready)] = t BY <2>1, <2>3 DEF Runs
    <3>3. QED BY <3>1, <3>2 DEF Added
  <2>4. QED BY <2>2, <2>3
<1>2. ASSUME NEW i \in 1 .. Len(ready), i > k, ready[i] = t PROVE Scheduled(t)'
  <2>1. i - k \in 1 .. Len(ready') BY <1>2 DEF Runs
  <2>2. ready'[i - k] = t BY <1>2, <2>1 DEF Runs
  <2>3. QED BY <2>1, <2>2 DEF Scheduled
<1>3. ASSUME NEW i \in 1 .. Len(s), s[i] = t PROVE Scheduled(t)'
  <2>1. i + Len(ready) - k \in 1 .. Len(ready') BY <1>3 DEF Runs
  <2>2. ready'[i + Len(ready) - k] = t BY <1>3, <2>1, SMTT(30) DEF Runs
  <2>3. QED BY <2>1, <2>2 DEF Scheduled
<1>4. QED BY <1>1, <1>2, <1>3 DEF Kept, Added

-----------------------------------------------------------------------------
(* A call's first turn of the loop, and the next one of a woken putter.      *)

\* The worker of q is made ready by a put or a start, or goes on as it was.
Rouses(q) ==
    \/ UNCHANGED <<worker, doomed>> /\ Runs(1, <<>>)
    \/ /\ worker[q] \in {"none", "dead", "getting"}
       /\ worker' = [worker EXCEPT ![q] = "ready"]
       /\ doomed' = [doomed EXCEPT ![q] = @ /\ worker[q] = "getting"]
       /\ Runs(1, <<q>>)

Turn(c, q) ==
    /\ ready # <<>> /\ ready[1] = c /\ ready' \in Seq(Tasks)
    /\ Rouses(q)
    /\ \/ pc[c] = "called"
          /\ pc' = [pc EXCEPT ![c] = "refused"] /\ UNCHANGED queue
       \/ /\ pc[c] = "called" \/ (pc[c] = "woken" /\ home[c] = q)
          /\ (Full(q) /\ Block(c, q)) \/ (~Full(q) /\ PutNowait(c, q))
    /\ home' = [home EXCEPT ![c] = q]
    /\ \/ UNCHANGED <<current, made>>
       \/ current = 0 /\ q = made + 1 /\ current' = q /\ made' = q
    /\ q <= made' /\ worker'[q] # "none"
    /\ stopping' \in [Queues -> BOOLEAN]
    /\ UNCHANGED <<serving, stop, early>>

LEMMA CallTurn ==
    ASSUME QueueTypeOK, MadeInv, WorkerInv, NEW c \in Callers, RunCall(c)
    PROVE  \E q \in Queues : Turn(c, q)
<1> DEFINE q == IF current = 0 THEN made + 1 ELSE current
           starts == (current = 0 \/ c \in Starters) /\ NeedsWorker(q)
           stops == stopping[q] /\ ~starts
           taken == ~stops /\ ~Full(q)
<1>1. q \in Queues /\ q <= 2
      /\ ((q = made /\ current = made) \/ (current = 0 /\ q = made + 1))
  BY DEF QueueTypeOK, MadeInv, Queues
<1>2. made \in Nat /\ q \in Nat BY DEF QueueTypeOK, Queues
<1>3. current = 0 => starts
  BY <1>1, <1>2 DEF NeedsWorker, MadeInv, QueueTypeOK
<1>4. /\ ready # <<>> /\ ready[1] = c /\ pc[c] = "called"
      /\ ready \in Seq(Tasks)
  BY DEF RunCall, Running, QueueTypeOK, Tasks
<1>5. /\ current' = q /\ made' = IF q > made THEN q ELSE made
      /\ home' = [home EXCEPT ![c] = q]
      /\ stopping' = [stopping EXCEPT ![q] = stops]
      /\ doomed' = [doomed EXCEPT ![q] = @ /\ ~starts]
      /\ IF stops THEN pc' = [pc EXCEPT ![c] = "refused"] /\ UNCHANGED queue
         ELSE IF Full(q) THEN Block(c, q)
         ELSE PutNowait(c, q)
      /\ worker' = [worker EXCEPT ![q] = CASE starts -> "ready"
                                         [] taken /\ ~starts -> Woken(q)
                                         [] OTHER -> @]
      /\ ready' = Tail(ready) \o (CASE starts -> <<q>>
                                  [] taken /\ ~starts -> Wakes(q)
                                  [] OTHER -> <<>>)
      /\ UNCHANGED <<serving, stop, early>>
  BY DEF RunCall
<1> HIDE DEF q
<1>6. worker[q] \in {"none", "ready", "getting", "busy", "resuming", "dead"}
      /\ doomed[q] \in BOOLEAN /\ <<q>> \in Seq(Tasks)
      /\ <<>> \in Seq(Tasks)
  BY <1>1 DEF QueueTypeOK, Tasks
<1>7. CASE starts
  <2>1. Runs(1, <<q>>) /\ ready' \in Seq(Tasks)
    BY <1>4, <1>5, <1>6, <1>7, RunsHead
  <2>2. Rouses(q) /\ worker'[q] # "none"
    BY <1>1, <1>5, <1>6, <1>7, <2>1 DEF Rouses, NeedsWorker, QueueTypeOK
  <2>3. stopping' \in [Queues -> BOOLEAN] BY <1>1, <1>5 DEF QueueTypeOK
  <2>4. (Full(q) /\ Block(c, q)) \/ (~Full(q) /\ PutNowait(c, q))
    BY <1>5, <1>7
  <2>5. (UNCHANGED <<current, made>> \/ (current = 0 /\ q = made + 1
           /\ current' = q /\ made' = q)) /\ q <= made'
    BY <1>1, <1>2, <1>5
  <2>6. QED BY <1>1, <1>4, <1>5, <2>1, <2>2, <2>3, <2>4, <2>5 DEF Turn
<1>8. CASE ~starts
  <2>0. q = current /\ q = made /\ worker[q] # "none"
    BY <1>1, <1>2, <1>3, <1>8 DEF MadeInv, QueueTypeOK
  <2>1. (~taken \/ worker[q] # "getting") =>
           Runs(1, <<>>) /\ UNCHANGED <<worker, doomed>>
           /\ ready' \in Seq(Tasks)
    <3>1. ASSUME ~taken \/ worker[q] # "getting"
          PROVE ready' = Tail(ready) \o <<>> /\ UNCHANGED <<worker, doomed>>
      BY <1>1, <1>5, <1>6, <1>8, <3>1 DEF Wakes, Woken, QueueTypeOK
    <3>2. QED BY <3>1, <1>4, <1>6, RunsHead
  <2>2. taken /\ worker[q] = "getting" =>
           Runs(1, <<q>>) /\ UNCHANGED doomed
           /\ worker' = [worker EXCEPT ![q] = "ready"]
           /\ ready' \in Seq(Tasks)
    <3>1. ASSUME taken, worker[q] = "getting"
          PROVE ready' = Tail(ready) \o <<q>> /\ UNCHANGED doomed
                /\ worker' = [worker EXCEPT ![q] = "ready"]
      BY <1>1, <1>5, <1>6, <1>8, <3>1 DEF Wakes, Woken, QueueTypeOK
    <3>2. QED BY <3>1, <1>4, <1>6, RunsHead
  <2>3. Rouses(q) /\ worker'[q] # "none" /\ ready' \in Seq(Tasks)
    BY <1>1, <1>6, <2>0, <2>1, <2>2 DEF Rouses, QueueTypeOK
  <2>4. stopping' \in [Queues -> BOOLEAN]
    BY <1>1, <1>5, <1>8 DEF QueueTypeOK
  <2>5. \/ pc' = [pc EXCEPT ![c] = "refused"] /\ UNCHANGED queue
        \/ (Full(q) /\ Block(c, q)) \/ (~Full(q) /\ PutNowait(c, q))
    BY <1>5
  <2>6. UNCHANGED <<current, made>> /\ q <= made'
    BY <1>2, <1>5, <2>0
  <2>7. QED BY <1>1, <1>4, <1>5, <2>3, <2>4, <2>5, <2>6 DEF Turn
<1>9. QED BY <1>7, <1>8

LEMMA PutTurn ==
    ASSUME QueueTypeOK, MadeInv, WorkerInv, CalledInv, NEW c \in Callers,
           RunPut(c)
    PROVE  \E q \in Queues : Turn(c, q)
<1> DEFINE q == home[c]
<1>0. pc[c] = "woken" BY DEF RunPut
<1>1. q \in Queues /\ q <= made /\ worker[q] # "none"
  <2>1. q \in 1 .. made BY <1>0 DEF CalledInv
  <2>2. made \in {0, 1, 2} BY DEF QueueTypeOK, Queues
  <2>3. q \in Queues /\ q <= made BY <2>1, <2>2 DEF Queues
  <2>4. ~(q > made) BY <2>2, <2>3 DEF Queues
  <2>5. QED BY <2>3, <2>4 DEF MadeInv
<1>2. /\ ready # <<>> /\ ready[1] = c /\ pc[c] = "woken"
      /\ ready \in Seq(Tasks)
  BY DEF RunPut, Running, QueueTypeOK, Tasks
<1>3. /\ IF Full(q) THEN Block(c, q) ELSE PutNowait(c, q)
      /\ worker' = [worker EXCEPT ![q] = IF Full(q) THEN @ ELSE Woken(q)]
      /\ ready' = Tail(ready) \o (IF Full(q) THEN <<>> ELSE Wakes(q))
      /\ UNCHANGED <<current, made, stopping, doomed, serving, home, stop,
                     early>>
  BY DEF RunPut
<1>4. home' = [home EXCEPT ![c] = q] BY <1>3 DEF QueueTypeOK
<1> HIDE DEF q
<1>5. worker[q] \in {"none", "ready", "getting", "busy", "resuming", "dead"}
      /\ doomed[q] \in BOOLEAN /\ <<q>> \in Seq(Tasks)
      /\ <<>> \in Seq(Tasks)
  BY <1>1 DEF QueueTypeOK, Tasks
<1>6. CASE Full(q) \/ worker[q] # "getting"
  <2>1. ready' = Tail(ready) \o <<>> /\ UNCHANGED <<worker, doomed>>
    BY <1>1, <1>3, <1>5, <1>6 DEF Wakes, Woken, QueueTypeOK
  <2>2. Rouses(q) /\ ready' \in Seq(Tasks)
    BY <1>2, <1>5, <2>1, RunsHead DEF Rouses
  <2>3. QED BY <1>1, <1>2, <1>3, <1>4, <2>1, <2>2 DEF Turn, QueueTypeOK, q
<1>7. CASE ~Full(q) /\ worker[q] = "getting"
  <2>1. ready' = Tail(ready) \o <<q>> /\ UNCHANGED doomed
        /\ worker' = [worker EXCEPT ![q] = "ready"]
    BY <1>1, <1>3, <1>5, <1>7 DEF Wakes, Woken, QueueTypeOK
  <2>2. Runs(1, <<q>>) /\ ready' \in Seq(Tasks) BY <1>2, <1>5, <2>1, RunsHead
  <2>3. Rouses(q) /\ worker'[q] # "none"
    BY <1>1, <1>5, <1>7, <2>1, <2>2 DEF Rouses, QueueTypeOK
  <2>4. QED BY <1>1, <1>2, <1>3, <1>4, <2>2, <2>3 DEF Turn, QueueTypeOK, q
<1>8. QED BY <1>6, <1>7

-----------------------------------------------------------------------------
(* What the other steps make ready.                                          *)

ReadyOK(k, s) == ready' \in Seq(Tasks) /\ s \in Seq(Tasks) /\ Runs(k, s)

LEMMA HeadRuns ==
    ASSUME QueueTypeOK, NEW t \in Tasks, Running(t)
    PROVE  /\ ready \in Seq(Tasks) /\ ready # <<>> /\ ready[1] = t
           /\ \A s \in Seq(Tasks) :
                 ready' = Tail(ready) \o s => ReadyOK(1, s)
           /\ ready' = Tail(ready) => ReadyOK(1, <<>>)
           /\ \A u \in Tasks :
                 ready' = Append(Tail(ready), u) => ReadyOK(1, <<u>>)
           /\ \A s \in Seq(Tasks) : ready' = ready \o s => ReadyOK(0, s)
           /\ UNCHANGED ready => ReadyOK(0, <<>>)
<1>1. ready \in Seq(Tasks) /\ ready # <<>> /\ ready[1] = t
  BY DEF QueueTypeOK, Tasks, Running
<1>2. \A s \in Seq(Tasks) : ready' = Tail(ready) \o s => ReadyOK(1, s)
  BY <1>1, RunsHead DEF ReadyOK
<1>3. ready' = Tail(ready) => ReadyOK(1, <<>>)
  BY <1>1, RunsTail DEF ReadyOK
<1>4. \A u \in Tasks : ready' = Append(Tail(ready), u) => ReadyOK(1, <<u>>)
  <2>1. ASSUME NEW u \in Tasks, ready' = Append(Tail(ready), u)
        PROVE  ReadyOK(1, <<u>>)
    <3>1. ready' = Tail(ready) \o <<u>> /\ <<u>> \in Seq(Tasks)
      BY <1>1, <2>1
    <3>2. QED BY <1>2, <3>1
  <2>2. QED BY <2>1
<1>5. \A s \in Seq(Tasks) : ready' = ready \o s => ReadyOK(0, s)
  BY <1>1, RunsOn DEF ReadyOK
<1>6. UNCHANGED ready => ReadyOK(0, <<>>)
  BY <1>1, RunsStill DEF ReadyOK
<1>7. QED BY <1>1, <1>2, <1>3, <1>4, <1>5, <1>6

LEMMA OutsideRuns ==
    ASSUME QueueTypeOK, NEW t \in Tasks
    PROVE  /\ ready' = Append(ready, t) => ReadyOK(0, <<t>>)
           /\ UNCHANGED ready => ReadyOK(0, <<>>)
<1>1. ready \in Seq(Tasks) BY DEF QueueTypeOK, Tasks
<1>2. QED BY <1>1, RunsAppend, RunsStill DEF ReadyOK

\* Whoever is woken by a free slot is the first in line.
LEMMA FirstType ==
    ASSUME QueueTypeOK, NEW q \in Queues
    PROVE  /\ Next1(q) \in Seq(Tasks)
           /\ \A c : c \in ToSet(Next1(q)) <=>
                       c \in Callers /\ putters[q] # <<>> /\ c = putters[q][1]
           /\ \A i \in 1 .. Len(Next1(q)) : Next1(q)[i] \in Callers
           /\ \A c : Added(Next1(q), c) <=> c \in ToSet(Next1(q))
<1>1. putters[q] \in Seq(Callers) BY DEF QueueTypeOK
<1>2. CASE putters[q] = <<>>
  <2>1. Next1(q) = <<>> BY <1>2 DEF Next1
  <2>2. QED BY <1>2, <2>1 DEF ToSet, Added
<1>3. CASE putters[q] # <<>>
  <2> DEFINE d == Head(putters[q])
  <2>1. Next1(q) = <<d>> BY <1>3 DEF Next1
  <2>2. d = putters[q][1] /\ d \in Callers BY <1>1, <1>3
  <2> HIDE DEF d
  <2>3. <<d>> \in Seq(Tasks) BY <2>2 DEF Tasks
  <2>4. \A c : c \in ToSet(<<d>>) <=> c = d BY DEF ToSet
  <2>5. \A c : Added(<<d>>, c) <=> c = d BY DEF Added
  <2>6. QED BY <1>3, <2>1, <2>2, <2>3, <2>4, <2>5
<1>4. QED BY <1>2, <1>3

LEMMA JoinType ==
    ASSUME NEW q \in Queues
    PROVE  /\ Joins(q) \in Seq(Tasks)
           /\ \A t : Added(Joins(q), t) <=>
                 t = Stopper /\ stop = "joining" /\ current = q
                 /\ unfinished[q] = 1
<1>1. CASE stop = "joining" /\ current = q /\ unfinished[q] = 1
  <2>1. Joins(q) = <<Stopper>> BY <1>1 DEF Joins
  <2>2. <<Stopper>> \in Seq(Tasks) BY DEF Tasks
  <2>3. \A t : Added(<<Stopper>>, t) <=> t = Stopper BY DEF Added
  <2>4. QED BY <1>1, <2>1, <2>2, <2>3
<1>2. CASE ~(stop = "joining" /\ current = q /\ unfinished[q] = 1)
  <2>1. Joins(q) = <<>> BY <1>2 DEF Joins
  <2>2. QED BY <1>2, <2>1 DEF Added
<1>3. QED BY <1>1, <1>2

LEMMA LeaveRuns ==
    ASSUME QueueTypeOK, CalledInv, NEW c \in Callers, RunLeave(c)
    PROVE  LET q == home[c]
               s == IF Full(q) THEN <<>> ELSE Next1(q)
           IN  q \in Queues /\ ReadyOK(1, s) /\ ready[1] = c
<1>1. home[c] \in Queues
  <2>1. home[c] \in 1 .. made BY DEF CalledInv, RunLeave
  <2>2. made \in {0, 1, 2} BY DEF QueueTypeOK, Queues
  <2>3. QED BY <2>1, <2>2 DEF Queues
<1>2. Running(c) /\ c \in Tasks BY DEF RunLeave, Tasks
<1>3. Next1(home[c]) \in Seq(Tasks) /\ <<>> \in Seq(Tasks)
  BY <1>1, FirstType
<1>4. QED BY <1>1, <1>2, <1>3, HeadRuns DEF RunLeave

LEMMA TakeRuns ==
    ASSUME QueueTypeOK, NEW q \in Queues, Running(q), WorkerTakes(q)
    PROVE  IF Head(items[q]) \in Instant
             THEN ReadyOK(0, Next1(q) \o Joins(q)) ELSE ReadyOK(1, Next1(q))
<1>1. q \in Tasks BY DEF Tasks
<1>2. Next1(q) \in Seq(Tasks) /\ Joins(q) \in Seq(Tasks)
  BY FirstType, JoinType
<1>3. CASE Head(items[q]) \in Instant
  <2>1. ready' = ready \o Next1(q) \o Joins(q) BY <1>3 DEF WorkerTakes
  <2>2. ready' = ready \o (Next1(q) \o Joins(q))
    BY <1>1, <1>2, <2>1, HeadRuns, ConcatAssociative
  <2>3. Next1(q) \o Joins(q) \in Seq(Tasks) BY <1>2
  <2>4. QED BY <1>1, <1>3, <2>2, <2>3, HeadRuns
<1>4. CASE Head(items[q]) \notin Instant
  <2>1. ready' = Tail(ready) \o Next1(q) BY <1>4 DEF WorkerTakes
  <2>2. QED BY <1>1, <1>2, <1>4, <2>1, HeadRuns
<1>5. QED BY <1>3, <1>4

LEMMA StopRuns ==
    ASSUME QueueTypeOK, MadeInv, RunStop
    PROVE  /\ ready # <<>> /\ ready[1] = Stopper
           /\ NothingToStop \/ EndStop => ReadyOK(1, <<>>)
           /\ BeginStop => IF Undone(current) > 0 THEN ReadyOK(1, <<>>)
                                                  ELSE ReadyOK(0, <<>>)
           /\ CancelWorker => ReadyOK(1, Wakes(current))
<1>1. Stopper \in Tasks /\ Running(Stopper) BY DEF Tasks, RunStop
<1>2. CancelWorker => Wakes(current) \in Seq(Tasks)
  <2>1. SUFFICES ASSUME CancelWorker PROVE Wakes(current) \in Seq(Tasks)
    OBVIOUS
  <2>2. current \in Tasks BY <2>1, Apart DEF CancelWorker, MadeInv, Tasks
  <2>3. <<current>> \in Seq(Tasks) /\ <<>> \in Seq(Tasks) BY <2>2
  <2>4. QED BY <2>3 DEF Wakes
<1>3. QED BY <1>1, <1>2, HeadRuns
     DEF NothingToStop, EndStop, BeginStop, CancelWorker

LEMMA NextCases ==
    ASSUME QueueTypeOK, MadeInv, WorkerInv, CalledInv, QueueNext
    PROVE  \/ \E c \in Callers : \/ \E q \in Queues : Turn(c, q)
                                 \/ RunLeave(c) \/ Call(c) \/ CallerLeaves(c)
           \/ \E q \in Queues : RunWorker(q) \/ Complete(q)
           \/ RunStop \/ Shutdown
BY CallTurn, PutTurn DEF QueueNext, Loop

-----------------------------------------------------------------------------
(* Types, and what join counts.                                              *)

LEMMA TurnTypes ==
    ASSUME QueueTypeOK, JoinCountsWhatIsOwed, NEW c \in Callers,
           NEW q \in Queues, Turn(c, q)
    PROVE  QueueTypeOK' /\ JoinCountsWhatIsOwed'
<1> USE DEF QueueTypeOK
<1>1. ready' \in Seq(Callers \cup Queues \cup {Stopper})
  BY DEF Turn, Tasks
<1>2. current' \in {0} \cup Queues /\ made' \in {0} \cup Queues
  BY DEF Turn
<1>3. /\ worker' \in [Queues -> {"none", "ready", "getting", "busy",
                                  "resuming", "dead"}]
      /\ doomed' \in [Queues -> BOOLEAN] /\ stopping' \in [Queues -> BOOLEAN]
  <2>1. (doomed[q] /\ worker[q] = "getting") \in BOOLEAN OBVIOUS
  <2>2. [doomed EXCEPT ![q] = doomed[q] /\ worker[q] = "getting"]
           \in [Queues -> BOOLEAN]
    BY <2>1
  <2>3. [worker EXCEPT ![q] = "ready"] \in
           [Queues -> {"none", "ready", "getting", "busy", "resuming", "dead"}]
    OBVIOUS
  <2>4. QED BY <2>2, <2>3 DEF Turn, Rouses
<1>4. /\ serving' \in [Queues -> Callers \cup {NoOne}]
      /\ home' \in [Callers -> {0} \cup Queues]
      /\ stop' \in {"off", "called", "joining", "unwinding", "done"}
      /\ early' \subseteq Callers
  BY DEF Turn
<1>5. pc' \in [Callers -> Waiting \cup {"out", "called", "answered",
                                         "refused", "leaving", "gone"}]
  BY DEF Turn, Block, PutNowait, Waiting
<1>6. /\ items' \in [Queues -> Seq(Callers)]
      /\ putters' \in [Queues -> Seq(Callers)]
      /\ unfinished' \in [Queues -> Nat]
      /\ \A p \in Queues : Len(items'[p]) <= MaxSize
      /\ JoinCountsWhatIsOwed'
  <2>1. CASE UNCHANGED queue
    BY <2>1 DEF queue, Turn, JoinCountsWhatIsOwed
  <2>2. CASE Block(c, q)
    BY <2>2 DEF Block, Turn, JoinCountsWhatIsOwed
  <2>3. CASE ~Full(q) /\ PutNowait(c, q)
    <3>1. items[q] \in Seq(Callers) /\ Len(items[q]) + 1 <= MaxSize
      BY <2>3, Apart DEF Full
    <3>2. /\ items'[q] = Append(items[q], c)
          /\ Len(items'[q]) = Len(items[q]) + 1
          /\ \A p \in Queues : p # q => items'[p] = items[p]
          /\ items' \in [Queues -> Seq(Callers)]
      BY <2>3, <3>1 DEF PutNowait
    <3>3. /\ unfinished'[q] = unfinished[q] + 1
          /\ \A p \in Queues : p # q => unfinished'[p] = unfinished[p]
          /\ unfinished' \in [Queues -> Nat]
      BY <2>3 DEF PutNowait
    <3>4. JoinCountsWhatIsOwed'
      <4>1. UNCHANGED serving BY DEF Turn
      <4>2. ASSUME NEW p \in Queues
            PROVE  unfinished'[p] = Len(items'[p])
                      + (IF serving'[p] = NoOne THEN 0 ELSE 1)
        <5>1. unfinished[p] = Len(items[p])
                 + (IF serving[p] = NoOne THEN 0 ELSE 1)
          BY DEF JoinCountsWhatIsOwed
        <5>2. Len(items[q]) \in Nat BY <3>1
        <5>3. CASE p = q BY <3>2, <3>3, <4>1, <5>1, <5>2, <5>3
        <5>4. CASE p # q BY <3>2, <3>3, <4>1, <5>1, <5>4
        <5>5. QED BY <5>3, <5>4
      <4>3. QED BY <4>2 DEF JoinCountsWhatIsOwed
    <3>5. putters' = putters BY <2>3 DEF PutNowait
    <3>6. \A p \in Queues : Len(items'[p]) <= MaxSize BY <3>1, <3>2
    <3>7. QED BY <3>2, <3>3, <3>4, <3>5, <3>6
  <2>4. QED BY <2>1, <2>2, <2>3 DEF Turn
<1>7. QED BY <1>1, <1>2, <1>3, <1>4, <1>5, <1>6

\* The first in line is taken off it.
LEMMA LineType ==
    ASSUME QueueTypeOK, NEW q \in Queues, WakeFirst(q)
    PROVE  putters' \in [Queues -> Seq(Callers)]
<1>1. putters[q] \in Seq(Callers) BY DEF QueueTypeOK
<1>2. (IF putters[q] = <<>> THEN putters[q] ELSE Tail(putters[q]))
         \in Seq(Callers)
  BY <1>1
<1>3. QED BY <1>2 DEF WakeFirst, QueueTypeOK

\* The callers in line are callers, and a caller in line has a queue.
LEMMA LineHome ==
    ASSUME QueueTypeOK, CalledInv
    PROVE  /\ \A d \in Callers : pc[d] \notin {"out", "called"} =>
                 home[d] \in Queues
           /\ \A p \in Queues : \A i \in 1 .. Len(putters[p]) :
                 putters[p][i] \in Callers
<1>1. made \in {0, 1, 2} BY DEF QueueTypeOK, Queues
<1>2. QED BY <1>1 DEF CalledInv, QueueTypeOK, Queues

LEMMA CallerTypes ==
    ASSUME QueueTypeOK, JoinCountsWhatIsOwed, CalledInv, NEW c \in Callers,
           RunLeave(c) \/ Call(c) \/ CallerLeaves(c)
    PROVE  QueueTypeOK' /\ JoinCountsWhatIsOwed'
<1>0. JoinCountsWhatIsOwed'
  BY DEF JoinCountsWhatIsOwed, RunLeave, Call, CallerLeaves, queue
<1>1. CASE Call(c)
  <2>1. ready' \in Seq(Tasks)
    BY <1>1, OutsideRuns DEF Call, ReadyOK, Tasks
  <2>2. QED BY <1>0, <1>1, <2>1 DEF Call, QueueTypeOK, queue, Tasks
<1>2. CASE CallerLeaves(c)
  <2>1. putters' \in [Queues -> Seq(Callers)]
    <3>1. CASE pc[c] = "blocked"
      <4>1. PICK i \in 1 .. Len(putters[home[c]]) :
               putters' = [putters EXCEPT ![home[c]] = RemoveAt(@, i)]
        BY <1>2, <3>1 DEF CallerLeaves
      <4>2. home[c] \in Queues BY <3>1, LineHome
      <4>3. putters[home[c]] \in Seq(Callers) BY <4>2 DEF QueueTypeOK
      <4>4. RemoveAt(putters[home[c]], i) \in Seq(Callers)
        BY <4>1, <4>3 DEF RemoveAt
      <4>5. QED BY <4>1, <4>2, <4>4 DEF QueueTypeOK
    <3>2. CASE pc[c] # "blocked"
      BY <1>2, <3>2 DEF CallerLeaves, QueueTypeOK
    <3>3. QED BY <3>1, <3>2
  <2>2. pc' \in [Callers -> Waiting \cup {"out", "called", "answered",
                                           "refused", "leaving", "gone"}]
    BY <1>2 DEF CallerLeaves, QueueTypeOK
  <2>3. QED BY <1>0, <1>2, <2>1, <2>2 DEF CallerLeaves, QueueTypeOK
<1>3. CASE RunLeave(c)
  <2>1. ready' \in Seq(Tasks) /\ home[c] \in Queues
    BY <1>3, LeaveRuns DEF ReadyOK
  <2>2. putters' \in [Queues -> Seq(Callers)]
    BY <1>3, <2>1, LineType DEF RunLeave, QueueTypeOK
  <2>3. pc' \in [Callers -> Waiting \cup {"out", "called", "answered",
                                           "refused", "leaving", "gone"}]
    BY <1>3 DEF RunLeave, QueueTypeOK, Waiting
  <2>4. QED BY <1>0, <1>3, <2>1, <2>2, <2>3 DEF RunLeave, QueueTypeOK, Tasks
<1>4. QED BY <1>1, <1>2, <1>3

LEMMA WorkerTypes ==
    ASSUME QueueTypeOK, JoinCountsWhatIsOwed, WorkerInv, NEW q \in Queues,
           RunWorker(q) \/ Complete(q)
    PROVE  QueueTypeOK' /\ JoinCountsWhatIsOwed'
<1> USE DEF QueueTypeOK
<1>0. q \in Tasks /\ Stopper \in Tasks BY DEF Tasks
<1>1. CASE Complete(q)
  <2>1. ready' \in Seq(Tasks) BY <1>0, <1>1, OutsideRuns DEF Complete, ReadyOK
  <2>2. QED
    BY <1>1, <2>1 DEF Complete, queue, Tasks, JoinCountsWhatIsOwed
<1>2. ASSUME RunWorker(q), WorkerDies(q) \/ WorkerSleeps(q)
      PROVE  QueueTypeOK' /\ JoinCountsWhatIsOwed'
  <2>1. ready' \in Seq(Tasks)
    BY <1>0, <1>2, HeadRuns DEF RunWorker, WorkerDies, WorkerSleeps, ReadyOK
  <2>2. UNCHANGED <<current, made, items, putters, unfinished, stopping,
                    doomed, serving, pc, home, stop, early>>
    BY <1>2 DEF RunWorker, WorkerDies, WorkerSleeps, queue
  <2>3. \E w \in {"dead", "getting"} : worker' = [worker EXCEPT ![q] = w]
    BY <1>2 DEF WorkerDies, WorkerSleeps
  <2>4. JoinCountsWhatIsOwed' BY <2>2 DEF JoinCountsWhatIsOwed
  <2>5. QED BY <2>1, <2>2, <2>3, <2>4 DEF Tasks
<1>3. ASSUME RunWorker(q), WorkerTakes(q)
      PROVE  QueueTypeOK' /\ JoinCountsWhatIsOwed'
  <2> DEFINE c == Head(items[q])
  <2>1. ready' \in Seq(Tasks)
    BY <1>0, <1>3, TakeRuns DEF RunWorker, ReadyOK
  <2>2. items[q] \in Seq(Callers) /\ items[q] # <<>> /\ c \in Callers
    BY <1>3 DEF WorkerTakes
  <2>3. /\ items' \in [Queues -> Seq(Callers)]
        /\ items'[q] = Tail(items[q]) /\ Len(items'[q]) = Len(items[q]) - 1
        /\ \A p \in Queues : p # q => items'[p] = items[p]
    BY <1>3, <2>2 DEF WorkerTakes
  <2>4. putters' \in [Queues -> Seq(Callers)]
    BY <1>3, LineType DEF WorkerTakes
  <2>5. serving[q] = NoOne BY <1>3 DEF WorkerTakes, WorkerInv
  <2>6. unfinished[q] = Len(items[q]) /\ unfinished[q] >= 1
    BY <2>2, <2>5 DEF JoinCountsWhatIsOwed
  <2>7. \A p \in Queues : Len(items'[p]) <= MaxSize
    <3>1. Len(items[q]) - 1 <= MaxSize BY <2>2, Apart
    <3>2. QED BY <2>3, <3>1
  <2>8. CASE c \in Instant
    <3>1. /\ unfinished' \in [Queues -> Nat]
          /\ unfinished'[q] = unfinished[q] - 1
          /\ \A p \in Queues : p # q => unfinished'[p] = unfinished[p]
      BY <1>3, <2>6, <2>8 DEF WorkerTakes, Done
    <3>2. pc' \in [Callers -> Waiting \cup {"out", "called", "answered",
                                             "refused", "leaving", "gone"}]
      BY <1>3, <2>8 DEF WorkerTakes, Answered, Waiting
    <3>3. UNCHANGED <<worker, serving>> BY <1>3, <2>8 DEF WorkerTakes
    <3>4. JoinCountsWhatIsOwed'
      BY <2>2, <2>3, <2>5, <2>6, <3>1, <3>3 DEF JoinCountsWhatIsOwed
    <3>5. QED BY <1>3, <2>1, <2>3, <2>4, <2>7, <3>1, <3>2, <3>3, <3>4
             DEF RunWorker, Tasks
  <2>9. CASE c \notin Instant
    <3>1. UNCHANGED unfinished /\ serving' = [serving EXCEPT ![q] = c]
          /\ worker' = [worker EXCEPT ![q] = "busy"]
      BY <1>3, <2>9 DEF WorkerTakes
    <3>2. pc' \in [Callers -> Waiting \cup {"out", "called", "answered",
                                             "refused", "leaving", "gone"}]
      BY <1>3, <2>9 DEF WorkerTakes, Waiting
    <3>3. JoinCountsWhatIsOwed'
      <4>1. serving'[q] = c /\ c # NoOne BY <2>2, <3>1, Apart
      <4>2. unfinished[q] = Len(items'[q]) + 1
        BY <2>2, <2>3, <2>6
      <4>3. \A p \in Queues : p # q =>
               items'[p] = items[p] /\ serving'[p] = serving[p]
        BY <2>3, <3>1
      <4> HIDE DEF c
      <4>4. QED BY <3>1, <4>1, <4>2, <4>3 DEF JoinCountsWhatIsOwed
    <3>4. QED BY <1>3, <2>1, <2>2, <2>3, <2>4, <2>7, <3>1, <3>2, <3>3
             DEF RunWorker, Tasks
  <2>10. QED BY <2>8, <2>9
<1>4. ASSUME RunWorker(q), WorkerAnswers(q)
      PROVE  QueueTypeOK' /\ JoinCountsWhatIsOwed'
  <2>1. ready' \in Seq(Tasks)
    BY <1>0, <1>4, HeadRuns, JoinType DEF RunWorker, WorkerAnswers, ReadyOK
  <2>2. serving[q] # NoOne BY <1>4 DEF WorkerAnswers, WorkerInv
  <2>3. unfinished[q] = Len(items[q]) + 1 /\ items[q] \in Seq(Callers)
    BY <2>2 DEF JoinCountsWhatIsOwed
  <2>4. /\ unfinished' \in [Queues -> Nat]
        /\ unfinished'[q] = Len(items[q])
        /\ \A p \in Queues : p # q => unfinished'[p] = unfinished[p]
    BY <1>4, <2>3 DEF WorkerAnswers, Done
  <2>5. pc' \in [Callers -> Waiting \cup {"out", "called", "answered",
                                           "refused", "leaving", "gone"}]
    BY <1>4, <2>2 DEF WorkerAnswers, Answered, Waiting
  <2>6. /\ serving' = [serving EXCEPT ![q] = NoOne]
        /\ UNCHANGED <<items, putters>>
        /\ worker' = [worker EXCEPT ![q] = "ready"]
    BY <1>4 DEF WorkerAnswers
  <2>7. JoinCountsWhatIsOwed'
    BY <2>3, <2>4, <2>6 DEF JoinCountsWhatIsOwed
  <2>8. QED BY <1>4, <2>1, <2>4, <2>5, <2>6, <2>7 DEF RunWorker, Tasks
<1>5. QED BY <1>1, <1>2, <1>3, <1>4 DEF RunWorker

LEMMA StopTypes ==
    ASSUME QueueTypeOK, JoinCountsWhatIsOwed, MadeInv, RunStop \/ Shutdown
    PROVE  QueueTypeOK' /\ JoinCountsWhatIsOwed'
<1>0. Stopper \in Tasks BY DEF Tasks
<1>1. UNCHANGED <<made, queue, serving, pc, home>>
  BY DEF RunStop, Shutdown
<1>2. JoinCountsWhatIsOwed' BY <1>1 DEF JoinCountsWhatIsOwed, queue
<1>3. CASE Shutdown
  <2>1. ready' \in Seq(Tasks) BY <1>0, <1>3, OutsideRuns DEF Shutdown, ReadyOK
  <2>2. QED BY <1>1, <1>2, <1>3, <2>1 DEF Shutdown, QueueTypeOK, queue, Tasks
<1>4. CASE RunStop
  <2>1. ready' \in Seq(Tasks)
    BY <1>4, StopRuns DEF RunStop, ReadyOK
  <2>2. stop \in {"joining", "unwinding"} => current \in Queues
    BY Apart DEF MadeInv
  <2>3. /\ current' \in {0} \cup Queues
        /\ stop' \in {"off", "called", "joining", "unwinding", "done"}
        /\ early' \subseteq Callers
    BY <1>4 DEF RunStop, NothingToStop, BeginStop, CancelWorker, EndStop,
                QueueTypeOK
  <2>4. stopping' \in [Queues -> BOOLEAN] /\ doomed' \in [Queues -> BOOLEAN]
        /\ worker' \in [Queues -> {"none", "ready", "getting", "busy",
                                    "resuming", "dead"}]
    BY <1>4, <2>2 DEF RunStop, NothingToStop, BeginStop, CancelWorker,
                      EndStop, QueueTypeOK, Woken
  <2>5. QED BY <1>1, <1>2, <2>1, <2>3, <2>4 DEF QueueTypeOK, queue, Tasks
<1>5. QED BY <1>3, <1>4

-----------------------------------------------------------------------------
(* Who is due, and the stop's place among them.                              *)

\* A step appends t at most once.
AddedOnce(s, t) == \A i, j \in 1 .. Len(s) : s[i] = t /\ s[j] = t => i = j

\* A task that is due at most once stays so when what is due is not added.
LEMMA OnceStays ==
    ASSUME ready \in Seq(Tasks), ready' \in Seq(Tasks),
           NEW k \in {0, 1}, NEW s \in Seq(Tasks), Runs(k, s),
           NEW t, Once(t), Added(s, t) => ~Kept(k, t), AddedOnce(s, t)
    PROVE  Once(t)'
<1> SUFFICES ASSUME NEW i \in 1 .. Len(ready'), NEW j \in 1 .. Len(ready'),
                    ready'[i] = t, ready'[j] = t
             PROVE  i = j
  BY DEF Once
<1> DEFINE n == Len(ready)
<1>0. n \in Nat /\ n >= k /\ Len(ready') = n - k + Len(s) /\ Len(s) \in Nat
  BY DEF Runs
<1>1. ASSUME NEW l \in 1 .. Len(ready')
      PROVE  \/ l + k \in 1 .. n /\ l + k > k /\ ready'[l] = ready[l + k]
             \/ l + k - n \in 1 .. Len(s) /\ ready'[l] = s[l + k - n]
  <2>1. l \in Nat /\ l > 0 /\ l + k > k /\ l <= n - k + Len(s) BY <1>0
  <2>2. CASE l <= n - k BY ONLY <1>0, <2>1, <2>2, k \in {0, 1}, Runs(k, s) DEF Runs
  <2>3. CASE l > n - k BY ONLY <1>0, <2>1, <2>3, k \in {0, 1}, Runs(k, s) DEF Runs
  <2>4. QED BY <1>0, <2>1, <2>2, <2>3
<1>2. CASE i + k \in 1 .. n /\ ready'[i] = ready[i + k]
           /\ j + k \in 1 .. n /\ ready'[j] = ready[j + k]
  <2>1. i + k = j + k BY <1>2 DEF Once
  <2>2. QED BY <2>1
<1>3. CASE i + k - n \in 1 .. Len(s) /\ ready'[i] = s[i + k - n]
           /\ j + k - n \in 1 .. Len(s) /\ ready'[j] = s[j + k - n]
  <2>1. i + k - n = j + k - n BY <1>3 DEF AddedOnce
  <2>2. QED BY <1>0, <2>1
<1>4. ASSUME NEW a \in 1 .. Len(ready'), NEW b \in 1 .. Len(ready'),
             ready'[a] = t, ready'[b] = t,
             a + k \in 1 .. n, a + k > k, ready'[a] = ready[a + k],
             b + k - n \in 1 .. Len(s), ready'[b] = s[b + k - n]
      PROVE  FALSE
  BY <1>4 DEF Added, Kept
<1>5. QED BY <1>1, <1>2, <1>3, <1>4

\* The same for what is made ready one at a time, or not at all.
LEMMA OnceStaysOne ==
    ASSUME ready \in Seq(Tasks), NEW k \in {0, 1}, NEW s \in Seq(Tasks),
           ReadyOK(k, s), Len(s) <= 1,
           NEW t, Once(t), Added(s, t) => ~Kept(k, t)
    PROVE  Once(t)'
<1>1. AddedOnce(s, t) BY DEF AddedOnce
<1>2. QED BY <1>1, OnceStays DEF ReadyOK

LEMMA LetGoStays ==
    ASSUME ready \in Seq(Tasks), ready' \in Seq(Tasks), LetGoInv,
           NEW k \in {0, 1}, NEW s \in Seq(Tasks), Runs(k, s),
           ~Added(s, Stopper), UNCHANGED <<current, stop>>,
           stop = "joining" /\ Scheduled(Stopper) =>
               /\ serving'[current] = serving[current]
               /\ k = 1 \/ (worker'[current] = worker[current]
                            /\ items'[current] = items[current])
    PROVE  LetGoInv'
<1> SUFFICES ASSUME stop = "joining", NEW j \in 1 .. Len(ready'),
                    ready'[j] = Stopper
             PROVE  /\ serving'[current] = NoOne
                    /\ \A i \in 1 .. j - 1 : ready'[i] = current =>
                          i = 1 /\ worker'[current] = "ready"
                          /\ items'[current] = <<>>
  BY DEF LetGoInv
<1> DEFINE n == Len(ready)
<1>0. n \in Nat /\ n >= k /\ Len(ready') = n - k + Len(s) /\ Len(s) \in Nat
  BY DEF Runs
<1>1. j + k \in 1 .. n /\ ready[j + k] = Stopper
  <2>1. CASE j + k <= n BY <2>1, <1>0 DEF Runs
  <2>2. CASE ~(j + k <= n)
    <3>1. j + k - n \in 1 .. Len(s) BY <1>0, <2>2
    <3>2. s[j + k - n] = Stopper BY <2>2 DEF Runs
    <3>3. QED BY <3>1, <3>2 DEF Added
  <2>3. QED BY <2>1, <2>2
<1>2. Scheduled(Stopper) BY <1>1 DEF Scheduled
<1>3. serving'[current] = NoOne BY <1>1, <1>2 DEF LetGoInv
<1>4. ASSUME NEW i \in 1 .. j - 1, ready'[i] = current
      PROVE  i = 1 /\ worker'[current] = "ready" /\ items'[current] = <<>>
  <2>1. i \in 1 .. Len(ready') /\ i + k <= n /\ i + k \in 1 .. (j + k) - 1
    BY <1>0, <1>1
  <2>2. ready[i + k] = current BY <2>1, <1>4 DEF Runs
  <2>3. i + k = 1 /\ worker[current] = "ready" /\ items[current] = <<>>
    BY <1>1, <2>1, <2>2 DEF LetGoInv
  <2>4. k = 0 BY <2>3
  <2>5. QED BY <1>2, <2>3, <2>4
<1>5. QED BY <1>3, <1>4

\* No worker and no stop is made ready twice, and the workers that are due have
\* a reason.
LEMMA ReadyStays ==
    ASSUME QueueTypeOK, ReadyInv, NEW k \in {0, 1}, NEW s, ReadyOK(k, s),
           \A i, j \in 1 .. Len(s) :
               s[i] = s[j] /\ s[i] \in Queues \cup {Stopper} => i = j,
           \A p \in Queues : Added(s, p) =>
               ~Kept(k, p) /\ worker'[p] \in {"ready", "resuming"},
           \A p \in Queues :
               Kept(k, p) => worker'[p] \in {"ready", "resuming"},
           stop' = "off" => stop = "off" /\ ~Added(s, Stopper),
           stop' = "called" => \/ stop = "off"
                               \/ stop = "called" /\ ~Added(s, Stopper)
    PROVE  ReadyInv'
<1>0. ready \in Seq(Tasks) /\ ready' \in Seq(Tasks) /\ s \in Seq(Tasks)
      /\ Runs(k, s)
  BY DEF QueueTypeOK, ReadyOK, Tasks
<1>1. \A t : Scheduled(t)' <=> Kept(k, t) \/ Added(s, t)
  BY <1>0, WhoIsDue
<1>2. \A t : Kept(k, t) => Scheduled(t) BY DEF Kept, Scheduled
<1>3. ASSUME NEW p \in Queues
      PROVE  Once(p)'
  <2>1. Once(p) BY DEF ReadyInv
  <2>2. AddedOnce(s, p) BY DEF AddedOnce
  <2>3. Added(s, p) => ~Kept(k, p) OBVIOUS
  <2>4. QED BY ONLY <1>0, <2>1, <2>2, <2>3, k \in {0, 1}, OnceStays
<1>4. ASSUME stop' = "called"
      PROVE  Once(Stopper)'
  <2>1. Once(Stopper) /\ (Added(s, Stopper) => ~Kept(k, Stopper))
    BY <1>2, <1>4 DEF ReadyInv, Once, Scheduled
  <2>2. AddedOnce(s, Stopper) BY DEF AddedOnce
  <2>3. QED BY ONLY <1>0, <2>1, <2>2, k \in {0, 1}, OnceStays
<1>5. \A p \in Queues : Scheduled(p)' => worker'[p] \in {"ready", "resuming"}
  BY <1>1
<1>6. stop' = "off" => ~Scheduled(Stopper)' BY <1>1, <1>2 DEF ReadyInv
<1>7. QED BY <1>3, <1>4, <1>5, <1>6 DEF ReadyInv

-----------------------------------------------------------------------------
(* Where queues, workers, the stop and callers stand to each other.          *)

ControlInv ==
    /\ MadeInv /\ WorkerInv /\ NeverCutsAWrite
    /\ ReadyInv /\ LetGoInv /\ CalledInv

LEMMA One ==
    /\ <<>> \in Seq(Tasks) /\ \A t : ~Added(<<>>, t)
    /\ Len(<<>>) <= 1
    /\ \A u \in Tasks : <<u>> \in Seq(Tasks) /\ Len(<<u>>) <= 1
    /\ \A u, t : Added(<<u>>, t) <=> t = u
    /\ Stopper \in Tasks /\ Queues \subseteq Tasks /\ Callers \subseteq Tasks
<1>1. \A u, t : Added(<<u>>, t) <=> t = u BY DEF Added
<1>2. QED BY <1>1 DEF Tasks, Added

LEMMA TurnControl ==
    ASSUME QueueTypeOK, ControlInv, NEW c \in Callers, NEW q \in Queues,
           Turn(c, q)
    PROVE  ControlInv'
<1> USE DEF ControlInv
<1>1. MadeInv'
  <2>1. made \in {0, 1, 2} /\ q \in {1, 2}
    BY DEF QueueTypeOK, Queues
  <2>2. \A p \in Queues : p # q => worker'[p] = worker[p]
    BY DEF Turn, Rouses, QueueTypeOK
  <2>3. \A p \in Queues : worker'[p] = "none" <=> p > made'
    <3>1. SUFFICES ASSUME NEW p \in Queues
                   PROVE  worker'[p] = "none" <=> p > made'
      OBVIOUS
    <3>2. p \in {1, 2} BY DEF Queues
    <3>3. CASE p = q BY <2>1, <3>2, <3>3 DEF Turn
    <3>4. CASE p # q
      <4>1. worker'[p] = "none" <=> p > made
        BY <2>2, <3>4 DEF MadeInv
      <4>2. QED BY <2>1, <3>2, <3>4, <4>1 DEF Turn
    <3>5. QED BY <3>3, <3>4
  <2>4. QED BY <2>1, <2>3 DEF MadeInv, Turn
<1>2. WorkerInv' /\ NeverCutsAWrite'
  <2>1. UNCHANGED <<serving, stop>> BY DEF Turn
  <2>2. \A p \in Queues : p # q =>
           worker'[p] = worker[p] /\ doomed'[p] = doomed[p]
    BY DEF Turn, Rouses, QueueTypeOK
  <2>3. \/ worker'[q] = worker[q] /\ doomed'[q] = doomed[q]
        \/ /\ worker[q] \in {"none", "dead", "getting"}
           /\ worker'[q] = "ready"
           /\ doomed'[q] => doomed[q] /\ worker[q] = "getting"
    BY DEF Turn, Rouses, QueueTypeOK
  <2>4. ASSUME NEW p \in Queues
        PROVE  /\ serving'[p] # NoOne <=> worker'[p] \in {"busy", "resuming"}
               /\ worker'[p] = "dead" => doomed'[p]
               /\ doomed'[p] =>
                     stop' \in {"unwinding", "done"} /\ worker'[p] # "none"
               /\ doomed'[p] /\ worker'[p] # "dead" => serving'[p] = NoOne
    BY <2>1, <2>2, <2>3 DEF WorkerInv, NeverCutsAWrite
  <2>5. QED BY <2>4 DEF WorkerInv, NeverCutsAWrite
<1>3. /\ ReadyInv'
      /\ LetGoInv'
  <2>0. ready \in Seq(Tasks) /\ ready' \in Seq(Tasks)
    BY DEF QueueTypeOK, Turn, Tasks
  <2>1. PICK s \in {<<>>, <<q>>} :
           /\ Runs(1, s)
           /\ s = <<>> => UNCHANGED worker
           /\ s = <<q>> => /\ ~Scheduled(q)
                           /\ worker' = [worker EXCEPT ![q] = "ready"]
    <3>1. worker[q] \in {"none", "dead", "getting"} => ~Scheduled(q)
      BY DEF ReadyInv
    <3>2. QED BY <3>1 DEF Turn, Rouses
  <2>2. s \in Seq(Tasks) /\ Len(s) <= 1 /\ (\A t : Added(s, t) => t = q)
    <3>1. q \in Tasks BY One
    <3>2. CASE s = <<>> BY <3>2, One
    <3>3. CASE s = <<q>> BY <3>1, <3>3, One
    <3>4. QED BY <2>1, <3>2, <3>3
  <2>3. \A t : Scheduled(t)' <=> Kept(1, t) \/ Added(s, t)
    BY <2>0, <2>1, <2>2, WhoIsDue
  <2>4. \A t : Kept(1, t) => Scheduled(t) BY DEF Kept, Scheduled
  <2>5. \A t : Added(s, t) => ~Kept(1, t)
    BY <2>1, <2>2, <2>4, One
  <2>6. \A t : Once(t) => Once(t)'
    <3>1. ASSUME NEW t, Once(t)
          PROVE  Once(t)'
      BY <2>0, <2>1, <2>2, <2>5, <3>1, OnceStaysOne DEF ReadyOK
    <3>2. QED BY <3>1
  <2>7. UNCHANGED stop BY DEF Turn
  <2>8. \A p \in Queues : Scheduled(p)' => worker'[p] \in {"ready", "resuming"}
    <3>1. SUFFICES ASSUME NEW p \in Queues, Scheduled(p)'
                   PROVE  worker'[p] \in {"ready", "resuming"}
      OBVIOUS
    <3>2. CASE s = <<>>
      BY <2>1, <2>3, <2>4, <3>1, <3>2, One DEF ReadyInv
    <3>3. CASE s = <<q>>
      <4>1. worker'[q] = "ready" /\ (p # q => worker'[p] = worker[p])
        BY <2>1, <3>3 DEF QueueTypeOK
      <4>2. p # q => Scheduled(p) BY <2>2, <2>3, <2>4, <3>1
      <4>3. QED BY <4>1, <4>2 DEF ReadyInv
    <3>4. QED BY <2>1, <3>2, <3>3
  <2>9. ~Added(s, Stopper) BY <2>2, Apart
  <2>10. ReadyInv'
    BY <2>3, <2>4, <2>6, <2>7, <2>8, <2>9 DEF ReadyInv
  <2>11. LetGoInv'
    <3>1. CASE stop = "joining"
      <4>1. UNCHANGED <<current, stop, serving>>
        BY <3>1 DEF Turn, MadeInv
      <4>2. QED BY <2>0, <2>1, <2>2, <2>9, <4>1, LetGoStays
    <3>2. CASE stop # "joining" BY <2>7, <3>2 DEF LetGoInv
    <3>3. QED BY <3>1, <3>2
  <2>12. QED BY <2>10, <2>11
<1>4. CalledInv'
  <2>1. /\ \A d \in Callers : d # c => pc'[d] = pc[d] /\ home'[d] = home[d]
        /\ pc'[c] \in {"refused", "blocked", "waiting"} /\ home'[c] = q
        /\ UNCHANGED <<serving, early>> /\ made <= made' /\ q \in 1 .. made'
    BY DEF Turn, Block, PutNowait, QueueTypeOK, Queues
  <2>2. \A p \in Queues : \A i \in 1 .. Len(items'[p]) :
           items'[p][i] = c \/ (i \in 1 .. Len(items[p])
                                /\ items'[p][i] = items[p][i])
    <3>1. CASE UNCHANGED items BY <3>1
    <3>2. CASE items' = [items EXCEPT ![q] = Append(@, c)]
      BY <3>2 DEF QueueTypeOK
    <3>3. QED BY <3>1, <3>2 DEF Turn, Block, PutNowait, queue
  <2>3. \A p \in Queues : \A i \in 1 .. Len(items[p]) : items[p][i] \in Callers
    BY DEF QueueTypeOK
  <2>4. \A p \in Queues : \A i \in 1 .. Len(items'[p]) :
           pc'[items'[p][i]] # "out"
    BY <2>1, <2>2, <2>3 DEF CalledInv
  <2>5. \A p \in Queues : serving'[p] # NoOne => pc'[serving'[p]] # "out"
    BY <2>1 DEF CalledInv, QueueTypeOK
  <2>6. \A d \in early' : pc'[d] \notin {"out", "called"}
    BY <2>1 DEF CalledInv, QueueTypeOK
  <2>7. \A d \in Callers : pc'[d] \notin {"out", "called"} =>
                               home'[d] \in 1 .. made'
    <3>1. made \in Nat /\ made' \in Nat
      BY DEF QueueTypeOK, Queues, Turn
    <3>2. QED BY <2>1, <3>1 DEF CalledInv
  <2>8. \A p \in Queues : \A i \in 1 .. Len(putters'[p]) :
           pc'[putters'[p][i]] \notin {"out", "called"}
    <3>1. \A p \in Queues : \A i \in 1 .. Len(putters'[p]) :
             \/ putters'[p][i] = c
             \/ i \in 1 .. Len(putters[p]) /\ putters'[p][i] = putters[p][i]
      <4>1. CASE UNCHANGED putters BY <4>1
      <4>2. CASE putters' = [putters EXCEPT ![q] = Append(@, c)]
        BY <4>2 DEF QueueTypeOK
      <4>3. QED BY <4>1, <4>2 DEF Turn, Block, PutNowait, queue
    <3>2. \A p \in Queues : \A i \in 1 .. Len(putters[p]) :
             putters[p][i] \in Callers
      BY DEF QueueTypeOK
    <3>3. \A p \in Queues : \A i \in 1 .. Len(putters[p]) :
             pc[putters[p][i]] \notin {"out", "called"}
      BY DEF CalledInv
    <3>4. \A d \in Callers : pc[d] \notin {"out", "called"} \/ d = c =>
             pc'[d] \notin {"out", "called"}
      BY <2>1
    <3>5. QED BY <3>1, <3>2, <3>3, <3>4
  <2>9. QED BY <2>4, <2>5, <2>6, <2>7, <2>8 DEF CalledInv
<1>5. QED BY <1>1, <1>2, <1>3, <1>4

\* What a sequence is without its l-th element.
LEMMA Removed ==
    ASSUME NEW S, NEW s \in Seq(S), NEW l \in 1 .. Len(s),
           NEW r, r = RemoveAt(s, l)
    PROVE  /\ Len(r) = Len(s) - 1
           /\ \A i \in 1 .. Len(s) - 1 : r[i] = s[IF i < l THEN i ELSE i + 1]
<1> DEFINE a == SubSeq(s, 1, l - 1)
           b == SubSeq(s, l + 1, Len(s))
<1>1. /\ a \in Seq(S) /\ Len(a) = l - 1
      /\ \A j \in 1 .. l - 1 : a[j] = s[j]
  OBVIOUS
<1>2. /\ b \in Seq(S) /\ Len(b) = Len(s) - l
      /\ \A j \in 1 .. Len(s) - l : b[j] = s[l + j]
  OBVIOUS
<1>3. r = a \o b BY DEF RemoveAt
<1> HIDE DEF a, b
<1>4. Len(r) = Len(s) - 1
  <2>1. Len(r) = Len(a) + Len(b) BY ONLY <1>1, <1>2, <1>3, ConcatProperties
  <2>2. Len(s) \in Nat /\ l \in Nat OBVIOUS
  <2>3. QED BY <1>1, <1>2, <2>1, <2>2
<1>5. ASSUME NEW i \in 1 .. Len(s) - 1
      PROVE  r[i] = s[IF i < l THEN i ELSE i + 1]
  <2>1. CASE i < l
    <3>1. r[i] = a[i] BY <1>1, <1>2, <1>3, <1>5, <2>1
    <3>2. QED BY <1>1, <1>5, <2>1, <3>1
  <2>2. CASE ~(i < l)
    <3>1. i - (l - 1) \in 1 .. Len(s) - l BY <1>5, <2>2
    <3>2. r[i] = b[i - (l - 1)] BY <1>1, <1>2, <1>3, <1>5, <2>2
    <3>3. b[i - (l - 1)] = s[l + (i - (l - 1))] BY <1>2, <3>1
    <3>4. l + (i - (l - 1)) = i + 1 BY <1>5
    <3>5. QED BY <2>2, <3>2, <3>3, <3>4
  <2>3. QED BY <2>1, <2>2
<1>6. QED BY <1>4, <1>5

LEMMA CallerControl ==
    ASSUME QueueTypeOK, ControlInv, NEW c \in Callers,
           RunLeave(c) \/ Call(c) \/ CallerLeaves(c)
    PROVE  ControlInv'
<1> USE DEF ControlInv
<1>1. UNCHANGED <<current, made, items, unfinished, stopping, worker, doomed,
                  serving, home, stop, early>>
  BY DEF RunLeave, Call, CallerLeaves, queue
<1>2. MadeInv' /\ WorkerInv' /\ NeverCutsAWrite'
  BY <1>1 DEF MadeInv, WorkerInv, NeverCutsAWrite
<1>3. \E k \in {0, 1} : \E s \in Seq(Tasks) :
         /\ ReadyOK(k, s) /\ Len(s) <= 1
         /\ \A t : Added(s, t) => t \in Callers
  <2>0. c \in Tasks /\ <<c>> \in Seq(Tasks) BY One
  <2>1. CASE Call(c)
    <3>1. ReadyOK(0, <<c>>) BY <2>0, <2>1, OutsideRuns DEF Call
    <3>2. Len(<<c>>) <= 1 /\ \A t : Added(<<c>>, t) => t \in Callers
      BY <2>0, One
    <3>3. 0 \in {0, 1} OBVIOUS
    <3>4. QED BY <2>0, <3>1, <3>2, <3>3
  <2>2. CASE CallerLeaves(c)
    <3>1. ReadyOK(0, <<>>) BY <2>0, <2>2, OutsideRuns DEF CallerLeaves
    <3>2. QED BY <3>1, One
  <2>3. CASE RunLeave(c)
    <3>1. PICK s : /\ s = <<>> \/ s = Next1(home[c])
                   /\ home[c] \in Queues /\ ReadyOK(1, s)
      BY <2>3, LeaveRuns
    <3>2. Next1(home[c]) \in Seq(Tasks) /\ Len(Next1(home[c])) <= 1
          /\ \A t : Added(Next1(home[c]), t) => t \in Callers
      BY <3>1, FirstType DEF Next1
    <3>3. QED BY <3>1, <3>2, One
  <2>4. QED BY <2>1, <2>2, <2>3
<1>4. PICK k \in {0, 1}, s \in Seq(Tasks) :
         /\ ReadyOK(k, s) /\ Len(s) <= 1
         /\ \A t : Added(s, t) => t \in Callers
  BY <1>3
<1>5. ~Added(s, Stopper) /\ \A p \in Queues : ~Added(s, p)
  BY <1>4, Apart
<1>6. ReadyInv'
  <2>1. \A i, j \in 1 .. Len(s) : i = j BY <1>4
  <2>2. \A p \in Queues : Kept(k, p) => worker'[p] \in {"ready", "resuming"}
    BY <1>1 DEF ReadyInv, Kept, Scheduled
  <2>3. QED BY <1>1, <1>4, <1>5, <2>1, <2>2, ReadyStays
<1>7. LetGoInv'
  <2>1. ready \in Seq(Tasks) /\ ready' \in Seq(Tasks) /\ Runs(k, s)
    BY <1>4 DEF ReadyOK, QueueTypeOK, Tasks
  <2>2. QED BY <1>1, <1>4, <1>5, <2>1, LetGoStays
<1>8. \A d \in Callers : /\ pc[d] # "out" => pc'[d] # "out"
                         /\ pc[d] \notin {"out", "called"} =>
                               pc'[d] \notin {"out", "called"}
                         /\ pc'[d] \notin {"out", "called"} =>
                               pc[d] \notin {"out", "called"}
  <2>1. CASE Call(c) BY <2>1 DEF Call, QueueTypeOK
  <2>2. CASE CallerLeaves(c)
    BY <2>2 DEF CallerLeaves, QueueTypeOK, Waiting
  <2>3. CASE RunLeave(c)
    <3>1. home[c] \in Queues BY <2>3, LeaveRuns
    <3>2. \A d \in ToSet(Next1(home[c])) : pc[d] \notin {"out", "called"}
      <4>1. putters[home[c]] \in Seq(Callers) BY <3>1 DEF QueueTypeOK
      <4>2. QED BY <3>1, <4>1, FirstType DEF CalledInv
    <3>3. ToSet(<<>>) = {} BY DEF ToSet
    <3>4. QED BY <2>3, <3>2, <3>3 DEF RunLeave, QueueTypeOK
  <2>4. QED BY <2>1, <2>2, <2>3
<1>9. CalledInv'
  <2>1. \A p \in Queues : \A i \in 1 .. Len(putters'[p]) :
           /\ putters'[p][i] \in Callers
           /\ pc[putters'[p][i]] \notin {"out", "called"}
    <3>1. SUFFICES ASSUME NEW p \in Queues, NEW i \in 1 .. Len(putters'[p])
                   PROVE  \E j \in 1 .. Len(putters[p]) :
                             putters'[p][i] = putters[p][j]
      <4>1. \A p \in Queues : \A j \in 1 .. Len(putters[p]) :
               putters[p][j] \in Callers
               /\ pc[putters[p][j]] \notin {"out", "called"}
        BY DEF CalledInv, QueueTypeOK
      <4>2. QED BY <4>1
    <3>2. CASE UNCHANGED putters BY <3>1, <3>2
    <3>3. CASE CallerLeaves(c) /\ pc[c] = "blocked"
      <4>1. PICK l \in 1 .. Len(putters[home[c]]) :
               putters' = [putters EXCEPT ![home[c]] = RemoveAt(@, l)]
        BY <3>3 DEF CallerLeaves
      <4>2. putters[p] \in Seq(Callers) BY DEF QueueTypeOK
      <4>3. CASE p = home[c]
        <5>1. putters'[p] = RemoveAt(putters[p], l)
          BY <4>1, <4>3 DEF QueueTypeOK
        <5>2. putters'[p][i] = putters[p][IF i < l THEN i ELSE i + 1]
              /\ (IF i < l THEN i ELSE i + 1) \in 1 .. Len(putters[p])
          <6>1. l \in 1 .. Len(putters[p]) BY <4>1, <4>3
          <6>2. i \in 1 .. Len(putters[p]) - 1
            BY <3>1, <4>2, <5>1, <6>1, Removed
          <6>3. putters'[p][i] = putters[p][IF i < l THEN i ELSE i + 1]
            BY <4>2, <5>1, <6>1, <6>2, Removed
          <6>4. Len(putters[p]) \in Nat BY <4>2
          <6>5. (IF i < l THEN i ELSE i + 1) \in 1 .. Len(putters[p])
            BY <6>1, <6>2, <6>4
          <6>6. QED BY <6>3, <6>5
        <5>3. QED BY <5>2
      <4>4. CASE p # home[c] BY <3>1, <4>1, <4>4 DEF QueueTypeOK
      <4>5. QED BY <4>3, <4>4
    <3>4. CASE RunLeave(c) /\ WakeFirst(home[c])
      <4>1. home[c] \in Queues /\ putters[p] \in Seq(Callers)
        BY <3>4, LeaveRuns DEF QueueTypeOK
      <4>2. CASE p = home[c] /\ putters[p] # <<>>
        <5>1. putters'[p] = Tail(putters[p])
          BY <3>4, <4>1, <4>2 DEF WakeFirst, QueueTypeOK
        <5>2. putters'[p][i] = putters[p][i + 1]
              /\ i + 1 \in 1 .. Len(putters[p])
          BY <3>1, <4>1, <4>2, <5>1
        <5>3. QED BY <5>2
      <4>3. CASE ~(p = home[c] /\ putters[p] # <<>>)
        BY <3>1, <3>4, <4>1, <4>3 DEF WakeFirst, QueueTypeOK
      <4>4. QED BY <4>2, <4>3
    <3>5. QED BY <3>2, <3>3, <3>4 DEF RunLeave, Call, CallerLeaves, queue
  <2>2. \A p \in Queues : \A i \in 1 .. Len(items[p]) : items[p][i] \in Callers
    BY DEF QueueTypeOK
  <2>3. QED BY <1>1, <1>8, <2>1, <2>2 DEF CalledInv, QueueTypeOK
<1>10. QED BY <1>2, <1>6, <1>7, <1>9

\* Nobody has let the stop go on while the worker has anything to do.
LEMMA NotLetGo ==
    ASSUME QueueTypeOK, ControlInv, stop = "joining", Running(current),
           worker[current] = "resuming" \/ items[current] # <<>>
    PROVE  ~Scheduled(Stopper)
<1> SUFFICES ASSUME NEW j \in 1 .. Len(ready), ready[j] = Stopper PROVE FALSE
  BY DEF Scheduled
<1>1. current \in Queues BY Apart DEF ControlInv, MadeInv
<1>2. ready # <<>> /\ ready[1] = current /\ ready \in Seq(Tasks)
  BY DEF Running, QueueTypeOK, Tasks
<1>3. j # 1 BY <1>1, <1>2, Apart
<1>4. 1 \in 1 .. j - 1 BY <1>3
<1>5. worker[current] = "ready" /\ items[current] = <<>>
  BY <1>2, <1>4 DEF ControlInv, LetGoInv
<1>6. QED BY <1>5

\* A worker at the head of the loop is nowhere else.
LEMMA NoneElse ==
    ASSUME QueueTypeOK, ReadyInv, NEW q \in Queues, Running(q)
    PROVE  ~Kept(1, q) /\ worker[q] \in {"ready", "resuming"}
<1>1. 1 \in 1 .. Len(ready) /\ ready[1] = q BY DEF Running, QueueTypeOK
<1>2. Once(q) /\ Scheduled(q) BY <1>1 DEF ReadyInv, Scheduled
<1>3. QED BY <1>1, <1>2 DEF Kept, Once, ReadyInv

LEMMA RestControl ==
    ASSUME QueueTypeOK, ControlInv, NEW q \in Queues,
           Complete(q) \/ (RunWorker(q) /\ (WorkerDies(q) \/ WorkerSleeps(q)))
    PROVE  ControlInv'
<1> USE DEF ControlInv
<1>1. UNCHANGED <<current, made, items, putters, unfinished, doomed, serving,
                  pc, home, stop, early>>
  BY DEF Complete, RunWorker, WorkerDies, WorkerSleeps, queue
<1>2. PICK w \in {"resuming", "dead", "getting"} :
         worker' = [worker EXCEPT ![q] = w]
  BY DEF Complete, RunWorker, WorkerDies, WorkerSleeps
<1>3. /\ w = "resuming" => Complete(q) /\ worker[q] = "busy"
      /\ w = "dead" => Running(q) /\ doomed[q]
      /\ w = "getting" => Running(q) /\ worker[q] = "ready"
  BY <1>2 DEF Complete, RunWorker, WorkerDies, WorkerSleeps, QueueTypeOK
<1>4. /\ worker[q] # "none" /\ worker'[q] = w
      /\ \A p \in Queues : p # q => worker'[p] = worker[p]
      /\ w \in {"dead", "getting"} =>
            serving[q] = NoOne /\ worker[q] = "ready" /\ ~Kept(1, q)
  BY <1>2, <1>3, NoneElse DEF QueueTypeOK, WorkerInv, NeverCutsAWrite
<1>5. MadeInv' /\ CalledInv'
  BY <1>1, <1>2, <1>4 DEF MadeInv, CalledInv
<1>6. WorkerInv' /\ NeverCutsAWrite'
  <2>1. ASSUME NEW p \in Queues
        PROVE  /\ serving[p] # NoOne <=> worker'[p] \in {"busy", "resuming"}
               /\ worker'[p] = "dead" => doomed[p]
               /\ doomed[p] =>
                     stop \in {"unwinding", "done"} /\ worker'[p] # "none"
               /\ doomed[p] /\ worker'[p] # "dead" => serving[p] = NoOne
    BY <1>2, <1>3, <1>4 DEF WorkerInv, NeverCutsAWrite
  <2>2. QED BY <1>1, <2>1 DEF WorkerInv, NeverCutsAWrite
<1>7. PICK k \in {0, 1}, s \in Seq(Tasks) :
         /\ ReadyOK(k, s) /\ Len(s) <= 1
         /\ w = "resuming" => k = 0 /\ s = <<q>>
         /\ w = "dead" => k = 1 /\ s = <<Stopper>>
         /\ w = "getting" => k = 1 /\ s = <<>>
  <2>0. q \in Tasks /\ <<q>> \in Seq(Tasks) /\ <<Stopper>> \in Seq(Tasks)
    BY One
  <2>1. CASE w = "resuming"
    <3>1. ReadyOK(0, <<q>>) /\ Len(<<q>>) <= 1
      BY <1>3, <2>0, <2>1, OutsideRuns, One DEF Complete
    <3>2. QED BY <2>0, <2>1, <3>1
  <2>2. CASE w = "dead"
    <3>1. ReadyOK(1, <<Stopper>>) /\ Len(<<Stopper>>) <= 1
      <4>1. worker' # [worker EXCEPT ![q] = "getting"]
            /\ worker' # [worker EXCEPT ![q] = "resuming"]
        BY <1>2, <2>2 DEF QueueTypeOK
      <4>2. ready' = Append(Tail(ready), Stopper)
        BY <4>1 DEF Complete, RunWorker, WorkerDies, WorkerSleeps
      <4>3. QED BY <1>3, <2>0, <2>2, <4>2, HeadRuns, One
    <3>2. QED BY <2>0, <2>2, <3>1
  <2>3. CASE w = "getting"
    <3>1. ReadyOK(1, <<>>) /\ Len(<<>>) <= 1
      <4>1. worker' # [worker EXCEPT ![q] = "dead"]
            /\ worker' # [worker EXCEPT ![q] = "resuming"]
        BY <1>2, <2>3 DEF QueueTypeOK
      <4>2. ready' = Tail(ready)
        BY <4>1 DEF Complete, RunWorker, WorkerDies, WorkerSleeps
      <4>3. QED BY <1>3, <2>0, <2>3, <4>2, HeadRuns, One
    <3>2. QED BY <2>3, <3>1, One
  <2>4. QED BY <2>1, <2>2, <2>3
<1>8. /\ \A t : Added(s, t) => \/ t = q /\ w = "resuming"
                               \/ t = Stopper /\ w = "dead"
  BY <1>7, One
<1>9. ReadyInv'
  <2>1. \A p \in Queues : Added(s, p) =>
           ~Kept(k, p) /\ worker'[p] \in {"ready", "resuming"}
    <3>1. worker[q] = "busy" => ~Scheduled(q) BY DEF ReadyInv
    <3>2. \A t : Kept(k, t) => Scheduled(t) BY DEF Kept, Scheduled
    <3>3. QED BY <1>3, <1>4, <1>8, <3>1, <3>2, Apart
  <2>2. \A p \in Queues : Kept(k, p) => worker'[p] \in {"ready", "resuming"}
    <3>1. \A t : Kept(k, t) => Scheduled(t) BY DEF Kept, Scheduled
    <3>2. QED BY <1>3, <1>4, <1>7, <3>1 DEF ReadyInv
  <2>3. \A i, j \in 1 .. Len(s) : i = j BY <1>7
  <2>4. stop \in {"off", "called"} => ~Added(s, Stopper)
    BY <1>3, <1>8, Apart DEF WorkerInv
  <2>5. QED BY <1>1, <1>7, <2>1, <2>2, <2>3, <2>4, ReadyStays
<1>10. LetGoInv'
  <2>1. CASE stop = "joining"
    <3>1. w # "dead" BY <1>3, <2>1 DEF WorkerInv
    <3>2. ~Added(s, Stopper) BY <1>8, <3>1, Apart
    <3>3. ready \in Seq(Tasks) /\ ready' \in Seq(Tasks) /\ Runs(k, s)
      BY <1>7 DEF ReadyOK, QueueTypeOK, Tasks
    <3>4. Scheduled(Stopper) => k = 1 \/ worker'[current] = worker[current]
      <4>1. SUFFICES ASSUME Scheduled(Stopper), w = "resuming"
                     PROVE  current # q
        BY <1>2, <1>3, <1>4, <1>7, <2>1, Apart DEF MadeInv
      <4>2. serving[current] = NoOne BY <2>1, <4>1 DEF Scheduled, LetGoInv
      <4>3. serving[q] # NoOne BY <1>3, <4>1 DEF WorkerInv
      <4>4. QED BY <4>2, <4>3
    <3>5. QED BY <1>1, <1>7, <3>2, <3>3, <3>4, LetGoStays
  <2>2. CASE stop # "joining" BY <1>1, <2>2 DEF LetGoInv
  <2>3. QED BY <2>1, <2>2
<1>11. QED BY <1>5, <1>6, <1>9, <1>10

\* What the worker of q makes ready while it goes on: putters, and perhaps the
\* stop, which then sees nothing queued and nothing served.
LEMMA GoesOn ==
    ASSUME QueueTypeOK, ControlInv, NEW q \in Queues, Running(q),
           NEW s \in Seq(Tasks), NEW k \in {0, 1}, ReadyOK(k, s),
           \A t : Added(s, t) =>
               t \in Callers \/ (k = 0 /\ Added(Joins(q), t)),
           \A i, j \in 1 .. Len(s) : s[i] = Stopper /\ s[j] = Stopper => i = j,
           k = 0 => worker'[q] = "ready" /\ serving'[q] = NoOne,
           k = 0 /\ unfinished[q] = 1 => items'[q] = <<>>,
           \A p \in Queues : p # q =>
               /\ worker'[p] = worker[p] /\ serving'[p] = serving[p]
               /\ items'[p] = items[p],
           worker[q] = "resuming" \/ items[q] # <<>>,
           UNCHANGED <<current, stop>>
    PROVE  ReadyInv' /\ LetGoInv'
<1> USE DEF ControlInv
<1>0. ready \in Seq(Tasks) /\ ready' \in Seq(Tasks) /\ Runs(k, s)
  BY DEF ReadyOK, QueueTypeOK, Tasks
<1>1. \A t : Kept(k, t) => Scheduled(t) BY DEF Kept, Scheduled
<1>2. ready # <<>> /\ ready[1] = q BY DEF Running, QueueTypeOK
<1>3. Added(s, Stopper) =>
         /\ k = 0 /\ stop = "joining" /\ current = q /\ unfinished[q] = 1
         /\ ~Scheduled(Stopper)
  BY Apart, JoinType, NotLetGo
<1>4. \A p \in Queues : ~Added(s, p) BY Apart, JoinType
<1>5. \A p \in Queues : Kept(k, p) => worker'[p] \in {"ready", "resuming"}
  BY <1>1, NoneElse DEF ReadyInv
<1>6. ReadyInv'
  <2>1. \A i, j \in 1 .. Len(s) :
           s[i] = s[j] /\ s[i] \in Queues \cup {Stopper} => i = j
    BY <1>4 DEF Added
  <2>2. stop \in {"off", "called"} => ~Added(s, Stopper) BY <1>3
  <2>3. QED BY <1>4, <1>5, <2>1, <2>2, ReadyStays
<1>7. LetGoInv'
  <2>1. CASE ~Added(s, Stopper)
    <3>1. ASSUME stop = "joining", Scheduled(Stopper) PROVE current # q
      BY <3>1, NotLetGo
    <3>2. current \in Queues \/ stop # "joining" BY Apart DEF MadeInv
    <3>3. stop = "joining" /\ Scheduled(Stopper) =>
             /\ serving'[current] = serving[current]
             /\ worker'[current] = worker[current]
             /\ items'[current] = items[current]
      BY <3>1, <3>2
    <3>4. QED BY <1>0, <2>1, <3>3, LetGoStays
  <2>2. CASE Added(s, Stopper)
    <3>1. /\ k = 0 /\ current = q /\ ~Scheduled(Stopper)
          /\ worker'[q] = "ready" /\ serving'[q] = NoOne /\ items'[q] = <<>>
      BY <1>3, <2>2
    <3>2. ASSUME NEW j \in 1 .. Len(ready'), NEW i \in 1 .. j - 1,
                 ready'[i] = q
          PROVE  i = 1
      <4>1. i \in 1 .. Len(ready') BY <1>0
      <4>2. CASE i <= Len(ready)
        <5>1. ready[i] = q /\ 1 \in 1 .. Len(ready)
          BY <1>0, <3>1, <3>2, <4>1, <4>2 DEF Runs
        <5>2. Once(q) BY DEF ReadyInv
        <5>3. QED BY <1>0, <1>2, <4>1, <4>2, <5>1, <5>2 DEF Once
      <4>3. CASE ~(i <= Len(ready))
        <5>1. i - Len(ready) \in 1 .. Len(s)
          BY <1>0, <3>1, <4>1, <4>3 DEF Runs
        <5>2. s[i - Len(ready)] = q
          BY <1>0, <3>1, <3>2, <4>1, <4>3 DEF Runs
        <5>3. QED BY <1>4, <5>1, <5>2 DEF Added
      <4>4. QED BY <4>2, <4>3
    <3>3. QED BY <3>1, <3>2 DEF LetGoInv
  <2>3. QED BY <2>1, <2>2
<1>8. QED BY <1>6, <1>7

LEMMA TakesControl ==
    ASSUME QueueTypeOK, JoinCountsWhatIsOwed, ControlInv, NEW q \in Queues,
           RunWorker(q), WorkerTakes(q)
    PROVE  ControlInv'
<1> USE DEF ControlInv
<1> DEFINE c == Head(items[q])
<1>1. UNCHANGED <<current, made, stopping, doomed, home, stop, early>>
      /\ Running(q)
  BY DEF RunWorker
<1>2. /\ items[q] \in Seq(Callers) /\ items[q] # <<>> /\ c \in Callers
      /\ items'[q] = Tail(items[q]) /\ worker[q] = "ready" /\ ~doomed[q]
      /\ \A p \in Queues : p # q => items'[p] = items[p]
      /\ serving[q] = NoOne
  <2>1. /\ worker[q] = "ready" /\ ~doomed[q] /\ items[q] # <<>>
        /\ items' = [items EXCEPT ![q] = Tail(@)]
    BY DEF WorkerTakes
  <2>2. items[q] \in Seq(Callers) /\ items \in [Queues -> Seq(Callers)]
    BY DEF QueueTypeOK
  <2>3. serving[q] = NoOne BY <2>1 DEF WorkerInv
  <2>4. c \in Callers BY <2>1, <2>2
  <2> HIDE DEF c
  <2>5. QED BY <2>1, <2>2, <2>3, <2>4
<1>3. c = items[q][1] /\ pc[c] # "out"
  <2>1. c = items[q][1] /\ 1 \in 1 .. Len(items[q]) BY <1>2
  <2>2. QED BY <2>1 DEF CalledInv
<1>4. \/ /\ c \in Instant /\ UNCHANGED <<worker, serving>>
      \/ /\ c \notin Instant
         /\ worker' = [worker EXCEPT ![q] = "busy"]
         /\ serving' = [serving EXCEPT ![q] = c]
  BY DEF WorkerTakes
<1> HIDE DEF c
<1>5. MadeInv' BY <1>1, <1>2, <1>4 DEF MadeInv, QueueTypeOK
<1>6. WorkerInv' /\ NeverCutsAWrite'
  <2>1. ASSUME NEW p \in Queues
        PROVE  /\ serving'[p] # NoOne <=> worker'[p] \in {"busy", "resuming"}
               /\ worker'[p] = "dead" => doomed[p]
               /\ doomed[p] =>
                     stop \in {"unwinding", "done"} /\ worker'[p] # "none"
               /\ doomed[p] /\ worker'[p] # "dead" => serving'[p] = NoOne
    <3>1. CASE p = q
      <4>1. \/ worker'[q] = "ready" /\ serving'[q] = NoOne
            \/ worker'[q] = "busy" /\ serving'[q] = c /\ c # NoOne
        BY <1>2, <1>4, Apart, SMTT(30) DEF QueueTypeOK
      <4>2. QED BY <1>2, <3>1, <4>1
    <3>2. CASE p # q
      <4>1. worker'[p] = worker[p] /\ serving'[p] = serving[p]
        BY <1>4, <3>2 DEF QueueTypeOK
      <4>2. QED BY <4>1 DEF WorkerInv, NeverCutsAWrite
    <3>3. QED BY <3>1, <3>2
  <2>2. QED BY <1>1, <2>1 DEF WorkerInv, NeverCutsAWrite
<1>7. ReadyInv' /\ LetGoInv'
  <2>1. Next1(q) \in Seq(Tasks) /\ Joins(q) \in Seq(Tasks)
        /\ \A i \in 1 .. Len(Next1(q)) : Next1(q)[i] \in Callers
    BY FirstType, JoinType
  <2>2. CASE c \in Instant
    <3> DEFINE s == Next1(q) \o Joins(q)
    <3>1. ReadyOK(0, s) BY <1>1, <2>2, TakeRuns DEF c
    <3>2. s \in Seq(Tasks) /\ Len(s) = Len(Next1(q)) + Len(Joins(q))
          /\ \A i \in 1 .. Len(s) :
                \/ i \in 1 .. Len(Next1(q)) /\ s[i] = Next1(q)[i]
                \/ /\ i - Len(Next1(q)) \in 1 .. Len(Joins(q))
                   /\ s[i] = Joins(q)[i - Len(Next1(q))]
      BY <2>1
    <3> HIDE DEF s
    <3>3. Len(Joins(q)) <= 1 BY DEF Joins
    <3>4. \A t : Added(s, t) => t \in Callers \/ Added(Joins(q), t)
      BY <2>1, <3>2 DEF Added
    <3>5. \A i, j \in 1 .. Len(s) : s[i] = Stopper /\ s[j] = Stopper => i = j
      <4>1. \A i \in 1 .. Len(s) : s[i] = Stopper => i = Len(Next1(q)) + 1
        BY <2>1, <3>2, <3>3, Apart
      <4>2. QED BY <4>1
    <3>6. unfinished[q] = 1 => items'[q] = <<>>
      <4>1. unfinished[q] = Len(items[q])
        <5>1. Len(items[q]) \in Nat BY <1>2
        <5>2. unfinished[q] = Len(items[q]) + 0
          BY <1>2 DEF JoinCountsWhatIsOwed
        <5>3. QED BY <5>1, <5>2
      <4>2. Len(items[q]) = 1 => Tail(items[q]) = <<>>
        <5>1. items[q] \in Seq(Callers) /\ items[q] # <<>> BY <1>2
        <5>2. /\ Tail(items[q]) \in Seq(Callers)
              /\ Len(Tail(items[q])) = Len(items[q]) - 1
          BY <5>1, HeadTailProperties
        <5>3. Len(items[q]) = 1 => Len(Tail(items[q])) = 0 BY <5>2
        <5>4. Tail(items[q]) # <<>> => Len(Tail(items[q])) \in Nat \ {0}
          BY <5>2, EmptySeq
        <5>5. QED BY <5>3, <5>4
      <4>3. QED BY <1>2, <4>1, <4>2
    <3>7. worker'[q] = "ready" /\ serving'[q] = NoOne
          /\ \A p \in Queues :
                worker'[p] = worker[p] /\ serving'[p] = serving[p]
      BY <1>2, <1>4, <2>2
    <3>8. QED BY <1>1, <1>2, <3>1, <3>2, <3>4, <3>5, <3>6, <3>7, GoesOn
  <2>3. CASE c \notin Instant
    <3> DEFINE s == Next1(q)
    <3>1. ReadyOK(1, s) BY <1>1, <2>3, TakeRuns DEF c
    <3>2. \A t : Added(s, t) => t \in Callers BY <2>1 DEF Added
    <3>3. \A p \in Queues : p # q =>
             worker'[p] = worker[p] /\ serving'[p] = serving[p]
      BY <1>4, <2>3 DEF QueueTypeOK
    <3>4. \A i \in 1 .. Len(s) : s[i] # Stopper BY <2>1, Apart
    <3> HIDE DEF s
    <3>5. s \in Seq(Tasks) BY <3>1 DEF ReadyOK
    <3>6. QED BY <1>1, <1>2, <3>1, <3>2, <3>3, <3>4, <3>5, GoesOn
  <2>4. QED BY <2>2, <2>3
<1>8. \A d \in Callers : /\ pc[d] # "out" => pc'[d] # "out"
                         /\ pc[d] \notin {"out", "called"} <=>
                               pc'[d] \notin {"out", "called"}
  <2>1. \A d \in ToSet(Next1(q)) : pc[d] \notin {"out", "called"}
    <3>1. putters[q] \in Seq(Callers) BY DEF QueueTypeOK
    <3>2. QED BY <3>1, FirstType DEF CalledInv
  <2>2. \/ \A d \in Callers : pc'[d] =
              IF d \in ToSet(Next1(q)) THEN "woken" ELSE pc[d]
        \/ \A d \in Callers : pc'[d] =
              IF d \in ToSet(Next1(q)) THEN "woken"
              ELSE IF d = c THEN Answered(c) ELSE pc[d]
    BY DEF WorkerTakes, c, QueueTypeOK
  <2>3. Answered(c) = pc[c] \/ (pc[c] = "waiting" /\ Answered(c) = "answered")
    BY DEF Answered
  <2>4. \A d \in Callers : \/ pc'[d] = pc[d]
                           \/ d \in ToSet(Next1(q)) /\ pc'[d] = "woken"
                           \/ pc[d] = "waiting" /\ pc'[d] = "answered"
    BY <1>2, <2>2, <2>3
  <2>5. QED BY <2>1, <2>4
<1>9. CalledInv'
  <2>1. \A p \in Queues : \A i \in 1 .. Len(items'[p]) :
           \E j \in 1 .. Len(items[p]) : items'[p][i] = items[p][j]
    <3>1. SUFFICES ASSUME NEW p \in Queues, NEW i \in 1 .. Len(items'[p])
                   PROVE  \E j \in 1 .. Len(items[p]) :
                             items'[p][i] = items[p][j]
      OBVIOUS
    <3>2. CASE p = q
      <4>1. i + 1 \in 1 .. Len(items[q]) /\ items'[p][i] = items[q][i + 1]
        <5>1. items[q] \in Seq(Callers) /\ items[q] # <<>>
              /\ items'[p] = Tail(items[q])
          BY <1>2, <3>2
        <5>2. QED BY <5>1
      <4>2. QED BY <3>2, <4>1
    <3>3. CASE p # q BY <1>2, <3>3
    <3>4. QED BY <3>2, <3>3
  <2>2. \A p \in Queues : \A i \in 1 .. Len(putters'[p]) :
           \E j \in 1 .. Len(putters[p]) : putters'[p][i] = putters[p][j]
    <3>1. SUFFICES ASSUME NEW p \in Queues, NEW i \in 1 .. Len(putters'[p])
                   PROVE  \E j \in 1 .. Len(putters[p]) :
                             putters'[p][i] = putters[p][j]
      OBVIOUS
    <3>2. putters[p] \in Seq(Callers) /\ WakeFirst(q)
      BY DEF QueueTypeOK, WorkerTakes
    <3>3. CASE p = q /\ putters[p] # <<>>
      <4>1. putters'[p] = Tail(putters[p])
        BY <3>2, <3>3 DEF WakeFirst, QueueTypeOK
      <4>2. i + 1 \in 1 .. Len(putters[p])
            /\ putters'[p][i] = putters[p][i + 1]
        BY <3>1, <3>2, <3>3, <4>1
      <4>3. QED BY <4>2
    <3>4. CASE ~(p = q /\ putters[p] # <<>>)
      BY <3>1, <3>2, <3>4 DEF WakeFirst, QueueTypeOK
    <3>5. QED BY <3>3, <3>4
  <2>3. \A p \in Queues :
           /\ \A i \in 1 .. Len(items[p]) :
                 items[p][i] \in Callers /\ pc[items[p][i]] # "out"
           /\ \A i \in 1 .. Len(putters[p]) : putters[p][i] \in Callers
                 /\ pc[putters[p][i]] \notin {"out", "called"}
    BY DEF CalledInv, QueueTypeOK
  <2>4. \A p \in Queues : serving'[p] # NoOne => pc'[serving'[p]] # "out"
    BY <1>2, <1>3, <1>4, <1>8 DEF CalledInv, QueueTypeOK
  <2>5. \A p \in Queues :
           /\ \A i \in 1 .. Len(items'[p]) : pc'[items'[p][i]] # "out"
           /\ \A i \in 1 .. Len(putters'[p]) :
                 pc'[putters'[p][i]] \notin {"out", "called"}
    <3>1. ASSUME NEW p \in Queues, NEW i \in 1 .. Len(items'[p])
          PROVE  pc'[items'[p][i]] # "out"
      <4>1. PICK j \in 1 .. Len(items[p]) : items'[p][i] = items[p][j]
        BY <2>1
      <4>2. QED BY <1>8, <2>3, <4>1
    <3>2. ASSUME NEW p \in Queues, NEW i \in 1 .. Len(putters'[p])
          PROVE  pc'[putters'[p][i]] \notin {"out", "called"}
      <4>1. PICK j \in 1 .. Len(putters[p]) : putters'[p][i] = putters[p][j]
        BY <2>2
      <4>2. QED BY <1>8, <2>3, <4>1
    <3>3. QED BY <3>1, <3>2
  <2>6. \A d \in early' : pc'[d] \notin {"out", "called"}
    BY <1>1, <1>8 DEF CalledInv, QueueTypeOK
  <2>7. QED BY <1>1, <1>8, <2>4, <2>5, <2>6 DEF CalledInv
<1>10. QED BY <1>5, <1>6, <1>7, <1>9

LEMMA AnswersControl ==
    ASSUME QueueTypeOK, JoinCountsWhatIsOwed, ControlInv, NEW q \in Queues,
           RunWorker(q), WorkerAnswers(q)
    PROVE  ControlInv'
<1> USE DEF ControlInv
<1> DEFINE c == serving[q]
<1>1. UNCHANGED <<current, made, stopping, doomed, home, stop, early, items,
                  putters>>
      /\ Running(q)
  BY DEF RunWorker, WorkerAnswers
<1>2. /\ worker[q] = "resuming" /\ ~doomed[q] /\ c \in Callers
      /\ worker' = [worker EXCEPT ![q] = "ready"]
      /\ serving' = [serving EXCEPT ![q] = NoOne]
      /\ pc' = [pc EXCEPT ![c] = Answered(c)]
      /\ ready' = ready \o Joins(q)
  BY DEF WorkerAnswers, WorkerInv, QueueTypeOK
<1> HIDE DEF c
<1>3. MadeInv' BY <1>1, <1>2 DEF MadeInv, QueueTypeOK
<1>4. WorkerInv' /\ NeverCutsAWrite'
  <2>1. ASSUME NEW p \in Queues
        PROVE  /\ serving'[p] # NoOne <=> worker'[p] \in {"busy", "resuming"}
               /\ worker'[p] = "dead" => doomed[p]
               /\ doomed[p] =>
                     stop \in {"unwinding", "done"} /\ worker'[p] # "none"
               /\ doomed[p] /\ worker'[p] # "dead" => serving'[p] = NoOne
    BY <1>2 DEF WorkerInv, NeverCutsAWrite, QueueTypeOK
  <2>2. QED BY <1>1, <2>1 DEF WorkerInv, NeverCutsAWrite
<1>5. ReadyInv' /\ LetGoInv'
  <2>1. Joins(q) \in Seq(Tasks) /\ Len(Joins(q)) <= 1
    BY JoinType DEF Joins
  <2>2. ReadyOK(0, Joins(q)) BY <1>1, <1>2, <2>1, HeadRuns, One
  <2>3. unfinished[q] = 1 => items[q] = <<>>
    <3>1. unfinished[q] = Len(items[q]) + 1 /\ items[q] \in Seq(Callers)
      BY <1>2 DEF JoinCountsWhatIsOwed, WorkerInv, QueueTypeOK
    <3>2. QED BY <3>1
  <2>4. /\ worker'[q] = "ready" /\ serving'[q] = NoOne
        /\ \A p \in Queues : p # q =>
              worker'[p] = worker[p] /\ serving'[p] = serving[p]
    BY <1>2 DEF QueueTypeOK
  <2>5. \A i, j \in 1 .. Len(Joins(q)) : i = j BY <2>1
  <2>6. QED BY <1>1, <1>2, <2>1, <2>2, <2>3, <2>4, <2>5, GoesOn
<1>6. CalledInv'
  <2>1. \A d \in Callers : \/ pc'[d] = pc[d]
                           \/ pc[d] = "waiting" /\ pc'[d] = "answered"
    BY <1>2 DEF Answered, QueueTypeOK
  <2>2. \A p \in Queues :
           /\ \A i \in 1 .. Len(items[p]) : items[p][i] \in Callers
           /\ \A i \in 1 .. Len(putters[p]) : putters[p][i] \in Callers
           /\ serving'[p] # NoOne => serving'[p] = serving[p]
           /\ serving[p] # NoOne => serving[p] \in Callers
    BY <1>2 DEF QueueTypeOK
  <2>3. early \subseteq Callers BY DEF QueueTypeOK
  <2>4. QED BY <1>1, <2>1, <2>2, <2>3 DEF CalledInv
<1>7. QED BY <1>3, <1>4, <1>5, <1>6

LEMMA StopControl ==
    ASSUME QueueTypeOK, JoinCountsWhatIsOwed, ControlInv, RunStop \/ Shutdown
    PROVE  ControlInv'
<1> USE DEF ControlInv
<1>1. UNCHANGED <<made, items, putters, unfinished, serving, pc, home>>
  BY DEF RunStop, Shutdown, queue
<1>2. ready \in Seq(Tasks) /\ (\A k, t : Kept(k, t) => Scheduled(t))
      /\ Stopper \in Tasks
  BY DEF QueueTypeOK, Tasks, Kept, Scheduled
<1>3. made \in {0, 1, 2} BY DEF QueueTypeOK, Queues
<1>4. CASE Shutdown
  <2>1. /\ stop = "off" /\ stop' = "called"
        /\ UNCHANGED <<current, worker, doomed, early>>
        /\ ReadyOK(0, <<Stopper>>)
    BY <1>2, <1>4, OutsideRuns DEF Shutdown
  <2>2. MadeInv' /\ CalledInv' /\ LetGoInv'
    BY <1>1, <2>1 DEF MadeInv, CalledInv, LetGoInv
  <2>3. WorkerInv' /\ NeverCutsAWrite'
    BY <1>1, <2>1 DEF WorkerInv, NeverCutsAWrite
  <2>4. ReadyInv'
    <3>1. \A p \in Queues : ~Added(<<Stopper>>, p) BY Apart, One
    <3>2. \A p \in Queues : Kept(0, p) => worker'[p] \in {"ready", "resuming"}
      BY <1>2, <2>1 DEF ReadyInv
    <3>3. \A i, j \in 1 .. Len(<<Stopper>>) : i = j OBVIOUS
    <3>4. 0 \in {0, 1} OBVIOUS
    <3>5. QED BY <2>1, <3>1, <3>2, <3>3, <3>4, ReadyStays
  <2>5. QED BY <2>2, <2>3, <2>4
<1>5. ASSUME RunStop, NothingToStop \/ EndStop PROVE ControlInv'
  <2>1. /\ stop' = "done" /\ current' = 0
        /\ UNCHANGED <<worker, doomed, early>>
        /\ made <= 1
    BY <1>3, <1>5 DEF NothingToStop, EndStop, MadeInv
  <2>2. ReadyOK(1, <<>>) BY <1>5, StopRuns
  <2>3. doomed' = doomed /\ \A p \in Queues : doomed[p] => worker[p] # "none"
    BY <2>1 DEF WorkerInv
  <2>4. MadeInv' /\ CalledInv' /\ LetGoInv'
    BY <1>1, <1>3, <2>1 DEF MadeInv, CalledInv, LetGoInv
  <2>5. WorkerInv' /\ NeverCutsAWrite'
    BY <1>1, <2>1, <2>3 DEF WorkerInv, NeverCutsAWrite
  <2>6. ReadyInv'
    <3>1. \A t : ~Added(<<>>, t) BY One
    <3>2. \A p \in Queues : Kept(1, p) => worker'[p] \in {"ready", "resuming"}
      BY <1>2, <2>1 DEF ReadyInv
    <3>3. \A i, j \in 1 .. Len(<<>>) : i = j OBVIOUS
    <3>4. 1 \in {0, 1} OBVIOUS
    <3>5. QED BY <2>1, <2>2, <3>1, <3>2, <3>3, <3>4, ReadyStays
  <2>7. QED BY <2>4, <2>5, <2>6
<1>6. ASSUME RunStop, BeginStop PROVE ControlInv'
  <2>1. /\ stop = "called" /\ stop' = "joining" /\ current # 0
        /\ UNCHANGED <<current, worker, doomed>>
        /\ early' = {c \in Callers : pc[c] \in Waiting}
    BY <1>6 DEF BeginStop
  <2>2. current = 1 /\ made = 1 /\ current \in Queues
    BY <1>3, <2>1, Apart DEF MadeInv
  <2>3. MadeInv' /\ WorkerInv' /\ NeverCutsAWrite'
    BY <1>1, <2>1, <2>2 DEF MadeInv, WorkerInv, NeverCutsAWrite
  <2>4. CalledInv' BY <1>1, <2>1 DEF CalledInv, Waiting
  <2>5. ready # <<>> /\ ready[1] = Stopper /\ 1 \in 1 .. Len(ready)
    BY <1>2, <1>6, StopRuns
  <2>6. Once(Stopper) BY <2>1 DEF ReadyInv
  <2>7. PICK k \in {0, 1} : /\ ReadyOK(k, <<>>)
                            /\ k = 0 => UNCHANGED ready /\ Undone(current) <= 0
    <3>1. unfinished[current] \in Nat BY <2>2 DEF QueueTypeOK
    <3>2. QED BY <1>6, <3>1, StopRuns DEF BeginStop, Undone
  <2>8. ReadyInv'
    <3>1. \A t : ~Added(<<>>, t) BY One
    <3>2. \A p \in Queues : Kept(k, p) => worker'[p] \in {"ready", "resuming"}
      BY <1>2, <2>1 DEF ReadyInv
    <3>3. \A i, j \in 1 .. Len(<<>>) : i = j OBVIOUS
    <3>4. QED BY <2>1, <2>7, <3>1, <3>2, <3>3, ReadyStays
  <2>9. LetGoInv'
    <3>1. CASE k = 1
      <4>1. ~Kept(1, Stopper) BY <2>5, <2>6 DEF Kept, Once
      <4>2. ~Scheduled(Stopper)'
        BY <1>2, <2>7, <3>1, <4>1, One, WhoIsDue DEF ReadyOK
      <4>3. QED BY <4>2 DEF Scheduled, LetGoInv
    <3>2. CASE k = 0
      <4>1. \A j \in 1 .. Len(ready') : ready'[j] = Stopper => j = 1
        BY <2>5, <2>6, <2>7, <3>2 DEF Once
      <4>2. serving[current] = NoOne
        <5>1. Len(items[current]) \in Nat BY <2>2 DEF QueueTypeOK
        <5>2. unfinished[current] = Len(items[current])
                 + (IF serving[current] = NoOne THEN 0 ELSE 1)
          BY <2>2 DEF JoinCountsWhatIsOwed
        <5>3. unfinished[current] <= 0 BY <2>7, <3>2 DEF Undone
        <5>4. serving[current] # NoOne =>
                 unfinished[current] = Len(items[current]) + 1
          BY <5>2
        <5>5. QED BY <5>1, <5>3, <5>4
      <4>3. UNCHANGED <<serving, current>> BY <1>1, <2>1
      <4>4. QED BY <4>1, <4>2, <4>3 DEF LetGoInv
    <3>3. QED BY <3>1, <3>2
  <2>10. QED BY <2>3, <2>4, <2>8, <2>9
<1>7. ASSUME RunStop, CancelWorker PROVE ControlInv'
  <2>1. /\ stop = "joining" /\ stop' = "unwinding"
        /\ doomed' = [doomed EXCEPT ![current] = TRUE]
        /\ worker' = [worker EXCEPT ![current] = Woken(current)]
        /\ UNCHANGED <<current, early>>
    BY <1>7 DEF CancelWorker
  <2>2. current = 1 /\ made = 1 /\ current \in Queues
    BY <1>3, <2>1, Apart DEF MadeInv
  <2>3. serving[current] = NoOne
    <3>1. ready[1] = Stopper /\ 1 \in 1 .. Len(ready)
      BY <1>2, <1>7, StopRuns
    <3>2. QED BY <2>1, <3>1 DEF LetGoInv
  <2>4. /\ worker'[current] = Woken(current) /\ doomed'[current]
        /\ \A p \in Queues : p # current =>
              worker'[p] = worker[p] /\ doomed'[p] = doomed[p]
    BY <2>1, <2>2 DEF QueueTypeOK
  <2>5. /\ Woken(current) = "none" <=> worker[current] = "none"
        /\ Woken(current) \in {"busy", "resuming"} <=>
              worker[current] \in {"busy", "resuming"}
        /\ worker[current] # "none"
    BY <2>2 DEF Woken, MadeInv
  <2>6. MadeInv' /\ CalledInv' /\ LetGoInv'
    BY <1>1, <2>1, <2>2, <2>4, <2>5 DEF MadeInv, CalledInv, LetGoInv
  <2>7. WorkerInv' /\ NeverCutsAWrite'
    <3>1. ASSUME NEW p \in Queues
          PROVE  /\ serving[p] # NoOne <=>
                       worker'[p] \in {"busy", "resuming"}
                 /\ worker'[p] = "dead" => doomed'[p]
                 /\ doomed'[p] => worker'[p] # "none"
                 /\ doomed'[p] /\ worker'[p] # "dead" => serving[p] = NoOne
      BY <2>3, <2>4, <2>5 DEF WorkerInv, NeverCutsAWrite
    <3>2. QED BY <1>1, <2>1, <3>1 DEF WorkerInv, NeverCutsAWrite
  <2>8. ReadyInv'
    <3>1. ReadyOK(1, Wakes(current)) BY <1>7, StopRuns
    <3>2. CASE worker[current] = "getting"
      <4>1. ReadyOK(1, <<current>>) /\ worker'[current] = "ready"
        BY <2>4, <3>1, <3>2 DEF Wakes, Woken
      <4>2. ~Scheduled(current) BY <2>2, <3>2 DEF ReadyInv
      <4>3. \A p \in Queues : Added(<<current>>, p) =>
               ~Kept(1, p) /\ worker'[p] \in {"ready", "resuming"}
        BY <1>2, <4>1, <4>2, One
      <4>4. \A p \in Queues :
               Kept(1, p) => worker'[p] \in {"ready", "resuming"}
        BY <1>2, <2>4, <4>1 DEF ReadyInv
      <4>5. \A i, j \in 1 .. Len(<<current>>) : i = j OBVIOUS
      <4>6. 1 \in {0, 1} OBVIOUS
      <4>7. QED BY <2>1, <4>1, <4>3, <4>4, <4>5, <4>6, ReadyStays
    <3>3. CASE worker[current] # "getting"
      <4>1. ReadyOK(1, <<>>) /\ worker'[current] = worker[current]
        BY <2>4, <3>1, <3>3 DEF Wakes, Woken
      <4>2. \A t : ~Added(<<>>, t) BY One
      <4>3. \A p \in Queues :
               Kept(1, p) => worker'[p] \in {"ready", "resuming"}
        BY <1>2, <2>4, <4>1 DEF ReadyInv
      <4>4. \A i, j \in 1 .. Len(<<>>) : i = j OBVIOUS
      <4>5. 1 \in {0, 1} OBVIOUS
      <4>6. QED BY <2>1, <4>1, <4>2, <4>3, <4>4, <4>5, ReadyStays
    <3>4. QED BY <3>2, <3>3
  <2>9. QED BY <2>6, <2>7, <2>8
<1>8. QED BY <1>4, <1>5, <1>6, <1>7 DEF RunStop

-----------------------------------------------------------------------------
(* Nobody is overlooked as long as the run is steady.                        *)

SteadyParts == AcceptedInv /\ WokenInv /\ LineWaits /\ Drained

\* A putter stays where it was before its queue's worker: what is made ready
\* comes after both.
LEMMA AwakeStays ==
    ASSUME QueueTypeOK, NEW k \in {0, 1}, NEW s, ReadyOK(k, s),
           NEW p \in Queues, NEW d \in Callers, GoesFirst(d, p),
           k = 1 => ready[1] # d
    PROVE  \E i \in 1 .. Len(ready') :
              /\ ready'[i] = d
              /\ \A j \in 1 .. Len(ready') : ready'[j] = p => i < j
<1> DEFINE n == Len(ready)
<1>0. /\ ready \in Seq(Tasks) /\ s \in Seq(Tasks)
      /\ n \in Nat /\ Len(s) \in Nat /\ k <= n /\ Len(ready') = n - k + Len(s)
      /\ \A j \in 1 .. Len(ready') :
            j + k <= n => ready'[j] = ready[j + k]
  BY DEF ReadyOK, Runs, QueueTypeOK, Tasks
<1>1. PICK i \in 1 .. n :
         ready[i] = d /\ \A j \in 1 .. n : ready[j] = p => i < j
  BY DEF GoesFirst
<1>2. i > k BY <1>1
<1>3. i - k \in 1 .. Len(ready') /\ (i - k) + k = i BY <1>0, <1>1, <1>2
<1>4. ready'[i - k] = d BY <1>0, <1>1, <1>3
<1>5. ASSUME NEW j \in 1 .. Len(ready'), ready'[j] = p PROVE i - k < j
  <2>1. CASE j + k <= n
    <3>1. j + k \in 1 .. n /\ ready[j + k] = p BY <1>0, <1>5, <2>1
    <3>2. i < j + k BY <1>1, <3>1
    <3>3. QED BY <1>1, <3>2
  <2>2. CASE ~(j + k <= n) BY <1>0, <1>1, <2>2
  <2>3. QED BY <2>1, <2>2
<1>6. QED BY <1>3, <1>4, <1>5

\* Nobody is woken for a queue, and none of its workers is lost.
LEMMA WokenStays ==
    ASSUME QueueTypeOK, WokenInv, NEW k \in {0, 1}, NEW s, ReadyOK(k, s),
           NEW p \in Queues,
           \A d \in Callers : Awake(d, p)' =>
               Awake(d, p) /\ (k = 1 => ready[1] # d),
           \A d \in Callers : Awake(d, p) =>
               worker'[p] \in {"busy", "resuming"},
           Len(items'[p]) \in Nat, Len(items'[p]) >= Len(items[p])
    PROVE  \A d \in Callers : Awake(d, p)' => GoesFirst(d, p)'
<1> SUFFICES ASSUME NEW d \in Callers, Awake(d, p)' PROVE GoesFirst(d, p)'
  OBVIOUS
<1>1. Awake(d, p) /\ GoesFirst(d, p) BY DEF WokenInv
<1>2. \E i \in 1 .. Len(ready') :
         /\ ready'[i] = d
         /\ \A j \in 1 .. Len(ready') : ready'[j] = p => i < j
  BY <1>1, AwakeStays
<1>3. Len(items'[p]) + 1 >= MaxSize
  <2>1. Len(items[p]) \in Nat /\ MaxSize \in Nat BY Apart DEF QueueTypeOK
  <2>2. Len(items[p]) + 1 >= MaxSize BY <1>1 DEF GoesFirst
  <2>3. QED BY <2>1, <2>2
<1>4. \A e \in Callers : Awake(e, p)' => e = d BY <1>1 DEF GoesFirst
<1>5. QED BY <1>1, <1>2, <1>3, <1>4 DEF GoesFirst

\* No putter of a queue is awake when its worker runs.
LEMMA NoneAwake ==
    ASSUME QueueTypeOK, WokenInv, NEW q \in Queues, Running(q)
    PROVE  \A d \in Callers : ~Awake(d, q)
<1>1. ready[1] = q /\ 1 \in 1 .. Len(ready)
  BY DEF Running, QueueTypeOK
<1>2. QED BY <1>1 DEF WokenInv, GoesFirst

LEMMA LineStays ==
    ASSUME QueueTypeOK, LineInv, UNCHANGED <<putters, home>>,
           \A d \in Callers : pc'[d] = "blocked" <=> pc[d] = "blocked"
    PROVE  LineInv'
<1>1. \A p \in Queues : \A i \in 1 .. Len(putters[p]) :
         putters[p][i] \in Callers
  BY DEF QueueTypeOK
<1>2. QED BY <1>1 DEF LineInv, InLine

\* The first in line gets up.
LEMMA FirstLeaves ==
    ASSUME QueueTypeOK, CalledInv, LineInv, NEW q \in Queues, WakeFirst(q),
           UNCHANGED home,
           \A d \in Callers : d \in ToSet(Next1(q)) => pc'[d] # "blocked",
           \A d \in Callers : d \notin ToSet(Next1(q)) =>
               (pc'[d] = "blocked" <=> pc[d] = "blocked")
    PROVE  LineInv'
<1>1. CASE putters[q] = <<>>
  <2>1. UNCHANGED putters BY <1>1 DEF WakeFirst, QueueTypeOK
  <2>2. \A d \in Callers : d \notin ToSet(Next1(q)) BY <1>1, FirstType
  <2>3. QED BY <2>1, <2>2, LineStays
<1>2. CASE putters[q] # <<>>
  <2> DEFINE n == Len(putters[q])
  <2>1. /\ putters[q] \in Seq(Callers) /\ putters'[q] = Tail(putters[q])
        /\ \A p \in Queues : p # q => putters'[p] = putters[p]
    BY <1>2 DEF WakeFirst, QueueTypeOK
  <2>2. /\ n \in Nat /\ n >= 1 /\ Len(putters'[q]) = n - 1
        /\ \A i \in 1 .. n - 1 : putters'[q][i] = putters[q][i + 1]
    BY <1>2, <2>1
  <2>3. \A d \in Callers : d \in ToSet(Next1(q)) <=> d = putters[q][1]
    BY <1>2, FirstType
  <2>4. \A i, j \in 1 .. n : putters[q][i] = putters[q][j] => i = j
    BY DEF LineInv
  <2>5. \A i \in 1 .. n - 1 : i + 1 \in 1 .. n /\ i + 1 # 1 BY <2>2
  <2>6. \A i \in 1 .. n - 1 : putters[q][i + 1] # putters[q][1]
    BY <2>2, <2>4, <2>5
  <2>7. \A p \in Queues : \A i \in 1 .. Len(putters[p]) :
           /\ putters[p][i] \in Callers /\ pc[putters[p][i]] = "blocked"
           /\ home[putters[p][i]] = p
    BY LineHome DEF LineInv
  <2>8. \A p \in Queues : p # q => \A i \in 1 .. Len(putters[p]) :
           putters[p][i] # putters[q][1]
    BY <2>2, <2>7
  <2>9. ASSUME NEW p \in Queues, NEW i \in 1 .. Len(putters'[p]),
               NEW j \in 1 .. Len(putters'[p])
        PROVE  /\ pc'[putters'[p][i]] = "blocked" /\ home'[putters'[p][i]] = p
               /\ putters'[p][i] = putters'[p][j] => i = j
    <3>1. CASE p = q
      <4>1. i \in 1 .. n - 1 /\ j \in 1 .. n - 1 BY <2>2, <2>9, <3>1
      <4>2. putters'[p][i] = putters[q][i + 1]
            /\ putters'[p][j] = putters[q][j + 1]
        BY <2>2, <3>1, <4>1
      <4>3. putters'[p][i] = putters'[p][j] => i + 1 = j + 1
        BY <2>4, <2>5, <4>1, <4>2
      <4>4. pc'[putters[q][i + 1]] = "blocked" /\ home[putters[q][i + 1]] = q
        BY <2>3, <2>5, <2>6, <2>7, <4>1
      <4>5. QED BY <3>1, <4>1, <4>2, <4>3, <4>4
    <3>2. CASE p # q
      BY <2>1, <2>3, <2>7, <2>8, <2>9, <3>2 DEF LineInv
    <3>3. QED BY <3>1, <3>2
  <2>10. ASSUME NEW d \in Callers, pc'[d] = "blocked"
         PROVE  \E i \in 1 .. Len(putters'[home'[d]]) :
                   putters'[home'[d]][i] = d
    <3>1. d # putters[q][1] /\ pc[d] = "blocked" BY <2>3, <2>10
    <3>2. PICK i \in 1 .. Len(putters[home[d]]) : putters[home[d]][i] = d
      BY <3>1 DEF LineInv, InLine
    <3>3. home[d] \in Queues BY <3>1, LineHome
    <3>4. CASE home[d] = q
      <4>1. i - 1 \in 1 .. n - 1 /\ (i - 1) + 1 = i
        BY <2>2, <3>1, <3>2, <3>4
      <4>2. putters'[q][i - 1] = d BY <2>2, <3>2, <3>4, <4>1
      <4>3. QED BY <2>2, <3>4, <4>1, <4>2
    <3>5. CASE home[d] # q BY <2>1, <3>2, <3>3, <3>5
    <3>6. QED BY <3>4, <3>5
  <2>11. QED BY <2>9, <2>10 DEF LineInv, InLine
<1>3. QED BY <1>1, <1>2

LEMMA CallerLine ==
    ASSUME QueueTypeOK, ControlInv, LineInv, NEW c \in Callers,
           RunLeave(c) \/ Call(c) \/ CallerLeaves(c)
    PROVE  LineInv'
<1>1. CASE Call(c)
  <2>1. UNCHANGED <<putters, home>> /\ pc' = [pc EXCEPT ![c] = "called"]
        /\ pc[c] = "out"
    BY <1>1 DEF Call, queue
  <2>2. \A d \in Callers : pc'[d] = "blocked" <=> pc[d] = "blocked"
    BY <2>1 DEF QueueTypeOK
  <2>3. QED BY <2>1, <2>2, LineStays
<1>2. ASSUME CallerLeaves(c), pc[c] # "blocked" PROVE LineInv'
  <2>1. UNCHANGED <<putters, home>>
        /\ pc' = [pc EXCEPT ![c] = IF @ = "woken" THEN "leaving" ELSE "gone"]
    BY <1>2 DEF CallerLeaves
  <2>2. \A d \in Callers : pc'[d] = "blocked" <=> pc[d] = "blocked"
    BY <1>2, <2>1 DEF QueueTypeOK
  <2>3. QED BY <2>1, <2>2, LineStays
<1>3. ASSUME CallerLeaves(c), pc[c] = "blocked" PROVE LineInv'
  <2> DEFINE q == home[c]
             n == Len(putters[q])
  <2>1. q \in Queues /\ putters[q] \in Seq(Callers)
    BY <1>3, LineHome DEF ControlInv, QueueTypeOK
  <2>2. PICK l \in 1 .. n :
           /\ putters[q][l] = c
           /\ putters' = [putters EXCEPT ![q] = RemoveAt(@, l)]
    BY <1>3 DEF CallerLeaves
  <2>3. UNCHANGED home /\ pc'[c] # "blocked"
        /\ \A d \in Callers : d # c => pc'[d] = pc[d]
    BY <1>3 DEF CallerLeaves, QueueTypeOK
  <2> HIDE DEF q
  <2>4. /\ putters'[q] = RemoveAt(putters[q], l)
        /\ \A p \in Queues : p # q => putters'[p] = putters[p]
    BY <2>1, <2>2 DEF QueueTypeOK
  <2>5. /\ n \in Nat /\ Len(putters'[q]) = n - 1
        /\ \A i \in 1 .. n - 1 :
              putters'[q][i] = putters[q][IF i < l THEN i ELSE i + 1]
    BY <2>1, <2>4, Removed
  <2>6. \A i, j \in 1 .. n : putters[q][i] = putters[q][j] => i = j
    BY <2>1 DEF LineInv
  <2>7. \A p \in Queues : \A i \in 1 .. Len(putters[p]) :
           /\ putters[p][i] \in Callers /\ pc[putters[p][i]] = "blocked"
           /\ home[putters[p][i]] = p
    BY LineHome DEF LineInv, ControlInv
  <2>8. ASSUME NEW p \in Queues, NEW i \in 1 .. Len(putters'[p]),
               NEW j \in 1 .. Len(putters'[p])
        PROVE  /\ pc'[putters'[p][i]] = "blocked" /\ home'[putters'[p][i]] = p
               /\ putters'[p][i] = putters'[p][j] => i = j
    <3>1. CASE p = q
      <4> DEFINE a == IF i < l THEN i ELSE i + 1
                 b == IF j < l THEN j ELSE j + 1
      <4>1. i \in 1 .. n - 1 /\ j \in 1 .. n - 1 BY <2>5, <2>8, <3>1
      <4>2. /\ a \in 1 .. n /\ b \in 1 .. n /\ a # l /\ b # l
            /\ a = b => i = j
        BY <2>5, <4>1
      <4>3. putters'[p][i] = putters[q][a] /\ putters'[p][j] = putters[q][b]
        BY <2>5, <3>1, <4>1
      <4> HIDE DEF a, b
      <4>4. putters[q][a] = putters[q][b] => a = b BY <2>6, <4>2
      <4>5. putters[q][a] # c BY <2>2, <2>6, <4>2
      <4>6. pc'[putters[q][a]] = "blocked" /\ home[putters[q][a]] = q
        BY <2>1, <2>3, <2>7, <4>2, <4>5
      <4>7. QED BY <2>3, <3>1, <4>2, <4>3, <4>4, <4>6
    <3>2. CASE p # q
      <4>1. putters'[p] = putters[p] BY <2>4, <3>2
      <4>2. putters[p][i] # c BY <2>7, <2>8, <3>2, <4>1 DEF q
      <4>3. QED BY <2>3, <2>7, <2>8, <4>1, <4>2 DEF LineInv
    <3>3. QED BY <3>1, <3>2
  <2>9. ASSUME NEW d \in Callers, pc'[d] = "blocked"
        PROVE  \E i \in 1 .. Len(putters'[home'[d]]) :
                  putters'[home'[d]][i] = d
    <3>1. d # c /\ pc[d] = "blocked" BY <2>3, <2>9
    <3>2. PICK i \in 1 .. Len(putters[home[d]]) : putters[home[d]][i] = d
      BY <3>1 DEF LineInv, InLine
    <3>3. home[d] \in Queues BY <3>1, LineHome DEF ControlInv
    <3>4. CASE home[d] = q
      <4>1. i # l BY <2>2, <3>1, <3>2, <3>4
      <4> DEFINE a == IF i < l THEN i ELSE i - 1
      <4>2. a \in 1 .. n - 1 /\ (IF a < l THEN a ELSE a + 1) = i
        BY <2>5, <3>2, <3>4, <4>1
      <4>3. putters'[q][a] = d BY <2>5, <3>2, <3>4, <4>2
      <4>4. QED BY <2>3, <2>5, <3>4, <4>2, <4>3
    <3>5. CASE home[d] # q BY <2>3, <2>4, <3>2, <3>3, <3>5
    <3>6. QED BY <3>4, <3>5
  <2>10. QED BY <2>8, <2>9 DEF LineInv, InLine
<1>4. CASE RunLeave(c)
  <2> DEFINE q == home[c]
  <2>1. q \in Queues /\ UNCHANGED home /\ pc[c] = "leaving"
    BY <1>4, LeaveRuns DEF RunLeave, ControlInv
  <2>2. CASE Full(q)
    <3>1. UNCHANGED putters BY <1>4, <2>2 DEF RunLeave
    <3>2. ToSet(<<>>) = {} BY DEF ToSet
    <3>3. \A d \in Callers : pc'[d] = IF d = c THEN "gone" ELSE pc[d]
      BY <1>4, <2>2, <3>2 DEF RunLeave
    <3>4. QED BY <2>1, <3>1, <3>3, LineStays
  <2>3. CASE ~Full(q)
    <3>1. WakeFirst(q) BY <1>4, <2>3 DEF RunLeave
    <3>2. \A d \in Callers : pc'[d] = IF d = c THEN "gone"
                                ELSE IF d \in ToSet(Next1(q)) THEN "woken"
                                ELSE pc[d]
      <4>1. pc' = [d \in Callers |-> CASE d = c -> "gone"
                                      [] d \in ToSet(Next1(q)) -> "woken"
                                      [] OTHER -> pc[d]]
        BY <1>4, <2>3 DEF RunLeave
      <4>2. c \notin ToSet(Next1(q))
        <5>1. putters[q] # <<>> => 1 \in 1 .. Len(putters[q])
          BY <2>1 DEF QueueTypeOK
        <5>2. QED BY <2>1, <5>1, FirstType DEF LineInv
      <4> HIDE DEF q
      <4>3. QED BY <4>1, <4>2
    <3>3. /\ \A d \in Callers : d \in ToSet(Next1(q)) => pc'[d] # "blocked"
          /\ \A d \in Callers : d \notin ToSet(Next1(q)) =>
                (pc'[d] = "blocked" <=> pc[d] = "blocked")
      BY <2>1, <3>2
    <3> HIDE DEF q
    <3>4. QED BY <2>1, <3>1, <3>3, FirstLeaves DEF ControlInv
  <2>4. QED BY <2>2, <2>3
<1>5. QED BY <1>1, <1>2, <1>3, <1>4

\* Only the caller moves in a turn, and it is in no line.
LEMMA TurnWho ==
    ASSUME QueueTypeOK, LineInv, NEW c \in Callers, NEW q \in Queues,
           Turn(c, q)
    PROVE  /\ /\ \A d \in Callers :
                    d # c => pc'[d] = pc[d] /\ home'[d] = home[d]
              /\ pc[c] \in {"called", "woken"}
              /\ pc[c] = "woken" => home[c] = q
              /\ home'[c] = q
              /\ UNCHANGED <<serving, stop, early>>
              /\ ready # <<>> /\ ready[1] = c
           /\ /\ items[q] \in Seq(Callers) /\ putters[q] \in Seq(Callers)
              /\ \A p \in Queues : \A i \in 1 .. Len(putters[p]) :
                    putters[p][i] \in Callers /\ putters[p][i] # c
           /\ \/ /\ pc'[c] = "refused" /\ pc[c] = "called"
                 /\ UNCHANGED <<items, putters>>
              \/ /\ pc'[c] = "blocked" /\ UNCHANGED items /\ Full(q)
                 /\ putters'[q] = Append(putters[q], c)
                 /\ \A p \in Queues : p # q => putters'[p] = putters[p]
              \/ /\ pc'[c] = "waiting" /\ UNCHANGED putters /\ ~Full(q)
                 /\ items'[q] = Append(items[q], c)
                 /\ \A p \in Queues : p # q => items'[p] = items[p]
<1>1. /\ \A d \in Callers : d # c => pc'[d] = pc[d] /\ home'[d] = home[d]
      /\ pc[c] \in {"called", "woken"} /\ (pc[c] = "woken" => home[c] = q)
      /\ home'[c] = q
      /\ UNCHANGED <<serving, stop, early>>
      /\ ready # <<>> /\ ready[1] = c
  <2>1. /\ pc[c] \in {"called", "woken"} /\ (pc[c] = "woken" => home[c] = q)
        /\ UNCHANGED <<serving, stop, early>>
        /\ ready # <<>> /\ ready[1] = c
    BY DEF Turn
  <2>2. \E w : pc' = [pc EXCEPT ![c] = w] BY DEF Turn, Block, PutNowait
  <2>3. home' = [home EXCEPT ![c] = q] BY DEF Turn
  <2>4. \A d \in Callers : d # c => pc'[d] = pc[d] BY <2>2 DEF QueueTypeOK
  <2>5. home'[c] = q /\ \A d \in Callers : d # c => home'[d] = home[d]
    BY <2>3 DEF QueueTypeOK
  <2>6. QED BY <2>1, <2>4, <2>5
<1>2. /\ items[q] \in Seq(Callers) /\ putters[q] \in Seq(Callers)
      /\ \A p \in Queues : \A i \in 1 .. Len(putters[p]) :
            putters[p][i] \in Callers /\ putters[p][i] # c
  BY <1>1 DEF QueueTypeOK, LineInv
<1>3. \/ pc'[c] = "refused" /\ UNCHANGED <<items, putters>> /\ pc[c] = "called"
      \/ /\ pc'[c] = "blocked" /\ UNCHANGED items /\ Full(q)
         /\ putters'[q] = Append(putters[q], c)
         /\ \A p \in Queues : p # q => putters'[p] = putters[p]
      \/ /\ pc'[c] = "waiting" /\ UNCHANGED putters /\ ~Full(q)
         /\ items'[q] = Append(items[q], c)
         /\ \A p \in Queues : p # q => items'[p] = items[p]
  BY DEF Turn, Block, PutNowait, QueueTypeOK, queue
<1>4. QED BY <1>1, <1>2, <1>3

LEMMA TurnLine ==
    ASSUME QueueTypeOK, ControlInv, LineInv, NEW c \in Callers,
           NEW q \in Queues, Turn(c, q)
    PROVE  LineInv'
<1>1. /\ \A d \in Callers : d # c => pc'[d] = pc[d] /\ home'[d] = home[d]
      /\ pc[c] \in {"called", "woken"} /\ (pc[c] = "woken" => home[c] = q)
      /\ home'[c] = q
      /\ UNCHANGED <<serving, stop, early>>
      /\ ready # <<>> /\ ready[1] = c
  BY TurnWho
<1>2. /\ items[q] \in Seq(Callers) /\ putters[q] \in Seq(Callers)
      /\ \A p \in Queues : \A i \in 1 .. Len(putters[p]) :
            putters[p][i] \in Callers /\ putters[p][i] # c
  BY TurnWho
<1>3. \/ pc'[c] = "refused" /\ UNCHANGED <<items, putters>> /\ pc[c] = "called"
      \/ /\ pc'[c] = "blocked" /\ UNCHANGED items /\ Full(q)
         /\ putters'[q] = Append(putters[q], c)
         /\ \A p \in Queues : p # q => putters'[p] = putters[p]
      \/ /\ pc'[c] = "waiting" /\ UNCHANGED putters /\ ~Full(q)
         /\ items'[q] = Append(items[q], c)
         /\ \A p \in Queues : p # q => items'[p] = items[p]
  BY TurnWho
<1>4. LineInv'
  <2>1. CASE UNCHANGED putters /\ pc'[c] # "blocked"
    <3>1. \A p \in Queues : \A i \in 1 .. Len(putters[p]) :
             /\ pc'[putters[p][i]] = "blocked" /\ home'[putters[p][i]] = p
      BY <1>1, <1>2 DEF LineInv
    <3>2. \A d \in Callers : pc'[d] = "blocked" => InLine(d, home'[d])
      BY <1>1, <2>1 DEF LineInv
    <3>3. QED BY <2>1, <3>1, <3>2 DEF LineInv, InLine
  <2>2. CASE putters'[q] = Append(putters[q], c) /\ pc'[c] = "blocked"
             /\ \A p \in Queues : p # q => putters'[p] = putters[p]
    <3>1. /\ Len(putters'[q]) = Len(putters[q]) + 1 /\ Len(putters[q]) \in Nat
          /\ putters'[q][Len(putters[q]) + 1] = c
          /\ \A i \in 1 .. Len(putters[q]) : putters'[q][i] = putters[q][i]
      BY <1>2, <2>2
    <3>2. ASSUME NEW p \in Queues, NEW i \in 1 .. Len(putters'[p]),
                 NEW j \in 1 .. Len(putters'[p])
          PROVE  /\ pc'[putters'[p][i]] = "blocked"
                 /\ home'[putters'[p][i]] = p
                 /\ putters'[p][i] = putters'[p][j] => i = j
      <4>1. CASE p # q BY <1>1, <1>2, <2>2, <3>2, <4>1, SMTT(30) DEF LineInv
      <4>2. CASE p = q
        <5>1. \A l \in 1 .. Len(putters'[q]) :
                 \/ l = Len(putters[q]) + 1
                 \/ l \in 1 .. Len(putters[q])
          BY <3>1
        <5>2. \A l \in 1 .. Len(putters[q]) :
                 putters'[q][l] # c /\ pc'[putters'[q][l]] = "blocked"
                 /\ home'[putters'[q][l]] = q
          BY <1>1, <1>2, <3>1 DEF LineInv
        <5>3. \A l, m \in 1 .. Len(putters[q]) :
                 putters'[q][l] = putters'[q][m] => l = m
          <6>1. \A l, m \in 1 .. Len(putters[q]) :
                   putters[q][l] = putters[q][m] => l = m
            BY DEF LineInv
          <6>2. QED BY <3>1, <6>1
        <5>4. putters'[p][i] = putters'[p][j] => i = j
          <6>1. CASE i = Len(putters[q]) + 1
            BY <3>1, <3>2, <4>2, <5>1, <5>2, <6>1
          <6>2. CASE i \in 1 .. Len(putters[q])
            BY <3>1, <3>2, <4>2, <5>1, <5>2, <5>3, <6>2
          <6>3. QED BY <3>2, <4>2, <5>1, <6>1, <6>2
        <5>5. pc'[putters'[p][i]] = "blocked" /\ home'[putters'[p][i]] = p
          <6>1. CASE i = Len(putters[q]) + 1
            <7>1. putters'[p][i] = c BY <3>1, <4>2, <6>1
            <7>2. QED BY <1>1, <2>2, <4>2, <7>1
          <6>2. CASE i \in 1 .. Len(putters[q]) BY <4>2, <5>2, <6>2
          <6>3. QED BY <3>2, <4>2, <5>1, <6>1, <6>2
        <5>6. QED BY <5>4, <5>5
      <4>3. QED BY <4>1, <4>2
    <3>3. ASSUME NEW d \in Callers, pc'[d] = "blocked"
          PROVE  \E i \in 1 .. Len(putters'[home'[d]]) :
                    putters'[home'[d]][i] = d
      <4>1. CASE d = c
        <5>1. home'[d] = q /\ Len(putters[q]) + 1 \in 1 .. Len(putters'[q])
          BY <1>1, <3>1, <4>1
        <5>2. QED BY <3>1, <4>1, <5>1
      <4>2. CASE d # c
        <5>1. PICK i \in 1 .. Len(putters[home[d]]) : putters[home[d]][i] = d
          BY <1>1, <3>3, <4>2 DEF LineInv, InLine
        <5>2. home'[d] = home[d] BY <1>1, <4>2
        <5>3. CASE home[d] = q
          <6>1. i \in 1 .. Len(putters'[q]) /\ putters'[q][i] = d
            BY <3>1, <5>1, <5>3
          <6>2. QED BY <5>2, <5>3, <6>1
        <5>4. CASE home[d] # q
          <6>1. home[d] \in Queues
            <7>1. pc[d] = "blocked" BY <1>1, <3>3, <4>2
            <7>2. QED BY <7>1, LineHome DEF ControlInv
          <6>2. QED BY <2>2, <5>1, <5>2, <5>4, <6>1
        <5>5. QED BY <5>3, <5>4
      <4>3. QED BY <4>1, <4>2
    <3>4. QED BY <3>2, <3>3 DEF LineInv, InLine
  <2>3. QED BY <1>3, <2>1, <2>2
<1>5. QED BY <1>4

\* What the worker of q does to a caller when it takes the first request: the
\* first in line gets up, and an instant request is answered.
LEMMA TakesWho ==
    ASSUME QueueTypeOK, NEW q \in Queues, WorkerTakes(q)
    PROVE  \A d \in Callers :
              pc'[d] = IF d \in ToSet(Next1(q)) THEN "woken"
                       ELSE IF d = Head(items[q]) /\ d \in Instant
                       THEN Answered(d) ELSE pc[d]
<1> DEFINE c == Head(items[q])
<1>1. CASE c \in Instant
  <2>1. pc' = [d \in Callers |-> IF d \in ToSet(Next1(q)) THEN "woken"
                                 ELSE [pc EXCEPT ![c] = Answered(c)][d]]
    BY <1>1 DEF WorkerTakes
  <2> HIDE DEF c
  <2>2. \A d \in Callers : [pc EXCEPT ![c] = Answered(c)][d] =
                              IF d = c THEN Answered(c) ELSE pc[d]
    BY DEF QueueTypeOK
  <2>3. QED BY <1>1, <2>1, <2>2 DEF c
<1>2. CASE c \notin Instant
  <2>1. pc' = [d \in Callers |-> IF d \in ToSet(Next1(q)) THEN "woken"
                                 ELSE pc[d]]
    BY <1>2 DEF WorkerTakes
  <2>2. QED BY <1>2, <2>1
<1>3. QED BY <1>1, <1>2

LEMMA WorkerLine ==
    ASSUME QueueTypeOK, ControlInv, LineInv, NEW q \in Queues,
           RunWorker(q) \/ Complete(q)
    PROVE  LineInv'
<1>1. UNCHANGED home BY DEF RunWorker, Complete
<1>2. CASE UNCHANGED <<queue, pc>>
  BY <1>1, <1>2, LineStays DEF queue
<1>3. CASE WorkerAnswers(q)
  <2>1. pc' = [pc EXCEPT ![serving[q]] = Answered(serving[q])]
        /\ UNCHANGED putters
    BY <1>3 DEF WorkerAnswers
  <2>2. \A d \in Callers : pc'[d] = "blocked" <=> pc[d] = "blocked"
    BY <2>1 DEF QueueTypeOK, Answered
  <2>3. QED BY <1>1, <2>1, <2>2, LineStays
<1>4. CASE WorkerTakes(q)
  <2>1. WakeFirst(q) BY <1>4 DEF WorkerTakes
  <2>2. \A d \in Callers : d \in ToSet(Next1(q)) => pc'[d] # "blocked"
    BY <1>4, TakesWho
  <2>3. \A d \in Callers : d \notin ToSet(Next1(q)) =>
           (pc'[d] = "blocked" <=> pc[d] = "blocked")
    BY <1>4, TakesWho DEF Answered
  <2>4. QED BY <1>1, <2>1, <2>2, <2>3, FirstLeaves DEF ControlInv
<1>5. QED
  BY <1>2, <1>3, <1>4 DEF RunWorker, Complete, WorkerDies, WorkerSleeps

LEMMA StopLine ==
    ASSUME QueueTypeOK, LineInv, RunStop \/ Shutdown
    PROVE  LineInv'
BY LineStays DEF RunStop, Shutdown, queue

LEMMA TurnSteady ==
    ASSUME QueueTypeOK, QueueTypeOK', ControlInv, LineInv, SteadyParts,
           NEW c \in Callers, NEW q \in Queues, Turn(c, q)
    PROVE  SteadyParts'
<1> USE DEF SteadyParts
<1>1. /\ \A d \in Callers : d # c => pc'[d] = pc[d] /\ home'[d] = home[d]
      /\ pc[c] \in {"called", "woken"} /\ (pc[c] = "woken" => home[c] = q)
      /\ home'[c] = q
      /\ UNCHANGED <<serving, stop, early>>
      /\ ready # <<>> /\ ready[1] = c
  BY TurnWho
<1>2. /\ items[q] \in Seq(Callers) /\ putters[q] \in Seq(Callers)
      /\ \A p \in Queues : \A i \in 1 .. Len(putters[p]) :
            putters[p][i] \in Callers /\ putters[p][i] # c
  BY TurnWho
<1>3. \/ pc'[c] = "refused" /\ UNCHANGED <<items, putters>> /\ pc[c] = "called"
      \/ /\ pc'[c] = "blocked" /\ UNCHANGED items /\ Full(q)
         /\ putters'[q] = Append(putters[q], c)
         /\ \A p \in Queues : p # q => putters'[p] = putters[p]
      \/ /\ pc'[c] = "waiting" /\ UNCHANGED putters /\ ~Full(q)
         /\ items'[q] = Append(items[q], c)
         /\ \A p \in Queues : p # q => items'[p] = items[p]
  BY TurnWho
<1>5. AcceptedInv'
  <2>1. SUFFICES ASSUME NEW d \in Callers, pc'[d] = "waiting"
                 PROVE  \/ \E i \in 1 .. Len(items'[home'[d]]) :
                              items'[home'[d]][i] = d
                        \/ serving'[home'[d]] = d
    BY DEF AcceptedInv
  <2>2. CASE d = c
    <3>1. items'[q] = Append(items[q], c) BY <1>3, <2>1, <2>2
    <3>2. Len(items[q]) + 1 \in 1 .. Len(items'[q])
          /\ items'[q][Len(items[q]) + 1] = c
      BY <1>2, <3>1
    <3>3. QED BY <1>1, <2>2, <3>2
  <2>3. CASE d # c
    <3>1. /\ home'[d] = home[d]
          /\ \/ \E i \in 1 .. Len(items[home[d]]) : items[home[d]][i] = d
             \/ serving'[home[d]] = d
      BY <1>1, <2>1, <2>3 DEF AcceptedInv
    <3>2. CASE UNCHANGED items BY <3>1, <3>2
    <3>3. CASE items'[q] = Append(items[q], c)
               /\ \A p \in Queues : p # q => items'[p] = items[p]
      <4>1. home[d] \in Queues
        <5>1. pc[d] = "waiting" BY <1>1, <2>1, <2>3
        <5>2. QED BY <5>1, LineHome DEF ControlInv
      <4>2. \A i \in 1 .. Len(items[q]) :
               i \in 1 .. Len(items'[q]) /\ items'[q][i] = items[q][i]
        BY <1>2, <3>3
      <4>3. QED BY <3>1, <3>3, <4>1, <4>2
    <3>4. QED BY <1>3, <3>2, <3>3
  <2>4. QED BY <2>2, <2>3
<1>6. \A d \in Callers, p \in Queues : Awake(d, p)' <=> d # c /\ Awake(d, p)
  BY <1>1, <1>3 DEF Awake
<1>7. PICK s \in {<<>>, <<q>>} :
         /\ ReadyOK(1, s)
         /\ worker' = worker \/ /\ worker[q] \notin {"busy", "resuming"}
                                /\ worker' = [worker EXCEPT ![q] = "ready"]
  <2>1. <<>> \in Seq(Tasks) /\ <<q>> \in Seq(Tasks)
    <3>1. q \in Tasks BY One
    <3>2. QED BY <3>1, One
  <2>2. QED BY <2>1 DEF Turn, Rouses, ReadyOK
<1>8. WokenInv'
  <2>1. ASSUME NEW p \in Queues
        PROVE  \A d \in Callers : Awake(d, p)' => GoesFirst(d, p)'
    <3>1. \A d \in Callers : Awake(d, p)' => Awake(d, p) /\ ready[1] # d
      BY <1>1, <1>6
    <3>2. \A d \in Callers : Awake(d, p) => worker'[p] \in {"busy", "resuming"}
      <4>1. \A d \in Callers : Awake(d, p) => worker[p] \in {"busy", "resuming"}
        BY DEF WokenInv, GoesFirst
      <4>2. worker[p] \in {"busy", "resuming"} => worker'[p] = worker[p]
        BY <1>7 DEF QueueTypeOK
      <4>3. QED BY <4>1, <4>2
    <3>3. Len(items'[p]) \in Nat /\ Len(items'[p]) >= Len(items[p])
      <4>1. Len(items[p]) \in Nat BY DEF QueueTypeOK
      <4>2. Len(Append(items[q], c)) = Len(items[q]) + 1 BY <1>2
      <4>3. QED BY <1>3, <4>1, <4>2
    <3>4. QED BY <1>7, <3>1, <3>2, <3>3, WokenStays
  <2>2. QED BY <2>1 DEF WokenInv
<1>9. LineWaits'
  <2>1. SUFFICES ASSUME NEW p \in Queues, putters'[p] # <<>>,
                        \A d \in Callers : ~Awake(d, p)'
                 PROVE  Len(items'[p]) >= MaxSize
    BY DEF LineWaits, Full
  <2>2. Len(items[q]) \in Nat /\ MaxSize \in Nat /\ Len(items[p]) \in Nat
    <3>1. items[q] \in Seq(Callers) /\ items[p] \in Seq(Callers)
      BY DEF QueueTypeOK
    <3>2. QED BY <3>1, Apart
  <2>3. CASE UNCHANGED items /\ Full(q) /\ p = q
    BY <2>3 DEF Full
  <2>4. CASE putters'[p] = putters[p] /\ items'[p] = items[p]
             /\ (p = q => pc[c] = "called")
    <3>1. ~Awake(c, p) BY <1>1, <2>4 DEF Awake
    <3>2. \A d \in Callers : ~Awake(d, p) BY <1>6, <2>1, <3>1
    <3>3. Full(p) BY <2>1, <2>4, <3>2 DEF LineWaits
    <3>4. QED BY <2>4, <3>3 DEF Full
  <2>5. CASE p = q /\ UNCHANGED putters /\ ~Full(q)
             /\ items'[q] = Append(items[q], c)
    <3>1. PICK d \in Callers : Awake(d, q) BY <2>1, <2>5 DEF LineWaits
    <3>2. Len(items[q]) + 1 >= MaxSize BY <3>1 DEF WokenInv, GoesFirst
    <3>3. Len(items'[q]) = Len(items[q]) + 1 BY <1>2, <2>5
    <3>4. QED BY <2>2, <2>5, <3>2, <3>3
  <2>6. QED BY <1>3, <2>3, <2>4, <2>5
<1>10. Drained'
  <2>1. Scheduled(Stopper)' => Scheduled(Stopper)
    <3>1. ~Added(s, Stopper) /\ s \in Seq(Tasks)
      <4>1. q \in Tasks BY One
      <4>2. CASE s = <<>> BY <4>2, One
      <4>3. CASE s = <<q>> BY <4>1, <4>3, One, Apart
      <4>4. QED BY <1>7, <4>2, <4>3
    <3>2. QED BY <1>7, <3>1, WhoIsDue
             DEF ReadyOK, Kept, Scheduled, QueueTypeOK, Tasks
  <2>2. \A d \in early : d # c \/ pc[c] \in Waiting
    BY <1>1 DEF ControlInv, CalledInv, Waiting
  <2>3. c \in early => pc[c] = "woken"
    BY <1>1 DEF ControlInv, CalledInv
  <2>4. \A d \in early : d \in Callers BY DEF QueueTypeOK
  <2>5. QED BY <1>1, <2>1, <2>2, <2>3, <2>4 DEF Drained
<1>11. QED BY <1>5, <1>8, <1>9, <1>10

\* Who has begun or left stays so.
LEMMA SteadyWas ==
    ASSUME QueueTypeOK, ControlInv, LineInv, QueueNext, Steady'
    PROVE  Steady /\ \A c \in Callers : ~RunLeave(c) /\ ~CallerLeaves(c)
<1> DEFINE Goes(d) == /\ pc'[d] = "out" => pc[d] = "out"
                      /\ pc[d] \in {"leaving", "gone"} =>
                            pc'[d] \in {"leaving", "gone"}
<1>1. \A c \in Callers : ~RunLeave(c) /\ ~CallerLeaves(c)
  <2>1. ASSUME NEW c \in Callers, RunLeave(c) PROVE FALSE
    <3>1. pc'[c] = "gone"
      <4>1. DEFINE passed == IF Full(home[c]) THEN <<>> ELSE Next1(home[c])
      <4>2. pc' = [d \in Callers |-> CASE d = c -> "gone"
                                       [] d \in ToSet(passed) -> "woken"
                                       [] OTHER -> pc[d]]
        BY <2>1 DEF RunLeave
      <4>3. c \notin ToSet(passed)
        <5>1. home[c] \in Queues /\ pc[c] = "leaving"
          BY <2>1, LeaveRuns DEF ControlInv, RunLeave
        <5>2. putters[home[c]] # <<>> => 1 \in 1 .. Len(putters[home[c]])
          BY <5>1 DEF QueueTypeOK
        <5>3. c \notin ToSet(Next1(home[c]))
          BY <5>1, <5>2, FirstType DEF LineInv
        <5>4. ToSet(<<>>) = {} BY DEF ToSet
        <5>5. QED BY <5>3, <5>4
      <4> HIDE DEF passed
      <4>4. QED BY <4>2, <4>3
    <3>2. QED BY <3>1 DEF Steady
  <2>2. ASSUME NEW c \in Callers, CallerLeaves(c) PROVE FALSE
    <3>1. pc'[c] \in {"leaving", "gone"}
      BY <2>2 DEF CallerLeaves, QueueTypeOK
    <3>2. QED BY <3>1 DEF Steady
  <2>3. QED BY <2>1, <2>2
<1>2. \A d \in Callers : Goes(d)
  <2>1. ASSUME NEW c \in Callers, NEW q \in Queues, Turn(c, q)
        PROVE  \A d \in Callers : Goes(d)
    <3>1. pc[c] \in {"called", "woken"} /\ \E w \in {"refused", "blocked",
             "waiting"} : pc' = [pc EXCEPT ![c] = w]
      BY <2>1 DEF Turn, Block, PutNowait
    <3>2. QED BY <3>1 DEF QueueTypeOK
  <2>2. ASSUME NEW c \in Callers, Call(c) PROVE \A d \in Callers : Goes(d)
    BY <2>2 DEF Call, QueueTypeOK
  <2>3. ASSUME NEW q \in Queues, WorkerTakes(q)
        PROVE  \A d \in Callers : Goes(d)
    <3>1. \A d \in Callers : d \in ToSet(Next1(q)) => pc[d] = "blocked"
      <4>1. putters[q] # <<>> => 1 \in 1 .. Len(putters[q])
        BY DEF QueueTypeOK
      <4>2. QED BY <4>1, FirstType DEF LineInv
    <3>2. QED BY <2>3, <3>1, TakesWho DEF Answered
  <2>4. ASSUME NEW q \in Queues, WorkerAnswers(q)
        PROVE  \A d \in Callers : Goes(d)
    BY <2>4 DEF WorkerAnswers, Answered, QueueTypeOK
  <2>5. CASE UNCHANGED pc BY <2>5
  <2>6. QED BY <1>1, <2>1, <2>2, <2>3, <2>4, <2>5, NextCases
           DEF ControlInv, RunWorker, Complete, RunStop, Shutdown,
               WorkerDies, WorkerSleeps
<1>3. Instant \subseteq Callers BY QueueAssumption
<1>4. Steady BY <1>2, <1>3 DEF Steady, QueueTypeOK
<1>5. QED BY <1>1, <1>4

\* With nothing queued and nothing served, nobody waits.
LEMMA NobodyWaits ==
    /\ QueueTypeOK /\ CalledInv /\ WorkerInv /\ LineInv
    /\ AcceptedInv /\ WokenInv /\ LineWaits
    /\ made = 1 /\ items[1] = <<>> /\ serving[1] = NoOne
    => \A d \in Callers : pc[d] \notin Waiting
<1> SUFFICES ASSUME QueueTypeOK, CalledInv, WorkerInv, LineInv, AcceptedInv,
                    WokenInv, LineWaits,
                    made = 1, items[1] = <<>>, serving[1] = NoOne,
                    NEW d \in Callers, pc[d] \in Waiting
             PROVE  FALSE
  OBVIOUS
<1>1. home[d] = 1 /\ 1 \in Queues
  <2>1. home[d] \in 1 .. 1 BY DEF CalledInv, Waiting
  <2>2. QED BY <2>1, Apart
<1>2. \A e \in Callers : ~Awake(e, 1)
  BY <1>1 DEF WokenInv, GoesFirst, WorkerInv
<1>3. putters[1] = <<>>
  <2>1. ~Full(1) BY <1>1, Apart DEF Full
  <2>2. QED BY <1>1, <1>2, <2>1 DEF LineWaits
<1>4. CASE pc[d] = "blocked"
  BY <1>1, <1>3, <1>4 DEF LineInv, InLine
<1>5. CASE pc[d] = "woken" BY <1>1, <1>2, <1>5 DEF Awake
<1>6. CASE pc[d] = "waiting"
  BY <1>1, <1>6, Apart DEF AcceptedInv
<1>7. QED BY <1>4, <1>5, <1>6 DEF Waiting

\* A step that moves nobody in or out of a queue or its line.
LEMMA QuietSteady ==
    ASSUME QueueTypeOK, LineInv, SteadyParts,
           NEW k \in {0, 1}, NEW s, ReadyOK(k, s),
           UNCHANGED <<items, putters, home>>,
           \A d \in Callers : \/ pc'[d] = pc[d]
                              \/ pc[d] = "out" /\ pc'[d] = "called"
                              \/ pc[d] = "waiting" /\ pc'[d] = "answered",
           \A d \in Callers : pc'[d] = "waiting" /\ serving[home[d]] = d =>
               serving'[home[d]] = d,
           k = 1 => ready[1] \notin Callers,
           \A p \in Queues, d \in Callers :
               Awake(d, p) => worker'[p] \in {"busy", "resuming"}
    PROVE  AcceptedInv' /\ WokenInv' /\ LineWaits'
<1> USE DEF SteadyParts
<1>1. \A d \in Callers, p \in Queues : Awake(d, p)' <=> Awake(d, p)
  BY DEF Awake
<1>2. AcceptedInv' BY DEF AcceptedInv
<1>3. WokenInv'
  <2>1. ASSUME NEW p \in Queues
        PROVE  \A d \in Callers : Awake(d, p)' => GoesFirst(d, p)'
    <3>1. Len(items'[p]) \in Nat /\ Len(items'[p]) >= Len(items[p])
      <4>1. items[p] \in Seq(Callers) BY DEF QueueTypeOK
      <4>2. QED BY <4>1
    <3>2. \A d \in Callers : Awake(d, p)' =>
             Awake(d, p) /\ (k = 1 => ready[1] # d)
      BY <1>1
    <3>3. \A d \in Callers : Awake(d, p) => worker'[p] \in {"busy", "resuming"}
      OBVIOUS
    <3>4. QED BY <3>1, <3>2, <3>3, WokenStays
  <2>2. QED BY <2>1 DEF WokenInv
<1>4. LineWaits' BY <1>1 DEF LineWaits, Full
<1>5. QED BY <1>2, <1>3, <1>4

\* And one that lets no join go.
LEMMA QuietDrains ==
    ASSUME QueueTypeOK, ControlInv, Drained, NEW k \in {0, 1}, NEW s,
           ReadyOK(k, s), UNCHANGED <<early, stop>>,
           Added(s, Stopper) => stop # "joining",
           \A d \in Callers : pc'[d] \in Waiting =>
               pc[d] \in Waiting \cup {"out", "called"}
    PROVE  Drained'
<1>1. stop = "joining" /\ Scheduled(Stopper)' => Scheduled(Stopper)
  BY WhoIsDue DEF ReadyOK, Kept, Scheduled, QueueTypeOK, Tasks
<1>2. \A d \in early : d \in Callers /\ pc[d] \notin {"out", "called"}
  BY DEF QueueTypeOK, ControlInv, CalledInv
<1>3. QED BY <1>1, <1>2 DEF Drained

LEMMA CallSteady ==
    ASSUME QueueTypeOK, ControlInv, LineInv, SteadyParts, NEW c \in Callers,
           Call(c)
    PROVE  SteadyParts'
<1>1. /\ UNCHANGED <<items, putters, home, serving, worker, early, stop>>
      /\ pc[c] = "out" /\ pc' = [pc EXCEPT ![c] = "called"]
  BY DEF Call, queue
<1>2. ReadyOK(0, <<c>>) /\ ~Added(<<c>>, Stopper)
  BY One, OutsideRuns, Apart DEF Call
<1>3. \A d \in Callers : \/ pc'[d] = pc[d]
                         \/ pc[d] = "out" /\ pc'[d] = "called"
  BY <1>1 DEF QueueTypeOK
<1>4. \A p \in Queues, d \in Callers :
         Awake(d, p) => worker'[p] \in {"busy", "resuming"}
  BY <1>1 DEF SteadyParts, WokenInv, GoesFirst
<1>5. 0 \in {0, 1} /\ 0 # 1 OBVIOUS
<1>6. AcceptedInv' /\ WokenInv' /\ LineWaits'
  BY <1>1, <1>2, <1>3, <1>4, <1>5, QuietSteady
<1>7. Drained'
  <2>1. \A d \in Callers : pc'[d] \in Waiting => pc[d] \in Waiting
    BY <1>3 DEF Waiting
  <2>2. QED BY <1>1, <1>2, <1>5, <2>1, QuietDrains DEF SteadyParts
<1>8. QED BY <1>6, <1>7 DEF SteadyParts

LEMMA RestSteady ==
    ASSUME QueueTypeOK, ControlInv, LineInv, SteadyParts, NEW q \in Queues,
           Complete(q) \/ (RunWorker(q) /\ (WorkerDies(q) \/ WorkerSleeps(q)))
    PROVE  SteadyParts'
<1>1. UNCHANGED <<items, putters, home, serving, early, stop, pc>>
  BY DEF Complete, RunWorker, WorkerDies, WorkerSleeps, queue
<1>2. \E k \in {0, 1} : \E s \in Seq(Tasks) :
         /\ ReadyOK(k, s) /\ (k = 1 => ready[1] \notin Callers)
         /\ Added(s, Stopper) => stop # "joining"
  <2>0. q \in Tasks /\ Stopper \in Tasks /\ <<>> \in Seq(Tasks)
        /\ <<q>> \in Seq(Tasks) /\ <<Stopper>> \in Seq(Tasks)
        /\ q # Stopper /\ q \notin Callers
    BY One, Apart
  <2>1. CASE Complete(q)
    <3>1. ReadyOK(0, <<q>>) BY <2>0, <2>1, OutsideRuns DEF Complete
    <3>2. ~Added(<<q>>, Stopper) BY <2>0, One
    <3>3. 0 \in {0, 1} /\ 0 # 1 OBVIOUS
    <3>4. QED BY <2>0, <3>1, <3>2, <3>3
  <2>2. ASSUME RunWorker(q), WorkerDies(q) \/ WorkerSleeps(q)
        PROVE  \/ ReadyOK(1, <<>>)
               \/ ReadyOK(1, <<Stopper>>) /\ stop # "joining"
    <3>1. Running(q) BY <2>2 DEF RunWorker
    <3>2. doomed[q] => stop # "joining" BY DEF ControlInv, WorkerInv
    <3>3. QED BY <2>0, <2>2, <3>1, <3>2, HeadRuns DEF WorkerDies, WorkerSleeps
  <2>3. CASE RunWorker(q) /\ (WorkerDies(q) \/ WorkerSleeps(q))
    <3>1. ready[1] = q BY <2>0, <2>3, HeadRuns DEF RunWorker
    <3>2. 1 \in {0, 1} OBVIOUS
    <3>3. QED BY <2>0, <2>2, <2>3, <3>1, <3>2, One
  <2>4. QED BY <2>1, <2>3
<1>3. PICK k \in {0, 1}, s \in Seq(Tasks) :
         /\ ReadyOK(k, s) /\ (k = 1 => ready[1] \notin Callers)
         /\ Added(s, Stopper) => stop # "joining"
  BY <1>2
<1>4. \A p \in Queues, d \in Callers :
         Awake(d, p) => worker'[p] \in {"busy", "resuming"}
  <2>1. \A p \in Queues, d \in Callers :
           Awake(d, p) => worker[p] \in {"busy", "resuming"}
    BY DEF SteadyParts, WokenInv, GoesFirst
  <2>2. Complete(q) \/ \A d \in Callers : ~Awake(d, q)
    BY NoneAwake DEF SteadyParts, RunWorker
  <2>3. /\ \A p \in Queues : p # q => worker'[p] = worker[p]
        /\ Complete(q) => worker'[q] = "resuming"
    <3>1. \E w : worker' = [worker EXCEPT ![q] = w]
      BY DEF Complete, RunWorker, WorkerDies, WorkerSleeps
    <3>2. Complete(q) => worker' = [worker EXCEPT ![q] = "resuming"]
      BY DEF Complete
    <3>3. QED BY <3>1, <3>2 DEF QueueTypeOK
  <2>4. QED BY <2>1, <2>2, <2>3
<1>5. AcceptedInv' /\ WokenInv' /\ LineWaits'
  BY <1>1, <1>3, <1>4, QuietSteady
<1>6. Drained' BY <1>1, <1>3, QuietDrains DEF SteadyParts
<1>7. QED BY <1>5, <1>6 DEF SteadyParts

LEMMA AnswersSteady ==
    ASSUME QueueTypeOK, QueueTypeOK', JoinCountsWhatIsOwed, ControlInv,
           ControlInv', LineInv, LineInv', SteadyParts, NEW q \in Queues,
           RunWorker(q), WorkerAnswers(q)
    PROVE  SteadyParts'
<1> DEFINE c == serving[q]
<1>1. /\ UNCHANGED <<items, putters, home, early, stop, made, current>>
      /\ serving' = [serving EXCEPT ![q] = NoOne]
      /\ worker' = [worker EXCEPT ![q] = "ready"]
      /\ pc' = [pc EXCEPT ![c] = Answered(c)]
      /\ ready' = ready \o Joins(q)
      /\ Running(q) /\ c # NoOne
  BY DEF RunWorker, WorkerAnswers, ControlInv, WorkerInv
<1>2. Joins(q) \in Seq(Tasks) /\ ReadyOK(0, Joins(q))
  BY <1>1, JoinType, HeadRuns, One
<1>3. \A d \in Callers : \/ pc'[d] = pc[d]
                         \/ pc[d] = "waiting" /\ pc'[d] = "answered"
  BY <1>1 DEF QueueTypeOK, Answered
<1>4. \A d \in Callers : pc'[d] = "waiting" /\ serving[home[d]] = d =>
         serving'[home[d]] = d
  <2>1. SUFFICES ASSUME NEW d \in Callers, pc'[d] = "waiting",
                        serving[home[d]] = d
                 PROVE  serving'[home[d]] = d
    OBVIOUS
  <2>2. d # c
    <3>1. Answered(c) # "waiting" BY DEF Answered
    <3>2. c \in Callers => pc'[c] = Answered(c) BY <1>1 DEF QueueTypeOK
    <3> HIDE DEF c
    <3>3. QED BY <2>1, <3>1, <3>2
  <2>3. home[d] # q BY <2>1, <2>2
  <2>4. QED BY <1>1, <2>1, <2>3 DEF QueueTypeOK
<1>5. \A p \in Queues, d \in Callers :
         Awake(d, p) => worker'[p] \in {"busy", "resuming"}
  <2>1. \A d \in Callers : ~Awake(d, q)
    BY <1>1, NoneAwake DEF SteadyParts
  <2>2. \A p \in Queues : p # q => worker'[p] = worker[p]
    BY <1>1 DEF QueueTypeOK
  <2>3. QED BY <2>1, <2>2 DEF SteadyParts, WokenInv, GoesFirst
<1>6. AcceptedInv' /\ WokenInv' /\ LineWaits'
  <2>1. 0 \in {0, 1} /\ 0 # 1 OBVIOUS
  <2> HIDE DEF c
  <2>2. QED BY <1>1, <1>2, <1>3, <1>4, <1>5, <2>1, QuietSteady
<1>7. Drained'
  <2>1. CASE ~Added(Joins(q), Stopper)
    <3>1. \A d \in Callers : pc'[d] \in Waiting => pc[d] \in Waiting
      BY <1>3 DEF Waiting
    <3>2. 0 \in {0, 1} OBVIOUS
    <3>3. QED BY <1>1, <1>2, <2>1, <3>1, <3>2, QuietDrains DEF SteadyParts
  <2>2. CASE Added(Joins(q), Stopper)
    <3>1. stop = "joining" /\ current = q /\ unfinished[q] = 1
      BY <2>2, JoinType
    <3>2. q = 1 /\ made = 1
      <4>1. made \in {0, 1, 2} BY DEF QueueTypeOK, Queues
      <4>2. QED BY <3>1, <4>1, Apart DEF ControlInv, MadeInv
    <3>3. items[q] = <<>>
      <4>1. items[q] \in Seq(Callers) BY DEF QueueTypeOK
      <4>2. unfinished[q] = Len(items[q]) + 1
        BY <1>1 DEF JoinCountsWhatIsOwed
      <4>3. Len(items[q]) = 0 BY <3>1, <4>1, <4>2
      <4>4. QED BY <4>1, <4>3, EmptySeq
    <3>4. serving'[q] = NoOne BY <1>1 DEF QueueTypeOK
    <3>5. (\A d \in Callers : pc[d] \notin Waiting)'
      <4>1. (/\ QueueTypeOK /\ CalledInv /\ WorkerInv /\ LineInv
             /\ AcceptedInv /\ WokenInv /\ LineWaits
             /\ made = 1 /\ items[1] = <<>> /\ serving[1] = NoOne)'
        BY <1>1, <1>6, <3>2, <3>3, <3>4 DEF ControlInv
      <4>2. QED BY <4>1, NobodyWaits, PTL
    <3>6. \A d \in early' : pc'[d] \notin Waiting
      BY <3>5 DEF QueueTypeOK
    <3>7. stop' = "joining" BY <1>1, <3>1
    <3>8. QED BY <3>6, <3>7 DEF Drained
  <2>3. QED BY <2>1, <2>2
<1>8. QED BY <1>6, <1>7 DEF SteadyParts

\* The worker takes a request that will suspend it: the first in line gets up
\* in time for the slot.
LEMMA TakesSteady ==
    ASSUME QueueTypeOK, ControlInv, LineInv, SteadyParts, Steady,
           NEW q \in Queues, RunWorker(q), WorkerTakes(q)
    PROVE  SteadyParts'
<1> USE DEF SteadyParts
<1> DEFINE c == Head(items[q])
           n == Len(items[q])
           first == putters[q][1]
<1>1. /\ items[q] \in Seq(Callers) /\ items[q] # <<>> /\ n \in Nat /\ n >= 1
      /\ c = items[q][1] /\ c \in Callers
      /\ serving[q] = NoOne /\ Running(q)
  <2>1. worker[q] = "ready" /\ items[q] # <<>> /\ Running(q)
    BY DEF WorkerTakes, RunWorker
  <2>2. serving[q] = NoOne BY <2>1 DEF ControlInv, WorkerInv
  <2>3. items[q] \in Seq(Callers) BY DEF QueueTypeOK
  <2>4. QED BY <2>1, <2>2, <2>3
<1>2. c \notin Instant
  <2>1. pc[c] # "out" BY <1>1 DEF ControlInv, CalledInv
  <2>2. QED BY <2>1 DEF Steady
<1>3. /\ UNCHANGED <<home, early, stop, made, current>>
      /\ items' = [items EXCEPT ![q] = Tail(@)]
      /\ serving' = [serving EXCEPT ![q] = c]
      /\ worker' = [worker EXCEPT ![q] = "busy"]
      /\ WakeFirst(q) /\ ready' = Tail(ready) \o Next1(q)
  BY <1>2 DEF WorkerTakes, RunWorker
<1>4. /\ items'[q] = Tail(items[q]) /\ Len(items'[q]) = n - 1
      /\ \A i \in 1 .. n - 1 : items'[q][i] = items[q][i + 1]
      /\ \A p \in Queues : p # q => items'[p] = items[p]
  <2>1. items'[q] = Tail(items[q])
        /\ \A p \in Queues : p # q => items'[p] = items[p]
    BY <1>3 DEF QueueTypeOK
  <2>2. QED BY <1>1, <2>1
<1>5. serving'[q] = c /\ worker'[q] = "busy"
      /\ \A p \in Queues : p # q =>
            serving'[p] = serving[p] /\ worker'[p] = worker[p]
  BY <1>3 DEF QueueTypeOK
<1>6. \A d \in Callers : d \in ToSet(Next1(q)) <=>
                            putters[q] # <<>> /\ d = first
  BY FirstType
<1>7. \A d \in Callers : pc'[d] = IF putters[q] # <<>> /\ d = first
                                     THEN "woken" ELSE pc[d]
  BY <1>2, <1>6, TakesWho
<1>8. putters[q] # <<>> => /\ first \in Callers /\ pc[first] = "blocked"
                           /\ home[first] = q
  <2>1. putters[q] # <<>> => 1 \in 1 .. Len(putters[q])
    BY DEF QueueTypeOK
  <2>2. QED BY <2>1 DEF LineInv, QueueTypeOK
<1>9. \A d \in Callers : ~Awake(d, q) BY <1>1, NoneAwake
<1>10. /\ \A d \in Callers : Awake(d, q)' <=> putters[q] # <<>> /\ d = first
       /\ \A p \in Queues : p # q =>
             \A d \in Callers : Awake(d, p)' <=> Awake(d, p)
  BY <1>3, <1>7, <1>8, <1>9 DEF Awake
<1>11. ReadyOK(1, Next1(q)) /\ ~Kept(1, q) /\ ready[1] = q
  <2>1. ReadyOK(1, Next1(q)) BY <1>1, <1>2, TakeRuns
  <2>2. ~Kept(1, q) BY <1>1, NoneElse DEF ControlInv
  <2>3. ready[1] = q BY <1>1, HeadRuns, One
  <2>4. QED BY <2>1, <2>2, <2>3
<1> HIDE DEF c, first
<1>12. AcceptedInv'
  <2>1. SUFFICES ASSUME NEW d \in Callers, pc'[d] = "waiting"
                 PROVE  \/ \E i \in 1 .. Len(items'[home'[d]]) :
                              items'[home'[d]][i] = d
                        \/ serving'[home'[d]] = d
    BY DEF AcceptedInv
  <2>2. pc[d] = "waiting" /\ home'[d] = home[d] BY <1>3, <1>7, <2>1
  <2>3. home[d] \in Queues BY <2>2, LineHome DEF ControlInv
  <2>4. \/ \E i \in 1 .. Len(items[home[d]]) : items[home[d]][i] = d
        \/ serving[home[d]] = d
    BY <2>2 DEF AcceptedInv
  <2>5. CASE home[d] # q BY <1>4, <1>5, <2>2, <2>3, <2>4, <2>5
  <2>6. CASE home[d] = q
    <3>1. d # NoOne BY Apart
    <3>2. PICK i \in 1 .. n : items[q][i] = d BY <1>1, <2>4, <2>6, <3>1
    <3>3. CASE i = 1 BY <1>1, <1>5, <2>2, <2>6, <3>2, <3>3
    <3>4. CASE i # 1
      <4>1. i - 1 \in 1 .. n - 1 /\ (i - 1) + 1 = i BY <1>1, <3>2, <3>4
      <4>2. items'[q][i - 1] = d BY <1>4, <3>2, <4>1
      <4>3. QED BY <1>4, <2>2, <2>6, <4>1, <4>2
    <3>5. QED BY <3>3, <3>4
  <2>7. QED BY <2>5, <2>6
<1>13. WokenInv'
  <2>1. ASSUME NEW p \in Queues, p # q
        PROVE  \A d \in Callers : Awake(d, p)' => GoesFirst(d, p)'
    <3>1. \A d \in Callers : Awake(d, p)' => Awake(d, p) /\ ready[1] # d
      BY <1>10, <1>11, <2>1, Apart
    <3>2. \A d \in Callers : Awake(d, p) => worker'[p] \in {"busy", "resuming"}
      BY <1>5, <2>1 DEF WokenInv, GoesFirst
    <3>3. Len(items'[p]) \in Nat /\ Len(items'[p]) >= Len(items[p])
      <4>1. items[p] \in Seq(Callers) /\ items'[p] = items[p]
        BY <1>4, <2>1 DEF QueueTypeOK
      <4>2. QED BY <4>1
    <3>4. 1 \in {0, 1} OBVIOUS
    <3>5. QED BY <1>11, <3>1, <3>2, <3>3, <3>4, WokenStays
  <2>2. ASSUME NEW d \in Callers, Awake(d, q)' PROVE GoesFirst(d, q)'
    <3>1. putters[q] # <<>> /\ d = first BY <1>10, <2>2
    <3>2. worker'[q] \in {"busy", "resuming"} BY <1>5
    <3>3. \A e \in Callers : Awake(e, q)' => e = d BY <1>10, <3>1
    <3>4. Len(items'[q]) + 1 >= MaxSize
      <4>1. Full(q) BY <1>9, <3>1 DEF LineWaits
      <4>2. QED BY <1>1, <1>4, <4>1, Apart DEF Full
    <3>5. Scheduled(d)' /\ ~Scheduled(q)'
      <4>1. d \in ToSet(Next1(q)) BY <1>6, <3>1
      <4>2. Added(Next1(q), d) BY <4>1, FirstType
      <4>3. ~Added(Next1(q), q) BY FirstType, Apart
      <4>4. 1 \in {0, 1} /\ ready \in Seq(Tasks) BY DEF QueueTypeOK, Tasks
      <4>5. QED BY <1>11, <4>2, <4>3, <4>4, WhoIsDue DEF ReadyOK
    <3>6. \E i \in 1 .. Len(ready') :
             /\ ready'[i] = d
             /\ \A j \in 1 .. Len(ready') : ready'[j] = q => i < j
      BY <3>5 DEF Scheduled
    <3>7. QED BY <3>2, <3>3, <3>4, <3>6 DEF GoesFirst
  <2>3. QED BY <2>1, <2>2 DEF WokenInv
<1>14. LineWaits'
  <2>1. ASSUME NEW p \in Queues, putters'[p] # <<>>
        PROVE  Len(items'[p]) >= MaxSize \/ \E d \in Callers : Awake(d, p)'
    <3>1. CASE p = q
      <4>1. putters[q] # <<>>
        BY <1>3, <2>1, <3>1 DEF WakeFirst, QueueTypeOK
      <4>2. QED BY <1>8, <1>10, <3>1, <4>1
    <3>2. CASE p # q
      <4>1. putters'[p] = putters[p] /\ items'[p] = items[p]
        BY <1>3, <1>4, <3>2 DEF WakeFirst, QueueTypeOK
      <4>2. QED BY <1>10, <2>1, <3>2, <4>1 DEF LineWaits, Full
    <3>3. QED BY <3>1, <3>2
  <2>2. QED BY <2>1 DEF LineWaits, Full
<1>15. Drained'
  <2>1. ~Added(Next1(q), Stopper) BY FirstType, Apart
  <2>2. \A d \in Callers : pc'[d] \in Waiting => pc[d] \in Waiting
    BY <1>7, <1>8 DEF Waiting
  <2>3. 1 \in {0, 1} OBVIOUS
  <2>4. QED BY <1>3, <1>11, <2>1, <2>2, <2>3, QuietDrains
<1>16. QED BY <1>12, <1>13, <1>14, <1>15

LEMMA StopSteady ==
    ASSUME QueueTypeOK, JoinCountsWhatIsOwed, ControlInv, LineInv,
           SteadyParts, RunStop \/ Shutdown
    PROVE  SteadyParts'
<1> USE DEF SteadyParts
<1>1. UNCHANGED <<made, items, putters, unfinished, serving, pc, home>>
  BY DEF RunStop, Shutdown, queue
<1>2. \E k \in {0, 1} : \E s \in Seq(Tasks) :
         ReadyOK(k, s) /\ (k = 1 => ready[1] \notin Callers)
  <2>1. 0 \in {0, 1} /\ 1 \in {0, 1} /\ 0 # 1 OBVIOUS
  <2>2. CASE Shutdown
    <3>1. ReadyOK(0, <<Stopper>>) BY <2>2, One, OutsideRuns DEF Shutdown
    <3>2. QED BY <2>1, <3>1, One
  <2>3. CASE RunStop
    <3>1. ready[1] \notin Callers BY <2>3, StopRuns, Apart DEF ControlInv
    <3>2. \E j \in {0, 1} : \E r : ReadyOK(j, r)
      BY <2>1, <2>3, StopRuns DEF RunStop, ControlInv
    <3>3. QED BY <3>1, <3>2 DEF ReadyOK
  <2>4. QED BY <2>2, <2>3
<1>3. PICK k \in {0, 1}, s \in Seq(Tasks) :
         ReadyOK(k, s) /\ (k = 1 => ready[1] \notin Callers)
  BY <1>2
<1>4. \A p \in Queues, d \in Callers :
         Awake(d, p) => worker'[p] \in {"busy", "resuming"}
  <2>1. \A p \in Queues, d \in Callers :
           Awake(d, p) => worker[p] \in {"busy", "resuming"}
    BY DEF WokenInv, GoesFirst
  <2>2. \A p \in Queues : worker[p] # "getting" => worker'[p] = worker[p]
    BY DEF RunStop, Shutdown, NothingToStop, BeginStop, CancelWorker, EndStop,
           Woken, QueueTypeOK
  <2>3. QED BY <2>1, <2>2
<1>5. AcceptedInv' /\ WokenInv' /\ LineWaits'
  BY <1>1, <1>3, <1>4, QuietSteady
<1>6. Drained'
  <2>1. CASE Shutdown BY <1>1, <2>1 DEF Shutdown, Drained
  <2>2. CASE NothingToStop BY <1>1, <2>2 DEF NothingToStop, Drained
  <2>3. CASE EndStop BY <1>1, <2>3 DEF EndStop, Drained
  <2>4. CASE RunStop /\ CancelWorker
    <3>1. Scheduled(Stopper)
      <4>1. ready # <<>> /\ ready[1] = Stopper
        BY <2>4, StopRuns DEF ControlInv
      <4>2. 1 \in 1 .. Len(ready) BY <4>1 DEF QueueTypeOK
      <4>3. QED BY <4>1, <4>2 DEF Scheduled
    <3>2. QED BY <1>1, <2>4, <3>1 DEF CancelWorker, Drained
  <2>5. CASE RunStop /\ BeginStop
    <3>1. /\ stop = "called" /\ stop' = "joining" /\ current # 0
          /\ early' \subseteq Callers
      BY <2>5 DEF BeginStop
    <3>2. current = 1 /\ made = 1 /\ 1 \in Queues
      <4>1. made \in {0, 1, 2} BY DEF QueueTypeOK, Queues
      <4>2. QED BY <3>1, <4>1, Apart DEF ControlInv, MadeInv
    <3>3. unfinished[1] \in Nat /\ items[1] \in Seq(Callers)
          /\ unfinished[1] = Len(items[1])
                                + (IF serving[1] = NoOne THEN 0 ELSE 1)
      BY <3>2 DEF QueueTypeOK, JoinCountsWhatIsOwed
    <3>4. CASE unfinished[1] > 0
      <4>1. ReadyOK(1, <<>>) /\ ready # <<>> /\ ready[1] = Stopper
        BY <2>5, <3>2, <3>4, StopRuns DEF Undone, ControlInv
      <4>2. Once(Stopper) BY <3>1 DEF ControlInv, ReadyInv
      <4>3. ready \in Seq(Tasks) BY DEF QueueTypeOK, Tasks
      <4>4. ~Kept(1, Stopper) BY <4>1, <4>2, <4>3 DEF Kept, Once
      <4>5. 1 \in {0, 1} /\ ~Added(<<>>, Stopper) BY One
      <4>6. ~Scheduled(Stopper)'
        BY <4>1, <4>3, <4>4, <4>5, WhoIsDue DEF ReadyOK
      <4>7. QED BY <3>1, <4>6 DEF Drained
    <3>5. CASE ~(unfinished[1] > 0)
      <4>1. Len(items[1]) \in Nat BY <3>3
      <4>2. serving[1] = NoOne
        <5>1. serving[1] # NoOne => unfinished[1] = Len(items[1]) + 1
          BY <3>3
        <5>2. QED BY <3>5, <4>1, <5>1
      <4>3. Len(items[1]) = 0
        <5>1. unfinished[1] = Len(items[1]) + 0 BY <3>3, <4>2
        <5>2. unfinished[1] \in Nat BY <3>3
        <5>3. unfinished[1] = 0 BY <3>5, <5>2
        <5>4. QED BY <4>1, <5>1, <5>3
      <4>4. items[1] = <<>> BY <3>3, <4>3, EmptySeq
      <4>5. \A d \in Callers : pc[d] \notin Waiting
        BY <3>2, <4>2, <4>4, NobodyWaits DEF ControlInv
      <4>6. QED BY <1>1, <3>1, <4>5 DEF Drained
    <3>6. QED BY <3>4, <3>5
  <2>6. QED BY <2>1, <2>2, <2>3, <2>4, <2>5 DEF RunStop
<1>7. QED BY <1>5, <1>6

-----------------------------------------------------------------------------
(* The inductive invariant.                                                  *)

LEMMA StopInvControl == StopInv <=> /\ QueueTypeOK /\ JoinCountsWhatIsOwed
                                    /\ ControlInv /\ LineInv
                                    /\ (Steady => SteadyParts)
BY DEF StopInv, ControlInv, SteadyInv, SteadyParts

LEMMA StopInvInit == QueueInit => StopInv
<1> SUFFICES ASSUME QueueInit PROVE StopInv
  OBVIOUS
<1> USE DEF QueueInit
<1>1. QueueTypeOK
  <2>1. \A S : <<>> \in Seq(S) /\ Len(<<>>) = 0 OBVIOUS
  <2>2. QED BY <2>1, Apart DEF QueueTypeOK
<1>2. JoinCountsWhatIsOwed
  BY DEF JoinCountsWhatIsOwed
<1>3. /\ \A q \in Queues : Len(items[q]) = 0 /\ Len(putters[q]) = 0
      /\ Len(ready) = 0
  OBVIOUS
<1>4. \A t : ~Scheduled(t) /\ Once(t) BY <1>3 DEF Scheduled, Once
<1>5. \A q \in Queues : q > made BY DEF Queues
<1>6. MadeInv /\ WorkerInv /\ NeverCutsAWrite
  BY <1>5 DEF MadeInv, WorkerInv, NeverCutsAWrite
<1>7. ReadyInv /\ LetGoInv BY <1>4 DEF ReadyInv, LetGoInv
<1>8. CalledInv BY <1>3 DEF CalledInv
<1>9. LineInv BY <1>3 DEF LineInv
<1>10. SteadyInv
  BY <1>3 DEF SteadyInv, AcceptedInv, WokenInv, Awake, LineWaits, Drained
<1>11. QED BY <1>1, <1>2, <1>6, <1>7, <1>8, <1>9, <1>10 DEF StopInv

LEMMA StopInvStep == StopInv /\ QueueNext => StopInv'
<1> SUFFICES ASSUME StopInv, QueueNext PROVE StopInv'
  OBVIOUS
<1>1. /\ QueueTypeOK /\ JoinCountsWhatIsOwed /\ ControlInv /\ LineInv
      /\ (Steady => SteadyParts)
  BY StopInvControl
<1>2. /\ QueueTypeOK' /\ JoinCountsWhatIsOwed' /\ ControlInv' /\ LineInv'
      /\ (Steady /\ SteadyParts /\ (\A c \in Callers :
             ~RunLeave(c) /\ ~CallerLeaves(c)) => SteadyParts')
  <2>1. ASSUME NEW c \in Callers, NEW q \in Queues, Turn(c, q)
        PROVE  /\ QueueTypeOK' /\ JoinCountsWhatIsOwed' /\ ControlInv'
               /\ LineInv' /\ (SteadyParts => SteadyParts')
    <3>1. QueueTypeOK' /\ JoinCountsWhatIsOwed' BY <1>1, <2>1, TurnTypes
    <3>2. ControlInv' BY <1>1, <2>1, TurnControl
    <3>3. LineInv' BY <1>1, <2>1, TurnLine
    <3>4. SteadyParts => SteadyParts' BY <1>1, <2>1, <3>1, TurnSteady
    <3>5. QED BY <3>1, <3>2, <3>3, <3>4
  <2>2. ASSUME NEW c \in Callers, RunLeave(c) \/ Call(c) \/ CallerLeaves(c)
        PROVE  /\ QueueTypeOK' /\ JoinCountsWhatIsOwed' /\ ControlInv'
               /\ LineInv'
               /\ (SteadyParts /\ ~RunLeave(c) /\ ~CallerLeaves(c)
                     => SteadyParts')
    <3>1. QueueTypeOK' /\ JoinCountsWhatIsOwed'
      BY <1>1, <2>2, CallerTypes DEF ControlInv
    <3>2. ControlInv' BY <1>1, <2>2, CallerControl
    <3>3. LineInv' BY <1>1, <2>2, CallerLine
    <3>4. SteadyParts /\ ~RunLeave(c) /\ ~CallerLeaves(c) => SteadyParts'
      BY <1>1, <2>2, CallSteady
    <3>5. QED BY <3>1, <3>2, <3>3, <3>4
  <2>3. ASSUME NEW q \in Queues, RunWorker(q) \/ Complete(q)
        PROVE  /\ QueueTypeOK' /\ JoinCountsWhatIsOwed' /\ ControlInv'
               /\ LineInv' /\ (Steady /\ SteadyParts => SteadyParts')
    <3>1. QueueTypeOK' /\ JoinCountsWhatIsOwed'
      BY <1>1, <2>3, WorkerTypes DEF ControlInv
    <3>2. LineInv' BY <1>1, <2>3, WorkerLine
    <3>3. CASE Complete(q)
               \/ (RunWorker(q) /\ (WorkerDies(q) \/ WorkerSleeps(q)))
      <4>1. ControlInv' BY <1>1, <3>3, RestControl
      <4>2. SteadyParts => SteadyParts' BY <1>1, <3>3, RestSteady
      <4>3. QED BY <3>1, <3>2, <4>1, <4>2
    <3>4. CASE RunWorker(q) /\ WorkerTakes(q)
      <4>1. ControlInv' BY <1>1, <3>4, TakesControl
      <4>2. Steady /\ SteadyParts => SteadyParts' BY <1>1, <3>4, TakesSteady
      <4>3. QED BY <3>1, <3>2, <4>1, <4>2
    <3>5. CASE RunWorker(q) /\ WorkerAnswers(q)
      <4>1. ControlInv' BY <1>1, <3>5, AnswersControl
      <4>2. SteadyParts => SteadyParts'
        BY <1>1, <3>1, <3>2, <3>5, <4>1, AnswersSteady
      <4>3. QED BY <3>1, <3>2, <4>1, <4>2
    <3>6. QED BY <2>3, <3>3, <3>4, <3>5 DEF RunWorker
  <2>4. ASSUME RunStop \/ Shutdown
        PROVE  /\ QueueTypeOK' /\ JoinCountsWhatIsOwed' /\ ControlInv'
               /\ LineInv' /\ (SteadyParts => SteadyParts')
    <3>1. QueueTypeOK' /\ JoinCountsWhatIsOwed'
      BY <1>1, <2>4, StopTypes DEF ControlInv
    <3>2. ControlInv' BY <1>1, <2>4, StopControl
    <3>3. LineInv' BY <1>1, <2>4, StopLine
    <3>4. SteadyParts => SteadyParts' BY <1>1, <2>4, StopSteady
    <3>5. QED BY <3>1, <3>2, <3>3, <3>4
  <2>5. QED BY <1>1, <2>1, <2>2, <2>3, <2>4, NextCases DEF ControlInv
<1>3. Steady' => SteadyParts' BY <1>1, <1>2, SteadyWas
<1>4. (/\ QueueTypeOK /\ JoinCountsWhatIsOwed /\ ControlInv /\ LineInv
       /\ (Steady => SteadyParts))'
  BY <1>2, <1>3
<1>5. QED BY <1>4, StopInvControl, PTL

LEMMA StopInvStutter == StopInv /\ UNCHANGED queueVars => StopInv'
<1> SUFFICES ASSUME StopInv, UNCHANGED queueVars PROVE StopInv'
  OBVIOUS
<1>1. UNCHANGED <<ready, current, made, items, putters, unfinished, stopping,
                  worker, doomed, serving, pc, home, stop, early>>
  BY DEF queueVars, queue
<1>2. QueueTypeOK' /\ JoinCountsWhatIsOwed' /\ NeverCutsAWrite'
  BY <1>1 DEF StopInv, QueueTypeOK, JoinCountsWhatIsOwed, NeverCutsAWrite
<1>3. MadeInv' /\ WorkerInv' BY <1>1 DEF StopInv, MadeInv, WorkerInv
<1>4. ReadyInv' /\ LetGoInv'
  BY <1>1 DEF StopInv, ReadyInv, LetGoInv, Once, Scheduled
<1>5. CalledInv' /\ LineInv' BY <1>1 DEF StopInv, CalledInv, LineInv, InLine
<1>6. SteadyInv'
  BY <1>1 DEF StopInv, SteadyInv, Steady, AcceptedInv, WokenInv, LineWaits,
              Drained, Awake, GoesFirst, Scheduled, Full
<1>7. QED BY <1>2, <1>3, <1>4, <1>5, <1>6 DEF StopInv

\* What a stop promises, from the moment it has kept it.
LEMMA StopInvClean == StopInv => StopIsClean
BY DEF StopInv, StopIsClean, SteadyStopDrains, StopDrains, SteadyInv, Drained

LEMMA StopInvHolds == QueueSpec => []StopInv
<1>1. StopInv /\ [QueueNext]_queueVars => StopInv'
  BY StopInvStep, StopInvStutter
<1>2. QED BY <1>1, StopInvInit, PTL DEF QueueSpec

\* The queue, its line and its worker stay well formed, and the queue within
\* its bound, for any number of callers and any bound.
THEOREM QueueTypeCorrect == QueueSpec => []QueueTypeOK
<1>1. StopInv => QueueTypeOK BY DEF StopInv
<1>2. QED BY <1>1, StopInvHolds, PTL

\* Join counts exactly what is owed, no stop cuts a write, and as long as
\* every request suspends the worker and nobody leaves, a stop drains: whoever
\* waited when it began has been answered when it is over, a caller blocked on
\* the full queue included.
THEOREM StopsAreClean == QueueSpec => []StopIsClean
BY StopInvClean, StopInvHolds, PTL

-----------------------------------------------------------------------------
(* The lease.                                                                *)

USE DEF OwnerStates, WorkStates, BeatStates

-----------------------------------------------------------------------------
(* Types, one lemma over the steps of a holder and one over time. *)

LEMMA InitType == Init => TypeOK
BY HoldersAssumption, TimeAssumption DEF Init, TypeOK, NoRow

LEMMA HolderType ==
    ASSUME TypeOK, NEW h \in Holders, HolderStep(h)
    PROVE  TypeOK'
<1> USE HoldersAssumption, TimeAssumption
<1>1. CASE Ask(h) BY <1>1 DEF Ask, TypeOK
<1>2. CASE Acquire(h) BY <1>2 DEF Acquire, StartBeat, TypeOK
<1>3. CASE Refuse(h) BY <1>3 DEF Refuse, TypeOK
<1>4. CASE BeatStale(h) BY <1>4 DEF BeatStale, StopBeat, TypeOK
<1>5. CASE BeatAsk(h) BY <1>5 DEF BeatAsk, TypeOK
<1>6. CASE Renew(h)
  <2>1. row' \in [holder : Holders \cup {NoHolder}, exp : 0 .. MaxTime + TTL]
    BY <1>6 DEF Renew, RenewWith, TypeOK
  <2>2. QED BY <1>6, <2>1 DEF Renew, RenewWith, TypeOK
<1>7. CASE RenewError(h) BY <1>7 DEF RenewError, TypeOK
<1>8. CASE BeatGranted(h) BY <1>8 DEF BeatGranted, StartBeat, TypeOK
<1>9. CASE BeatDenied(h) BY <1>9 DEF BeatDenied, StopBeat, TypeOK
<1>10. CASE StartWork(h) \/ BeginWrite(h) \/ EndWrite(h) \/ EndWork(h)
  BY <1>10 DEF StartWork, BeginWrite, EndWrite, EndWork, WorkMoves, TypeOK
<1>11. CASE Leave(h) \/ Cancel(h)
  BY <1>11 DEF Leave, Cancel, Unwind, StopBeat, TypeOK
<1>12. CASE Stop(h) BY <1>12 DEF Stop, TypeOK
<1>13. CASE Release(h) BY <1>13 DEF Release, NoRow, TypeOK
<1>14. CASE ReleaseError(h) BY <1>14 DEF ReleaseError, TypeOK
<1>15. CASE Crash(h) BY <1>15 DEF Crash, TypeOK
<1>16. QED
  BY <1>1, <1>2, <1>3, <1>4, <1>5, <1>6, <1>7, <1>8, <1>9, <1>10, <1>11,
     <1>12, <1>13, <1>14, <1>15 DEF HolderStep

LEMMA TickType == TypeOK /\ Tick => TypeOK'
BY HoldersAssumption, TimeAssumption DEF Tick, TypeOK

LEMMA NextType == TypeOK /\ [Next]_vars => TypeOK'
<1>1. CASE UNCHANGED vars BY <1>1 DEF vars, TypeOK
<1>2. QED BY <1>1, HolderType, TickType DEF Next

\* Type correctness of the whole lock, for every value of the constants.
THEOREM TypeCorrect == Spec => []TypeOK
BY InitType, NextType, PTL DEF Spec

-----------------------------------------------------------------------------
(* The inductive invariant. *)

LEMMA InitInv == Init => IInv
BY InitType, HoldersAssumption, TimeAssumption
   DEF Init, IInv, StampsInv, FreshInv, PromptInv, HeartbeatInv,
       ThreadInv, Attached, NoRow

\* Time passes only while no Prompt holder has anything due.
LEMMA TickInv == IInv /\ Tick => IInv'
<1> SUFFICES ASSUME IInv, Tick PROVE IInv'
  OBVIOUS
<1> USE HoldersAssumption, TimeAssumption DEF IInv
<1>1. TypeOK' BY TickType
<1>2. now' = now + 1 /\ now \in Nat
  BY DEF Tick, TypeOK
<1>3. UNCHANGED <<row, owner, work, beat, stamp, wake, renewed, lost>>
  BY DEF Tick
<1>4. StampsInv' BY <1>2, <1>3 DEF StampsInv, TypeOK, Tick, Overdue
<1>5. FreshInv' BY <1>3 DEF FreshInv
<1>6. PromptInv'
  <2> SUFFICES ASSUME NEW h \in Prompt, Attached(h)
               PROVE  /\ row.holder = h
                      /\ beat[h] \in {"asleep", "asking", "granted"}
                      /\ beat[h] = "asleep" => /\ now + 1 <= wake[h]
                                               /\ wake[h] = renewed[h] + Beat
                                               /\ row.exp = renewed[h] + TTL
                      /\ beat[h] = "asking" => row.exp > now + 1
                      /\ beat[h] = "granted" => row.exp = now + 1 + TTL
    BY <1>2, <1>3 DEF PromptInv, Attached
  <2>1. h \in Holders /\ ~Overdue(h) BY DEF Tick
  <2>2. beat[h] = "asleep" /\ now < wake[h]
    BY <2>1, <1>2 DEF PromptInv, Overdue, Due, TypeOK
  <2>3. QED BY <2>1, <2>2, <1>2 DEF PromptInv, TypeOK
<1>7. HeartbeatInv'
  BY <1>2, <1>3 DEF HeartbeatInv, Attached, Covered, TypeOK
<1>8. ThreadInv' BY <1>3 DEF ThreadInv, Attached
<1>9. QED BY <1>1, <1>4, <1>5, <1>6, <1>7, <1>8

(* One step of a holder: its own entries change as the action says, those of *)
(* the others do not, and only Acquire, Renew and Release touch the row. *)
LEMMA HolderInv ==
    ASSUME IInv, NEW h \in Holders, HolderStep(h)
    PROVE  IInv'
<1> USE HoldersAssumption, TimeAssumption DEF IInv, TypeOK, Attached, Covered
<1>0. TypeOK' BY HolderType DEF IInv
<1>1. CASE Ask(h)
  <2> USE <1>1 DEF Ask
  <2>1. StampsInv' BY DEF StampsInv
  <2>2. FreshInv' BY DEF FreshInv
  <2>3. PromptInv' BY DEF PromptInv, StampsInv, FreshInv
  <2>4. HeartbeatInv' BY DEF HeartbeatInv, StampsInv, FreshInv
  <2>5. ThreadInv' BY DEF ThreadInv, FreshInv
  <2>6. QED BY <1>0, <2>1, <2>2, <2>3, <2>4, <2>5
<1>2. CASE Acquire(h)
  <2> USE <1>2 DEF Acquire, StartBeat, LiveAt
  <2>1. StampsInv' BY DEF StampsInv, FreshInv
  <2>2. FreshInv' BY DEF FreshInv
  <2>3. PromptInv' BY DEF PromptInv, StampsInv, FreshInv
  <2>4. HeartbeatInv' BY DEF HeartbeatInv, StampsInv, FreshInv
  <2>5. ThreadInv' BY DEF ThreadInv, FreshInv
  <2>6. QED BY <1>0, <2>1, <2>2, <2>3, <2>4, <2>5
<1>3. CASE Refuse(h)
  <2> USE <1>3 DEF Refuse
  <2>1. StampsInv' BY DEF StampsInv, FreshInv
  <2>2. FreshInv' BY DEF FreshInv
  <2>3. PromptInv' BY DEF PromptInv, StampsInv, FreshInv
  <2>4. HeartbeatInv' BY DEF HeartbeatInv, StampsInv, FreshInv
  <2>5. ThreadInv' BY DEF ThreadInv, FreshInv
  <2>6. QED BY <1>0, <2>1, <2>2, <2>3, <2>4, <2>5
<1>4. CASE BeatStale(h)
  <2> USE <1>4 DEF BeatStale, StopBeat, Stale, Due
  <2>1. StampsInv' BY DEF StampsInv
  <2>2. FreshInv' BY DEF FreshInv
  <2>3. PromptInv' BY DEF PromptInv, StampsInv, FreshInv
  <2>4. HeartbeatInv' BY DEF HeartbeatInv, StampsInv, FreshInv
  <2>5. ThreadInv' BY DEF ThreadInv, FreshInv
  <2>6. QED BY <1>0, <2>1, <2>2, <2>3, <2>4, <2>5
<1>5. CASE BeatAsk(h)
  <2> USE <1>5 DEF BeatAsk, Stale, Due
  <2>1. StampsInv' BY DEF StampsInv
  <2>2. FreshInv' BY DEF FreshInv
  <2>3. PromptInv' BY DEF PromptInv, StampsInv, FreshInv
  <2>4. HeartbeatInv' BY DEF HeartbeatInv, StampsInv, FreshInv
  <2>5. ThreadInv' BY DEF ThreadInv, FreshInv
  <2>6. QED BY <1>0, <2>1, <2>2, <2>3, <2>4, <2>5
<1>6. CASE Renew(h)
  <2> USE <1>6 DEF Renew, RenewWith
  <2>1. StampsInv' BY DEF StampsInv, FreshInv
  <2>2. FreshInv' BY DEF FreshInv
  <2>3. PromptInv' BY DEF PromptInv, StampsInv, FreshInv
  <2>4. HeartbeatInv' BY DEF HeartbeatInv, StampsInv, FreshInv
  <2>5. ThreadInv' BY DEF ThreadInv, FreshInv
  <2>6. QED BY <1>0, <2>1, <2>2, <2>3, <2>4, <2>5
<1>7. CASE RenewError(h)
  <2> USE <1>7 DEF RenewError
  <2>1. StampsInv' BY DEF StampsInv
  <2>2. FreshInv' BY DEF FreshInv
  <2>3. PromptInv' BY DEF PromptInv, StampsInv, FreshInv
  <2>4. HeartbeatInv' BY DEF HeartbeatInv, StampsInv, FreshInv
  <2>5. ThreadInv' BY DEF ThreadInv, FreshInv
  <2>6. QED BY <1>0, <2>1, <2>2, <2>3, <2>4, <2>5
<1>8. CASE BeatGranted(h)
  <2> USE <1>8 DEF BeatGranted, StartBeat
  <2>1. StampsInv' BY DEF StampsInv
  <2>2. FreshInv' BY DEF FreshInv
  <2>3. PromptInv' BY DEF PromptInv, StampsInv, FreshInv
  <2>4. HeartbeatInv' BY DEF HeartbeatInv, StampsInv, FreshInv
  <2>5. ThreadInv' BY DEF ThreadInv, FreshInv
  <2>6. QED BY <1>0, <2>1, <2>2, <2>3, <2>4, <2>5
<1>9. CASE BeatDenied(h)
  <2> USE <1>9 DEF BeatDenied, StopBeat
  <2>1. StampsInv' BY DEF StampsInv
  <2>2. FreshInv' BY DEF FreshInv
  <2>3. PromptInv' BY DEF PromptInv, StampsInv, FreshInv
  <2>4. HeartbeatInv' BY DEF HeartbeatInv, StampsInv, FreshInv
  <2>5. ThreadInv' BY DEF ThreadInv, FreshInv
  <2>6. QED BY <1>0, <2>1, <2>2, <2>3, <2>4, <2>5
<1>10. CASE StartWork(h)
  <2> USE <1>10 DEF StartWork, WorkMoves
  <2>1. StampsInv' BY DEF StampsInv
  <2>2. FreshInv' BY DEF FreshInv
  <2>3. PromptInv' BY DEF PromptInv, StampsInv, FreshInv
  <2>4. HeartbeatInv' BY DEF HeartbeatInv, StampsInv, FreshInv
  <2>5. ThreadInv' BY DEF ThreadInv, FreshInv
  <2>6. QED BY <1>0, <2>1, <2>2, <2>3, <2>4, <2>5
<1>11. CASE BeginWrite(h)
  <2> USE <1>11 DEF BeginWrite, WorkMoves
  <2>1. StampsInv' BY DEF StampsInv
  <2>2. FreshInv' BY DEF FreshInv
  <2>3. PromptInv' BY DEF PromptInv, StampsInv, FreshInv
  <2>4. HeartbeatInv' BY DEF HeartbeatInv, StampsInv, FreshInv
  <2>5. ThreadInv' BY DEF ThreadInv, FreshInv
  <2>6. QED BY <1>0, <2>1, <2>2, <2>3, <2>4, <2>5
<1>12. CASE EndWrite(h)
  <2> USE <1>12 DEF EndWrite, WorkMoves
  <2>1. StampsInv' BY DEF StampsInv
  <2>2. FreshInv' BY DEF FreshInv
  <2>3. PromptInv' BY DEF PromptInv, StampsInv, FreshInv
  <2>4. HeartbeatInv' BY DEF HeartbeatInv, StampsInv, FreshInv
  <2>5. ThreadInv' BY DEF ThreadInv, FreshInv
  <2>6. QED BY <1>0, <2>1, <2>2, <2>3, <2>4, <2>5
<1>13. CASE EndWork(h)
  <2> USE <1>13 DEF EndWork, WorkMoves
  <2>1. StampsInv' BY DEF StampsInv
  <2>2. FreshInv' BY DEF FreshInv
  <2>3. PromptInv' BY DEF PromptInv, StampsInv, FreshInv
  <2>4. HeartbeatInv' BY DEF HeartbeatInv, StampsInv, FreshInv
  <2>5. ThreadInv' BY DEF ThreadInv, FreshInv
  <2>6. QED BY <1>0, <2>1, <2>2, <2>3, <2>4, <2>5
<1>14. CASE Leave(h)
  <2> USE <1>14 DEF Leave, Unwind, StopBeat
  <2>1. StampsInv' BY DEF StampsInv
  <2>2. FreshInv' BY DEF FreshInv
  <2>3. PromptInv' BY DEF PromptInv, StampsInv, FreshInv
  <2>4. HeartbeatInv' BY DEF HeartbeatInv, StampsInv, FreshInv
  <2>5. ThreadInv' BY DEF ThreadInv, FreshInv
  <2>6. QED BY <1>0, <2>1, <2>2, <2>3, <2>4, <2>5
<1>15. CASE Cancel(h)
  <2> USE <1>15 DEF Cancel, Unwind, StopBeat
  <2>1. StampsInv' BY DEF StampsInv
  <2>2. FreshInv' BY DEF FreshInv
  <2>3. PromptInv' BY DEF PromptInv, StampsInv, FreshInv
  <2>4. HeartbeatInv' BY DEF HeartbeatInv, StampsInv, FreshInv
  <2>5. ThreadInv' BY DEF ThreadInv, FreshInv
  <2>6. QED BY <1>0, <2>1, <2>2, <2>3, <2>4, <2>5
<1>16. CASE Stop(h)
  <2> USE <1>16 DEF Stop
  <2>1. StampsInv' BY DEF StampsInv
  <2>2. FreshInv' BY DEF FreshInv
  <2>3. PromptInv' BY DEF PromptInv, StampsInv, FreshInv
  <2>4. HeartbeatInv' BY DEF HeartbeatInv, StampsInv, FreshInv
  <2>5. ThreadInv' BY DEF ThreadInv, FreshInv
  <2>6. QED BY <1>0, <2>1, <2>2, <2>3, <2>4, <2>5
<1>17. CASE Release(h)
  <2> USE <1>17 DEF Release, NoRow
  <2>1. StampsInv' BY DEF StampsInv
  <2>2. FreshInv' BY DEF FreshInv
  <2>3. PromptInv' BY DEF PromptInv, StampsInv, FreshInv
  <2>4. HeartbeatInv' BY DEF HeartbeatInv, StampsInv, FreshInv
  <2>5. ThreadInv' BY DEF ThreadInv, FreshInv
  <2>6. QED BY <1>0, <2>1, <2>2, <2>3, <2>4, <2>5
<1>18. CASE ReleaseError(h)
  <2> USE <1>18 DEF ReleaseError
  <2>1. StampsInv' BY DEF StampsInv
  <2>2. FreshInv' BY DEF FreshInv
  <2>3. PromptInv' BY DEF PromptInv, StampsInv, FreshInv
  <2>4. HeartbeatInv' BY DEF HeartbeatInv, StampsInv, FreshInv
  <2>5. ThreadInv' BY DEF ThreadInv, FreshInv
  <2>6. QED BY <1>0, <2>1, <2>2, <2>3, <2>4, <2>5
<1>19. CASE Crash(h)
  <2> USE <1>19 DEF Crash
  <2>1. StampsInv' BY DEF StampsInv
  <2>2. FreshInv' BY DEF FreshInv
  <2>3. PromptInv' BY DEF PromptInv, StampsInv, FreshInv
  <2>4. HeartbeatInv' BY DEF HeartbeatInv, StampsInv, FreshInv
  <2>5. ThreadInv' BY DEF ThreadInv, FreshInv
  <2>6. QED BY <1>0, <2>1, <2>2, <2>3, <2>4, <2>5
<1>20. QED
  BY <1>1, <1>2, <1>3, <1>4, <1>5, <1>6, <1>7, <1>8, <1>9, <1>10, <1>11,
     <1>12, <1>13, <1>14, <1>15, <1>16, <1>17, <1>18, <1>19 DEF HolderStep

LEMMA NextInv == IInv /\ [Next]_vars => IInv'
<1>1. CASE UNCHANGED vars
  BY <1>1 DEF vars, IInv, TypeOK, StampsInv, FreshInv, PromptInv,
              HeartbeatInv, ThreadInv, Attached, Covered
<1>2. QED BY <1>1, HolderInv, TickInv DEF Next

THEOREM Invariance == Spec => []IInv
BY InitInv, NextInv, PTL DEF Spec

-----------------------------------------------------------------------------
(* The promises. *)

\* Two uncancelled holders with a heartbeat that keeps up never write the
\* guarded store together: each would own the one row.
THEOREM Exclusion == Spec => []WritersExclusive
<1>1. IInv => WritersExclusive
  BY DEF IInv, PromptInv, WritersExclusive
<1>2. QED BY <1>1, Invariance, PTL

\* When every such holder works in the thread that owns its lease, as all code
\* index operations do, there is no exception to make: they never overlap.
THEOREM GateExclusion ==
    ASSUME Prompt \subseteq InThread
    PROVE  Spec => []NeverConcurrent
<1>1. IInv => NeverConcurrent
  BY DEF IInv, PromptInv, ThreadInv, NeverConcurrent
<1>2. QED BY <1>1, Invariance, PTL

\* `lost` is raised only when the hold is really over.
THEOREM NoFalseAlarm == Spec => []LostIsTrue
<1>1. IInv => LostIsTrue
  BY DEF IInv, HeartbeatInv, LostIsTrue, Attached
<1>2. QED BY <1>1, Invariance, PTL

\* An unexpired row changes hands only by its own holder's release.
THEOREM NoTheft == Spec => LiveHoldIsSafe
<1>1. ASSUME IInv, Next, NEW h \in Holders, Covered(h), row'.holder # h
      PROVE  owner[h] = "releasing"
  <2>1. PICK g \in Holders : HolderStep(g)
    BY <1>1 DEF Next, Tick, Covered
  <2>2. CASE Acquire(g)
    <3>1. row.exp <= stamp[g]
      BY <1>1, <2>2, HoldersAssumption
      DEF Acquire, LiveAt, Covered, IInv, TypeOK
    <3>2. QED
      BY <1>1, <3>1 DEF IInv, StampsInv, TypeOK, Covered
  <2>3. CASE Renew(g)
    BY <1>1, <2>3 DEF Renew, RenewWith, Covered, IInv, TypeOK
  <2>4. CASE Release(g)
    BY <1>1, <2>4 DEF Release, Covered
  <2>5. CASE row' = row
    BY <1>1, <2>5 DEF Covered
  <2>6. QED
    BY <2>1, <2>2, <2>3, <2>4, <2>5
       DEF HolderStep, Ask, Refuse, BeatStale, BeatAsk, RenewError,
           BeatGranted, BeatDenied, StartWork, BeginWrite, EndWrite, EndWork,
           WorkMoves, Leave, Cancel, Unwind, Stop, ReleaseError, Crash
<1>2. IInv /\ [Next]_vars =>
        [\A h \in Holders :
            Covered(h) /\ row'.holder # h => owner[h] = "releasing"]_vars
  BY <1>1
<1>3. QED BY <1>2, Invariance, PTL DEF Spec, LiveHoldIsSafe

\* An operation that has lost the row never owns it again.
THEOREM NoRegain == Spec => LostForGood
<1>1. ASSUME TypeOK, Next, NEW h \in Holders, Attached(h), row.holder # h
      PROVE  row'.holder # h
  <2>1. CASE Tick BY <1>1, <2>1 DEF Tick
  <2>2. ASSUME NEW g \in Holders, HolderStep(g) PROVE row'.holder # h
    <3>1. CASE Acquire(g)
      BY <1>1, <3>1 DEF Acquire, Attached
    <3>2. CASE Renew(g)
      BY <1>1, <3>2 DEF Renew, RenewWith, TypeOK
    <3>3. CASE Release(g)
      BY <1>1, <3>3, HoldersAssumption DEF Release, NoRow
    <3>4. CASE row' = row
      BY <1>1, <3>4
    <3>5. QED
      BY <2>2, <3>1, <3>2, <3>3, <3>4
         DEF HolderStep, Ask, Refuse, BeatStale, BeatAsk, RenewError,
             BeatGranted, BeatDenied, StartWork, BeginWrite, EndWrite, EndWork,
             WorkMoves, Leave, Cancel, Unwind, Stop, ReleaseError, Crash
  <2>3. QED BY <1>1, <2>1, <2>2 DEF Next
<1>2. TypeOK /\ [Next]_vars =>
        [\A h \in Holders :
            Attached(h) /\ row.holder # h => row'.holder # h]_vars
  BY <1>1
<1>3. QED BY <1>2, TypeCorrect, PTL DEF Spec, LostForGood
-----------------------------------------------------------------------------
(* The lease is a gate. *)

\* A holder that acquires finds no live row, whenever it read the clock.
LEMMA AcquireEnters ==
    ASSUME IInv, NEW h \in Holders, Acquire(h)
    PROVE  Lease!Enter(h)
<1> USE HoldersAssumption, TimeAssumption DEF IInv, TypeOK
<1>1. stamp[h] <= now /\ (h \in Prompt => stamp[h] = now)
  BY DEF StampsInv, Acquire
<1>2. ~LiveAt(now)
  BY <1>1 DEF Acquire, LiveAt
<1>3. ~Attached(h)
  BY DEF Acquire, Attached
<1>4. {g \in Holders : Attached(g)}'
        = {g \in Holders : Attached(g)} \cup {h}
  BY DEF Acquire, Attached
<1>5. h \in Prompt => LiveAt(now)'
  BY <1>1 DEF Acquire, LiveAt
<1>6. QED BY <1>2, <1>3, <1>4, <1>5 DEF Lease!Enter, LiveAt

\* In a step of any other kind nobody enters, and a prompt holder that stays
\* keeps the row.
LEMMA OtherStepsPass ==
    ASSUME IInv, IInv', NEW h \in Holders, HolderStep(h), ~Acquire(h)
    PROVE  Lease!Pass
<1> USE HoldersAssumption, TimeAssumption DEF IInv, TypeOK
<1>1. \A g \in Holders : Attached(g)' => Attached(g)
  BY DEF HolderStep, Ask, Refuse, BeatStale, BeatAsk, Renew, RenewWith,
         RenewError, BeatGranted, BeatDenied, StartWork, BeginWrite, EndWrite,
         EndWork, WorkMoves, Leave, Cancel, Unwind, Stop, Release,
         ReleaseError, Crash, Attached
<1>2. ASSUME NEW g \in Prompt, Attached(g)'
      PROVE  LiveAt(now)' = LiveAt(now)
  <2>1. Attached(g) /\ row.holder = g /\ row'.holder = g
    BY <1>1, <1>2 DEF PromptInv, Attached
  <2>2. CASE row' = row
    <3>1. now' = now
      BY DEF HolderStep, Ask, Refuse, BeatStale, BeatAsk, Renew, RenewWith,
         RenewError, BeatGranted, BeatDenied, StartWork, BeginWrite, EndWrite,
         EndWork, WorkMoves, Leave, Cancel, Unwind, Stop, Release,
         ReleaseError, Crash
    <3>2. QED BY <2>2, <3>1 DEF LiveAt
  <2>3. CASE Release(h)
    BY <2>1, <2>3 DEF Release, NoRow, Attached, LiveAt
  <2>4. CASE Renew(h)
    <3>1. CASE row' = row
      BY <3>1, <2>2
    <3>2. CASE row' # row
      <4>1. h = g /\ beat[g] = "asking" /\ stamp[g] = now
        BY <3>2, <2>1, <2>4 DEF Renew, RenewWith, StampsInv
      <4>2. row.exp > now /\ row'.exp > now /\ now' = now
        BY <4>1, <3>2, <2>4 DEF Renew, RenewWith
      <4>3. QED BY <4>2, <2>1 DEF LiveAt
    <3>3. QED BY <3>1, <3>2
  <2>5. QED
    BY <2>2, <2>3, <2>4
       DEF HolderStep, Ask, Refuse, BeatStale, BeatAsk, RenewError,
           BeatGranted, BeatDenied, StartWork, BeginWrite, EndWrite, EndWork,
           WorkMoves, Leave, Cancel, Unwind, Stop, ReleaseError, Crash
<1>3. {g \in Holders : Attached(g)}' \subseteq {g \in Holders : Attached(g)}
  BY <1>1
<1>4. LiveAt(now)' \in BOOLEAN
  BY DEF LiveAt
<1>5. {g \in Holders : Attached(g)}' \cap Prompt # {} =>
         LiveAt(now)' = LiveAt(now)
  BY <1>2
<1>6. QED BY <1>3, <1>4, <1>5 DEF Lease!Pass

\* A prompt holder's row outlives every tick of the clock.
LEMMA TickPasses ==
    ASSUME IInv, IInv', Tick
    PROVE  Lease!Pass
<1> USE HoldersAssumption, TimeAssumption DEF IInv, TypeOK
<1>1. \A g \in Holders : Attached(g)' = Attached(g)
  BY DEF Tick, Attached
<1>2. ASSUME NEW g \in Prompt, Attached(g)
      PROVE  LiveAt(now)' = LiveAt(now)
  <2>1. beat[g] = "asleep" /\ now < wake[g] /\ row.exp = renewed[g] + TTL
        /\ wake[g] = renewed[g] + Beat /\ row.holder = g
    BY <1>2 DEF PromptInv, Tick, Overdue, Due
  <2>2. row.exp > now + 1
    BY <2>1
  <2>3. QED BY <2>1, <2>2 DEF Tick, LiveAt
<1>3. {g \in Holders : Attached(g)}' \subseteq {g \in Holders : Attached(g)}
  BY <1>1
<1>4. LiveAt(now)' \in BOOLEAN
  BY DEF LiveAt
<1>5. {g \in Holders : Attached(g)}' \cap Prompt # {} =>
         LiveAt(now)' = LiveAt(now)
  BY <1>1, <1>2
<1>6. QED BY <1>3, <1>4, <1>5 DEF Lease!Pass

\* The detailed lease implements the abstract gate that the other modules use
\* in its place: to its users it has no clock.
THEOREM LeaseImplementsGate == Spec => LeaseIsAGate
<1>1. Init => Lease!GateInit
  BY DEF Init, Lease!GateInit, Attached, LiveAt, NoRow
<1>2. IInv /\ IInv' /\ [Next]_vars => [Lease!GateNext]_Lease!gate
  <2> SUFFICES ASSUME IInv, IInv', [Next]_vars
               PROVE  [Lease!GateNext]_Lease!gate
    OBVIOUS
  <2>1. CASE Tick BY <2>1, TickPasses DEF Lease!GateNext
  <2>2. ASSUME NEW h \in Holders, HolderStep(h) PROVE Lease!GateNext
    BY <2>2, AcquireEnters, OtherStepsPass DEF Lease!GateNext
  <2>3. CASE UNCHANGED vars
    BY <2>3 DEF vars, Lease!gate, Attached, LiveAt
  <2>4. QED BY <2>1, <2>2, <2>3 DEF Next
<1>3. QED
  BY <1>1, <1>2, Invariance, PTL DEF Spec, LeaseIsAGate, Lease!GateSpec

\* What the abstract gate promises, the lease keeps: two prompt operations are never
\* inside together, whatever the others do, since the gate is shut on the first.
THEOREM GateExcludes == Spec => []Lease!OneInside
<1> USE DEF Lease!GateInv, Lease!OneInside
<1>1. Lease!GateInit => Lease!GateInv
  BY DEF Lease!GateInit
<1>2. Lease!GateInv /\ [Lease!GateNext]_Lease!gate => Lease!GateInv'
  <2> SUFFICES ASSUME Lease!GateInv, [Lease!GateNext]_Lease!gate PROVE Lease!GateInv'
    OBVIOUS
  <2>1. CASE Lease!Pass BY <2>1 DEF Lease!Pass
  <2>2. ASSUME NEW h \in Holders, Lease!Enter(h) PROVE Lease!GateInv'
    BY <2>2 DEF Lease!Enter
  <2>3. CASE UNCHANGED Lease!gate BY <2>3 DEF Lease!gate
  <2>4. QED BY <2>1, <2>2, <2>3 DEF Lease!GateNext
<1>3. Lease!GateInv => Lease!OneInside
  OBVIOUS
<1>4. QED
  BY <1>1, <1>2, <1>3, LeaseImplementsGate, PTL DEF LeaseIsAGate, Lease!GateSpec
===============================================================================
