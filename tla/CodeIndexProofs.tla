-------------------------- MODULE CodeIndexProofs --------------------------
(* For any number of servers, users and roots, and any faults: the code      *)
(* index is a system of jobs, and has what IndexJobsProofs shows of every    *)
(* such system; what was deleted stays deleted, changes are noticed, and     *)
(* baselines are honest.                                                     *)
EXTENDS CodeIndex, IndexJobsProofs

\* A step that leaves the jobs alone, but for a fault of its own.
Aside == UNCHANGED work /\ FaultOrNone

\* What a poller knows: the type invariant without that of the jobs.
Kept ==
    /\ PollerType /\ WatchType
    /\ durable \in [Roots -> Signatures \cup {None}]
    /\ site \in Sites /\ enabled \in BOOLEAN
    /\ overtaken \subseteq Servers /\ putoff \in [Servers -> SUBSET Roots]
    /\ asked \in [Calls -> 0 .. MaxCalls]

LEMMA FaultIsOne == ASSUME NEW kind, Fault(kind) PROVE FaultOrNone
BY DEF Fault, FaultOrNone

LEMMA UnchangedIsNone == ASSUME UNCHANGED used PROVE FaultOrNone
BY DEF FaultOrNone

LEMMA JobsOfPollers == Servers \subseteq Jobs /\ Calls \subseteq Jobs
BY CodeIndexAssumption DEF Jobs, Calls

LEMMA WorldMoves == ASSUME World PROVE [JobsNext]_jobs
<1> USE FaultIsOne, UnchangedIsNone DEF jobs
<1>1. CASE Switch
  <2>1. Aside BY <1>1 DEF Switch, Aside
  <2>2. QED BY <2>1 DEF Aside, JobsNext
<1>2. ASSUME NEW r \in Roots, Change(r) PROVE [JobsNext]_jobs
  BY <1>2 DEF Change, JobsNext
<1>3. ASSUME NEW s \in Servers, ListAges(s) \/ ObserverDies(s)
      PROVE  [JobsNext]_jobs
  <2>1. UNCHANGED jobs \/ Aside BY <1>3 DEF ListAges, ObserverDies, Aside
  <2>2. QED BY <2>1 DEF Aside, JobsNext
<1>4. ASSUME NEW s \in Servers, NEW r \in Roots, Deliver(s, r) \/ Time(s, r)
      PROVE  UNCHANGED jobs
  BY <1>4 DEF Deliver, Time, DebouncePasses, ReconcilePasses, RetryPasses
<1>5. QED BY <1>1, <1>2, <1>3, <1>4 DEF World

\* What a poller does between its jobs.
LEMMA PollerMoves ==
    ASSUME NEW s \in Servers,
           \/ Start(s) \/ Stop(s) \/ Deactivate(s) \/ ListFails(s)
           \/ RefreshBlind(s) \/ Coordinator(s) \/ RootMissing(s) \/ Unable(s)
           \/ SkipBlocked(s) \/ Save(s)
    PROVE  UNCHANGED jobs \/ Aside
<1> USE FaultIsOne, UnchangedIsNone DEF jobs, Aside
<1>1. CASE Start(s) BY <1>1 DEF Start
<1>2. CASE Stop(s) BY <1>2 DEF Stop
<1>3. CASE Deactivate(s) BY <1>3 DEF Deactivate
<1>4. CASE ListFails(s) BY <1>4 DEF ListFails
<1>5. CASE RefreshBlind(s) BY <1>5 DEF RefreshBlind, RefreshBut
<1>6. CASE Coordinator(s)
  BY <1>6 DEF Coordinator, Poll, List, Refresh, RefreshBut, Visit, Sleep
<1>7. CASE RootMissing(s) BY <1>7 DEF RootMissing
<1>8. CASE Unable(s) BY <1>8 DEF Unable
<1>9. CASE SkipBlocked(s) BY <1>9 DEF SkipBlocked
<1>10. CASE Save(s) BY <1>10 DEF Save
<1>11. QED
  BY <1>1, <1>2, <1>3, <1>4, <1>5, <1>6, <1>7, <1>8, <1>9, <1>10

\* How a poller submits its job and hears of its end.
LEMMA PollerSubmits ==
    ASSUME Kept, NEW s \in Servers,
           Evaluate(s) \/ GitRead(s) \/ Refused(s) \/ Heard(s) \/ Reap(s)
    PROVE  \/ Aside
           \/ Rest(s) /\ FaultOrNone
           \/ \E r \in Roots : Submit(s, r) /\ FaultOrNone
<1> USE UnchangedIsNone DEF Kept, PollerType
<1>1. CASE Evaluate(s)
  <2>1. at[s] \in Roots BY <1>1 DEF Evaluate
  <2>2. QED BY <1>1, <2>1 DEF Evaluate, Reindex, Aside
<1>2. CASE GitRead(s)
  <2>1. at[s] \in Roots BY <1>2 DEF GitRead
  <2>2. QED BY <1>2, <2>1 DEF GitRead, Reindex, Aside
<1>3. CASE Refused(s) BY <1>3 DEF Refused, Taken
<1>4. CASE Heard(s) BY <1>4 DEF Heard, Taken
<1>5. CASE Reap(s) BY <1>5 DEF Reap, Taken
<1>6. QED BY <1>1, <1>2, <1>3, <1>4, <1>5

LEMMA ServerMoves ==
    ASSUME Kept, NEW s \in Servers, Server(s) PROVE [JobsNext]_jobs
<1> s \in Jobs BY JobsOfPollers
<1>1. CASE Crash(s)
  <2>1. JobsAt(s) \in SUBSET Jobs BY JobsOfPollers DEF JobsAt
  <2>2. QED BY <1>1, <2>1 DEF Crash, JobsNext
<1>2. CASE \/ Start(s) \/ Stop(s) \/ Deactivate(s) \/ ListFails(s)
           \/ RefreshBlind(s) \/ Coordinator(s) \/ RootMissing(s)
           \/ Unable(s) \/ SkipBlocked(s) \/ Save(s)
  <2>1. UNCHANGED jobs \/ Aside BY <1>2, PollerMoves
  <2>2. QED BY <2>1 DEF Aside, JobsNext
<1>3. CASE Evaluate(s) \/ GitRead(s) \/ Refused(s) \/ Heard(s) \/ Reap(s)
  <2>1. \/ Aside
        \/ Rest(s) /\ FaultOrNone
        \/ \E r \in Roots : Submit(s, r) /\ FaultOrNone
    BY <1>3, PollerSubmits
  <2>2. QED BY <2>1 DEF Aside, JobsNext
<1>4. QED BY <1>1, <1>2, <1>3 DEF Server, Examine

LEMMA UserMoves ==
    ASSUME NEW c \in Calls, Ask(c) \/ Answer(c) PROVE [JobsNext]_jobs
<1> USE FaultIsOne, UnchangedIsNone
<1> c \in Jobs BY JobsOfPollers
<1>1. CASE Ask(c)
  <2>1. PICK r \in Roots : Submit(c, r) BY <1>1 DEF Ask
  <2>2. FaultOrNone BY <1>1 DEF Ask
  <2>3. QED BY <2>1, <2>2 DEF JobsNext
<1>2. CASE Answer(c)
  <2>1. Rest(c) /\ FaultOrNone BY <1>2 DEF Answer
  <2>2. QED BY <2>1 DEF JobsNext
<1>3. QED BY <1>1, <1>2

\* Every step of the code index is a step of its jobs, or none of theirs.
LEMMA StepsAreJobs ==
    ASSUME Kept, [Next]_vars PROVE [JobsNext]_jobs
<1> USE UnchangedIsNone
<1>1. CASE UNCHANGED vars BY <1>1 DEF vars
<1>2. CASE World BY <1>2, WorldMoves
<1>3. CASE LeaseEnds \/ \E o \in late : LateWrite(o) BY <1>3 DEF JobsNext
<1>4. ASSUME NEW s \in Servers, Server(s) PROVE [JobsNext]_jobs
  BY <1>4, ServerMoves
<1>5. ASSUME NEW c \in Calls, Ask(c) \/ Answer(c) PROVE [JobsNext]_jobs
  BY <1>5, UserMoves
<1>6. ASSUME NEW j \in Jobs, JobStep(j) PROVE [JobsNext]_jobs
  BY <1>6 DEF JobStep, JobsNext
<1>7. ASSUME NEW c \in Deleters, Deletion(c) PROVE [JobsNext]_jobs
  <2>1. c \in Jobs BY DEF Jobs
  <2>2. QED BY <1>7, <2>1 DEF Deletion, Overtakes, JobsNext
<1>8. QED BY <1>1, <1>2, <1>3, <1>4, <1>5, <1>6, <1>7 DEF Next

-----------------------------------------------------------------------------
(* Types. *)

LEMMA WatchStays == ASSUME Kept, UNCHANGED watch PROVE WatchType'
BY DEF Kept, WatchType, watch

LEMMA StartsKept == ASSUME Init PROVE Kept
BY CodeIndexAssumption
   DEF Init, Kept, PollerType, WatchType, PCs, NoMode, NoDeadline, NoBaseline,
       Deadlines

LEMMA KeptByWorld == ASSUME Kept, World PROVE Kept'
<1> USE DEF Kept, PollerType, WatchType, flags, coroutine, watch, ghost
<1>1. CASE Switch BY <1>1 DEF Switch
<1>2. ASSUME NEW r \in Roots, Change(r) PROVE Kept' BY <1>2 DEF Change
<1>3. ASSUME NEW s \in Servers, ListAges(s) PROVE Kept' BY <1>3 DEF ListAges
<1>4. ASSUME NEW s \in Servers, ObserverDies(s) PROVE Kept'
  BY <1>4 DEF ObserverDies
<1>5. ASSUME NEW s \in Servers, NEW r \in Roots, Deliver(s, r) \/ Time(s, r)
      PROVE  Kept'
  <2>1. CASE Deliver(s, r) BY <1>5, <2>1 DEF Deliver, Deadlines
  <2>2. CASE DebouncePasses(s, r)
    BY <1>5, <2>2 DEF DebouncePasses, Deadlines
  <2>3. CASE ReconcilePasses(s, r) BY <1>5, <2>3 DEF ReconcilePasses
  <2>4. CASE RetryPasses(s, r) BY <1>5, <2>4 DEF RetryPasses, Deadlines
  <2>5. QED BY <1>5, <2>1, <2>2, <2>3, <2>4 DEF Time
<1>6. QED BY <1>1, <1>2, <1>3, <1>4, <1>5 DEF World

LEMMA ForgottenIsKept ==
    ASSUME Kept, NEW s \in Servers, ForgetServer(s),
           UNCHANGED <<site, enabled, overtaken, asked>>,
           durable' \in [Roots -> Signatures \cup {None}]
    PROVE  Kept'
<1> USE DEF Kept, ForgetServer, Goto
<1>1. PollerType' BY DEF PollerType, PCs
<1>2. WatchType'
  BY DEF WatchType, NoMode, NoDeadline, NoBaseline, Deadlines
<1>3. QED BY <1>1, <1>2

LEMMA SavedIsKept ==
    ASSUME Kept, NEW s \in Servers, pc[s] = "saving", SaveState(s)
    PROVE  durable' \in [Roots -> Signatures \cup {None}]
BY DEF Kept, PollerType, WatchType, SaveState

LEMMA KeptByLife ==
    ASSUME Kept, NEW s \in Servers,
           Start(s) \/ Stop(s) \/ Crash(s) \/ Deactivate(s) \/ Reap(s)
    PROVE  Kept'
<1>1. CASE Start(s)
  BY <1>1
     DEF Start, Goto, Kept, PollerType, WatchType, PCs, flags, watch, ghost
<1>2. CASE Stop(s)
  <2>1. durable' \in [Roots -> Signatures \cup {None}]
    BY <1>2, SavedIsKept DEF Stop, Kept
  <2>2. QED BY <1>2, <2>1, ForgottenIsKept DEF Stop
<1>3. CASE Crash(s)
  <2>1. durable' \in [Roots -> Signatures \cup {None}]
    BY <1>3 DEF Crash, flags, Kept
  <2>2. QED BY <1>3, <2>1, ForgottenIsKept DEF Crash, flags
<1>4. CASE Deactivate(s)
  <2>1. PollerType'
    BY <1>4 DEF Deactivate, coroutine, Kept, PollerType
  <2>2. WatchType'
    BY <1>4 DEF Deactivate, Kept, WatchType, Deadlines
  <2>3. QED BY <1>4, <2>1, <2>2 DEF Deactivate, Kept, WatchType, flags
<1>5. CASE Reap(s)
  BY <1>5
     DEF Reap, Taken, Kept, PollerType, WatchType, flags, watch, ghost
<1>6. QED BY <1>1, <1>2, <1>3, <1>4, <1>5

\* A scan begins with the watch set w, of which only add may be new.
LEMMA KeptByScan ==
    ASSUME Kept, NEW s \in Servers, NEW w \in SUBSET Roots,
           NEW add \in SUBSET Roots, BeginScan(s, w, add),
           w \subseteq watched[s] \cup add, add \subseteq w,
           UNCHANGED <<flags, at, cand, ghost>>,
           listed' \in [Servers -> SUBSET Roots],
           fresh' \in [Servers -> BOOLEAN],
           seen' \in [Servers -> [Roots -> Signatures \cup {None}]],
           debounce' \in [Servers -> [Roots -> Deadlines]],
           overdue' \in [Servers -> SUBSET Roots],
           retry' \in [Servers -> [Roots -> Deadlines]],
           failed' \in [Servers -> SUBSET Roots]
    PROVE  Kept'
<1> USE DEF BeginScan, Goto, Kept
<1>1. PollerType' BY DEF PollerType, PCs
<1>2. mode' \in [Servers -> [Roots -> {"off", "disabled", "events",
                                         "fallback"}]]
  <2>1. Modes(s, w, add) \in [Roots -> {"off", "disabled", "events",
                                        "fallback"}]
    BY DEF WatchType, Modes, WatchMode
  <2>2. QED BY <2>1 DEF WatchType
<1>3. ASSUME NEW p \in Servers, NEW r \in Roots
      PROVE  mode'[p][r] = "off" <=> r \notin watched'[p]
  <2>1. CASE p = s
    <3>1. watched'[s] = w /\ mode'[s] = Modes(s, w, add)
      BY DEF WatchType
    <3>2. Modes(s, w, add)[r] = "off" <=> r \notin w
      BY DEF WatchType, Modes, WatchMode
    <3>3. QED BY <2>1, <3>1, <3>2
  <2>2. CASE p # s BY <2>2 DEF WatchType
  <2>3. QED BY <2>1, <2>2
<1>4. /\ watched' \in [Servers -> SUBSET Roots]
      /\ dead' \in [Servers -> BOOLEAN]
      /\ news' \in [Servers -> SUBSET Roots]
  BY DEF WatchType
<1>5. WatchType' BY <1>2, <1>3, <1>4 DEF WatchType
<1>6. QED BY <1>1, <1>5 DEF flags, ghost

\* What a scan of the same watch set leaves alone.
KnownStays ==
    UNCHANGED <<flags, at, cand, ghost, listed, seen, debounce, overdue, retry,
                failed>>

LEMMA SameSetIsKept ==
    ASSUME Kept, NEW s \in Servers, BeginScan(s, watched[s], {}), KnownStays,
           fresh' \in [Servers -> BOOLEAN]
    PROVE  Kept'
<1>1. watched[s] \in SUBSET Roots BY DEF Kept, WatchType
<1>2. UNCHANGED <<flags, at, cand, ghost>> BY DEF KnownStays
<1>3. /\ listed' \in [Servers -> SUBSET Roots]
      /\ seen' \in [Servers -> [Roots -> Signatures \cup {None}]]
      /\ debounce' \in [Servers -> [Roots -> Deadlines]]
      /\ overdue' \in [Servers -> SUBSET Roots]
      /\ retry' \in [Servers -> [Roots -> Deadlines]]
      /\ failed' \in [Servers -> SUBSET Roots]
  BY DEF KnownStays, Kept, PollerType, WatchType
<1>4. QED BY <1>1, <1>2, <1>3, KeptByScan, SMTT(30)

LEMMA KeptByCoordinator ==
    ASSUME Kept, NEW s \in Servers,
           ListFails(s) \/ RefreshBlind(s) \/ Coordinator(s)
    PROVE  Kept'
<1> Kept OBVIOUS
<1>1. CASE ListFails(s)
  <2>1. /\ BeginScan(s, watched[s], {})
        /\ fresh' \in [Servers -> BOOLEAN]
    BY <1>1 DEF ListFails, Kept, PollerType
  <2>2. KnownStays BY <1>1 DEF ListFails, KnownStays
  <2>3. QED BY <2>1, <2>2, SameSetIsKept
<1>2. CASE RefreshBlind(s) \/ Refresh(s)
  <2>1. PICK suppressed : RefreshBut(s, suppressed)
    BY <1>2 DEF Refresh, RefreshBlind
  <2> DEFINE w == listed[s] \ suppressed
             add == w \ watched[s]
  <2>2. w \in SUBSET Roots /\ add \in SUBSET Roots
    BY DEF Kept, PollerType
  <2>3. /\ BeginScan(s, w, add)
        /\ UNCHANGED <<flags, at, cand, ghost>>
        /\ listed' \in [Servers -> SUBSET Roots]
        /\ fresh' \in [Servers -> BOOLEAN]
    BY <2>1 DEF RefreshBut, Kept, PollerType
  <2>4. seen' \in [Servers -> [Roots -> Signatures \cup {None}]]
    BY <2>1 DEF RefreshBut, Kept, WatchType, Baseline
  <2>5. /\ debounce' \in [Servers -> [Roots -> Deadlines]]
        /\ retry' \in [Servers -> [Roots -> Deadlines]]
    BY <2>1 DEF RefreshBut, Kept, WatchType, Deadlines
  <2>6. overdue' \in [Servers -> SUBSET Roots]
    BY <2>1, <2>2 DEF RefreshBut, Kept, WatchType
  <2>7. failed' \in [Servers -> SUBSET Roots]
    BY <2>1, <2>2 DEF RefreshBut, Kept, WatchType
  <2>8. w \subseteq watched[s] \cup add /\ add \subseteq w OBVIOUS
  <2> HIDE DEF w, add
  <2>9. QED BY <2>2, <2>3, <2>4, <2>5, <2>6, <2>7, <2>8, KeptByScan
<1>3. CASE Poll(s)
  <2>1. CASE BeginScan(s, watched[s], {})
    <3>1. KnownStays /\ fresh' \in [Servers -> BOOLEAN]
      BY <1>3 DEF Poll, KnownStays, Kept, PollerType
    <3>2. QED BY <2>1, <3>1, SameSetIsKept
  <2>2. CASE ~BeginScan(s, watched[s], {})
    BY <1>3, <2>2
       DEF Poll, Kept, PollerType, WatchType, PCs, Goto, flags, ghost
  <2>3. QED BY <2>1, <2>2
<1>4. CASE List(s) \/ Visit(s) \/ Sleep(s)
  <2>1. WatchType' BY <1>4, WatchStays DEF List, Visit, Sleep
  <2>2. CASE List(s)
    <3>1. PollerType' BY <2>2 DEF List, Goto, Kept, PollerType, PCs
    <3>2. QED BY <2>1, <2>2, <3>1 DEF List, Kept, flags, ghost
  <2>3. CASE Visit(s)
    <3>1. todo' \in [Servers -> SUBSET Roots]
      BY <2>3 DEF Visit, Kept, PollerType
    <3>2. /\ pc' \in [Servers -> PCs] /\ at' \in [Servers -> Roots \cup {None}]
          /\ \A p \in Servers :
                pc'[p] \in {"checking", "git", "await", "saving"}
                => at'[p] \in Roots
      BY <2>3 DEF Visit, Goto, Kept, PollerType, PCs
    <3>3. PollerType' BY <2>3, <3>1, <3>2 DEF Visit, Kept, PollerType
    <3>4. QED BY <2>1, <2>3, <3>3 DEF Visit, Kept, flags, ghost
  <2>4. CASE Sleep(s)
    <3>1. PollerType' BY <2>4 DEF Sleep, Goto, Kept, PollerType, PCs
    <3>2. QED BY <2>1, <2>4, <3>1 DEF Sleep, Kept, flags, ghost
  <2>5. QED BY <1>4, <2>2, <2>3, <2>4
<1>5. QED BY <1>1, <1>2, <1>3, <1>4 DEF Coordinator

\* The signature of a tree is one, and a job's outcome is that of an index.
LEMMA KeptByExamine ==
    ASSUME Kept, JobsTypeOK, PollersWait, NEW s \in Servers,
           RootMissing(s) \/ Unable(s) \/ Examine(s)
    PROVE  Kept'
<1> USE DEF Kept, Goto, flags, ghost
<1>1. CASE RootMissing(s)
  BY <1>1 DEF RootMissing, PollerType, WatchType, PCs
<1>2. CASE Unable(s)
  BY <1>2 DEF Unable, PutOff, PollerType, WatchType, PCs, Deadlines
<1>3. CASE SkipBlocked(s)
  BY <1>3 DEF SkipBlocked, PutOff, PollerType, WatchType, PCs, Deadlines
<1>4. CASE Evaluate(s)
  <2>1. PollerType' BY <1>4 DEF Evaluate, Reindex, PollerType, PCs
  <2>2. overdue' \in [Servers -> SUBSET Roots]
    <3>1. CASE overdue' = overdue BY <3>1 DEF WatchType
    <3>2. CASE overdue' = [overdue EXCEPT ![s] = @ \ {at[s]}]
      BY <3>2 DEF WatchType
    <3>3. QED BY <1>4, <3>1, <3>2 DEF Evaluate, Reindex
  <2>3. debounce' \in [Servers -> [Roots -> Deadlines]]
    BY <1>4 DEF Evaluate, WatchType, Deadlines
  <2>4. WatchType' BY <1>4, <2>2, <2>3 DEF Evaluate, WatchType
  <2>5. QED BY <1>4, <2>1, <2>4 DEF Evaluate
<1>5. CASE GitRead(s)
  <2>1. Signature[tree[at[s]]] \in Signatures
    BY <1>5 DEF GitRead, PollerType, JobsTypeOK, Signatures
  <2>2. PollerType' BY <1>5, <2>1 DEF GitRead, Reindex, PollerType, PCs
  <2>3. overdue' \in [Servers -> SUBSET Roots]
    <3>1. overdue' = [overdue EXCEPT ![s] = @ \ {at[s]}]
      BY <1>5 DEF GitRead, Reindex
    <3>2. QED BY <3>1 DEF WatchType
  <2>4. WatchType' BY <1>5, <2>3 DEF GitRead, WatchType
  <2>5. QED BY <1>5, <2>2, <2>4 DEF GitRead
<1>6. CASE Refused(s)
  BY <1>6
     DEF Refused, Skipped, Taken, PutOff, watch, PollerType, WatchType, PCs
<1>7. CASE Heard(s)
  <2>1. PollerType' BY <1>7 DEF Heard, Taken, PollerType, PCs
  <2>2. outcome[s] \in {"ok", "error", "deep"}
    BY <1>7 DEF Heard, Skipped, PollersWait
  <2> DEFINE known == CASE outcome[s] = "ok" -> "none"
                        [] outcome[s] = "error" -> "set"
                        [] outcome[s] = "deep" -> retry[s][at[s]]
  <2>3. at[s] \in Roots BY <1>7 DEF Heard, PollerType
  <2>4. known \in Deadlines
    <3>1. retry[s][at[s]] \in Deadlines BY <2>3 DEF WatchType
    <3>2. QED BY <2>2, <3>1 DEF Deadlines
  <2>5. retry' = [retry EXCEPT ![s][at[s]] = known] BY <1>7 DEF Heard
  <2> HIDE DEF known
  <2>6. retry' \in [Servers -> [Roots -> Deadlines]]
    BY <2>4, <2>5 DEF WatchType
  <2>7. seen' \in [Servers -> [Roots -> Signatures \cup {None}]]
    BY <1>7, <2>3 DEF Heard, PollerType, WatchType
  <2>8. WatchType' BY <1>7, <2>6, <2>7, ZenonT(60) DEF Heard, WatchType
  <2>9. QED BY <1>7, <2>1, <2>8 DEF Heard
<1>8. CASE Save(s)
  <2>1. durable' \in [Roots -> Signatures \cup {None}]
    BY <1>8, SavedIsKept DEF Save
  <2>2. PollerType' /\ WatchType'
    BY <1>8 DEF Save, watch, PollerType, WatchType, PCs
  <2>3. QED BY <1>8, <2>1, <2>2 DEF Save
<1>9. QED BY <1>1, <1>2, <1>3, <1>4, <1>5, <1>6, <1>7, <1>8 DEF Examine

LEMMA KeptByCalls ==
    ASSUME Kept, JobsTypeOK, NEW c \in Calls, Ask(c) \/ Answer(c)
    PROVE  Kept'
<1> USE DEF Kept, PollerType, WatchType, flags, coroutine, watch, ghost
<1>1. CASE Ask(c)
  <2>1. asked' \in [Calls -> 0 .. MaxCalls]
    <3>1. used.count \in Nat
      BY IndexJobsAssumption DEF JobsTypeOK
    <3>2. asked[c] < MaxCalls BY <1>1, <3>1, CodeIndexAssumption DEF Ask
    <3>3. QED BY <1>1, <3>2, CodeIndexAssumption DEF Ask
  <2>2. WatchType' BY <1>1, WatchStays DEF Ask
  <2>3. QED BY <1>1, <2>1, <2>2 DEF Ask
<1>2. CASE Answer(c)
  <2> DEFINE h == Home[c]
             drop == {aim[c]} \cap watched[h]
  <2>1. h \in Servers BY CodeIndexAssumption
  <2>2. CASE UNCHANGED <<watched, mode, news>>
    BY <1>2, <2>2 DEF Answer
  <2>3. CASE /\ watched' = [watched EXCEPT ![h] = @ \ drop]
             /\ mode' = [mode EXCEPT ![h] =
                           [r \in Roots |-> IF r \in drop THEN "off"
                                            ELSE @[r]]]
             /\ news' = [news EXCEPT ![h] = @ \ drop]
    <3> HIDE DEF h, drop
    <3>1. /\ watched' \in [Servers -> SUBSET Roots]
          /\ news' \in [Servers -> SUBSET Roots]
      BY <2>1, <2>3
    <3>2. mode' \in [Servers -> [Roots -> {"off", "disabled", "events",
                                           "fallback"}]]
      BY <2>1, <2>3
    <3>3. \A s \in Servers, r \in Roots :
             mode'[s][r] = "off" <=> r \notin watched'[s]
      BY <2>1, <2>3
    <3>4. QED BY <1>2, <3>1, <3>2, <3>3 DEF Answer
  <2>4. QED BY <1>2, <2>2, <2>3 DEF Answer
<1>3. QED BY <1>1, <1>2

LEMMA KeptByNext ==
    ASSUME Kept, JobsTypeOK, PollersWait, [Next]_vars PROVE Kept'
<1>1. CASE UNCHANGED pollers
  BY <1>1
     DEF Kept, PollerType, WatchType, pollers, flags, coroutine, watch, ghost
<1>2. CASE World BY <1>2, KeptByWorld
<1>3. ASSUME NEW s \in Servers, Server(s) PROVE Kept'
  BY <1>3, KeptByLife, KeptByCoordinator, KeptByExamine DEF Server
<1>4. ASSUME NEW c \in Calls, Ask(c) \/ Answer(c) PROVE Kept'
  BY <1>4, KeptByCalls
<1>5. ASSUME NEW c \in Deleters, Deletion(c) PROVE Kept'
  <2>1. CASE Overtakes(c)
    BY <2>1
       DEF Overtakes, Kept, PollerType, WatchType, flags, coroutine, watch
  <2>2. QED BY <1>1, <1>5, <2>1 DEF Deletion
<1>6. QED BY <1>1, <1>2, <1>3, <1>4, <1>5 DEF Next, JobStep, vars

-----------------------------------------------------------------------------
(* Pollers and their jobs. *)

\* A poller whose job is at rest goes from one place to another, or stops.
LEMMA WaitElsewhere ==
    ASSUME Kept, PollersWait, NEW s \in Servers, UNCHANGED job,
           \A p \in Servers \ {s} : pc'[p] = pc[p] /\ at'[p] = at[p],
           pc'[s] = "off" \/ (pc'[s] # "await" /\ stage[s] = "none")
    PROVE  PollersWait'
BY DEF PollersWait, job

LEMMA WaitsWhileAway ==
    ASSUME PollersWait, NEW s \in Servers, pc[s] \notin {"await", "off"}
    PROVE  stage[s] = "none"
BY DEF PollersWait

LEMMA WaitByStay ==
    ASSUME PollersWait, UNCHANGED <<job, pc, at>> PROVE PollersWait'
BY DEF PollersWait, job

LEMMA WaitByWorld == ASSUME PollersWait, World PROVE PollersWait'
<1> USE WaitByStay DEF work, jobs, coroutine, store
<1>1. CASE Switch BY <1>1 DEF Switch
<1>2. ASSUME NEW r \in Roots, Change(r) PROVE PollersWait'
  BY <1>2 DEF Change, Edit
<1>3. ASSUME NEW s \in Servers, ListAges(s) \/ ObserverDies(s)
      PROVE  PollersWait'
  BY <1>3 DEF ListAges, ObserverDies
<1>4. ASSUME NEW s \in Servers, NEW r \in Roots, Deliver(s, r) \/ Time(s, r)
      PROVE  PollersWait'
  BY <1>4 DEF Deliver, Time, DebouncePasses, ReconcilePasses, RetryPasses
<1>5. QED BY <1>1, <1>2, <1>3, <1>4 DEF World

LEMMA WaitByPoller ==
    ASSUME Kept, PollersWait, NEW s \in Servers,
           \/ Start(s) \/ Stop(s) \/ Deactivate(s) \/ ListFails(s)
           \/ RefreshBlind(s) \/ Coordinator(s) \/ RootMissing(s) \/ Unable(s)
           \/ SkipBlocked(s) \/ Save(s)
    PROVE  PollersWait'
<1> USE WaitElsewhere, WaitsWhileAway
    DEF Kept, PollerType, Goto, work, jobs
<1>1. CASE Start(s) BY <1>1 DEF Start
<1>2. CASE Stop(s) BY <1>2 DEF Stop, ForgetServer
<1>3. CASE Deactivate(s) BY <1>3, WaitByStay DEF Deactivate, coroutine
<1>4. CASE ListFails(s) BY <1>4 DEF ListFails, BeginScan
<1>5. CASE RefreshBlind(s) BY <1>5 DEF RefreshBlind, RefreshBut, BeginScan
<1>6. CASE Coordinator(s)
  BY <1>6
     DEF Coordinator, Poll, List, Refresh, RefreshBut, BeginScan, Visit, Sleep
<1>7. CASE RootMissing(s) BY <1>7 DEF RootMissing
<1>8. CASE Unable(s) BY <1>8 DEF Unable
<1>9. CASE SkipBlocked(s) BY <1>9 DEF SkipBlocked
<1>10. CASE Save(s) BY <1>10 DEF Save
<1>11. QED
  BY <1>1, <1>2, <1>3, <1>4, <1>5, <1>6, <1>7, <1>8, <1>9, <1>10

LEMMA WaitByIndex ==
    ASSUME Kept, JobsTypeOK, PollersWait, NEW s \in Servers,
           Evaluate(s) \/ GitRead(s) \/ Refused(s) \/ Heard(s) \/ Reap(s)
    PROVE  PollersWait'
<1> s \in Jobs BY JobsOfPollers
<1> USE JobsOfPollers
    DEF Kept, PollerType, JobsTypeOK, PollersWait, Goto, Reindex, Submit, Rest,
        Step, Ends, work, store, job
<1>1. CASE Evaluate(s) BY <1>1 DEF Evaluate
<1>2. CASE GitRead(s) BY <1>2 DEF GitRead
<1>3. CASE Refused(s) BY <1>3 DEF Refused, Taken
<1>4. CASE Heard(s) BY <1>4 DEF Heard, Taken
<1>5. CASE Reap(s) BY <1>5 DEF Reap, Taken
<1>6. QED BY <1>1, <1>2, <1>3, <1>4, <1>5

LEMMA WaitByCrash ==
    ASSUME Kept, JobsTypeOK, PollersWait, NEW s \in Servers, Crash(s)
    PROVE  PollersWait'
<1>1. \A p \in Servers : p \in JobsAt(s) => p = s
  BY DEF JobsAt, Calls
<1>2. \A p \in Servers \ {s} :
         /\ stage'[p] = stage[p] /\ outcome'[p] = outcome[p]
         /\ aim'[p] = aim[p] /\ pc'[p] = pc[p] /\ at'[p] = at[p]
  BY <1>1, JobsOfPollers
     DEF Crash, CrashJobs, ForgetServer, Goto, Kept, PollerType
<1>3. stage'[s] = "none" /\ pc'[s] = "off"
  BY JobsOfPollers
     DEF Crash, CrashJobs, ForgetServer, Goto, Kept, PollerType, JobsAt
<1>4. QED BY <1>2, <1>3 DEF PollersWait

LEMMA WaitByUsers ==
    ASSUME JobsTypeOK, PollersWait, NEW c \in Calls, Ask(c) \/ Answer(c)
    PROVE  PollersWait'
<1>1. c \in Jobs /\ c \notin Servers BY JobsOfPollers DEF Calls
<1> USE JobsOfPollers, <1>1
    DEF JobsTypeOK, PollersWait, Submit, Rest, Step, Ends, coroutine
<1>2. CASE Ask(c) BY <1>2 DEF Ask
<1>3. CASE Answer(c) BY <1>3 DEF Answer
<1>4. QED BY <1>2, <1>3

LEMMA WaitByJobs ==
    ASSUME JobsTypeOK, PollersWait, NEW j \in Jobs, JobStep(j)
    PROVE  PollersWait'
<1> UNCHANGED <<pc, at>> BY DEF JobStep, pollers, coroutine
<1> USE JobsOfPollers DEF JobsTypeOK, PollersWait, Step, Ends, job
<1>1. CASE Enter(j) BY <1>1 DEF Enter
<1>2. CASE EngineReads(j) \/ EngineWrites(j) \/ EngineFails(j)
  BY <1>2 DEF EngineReads, EngineWrites, EngineFails
<1>3. CASE PathTooLong(j) \/ Unsuppress(j) \/ Unblock(j)
  BY <1>3 DEF PathTooLong, Unsuppress, Unblock, Raises
<1>4. CASE Leave(j) \/ Link(j) BY <1>4 DEF Leave, Link
<1>5. QED BY <1>1, <1>2, <1>3, <1>4 DEF JobStep, Index

LEMMA WaitByDeletes ==
    ASSUME JobsTypeOK, PollersWait, NEW c \in Deleters, Deletion(c)
    PROVE  PollersWait'
<1>1. c \in Jobs /\ c \notin Servers
  BY CodeIndexAssumption DEF Jobs
<1>2. UNCHANGED <<pc, at>>
  BY DEF Deletion, Overtakes, pollers, coroutine
<1>3. \A p \in Servers :
         /\ stage'[p] = stage[p] /\ outcome'[p] = outcome[p]
         /\ aim'[p] = aim[p]
  BY <1>1, JobsOfPollers
     DEF Deletion, Overtakes, Resolve, EngineDeletes, NothingDeleted, Clean,
         Suppress, Step, Ends, JobsTypeOK
<1>4. QED BY <1>2, <1>3 DEF PollersWait

LEMMA WaitByNext ==
    ASSUME Kept, JobsTypeOK, PollersWait, [Next]_vars PROVE PollersWait'
<1>1. CASE UNCHANGED vars
  BY <1>1, WaitByStay DEF vars, jobs, work, pollers, coroutine
<1>2. CASE /\ LeaseEnds \/ \E o \in late : LateWrite(o)
           /\ UNCHANGED pollers
  BY <1>2, WaitByStay DEF LeaseEnds, LateWrite, pollers, coroutine
<1>3. ASSUME NEW s \in Servers, Server(s) PROVE PollersWait'
  BY <1>3, WaitByPoller, WaitByIndex, WaitByCrash DEF Server, Examine
<1>4. QED
  BY <1>1, <1>2, <1>3, WaitByWorld, WaitByUsers, WaitByJobs, WaitByDeletes
     DEF Next

-----------------------------------------------------------------------------
(* The invariant that the others stand on. *)

BaseInv == Kept /\ JobsInv /\ PollersWait

LEMMA BaseStarts == ASSUME Init PROVE BaseInv
<1>1. JobsInv BY JobsInitInv DEF Init
<1>2. PollersWait BY JobsOfPollers DEF Init, JobsInit, PollersWait
<1>3. QED BY <1>1, <1>2, StartsKept DEF BaseInv

LEMMA BaseKeeps == ASSUME BaseInv, [Next]_vars PROVE BaseInv'
<1> JobsTypeOK BY DEF BaseInv, JobsInv
<1>1. Kept' BY KeptByNext DEF BaseInv
<1>2. JobsInv' BY StepsAreJobs, JobsNextInv DEF BaseInv
<1>3. PollersWait' BY WaitByNext DEF BaseInv
<1>4. QED BY <1>1, <1>2, <1>3 DEF BaseInv

THEOREM BaseInvariance == Spec => []BaseInv
<1>1. QED BY BaseStarts, BaseKeeps, PTL DEF Spec

\* Type correctness of the code index, with the places of each poller: one that
\* examines a root is at one, and a root has a mode exactly while it is watched.
THEOREM TypeCorrect == Spec => []TypeOK
<1>1. BaseInv => TypeOK BY DEF BaseInv, JobsInv, Kept, TypeOK
<1>2. QED BY <1>1, BaseInvariance, PTL

\* Whatever the pollers, the users and the faults of the code index do, its
\* jobs are those of a system of jobs (run_exclusive and gate_sync are the
\* only way to the engine's store).
THEOREM CodeIndexIsJobs == Spec => JobsSpec
<1>1. Init => JobsInit BY DEF Init
<1>2. BaseInv /\ [Next]_vars => [JobsNext]_jobs BY StepsAreJobs DEF BaseInv
<1>3. QED BY <1>1, <1>2, BaseInvariance, PTL DEF Spec, JobsSpec

\* In the code index, a tombstone and a project exist together only while an
\* index is clearing the one of the project it has just written: a poller does
\* not leave a live project alone for good (suppress_watch, clear_index_blocks).
\* A root is out of this from a flag that raised, a crash in between or a late
\* write of a child to the next index that settles it.
THEOREM TombstonesMeanGone == Spec => []TombstoneMeansGone
BY CodeIndexIsJobs, TombstonesAreTrue, PTL

\* In the code index, the block of a root is what the last index that settled
\* it found, in whatever order jobs failed, were refused or won the gate; but
\* for a root that such a fault left unsettled.
THEOREM LastVerdictsStand == Spec => []LastVerdictStands
BY CodeIndexIsJobs, VerdictsStand, PTL

\* The jobs of pollers and users, whatever they end with, use the gate as its
\* abstract specification allows: one at a time, and none while it is shut.
THEOREM CodeIndexUsesAGate == Spec => JobsUseAGate
BY CodeIndexIsJobs, JobsImplementGate, PTL

-----------------------------------------------------------------------------
(* What was deleted stays deleted. *)

LEMMA MarksGrow ==
    ASSUME JobsInv, [JobsNext]_jobs PROVE used.marks \subseteq used'.marks
<1>1. CASE FaultOrNone BY <1>1, UsedTyped
<1>2. CASE ~FaultOrNone
  BY <1>2, StepsCountFaults
     DEF JobsNext, jobs, LeaseEnds, LateWrite, Edit, FaultOrNone, Fault
<1>3. QED BY <1>1, <1>2

LEMMA FaultLeavesMark ==
    ASSUME NEW kind \in {"crash", "suppress", "resolve"}, Fault(kind)
    PROVE  Marked'
<1>1. Mark[kind] \in {"crash", "untombed"}
  BY IndexJobsAssumption, CodeIndexAssumption DEF Fault
<1>2. Mark[kind] \in used'.marks BY DEF Fault
<1>3. QED BY <1>1, <1>2 DEF Marked

\* The part of GoneInv that is about jobs.
JobsGone ==
    WrittenIsBack /\ (Marked \/ (RootIsKnown /\ GoneIsBuried))

LEMMA GoneByIndex ==
    ASSUME JobsInv, JobsGone, ~Marked, NEW j \in Jobs, Index(j) \/ Link(j)
    PROVE  RootIsKnown' /\ GoneIsBuried'
<1> USE DEF JobsInv, JobsTypeOK, JobsGone, WrittenIsBack, RootIsKnown,
            GoneIsBuried, Burying, Step, Ends, store, blocks, job, past
<1>1. CASE Enter(j) \/ Leave(j) BY <1>1 DEF Enter, Leave
<1>2. CASE EngineReads(j) \/ EngineFails(j) BY <1>2 DEF EngineReads, EngineFails
<1>3. CASE EngineWrites(j)
  BY <1>3 DEF EngineWrites, GateIsHeld, InGate
<1>4. CASE PathTooLong(j) BY <1>4 DEF PathTooLong, Raises
<1>5. CASE Unsuppress(j) BY <1>5 DEF Unsuppress, Raises
<1>6. CASE Unblock(j) \/ Link(j) BY <1>6 DEF Unblock, Raises, Link
<1>7. QED BY <1>1, <1>2, <1>3, <1>4, <1>5, <1>6 DEF Index

LEMMA GoneByDelete ==
    ASSUME JobsInv, JobsGone, ~Marked, ~Marked', NEW j \in Jobs,
           \/ Resolve(j) \/ EngineDeletes(j) \/ NothingDeleted(j)
           \/ Suppress(j) \/ Clean(j)
    PROVE  RootIsKnown' /\ GoneIsBuried'
<1> USE FaultLeavesMark
    DEF JobsInv, JobsTypeOK, JobsGone, WrittenIsBack, RootIsKnown,
        GoneIsBuried, Burying, Step, Ends, store, blocks, job, past
<1>1. CASE Resolve(j) BY <1>1 DEF Resolve
<1>2. CASE EngineDeletes(j) BY <1>2 DEF EngineDeletes, GateIsHeld, InGate
<1>3. CASE NothingDeleted(j) \/ Clean(j) BY <1>3 DEF NothingDeleted, Clean
<1>4. CASE Suppress(j) BY <1>4 DEF Suppress
<1>5. QED BY <1>1, <1>2, <1>3, <1>4

LEMMA GoneByRest ==
    ASSUME JobsInv, JobsGone, ~Marked, NEW j \in Jobs,
           \/ Rest(j) \/ \E r \in Roots : Submit(j, r)
    PROVE  RootIsKnown' /\ GoneIsBuried'
<1> USE DEF JobsInv, JobsTypeOK, JobsGone, WrittenIsBack, RootIsKnown,
            GoneIsBuried, Burying, Step, Ends, store, blocks, job, past
<1>1. CASE Rest(j) BY <1>1 DEF Rest
<1>2. ASSUME NEW r \in Roots, Submit(j, r)
      PROVE  RootIsKnown' /\ GoneIsBuried'
  BY <1>2 DEF Submit
<1>3. QED BY <1>1, <1>2

\* A mark is for good, and an index never writes back what is gone.
LEMMA WrittenByJobs ==
    ASSUME JobsInv, WrittenIsBack, [JobsNext]_jobs PROVE WrittenIsBack'
<1> USE DEF JobsInv, JobsTypeOK, WrittenIsBack, Step, Ends, store, blocks, job,
            past
<1>1. ASSUME NEW j \in Jobs, EngineWrites(j) PROVE WrittenIsBack'
  BY <1>1 DEF EngineWrites, GateIsHeld, InGate
<1>2. ASSUME NEW j \in Jobs, EngineDeletes(j) PROVE WrittenIsBack'
  BY <1>2 DEF EngineDeletes, GateIsHeld, InGate
<1>3. ASSUME NEW j \in Jobs,
             \/ Enter(j) \/ EngineReads(j) \/ EngineFails(j) \/ PathTooLong(j)
             \/ Unsuppress(j) \/ Unblock(j) \/ Leave(j)
      PROVE  WrittenIsBack'
  BY <1>3
     DEF Enter, EngineReads, EngineFails, PathTooLong, Unsuppress, Unblock,
         Raises, Leave
<1>4. ASSUME NEW j \in Jobs,
             \/ Resolve(j) \/ NothingDeleted(j) \/ Suppress(j) \/ Link(j)
             \/ Clean(j) \/ Rest(j)
      PROVE  WrittenIsBack'
  BY <1>4 DEF Resolve, NothingDeleted, Suppress, Link, Clean, Rest
<1>5. ASSUME NEW j \in Jobs, NEW r \in Roots, Submit(j, r) PROVE WrittenIsBack'
  BY <1>5 DEF Submit
<1>6. ASSUME NEW J \in SUBSET Jobs, CrashJobs(J) PROVE WrittenIsBack'
  BY <1>6 DEF CrashJobs
<1>7. CASE \/ LeaseEnds \/ (\E o \in late : LateWrite(o))
           \/ (\E r \in Roots : Edit(r)) \/ UNCHANGED work \/ UNCHANGED jobs
  BY <1>7 DEF LeaseEnds, LateWrite, Edit, work, jobs
<1>8. QED
  BY <1>1, <1>2, <1>3, <1>4, <1>5, <1>6, <1>7 DEF JobsNext, Index

\* What is gone has no graph: only an index, or the child of one, writes it.
LEMMA GoneStaysEmpty ==
    ASSUME JobsInv, GoneIsEmpty, [JobsNext]_jobs PROVE GoneIsEmpty'
<1> USE DEF JobsInv, JobsTypeOK, GoneIsEmpty, store, past
<1>1. ASSUME NEW j \in Jobs, EngineWrites(j) \/ EngineDeletes(j)
      PROVE  GoneIsEmpty'
  BY <1>1 DEF EngineWrites, EngineDeletes
<1>2. ASSUME NEW o \in late, LateWrite(o) PROVE GoneIsEmpty'
  <2>1. o.root \in Roots BY DEF Operations
  <2>2. QED BY <1>2, <2>1 DEF LateWrite
<1>3. ASSUME NEW j \in Jobs,
             \/ Enter(j) \/ EngineReads(j) \/ EngineFails(j) \/ PathTooLong(j)
             \/ Unsuppress(j) \/ Unblock(j) \/ Leave(j)
      PROVE  GoneIsEmpty'
  BY <1>3
     DEF Enter, EngineReads, EngineFails, PathTooLong, Unsuppress, Unblock,
         Leave
<1>4. ASSUME NEW j \in Jobs,
             \/ Resolve(j) \/ NothingDeleted(j) \/ Suppress(j) \/ Link(j)
             \/ Clean(j) \/ Rest(j) \/ \E r \in Roots : Submit(j, r)
      PROVE  GoneIsEmpty'
  BY <1>4
     DEF Resolve, NothingDeleted, Suppress, Link, Clean, Rest, Submit
<1>5. ASSUME NEW J \in SUBSET Jobs, CrashJobs(J) PROVE GoneIsEmpty'
  BY <1>5 DEF CrashJobs
<1>6. CASE \/ LeaseEnds \/ (\E r \in Roots : Edit(r))
           \/ UNCHANGED work \/ UNCHANGED jobs
  BY <1>6 DEF LeaseEnds, Edit, work, jobs
<1>7. QED
  BY <1>1, <1>2, <1>3, <1>4, <1>5, <1>6 DEF JobsNext, Index

LEMMA GoneByJobs ==
    ASSUME JobsInv, JobsGone, [JobsNext]_jobs PROVE JobsGone'
<1>1. WrittenIsBack' BY WrittenByJobs DEF JobsGone
<1>2. SUFFICES ASSUME ~Marked' PROVE RootIsKnown' /\ GoneIsBuried'
  BY <1>1 DEF JobsGone
<1>3. ~Marked BY <1>2, MarksGrow DEF Marked
<1>4. CASE \/ LeaseEnds \/ (\E o \in late : LateWrite(o))
           \/ (\E r \in Roots : Edit(r)) \/ UNCHANGED work \/ UNCHANGED jobs
  BY <1>3, <1>4
     DEF LeaseEnds, LateWrite, Edit, work, jobs, blocks, job, past, store,
         JobsGone, RootIsKnown, GoneIsBuried, Burying
<1>5. ASSUME NEW J \in SUBSET Jobs, CrashJobs(J), Fault("crash") PROVE FALSE
  BY <1>2, <1>5, FaultLeavesMark
<1>6. QED
  BY <1>2, <1>3, <1>4, <1>5, GoneByIndex, GoneByDelete, GoneByRest DEF JobsNext

\* A delete under way goes on until it leaves its tombstone.
LEMMA BuryingGoesOn ==
    ASSUME JobsInv, [JobsNext]_jobs, ~Marked', NEW r, Burying(r),
           \A c \in Jobs : ~(Suppress(c) /\ aim[c] = r)
    PROVE  Burying(r)'
<1>1. PICK c \in Jobs : stage[c] \in {"deleted", "cleaned"} /\ aim[c] = r
  BY DEF Burying
<1>2. SUFFICES stage'[c] \in {"deleted", "cleaned"} /\ aim'[c] = r
  BY <1>1 DEF Burying
<1> USE <1>1 DEF JobsInv, JobsTypeOK, Step, Ends, store, blocks, job, past
<1>3. ASSUME NEW j \in Jobs,
             \/ Index(j) \/ Link(j) \/ Clean(j) \/ Rest(j) \/ Resolve(j)
             \/ EngineDeletes(j) \/ NothingDeleted(j)
      PROVE  stage'[c] \in {"deleted", "cleaned"} /\ aim'[c] = r
  <2>1. CASE Index(j)
    BY <2>1 DEF Index, Enter, EngineReads, EngineWrites, EngineFails,
                PathTooLong, Unsuppress, Unblock, Raises, Leave
  <2>2. CASE Link(j) \/ Clean(j) \/ Rest(j) BY <2>2 DEF Link, Clean, Rest
  <2>3. CASE Resolve(j) \/ EngineDeletes(j) \/ NothingDeleted(j)
    BY <2>3 DEF Resolve, EngineDeletes, NothingDeleted
  <2>4. QED BY <1>3, <2>1, <2>2, <2>3
<1>4. ASSUME NEW j \in Jobs, Suppress(j)
      PROVE  stage'[c] \in {"deleted", "cleaned"} /\ aim'[c] = r
  BY <1>4 DEF Suppress
<1>5. ASSUME NEW j \in Jobs, NEW q \in Roots, Submit(j, q)
      PROVE  stage'[c] \in {"deleted", "cleaned"} /\ aim'[c] = r
  BY <1>5 DEF Submit
<1>6. ASSUME NEW J \in SUBSET Jobs, CrashJobs(J), Fault("crash") PROVE FALSE
  BY <1>6, FaultLeavesMark
<1>7. CASE \/ LeaseEnds \/ (\E o \in late : LateWrite(o))
           \/ (\E q \in Roots : Edit(q)) \/ UNCHANGED work \/ UNCHANGED jobs
  BY <1>7 DEF LeaseEnds, LateWrite, Edit, work, jobs
<1>8. QED BY <1>3, <1>4, <1>5, <1>6, <1>7 DEF JobsNext

\* Nothing changes for those on the way if nothing more is gone and nobody new
\* sets out for a root that is.
LEMMA LateStays ==
    ASSUME BaseInv, LateIsOvertaken, [Next]_vars, ~Marked',
           gone' \subseteq gone,
           \A c \in Jobs : ~Suppress(c),
           \A s \in Servers, r \in Roots :
              OnTheWay(s, r)'
              => OnTheWay(s, r) /\ (s \in overtaken => s \in overtaken')
    PROVE  LateIsOvertaken'
<1>1. [JobsNext]_jobs BY StepsAreJobs DEF BaseInv
<1>2. \A r \in gone : Burying(r) => Burying(r)'
  BY <1>1, BuryingGoesOn DEF BaseInv
<1>3. gone \subseteq Roots BY DEF BaseInv, JobsInv, JobsTypeOK
<1>4. QED BY <1>2, <1>3 DEF LateIsOvertaken

LEMMA LateByPlace ==
    ASSUME BaseInv, LateIsOvertaken, [Next]_vars, ~Marked',
           UNCHANGED <<job, past, overtaken>>,
           \A s \in Servers : pc'[s] = "git" => pc[s] = "git" /\ at'[s] = at[s]
    PROVE  LateIsOvertaken'
<1>1. \A c \in Jobs : ~Suppress(c)
  BY DEF Suppress, Step, job, BaseInv, JobsInv, JobsTypeOK
<1>2. QED BY <1>1, LateStays DEF OnTheWay, job, past

LEMMA LateByWorld ==
    ASSUME BaseInv, LateIsOvertaken, [Next]_vars, ~Marked', World
    PROVE  LateIsOvertaken'
<1>1. UNCHANGED <<job, past, overtaken, pc, at>>
  BY DEF World, Switch, Change, Edit, ListAges, ObserverDies, Deliver, Time,
         DebouncePasses, ReconcilePasses, RetryPasses, jobs, work, coroutine,
         ghost
<1>2. QED BY <1>1, LateByPlace

LEMMA LateByPoller ==
    ASSUME BaseInv, LateIsOvertaken, [Next]_vars, ~Marked', NEW s \in Servers,
           \/ Start(s) \/ Stop(s) \/ Deactivate(s) \/ ListFails(s)
           \/ RefreshBlind(s) \/ Coordinator(s) \/ RootMissing(s) \/ Unable(s)
           \/ SkipBlocked(s) \/ Save(s)
    PROVE  LateIsOvertaken'
<1>1. UNCHANGED <<job, past>> BY PollerMoves DEF Aside, jobs, work
<1>2. UNCHANGED overtaken
  <2>1. CASE Coordinator(s)
    BY <2>1
       DEF Coordinator, Poll, List, Refresh, RefreshBut, Visit, Sleep, ghost
  <2>2. CASE ~Coordinator(s)
    BY <2>2
       DEF Start, Stop, Deactivate, ListFails, RefreshBlind, RefreshBut,
           RootMissing, Unable, SkipBlocked, Save, ghost
  <2>3. QED BY <2>1, <2>2
<1>3. \A p \in Servers : pc'[p] = "git" => pc[p] = "git" /\ at'[p] = at[p]
  <2> USE DEF BaseInv, Kept, PollerType, Goto
  <2>1. CASE Coordinator(s)
    BY <2>1
       DEF Coordinator, Poll, List, Refresh, RefreshBut, BeginScan, Visit, Sleep
  <2>2. CASE Start(s) \/ Stop(s) \/ Deactivate(s) \/ Unable(s)
    BY <2>2 DEF Start, Stop, ForgetServer, Deactivate, Unable, coroutine
  <2>3. CASE \/ ListFails(s) \/ RefreshBlind(s) \/ RootMissing(s)
             \/ SkipBlocked(s) \/ Save(s)
    BY <2>3
       DEF ListFails, RefreshBlind, RefreshBut, BeginScan, RootMissing,
           SkipBlocked, Save
  <2>4. QED BY <2>1, <2>2, <2>3
<1>4. QED BY <1>1, <1>2, <1>3, LateByPlace

\* A poller sets out for a root that had no tombstone when it asked.
LEMMA LateByEvaluate ==
    ASSUME BaseInv, LateIsOvertaken, GoneIsBuried, [Next]_vars, ~Marked',
           NEW s \in Servers, Evaluate(s)
    PROVE  LateIsOvertaken'
<1> USE JobsOfPollers
    DEF BaseInv, Kept, PollerType, JobsInv, JobsTypeOK
<1>1. stage[s] = "none" BY WaitsWhileAway DEF Evaluate
<1>2. at[s] \in gone => Burying(at[s])
  BY DEF Evaluate, Blocked, GoneIsBuried
<1>3. UNCHANGED gone /\ overtaken' = overtaken \ {s}
  BY DEF Evaluate, Reindex, Submit, work, past
<1>4. ASSUME NEW c \in Jobs PROVE ~Suppress(c)
  BY <1>1 DEF Evaluate, Reindex, Submit, Suppress, Step, work, job
<1>5. \A r \in gone : Burying(r) => Burying(r)'
  BY <1>4, StepsAreJobs, BuryingGoesOn
<1>6. \A r : OnTheWay(s, r)' => r = at[s]
  BY <1>1 DEF Evaluate, Reindex, Submit, Step, Goto, OnTheWay, work, job
<1>7. \A p \in Servers \ {s} : \A r : OnTheWay(p, r)' => OnTheWay(p, r)
  BY DEF Evaluate, Reindex, Submit, Step, Goto, OnTheWay, work, job
<1>8. QED BY <1>2, <1>3, <1>5, <1>6, <1>7 DEF LateIsOvertaken

LEMMA LateByIndex ==
    ASSUME BaseInv, LateIsOvertaken, [Next]_vars, ~Marked', NEW s \in Servers,
           GitRead(s) \/ Refused(s) \/ Heard(s) \/ Reap(s)
    PROVE  LateIsOvertaken'
<1> USE JobsOfPollers
    DEF BaseInv, Kept, PollerType, JobsInv, JobsTypeOK
<1>1. UNCHANGED <<past, overtaken>>
  BY DEF GitRead, Reindex, Submit, Refused, Heard, Reap, Taken, Rest, work,
         ghost
<1>2. ASSUME NEW c \in Jobs PROVE ~Suppress(c)
  BY WaitsWhileAway
     DEF GitRead, Reindex, Submit, Refused, Heard, Reap, Taken, Rest, Suppress,
         Step, Ends, work, job
<1>3. ASSUME NEW p \in Servers, NEW r, OnTheWay(p, r)' PROVE OnTheWay(p, r)
  <2>1. CASE GitRead(s)
    BY <1>3, <2>1
       DEF GitRead, Reindex, Submit, Step, Goto, OnTheWay, work, job
  <2>2. CASE Refused(s) \/ Heard(s) \/ Reap(s)
    BY <1>3, <2>2
       DEF Refused, Heard, Reap, Taken, Rest, Step, Ends, Goto, OnTheWay
  <2>3. QED BY <2>1, <2>2
<1>4. QED BY <1>1, <1>2, <1>3, LateStays DEF past

LEMMA LateByUsers ==
    ASSUME BaseInv, LateIsOvertaken, [Next]_vars, ~Marked', NEW c \in Calls,
           Ask(c) \/ Answer(c)
    PROVE  LateIsOvertaken'
<1> c \in Jobs /\ c \notin Servers BY JobsOfPollers DEF Calls
<1> USE JobsOfPollers DEF BaseInv, JobsInv, JobsTypeOK
<1>1. UNCHANGED <<past, overtaken, pc, at>>
  BY DEF Ask, Answer, Submit, Rest, coroutine, ghost
<1>2. ASSUME NEW j \in Jobs PROVE ~Suppress(j)
  BY DEF Ask, Answer, Submit, Rest, Suppress, Step, Ends
<1>3. \A p \in Servers : stage'[p] = stage[p] /\ aim'[p] = aim[p]
  BY DEF Ask, Answer, Submit, Rest, Step, Ends
<1>4. QED BY <1>1, <1>2, <1>3, LateStays DEF OnTheWay, past

LEMMA LateByJobs ==
    ASSUME BaseInv, LateIsOvertaken, [Next]_vars, ~Marked', NEW j \in Jobs,
           JobStep(j)
    PROVE  LateIsOvertaken'
<1> USE JobsOfPollers DEF BaseInv, JobsInv, JobsTypeOK
<1>1. UNCHANGED <<pc, at, overtaken>>
  BY DEF JobStep, pollers, coroutine, ghost
<1>2. gone' \subseteq gone
  BY DEF JobStep, Index, Link, Enter, EngineReads, EngineWrites, EngineFails,
         PathTooLong, Unsuppress, Unblock, Raises, Leave, past
<1>3. \A p \in Jobs :
         /\ stage'[p] # stage[p] => stage'[p] # "asking" /\ p = j
         /\ stage[j] # "asking" =>
               stage[j] \in {"begun"} \/ stage'[j] \notin {"begun", "read"}
         /\ aim'[p] = aim[p]
  BY DEF JobStep, Index, Link, Enter, EngineReads, EngineWrites, EngineFails,
         PathTooLong, Unsuppress, Unblock, Raises, Leave, Step, job
<1>4. ASSUME NEW c \in Jobs PROVE ~Suppress(c)
  BY DEF JobStep, Index, Link, Enter, EngineReads, EngineWrites, EngineFails,
         PathTooLong, Unsuppress, Unblock, Raises, Leave, Step, Suppress
<1>5. \A p \in Servers, r \in Roots : OnTheWay(p, r)' => OnTheWay(p, r)
  BY <1>1, <1>3 DEF OnTheWay
<1>6. QED BY <1>1, <1>2, <1>4, <1>5, LateStays

\* The deletion of a graph is under way, and leaves a tombstone to those that
\* ask later.
LEMMA LateByDeletes ==
    ASSUME BaseInv, LateIsOvertaken, [Next]_vars, ~Marked', NEW c \in Deleters,
           Deletion(c)
    PROVE  LateIsOvertaken'
<1> c \in Jobs /\ c \notin Servers BY CodeIndexAssumption DEF Jobs
<1> USE JobsOfPollers DEF BaseInv, JobsInv, JobsTypeOK
<1>1. UNCHANGED <<pc, at>> BY DEF Deletion, Overtakes, pollers, coroutine
<1>2. \A p \in Servers : stage'[p] = stage[p] /\ aim'[p] = aim[p]
  BY DEF Deletion, Overtakes, Resolve, EngineDeletes, NothingDeleted, Clean,
         Suppress, Step, Ends
<1>3. \A p \in Servers, r \in Roots : OnTheWay(p, r)' <=> OnTheWay(p, r)
  BY <1>1, <1>2 DEF OnTheWay
<1>4. CASE Resolve(c) \/ NothingDeleted(c) \/ Clean(c)
  <2>1. UNCHANGED past /\ \A j \in Jobs : ~Suppress(j)
    BY <1>4 DEF Resolve, NothingDeleted, Clean, Suppress, Step, Ends
  <2>2. UNCHANGED overtaken
    BY <1>4
       DEF Deletion, Overtakes, Suppress, Resolve, NothingDeleted, Clean, Step,
           Ends, pollers, ghost
  <2>3. QED BY <1>3, <2>1, <2>2, LateStays DEF past
<1>5. CASE EngineDeletes(c)
  <2>1. gone' = gone \cup {aim[c]} /\ \A r : r = aim[c] => Burying(r)'
    BY <1>5 DEF EngineDeletes, Step, Burying
  <2>2. \A j \in Jobs : ~Suppress(j)
    BY <1>5 DEF EngineDeletes, Suppress, Step
  <2>3. \A r \in gone : Burying(r) => Burying(r)'
    BY <2>2, StepsAreJobs, BuryingGoesOn
  <2>4. UNCHANGED overtaken
    BY <1>5, <2>2 DEF Deletion, Overtakes, pollers, ghost
  <2>5. QED BY <1>3, <2>1, <2>3, <2>4 DEF LateIsOvertaken
<1>6. CASE Overtakes(c)
  <2>1. UNCHANGED gone /\ overtaken \subseteq overtaken'
    BY <1>6 DEF Overtakes, Suppress, past
  <2>2. ASSUME NEW j \in Jobs, Suppress(j) PROVE j = c
    BY <1>6, <2>2 DEF Overtakes, Suppress, Step
  <2>3. \A r \in gone \ {aim[c]} : Burying(r) => Burying(r)'
    BY <2>2, StepsAreJobs, BuryingGoesOn
  <2>4. ASSUME NEW p \in Servers, OnTheWay(p, aim[c]) PROVE p \in overtaken'
    <3>1. stage[p] \notin {"begun", "read"}
      BY <1>6 DEF Overtakes, Suppress, GateIsHeld, InGate
    <3>2. QED BY <1>6, <2>4, <3>1 DEF Overtakes, OnTheWay
  <2>5. QED BY <1>3, <2>1, <2>3, <2>4 DEF LateIsOvertaken
<1>7. QED BY <1>4, <1>5, <1>6 DEF Deletion

LEMMA GoneKeeps == ASSUME BaseInv, GoneInv, [Next]_vars PROVE GoneInv'
<1>1. JobsInv /\ [JobsNext]_jobs BY StepsAreJobs DEF BaseInv
<1>2. JobsGone' /\ GoneIsEmpty'
  BY <1>1, GoneByJobs, GoneStaysEmpty DEF GoneInv, JobsGone
<1>3. SUFFICES ASSUME ~Marked' PROVE LateIsOvertaken'
  BY <1>2 DEF GoneInv, JobsGone
<1>4. ~Marked BY <1>1, <1>3, MarksGrow DEF Marked
<1>5. LateIsOvertaken /\ GoneIsBuried BY <1>4 DEF GoneInv
<1>6. CASE UNCHANGED vars \/ (LeaseEnds /\ UNCHANGED pollers)
  BY <1>3, <1>5, <1>6, LateByPlace
     DEF vars, jobs, work, LeaseEnds, pollers, coroutine, ghost
<1>7. ASSUME NEW s \in Servers, Server(s) PROVE LateIsOvertaken'
  <2>1. CASE Crash(s) BY <1>3, <2>1, FaultLeavesMark DEF Crash
  <2>2. CASE ~Crash(s)
    BY <1>3, <1>5, <1>7, <2>2, LateByPoller, LateByEvaluate, LateByIndex
       DEF Server, Examine
  <2>3. QED BY <2>1, <2>2
<1>8. CASE (\E o \in late : LateWrite(o)) /\ UNCHANGED pollers
  <2>1. gone' \subseteq gone /\ UNCHANGED <<job, pc, at, overtaken>>
    BY <1>8 DEF LateWrite, pollers, coroutine, ghost
  <2>2. \A c \in Jobs : ~Suppress(c)
    BY <2>1 DEF Suppress, Step, job, BaseInv, JobsInv, JobsTypeOK
  <2>3. QED BY <1>3, <1>5, <2>1, <2>2, LateStays DEF OnTheWay, job
<1>9. QED
  BY <1>3, <1>5, <1>6, <1>7, <1>8, LateByWorld, LateByUsers, LateByJobs,
     LateByDeletes
     DEF Next

LEMMA GoneInvariance == Spec => []GoneInv
<1>1. Init => GoneInv
  BY JobsOfPollers
     DEF Init, JobsInit, GoneInv, WrittenIsBack, GoneIsEmpty, RootIsKnown,
         GoneIsBuried, LateIsOvertaken
<1>2. QED BY <1>1, GoneKeeps, BaseInvariance, PTL DEF Spec

\* Who may write the graph of a root.
LEMMA WhoWrites ==
    ASSUME BaseInv, [Next]_vars, NEW r \in Roots,
           graph[r] = None, graph'[r] # None
    PROVE  \/ UserWrites(r) \/ ChildWrites(r)
           \/ \E s \in Servers :
                 stage[s] = "read" /\ stage'[s] = "written" /\ aim[s] = r
<1> USE DEF BaseInv, JobsInv, JobsTypeOK
<1>1. [JobsNext]_jobs BY StepsAreJobs
<1>2. ASSUME NEW j \in Jobs, EngineWrites(j)
      PROVE  stage[j] = "read" /\ stage'[j] = "written" /\ aim[j] = r
  BY <1>2 DEF EngineWrites, Step
<1>3. ASSUME NEW o \in late, LateWrite(o) PROVE ChildWrites(r)
  <2>1. o.root = r /\ o \notin late' BY <1>3 DEF LateWrite, Operations
  <2>2. QED BY <2>1 DEF ChildWrites
<1>4. ASSUME NEW j \in Jobs PROVE ~EngineDeletes(j)
  BY DEF EngineDeletes
<1>5. ASSUME NEW j \in Jobs,
             \/ Enter(j) \/ EngineReads(j) \/ EngineFails(j) \/ PathTooLong(j)
             \/ Unsuppress(j) \/ Unblock(j) \/ Leave(j)
      PROVE  FALSE
  BY <1>5
     DEF Enter, EngineReads, EngineFails, PathTooLong, Unsuppress, Unblock,
         Leave, store
<1>6. ASSUME NEW j \in Jobs,
             \/ Resolve(j) \/ NothingDeleted(j) \/ Suppress(j) \/ Link(j)
             \/ Clean(j) \/ Rest(j) \/ \E q \in Roots : Submit(j, q)
      PROVE  FALSE
  BY <1>6
     DEF Resolve, NothingDeleted, Suppress, Link, Clean, Rest, Submit, store
<1>7. ASSUME NEW J \in SUBSET Jobs PROVE ~CrashJobs(J)
  BY DEF CrashJobs
<1>8. ~(LeaseEnds \/ (\E q \in Roots : Edit(q)) \/ UNCHANGED work
        \/ UNCHANGED jobs)
  BY DEF LeaseEnds, Edit, work, jobs, store
<1>9. (\E j \in Jobs : EngineWrites(j)) \/ (\E o \in late : LateWrite(o))
  BY <1>1, <1>4, <1>5, <1>6, <1>7, <1>8 DEF JobsNext, Index
<1>10. QED
  BY <1>2, <1>3, <1>9, JobsOfPollers DEF UserWrites, Calls

\* What a user deleted no poller brings back, for any number of servers, users
\* and roots, whatever they have cached or fail to read: unless it asked before
\* the delete and entered the gate after it, the tombstone was never written, or
\* its index was given up before and a child goes on with it (CbmTimeoutError).
THEOREM DeletedForGood == Spec => DeletedStaysDeleted
<1>1. ASSUME BaseInv, GoneInv, NEW s \in Servers,
             stage[s] = "read", aim[s] \in gone
      PROVE  s \in overtaken \/ Marked
  <2>1. s \in Jobs BY JobsOfPollers
  <2>2. ~Burying(aim[s])
    BY <1>1, <2>1 DEF Burying, BaseInv, JobsInv, GateIsHeld, InGate
  <2>3. QED BY <1>1, <2>2 DEF GoneInv, LateIsOvertaken, OnTheWay
<1>2. ASSUME BaseInv, GoneInv, [Next]_vars, NEW r \in gone, graph'[r] # None
      PROVE  \/ UserWrites(r) \/ OvertakenWrites(r) \/ ChildWrites(r)
             \/ used.marks \cap {"crash", "untombed"} # {}
  <2>1. r \in Roots BY <1>2 DEF BaseInv, JobsInv, JobsTypeOK
  <2>2. graph[r] = None BY <1>2 DEF GoneInv, GoneIsEmpty
  <2>3. ASSUME NEW s \in Servers, stage[s] = "read", stage'[s] = "written",
               aim[s] = r
        PROVE  OvertakenWrites(r) \/ Marked
    BY <1>1, <1>2, <2>3 DEF OvertakenWrites
  <2>4. QED BY <1>2, <2>1, <2>2, <2>3, WhoWrites DEF Marked
<1>3. BaseInv /\ GoneInv /\ [Next]_vars =>
         [\A r \in gone :
            graph'[r] # None =>
               \/ UserWrites(r) \/ OvertakenWrites(r) \/ ChildWrites(r)
               \/ used.marks \cap {"crash", "untombed"} # {}]_vars
  BY <1>2
<1>4. QED
  BY <1>3, BaseInvariance, GoneInvariance, PTL DEF Spec, DeletedStaysDeleted

-----------------------------------------------------------------------------
(* A watched change is noticed. *)

\* What a step leaves alone of what a poller knows.
SamePlace(s) == pc'[s] = pc[s] /\ at'[s] = at[s] /\ cand'[s] = cand[s]

SameWatch(s) ==
    /\ watched'[s] = watched[s] /\ mode'[s] = mode[s] /\ news'[s] = news[s]
    /\ seen'[s] = seen[s] /\ debounce'[s] = debounce[s]
    /\ overdue'[s] = overdue[s] /\ retry'[s] = retry[s]
    /\ failed'[s] = failed[s] /\ putoff'[s] = putoff[s]

SameJob(s) ==
    stage'[s] = stage[s] /\ outcome'[s] = outcome[s] /\ took'[s] = took[s]

LEMMA NoticedStays ==
    ASSUME NEW s \in Servers, NoticedBy(s), UNCHANGED <<tree, site>>,
           SamePlace(s), SameWatch(s)
    PROVE  NoticedBy(s)'
BY DEF NoticedBy, Expected, Unexamined, SamePlace, SameWatch

\* A poller that goes on from one place to another, none of which is where it
\* examines a change.
LEMMA NoticedElsewhere ==
    ASSUME NEW s \in Servers, NoticedBy(s), UNCHANGED <<tree, site>>,
           SameWatch(s), pc[s] \notin {"checking", "git", "await"},
           pc'[s] # "await"
    PROVE  NoticedBy(s)'
BY DEF NoticedBy, Expected, Unexamined, SameWatch

LEMMA NoticedByChange ==
    ASSUME BaseInv, NEW s \in Servers, NoticedBy(s), NEW r \in Roots, Change(r)
    PROVE  NoticedBy(s)'
<1>1. UNCHANGED <<site, pc, at, cand, watched, mode, seen, debounce, overdue,
                  failed>>
  BY DEF Change, flags, coroutine
<1>2. /\ news[s] \subseteq news'[s] /\ news'[s] \subseteq news[s] \cup {r}
      /\ r \in news'[s] => r \in news[s] \/ mode[s][r] = "events"
      /\ putoff[s] \subseteq putoff'[s]
      /\ r \in news'[s] \cup putoff'[s]
  BY DEF Change, Watching, BaseInv, Kept, WatchType
<1>3. \A q \in Roots \ {r} : tree'[q] = tree[q]
  BY DEF Change, Edit, BaseInv, JobsInv, JobsTypeOK
<1>4. site.git \subseteq Roots
  BY CodeIndexAssumption DEF BaseInv, Kept
<1>5. QED
  BY <1>1, <1>2, <1>3, <1>4 DEF NoticedBy, Expected, Unexamined

LEMMA NoticedByWorld ==
    ASSUME BaseInv, NEW s \in Servers, NoticedBy(s), World
    PROVE  NoticedBy(s)'
<1> USE NoticedStays
    DEF BaseInv, Kept, PollerType, WatchType, work, store, jobs, flags,
        coroutine, watch, ghost, SamePlace, SameWatch
<1>1. CASE Switch BY <1>1 DEF Switch
<1>2. ASSUME NEW r \in Roots, Change(r) PROVE NoticedBy(s)'
  BY <1>2, NoticedByChange
<1>3. ASSUME NEW p \in Servers, ListAges(p) PROVE NoticedBy(s)'
  BY <1>3 DEF ListAges
<1>4. ASSUME NEW p \in Servers, ObserverDies(p) PROVE NoticedBy(s)'
  <2>1. CASE p = s
    BY <1>4, <2>1 DEF ObserverDies, NoticedBy, Expected, Unexamined
  <2>2. CASE p # s BY <1>4, <2>2 DEF ObserverDies
  <2>3. QED BY <2>1, <2>2
<1>5. ASSUME NEW p \in Servers, NEW r \in Roots, Deliver(p, r)
      PROVE  NoticedBy(s)'
  <2>1. CASE p = s
    BY <1>5, <2>1 DEF Deliver, NoticedBy, Expected, Unexamined
  <2>2. CASE p # s BY <1>5, <2>2 DEF Deliver
  <2>3. QED BY <2>1, <2>2
<1>6. ASSUME NEW p \in Servers, NEW r \in Roots, Time(p, r)
      PROVE  NoticedBy(s)'
  <2>1. CASE p = s
    <3> USE <2>1 DEF NoticedBy, Expected, Unexamined
    <3>1. CASE DebouncePasses(s, r)
      <4>1. \A q : debounce'[s][q] # debounce[s][q] => debounce'[s][q] = "over"
        BY <3>1 DEF DebouncePasses
      <4>2. QED BY <3>1, <4>1 DEF DebouncePasses
    <3>2. CASE ReconcilePasses(s, r) BY <3>2 DEF ReconcilePasses
    <3>3. CASE RetryPasses(s, r) BY <3>3 DEF RetryPasses
    <3>4. QED BY <1>6, <3>1, <3>2, <3>3 DEF Time
  <2>2. CASE p # s
    BY <1>6, <2>2 DEF Time, DebouncePasses, ReconcilePasses, RetryPasses
  <2>3. QED BY <2>1, <2>2
<1>7. QED BY <1>2, <1>1, <1>3, <1>4, <1>5, <1>6 DEF World

\* The steps of a server leave another alone.
LEMMA OthersStay ==
    ASSUME BaseInv, NEW p \in Servers, Server(p), NEW s \in Servers \ {p}
    PROVE  UNCHANGED <<tree, site>> /\ SamePlace(s) /\ SameWatch(s)
<1> USE DEF BaseInv, Kept, PollerType, WatchType, SamePlace, SameWatch, Goto,
            work, store, jobs, flags, coroutine, watch, ghost
<1>1. CASE Start(p) \/ Poll(p) \/ List(p) \/ ListFails(p) \/ Visit(p)
           \/ Sleep(p) \/ Save(p)
  BY <1>1 DEF Start, Poll, List, ListFails, Visit, Sleep, Save, BeginScan
<1>2. CASE Stop(p) \/ Crash(p) \/ Deactivate(p)
  BY <1>2 DEF Stop, Crash, ForgetServer, CrashJobs, Deactivate
<1>3. CASE Refresh(p) \/ RefreshBlind(p)
  <2>1. PICK suppressed : RefreshBut(p, suppressed)
    BY <1>3 DEF Refresh, RefreshBlind
  <2>2. QED BY <2>1 DEF RefreshBut, BeginScan
<1>4. CASE RootMissing(p) \/ Unable(p) \/ SkipBlocked(p) \/ Evaluate(p)
  BY <1>4
     DEF RootMissing, Unable, SkipBlocked, Evaluate, PutOff, Reindex, Submit
<1>5. CASE GitRead(p) \/ Refused(p) \/ Heard(p) \/ Reap(p)
  BY <1>5
     DEF GitRead, Refused, Heard, Reap, PutOff, Reindex, Submit, Taken, Rest
<1>6. QED
  BY <1>1, <1>2, <1>3, <1>4, <1>5 DEF Server, Coordinator, Examine

LEMMA OtherJobsStay ==
    ASSUME BaseInv, NEW p \in Servers, Server(p), NEW s \in Servers \ {p}
    PROVE  SameJob(s)
<1> p \in Jobs /\ s \in Jobs BY JobsOfPollers
<1> USE DEF BaseInv, JobsInv, JobsTypeOK, SameJob, Step, Ends, work, jobs, job
<1>1. CASE Crash(p)
  <2>1. s \notin JobsAt(p) BY DEF JobsAt, Calls
  <2>2. QED BY <1>1, <2>1 DEF Crash, CrashJobs
<1>2. CASE \/ Start(p) \/ Stop(p) \/ Deactivate(p) \/ ListFails(p)
           \/ RefreshBlind(p) \/ Coordinator(p) \/ RootMissing(p)
           \/ Unable(p) \/ SkipBlocked(p) \/ Save(p)
  BY <1>2, PollerMoves DEF Aside
<1>3. CASE Evaluate(p) \/ GitRead(p)
  BY <1>3 DEF Evaluate, GitRead, Reindex, Submit
<1>4. CASE Refused(p) \/ Heard(p) \/ Reap(p)
  BY <1>4 DEF Refused, Heard, Reap, Taken, Rest
<1>5. QED BY <1>1, <1>2, <1>3, <1>4 DEF Server, Examine

LEMMA NoticedByLife ==
    ASSUME BaseInv, NEW s \in Servers, NoticedBy(s),
           Start(s) \/ Stop(s) \/ Crash(s) \/ Deactivate(s) \/ Reap(s)
    PROVE  NoticedBy(s)'
<1> USE DEF BaseInv, Kept, PollerType, WatchType, Goto, work, store, jobs,
            flags, coroutine, watch, ghost
<1>1. CASE Start(s)
  BY <1>1, NoticedElsewhere DEF Start, SameWatch
<1>2. CASE Stop(s) \/ Crash(s)
  BY <1>2 DEF Stop, Crash, ForgetServer, NoticedBy
<1>3. CASE Deactivate(s)
  <2>1. news'[s] = {} /\ UNCHANGED <<tree, site, pc, at, cand, watched, seen,
                                     overdue, failed>>
    BY <1>3 DEF Deactivate
  <2>2. \A r \in watched[s] : r \in putoff'[s] \/ mode[s][r] = "disabled"
    BY <1>3 DEF Deactivate
  <2>3. putoff[s] \subseteq putoff'[s] BY <1>3 DEF Deactivate
  <2>4. \A r \in Roots :
           mode[s][r] = "disabled" => debounce'[s][r] = debounce[s][r]
    BY <1>3 DEF Deactivate
  <2>5. site.git \subseteq Roots BY CodeIndexAssumption
  <2>6. QED
    BY <2>1, <2>2, <2>3, <2>4, <2>5 DEF NoticedBy, Expected, Unexamined
<1>4. CASE Reap(s)
  BY <1>4 DEF Reap, Taken, Rest, NoticedBy, Expected, Unexamined
<1>5. QED BY <1>1, <1>2, <1>3, <1>4

LEMMA NoticedByCoordinator ==
    ASSUME BaseInv, NEW s \in Servers, NoticedBy(s),
           ListFails(s) \/ RefreshBlind(s) \/ Coordinator(s)
    PROVE  NoticedBy(s)'
<1> USE DEF BaseInv, Kept, PollerType, WatchType, Goto, work, store, jobs,
            flags, coroutine, watch, ghost
<1>1. CASE List(s) \/ Sleep(s)
  BY <1>1, NoticedElsewhere DEF List, Sleep, SameWatch
<1>2. CASE Visit(s)
  BY <1>2, NoticedElsewhere DEF Visit, SameWatch
<1>3. CASE Poll(s) /\ ~BeginScan(s, watched[s], {})
  BY <1>3, NoticedElsewhere DEF Poll, SameWatch
<1>4. CASE (Poll(s) \/ ListFails(s)) /\ BeginScan(s, watched[s], {})
  <2>1. /\ UNCHANGED <<tree, site, at, cand, seen, debounce, overdue, failed,
                       putoff>>
        /\ pc'[s] = "scan" /\ pc[s] \in {"asleep", "listing"}
        /\ watched'[s] = watched[s] /\ news'[s] = news[s] \cap watched[s]
    BY <1>4 DEF Poll, ListFails, BeginScan
  <2>2. \A r \in Roots : mode'[s][r] # "disabled"
    BY <1>4 DEF BeginScan, Modes, WatchMode
  <2>3. QED BY <2>1, <2>2 DEF NoticedBy, Expected, Unexamined
<1>5. CASE Refresh(s) \/ RefreshBlind(s)
  <2>1. PICK suppressed : RefreshBut(s, suppressed)
    BY <1>5 DEF Refresh, RefreshBlind
  <2> DEFINE w == listed[s] \ suppressed
             add == w \ watched[s]
  <2>2. /\ UNCHANGED <<at, cand, putoff>>
        /\ pc'[s] = "scan" /\ pc[s] = "listed" /\ watched'[s] = w
        /\ news'[s] = news[s] \cap (w \ add)
        /\ overdue'[s] = overdue[s] \cup add /\ failed'[s] = failed[s] \ add
    BY <2>1 DEF RefreshBut, BeginScan
  <2>3. UNCHANGED <<tree, site>> BY <2>1 DEF RefreshBut
  <2>4. \A r \in Roots \ add :
           seen'[s][r] = seen[s][r] /\ debounce'[s][r] = debounce[s][r]
    BY <2>1 DEF RefreshBut
  <2>5. \A r \in Roots : mode'[s][r] # "disabled"
    BY <2>1 DEF RefreshBut, BeginScan, Modes, WatchMode
  <2>6. w \subseteq Roots /\ w \ add \subseteq watched[s] OBVIOUS
  <2> HIDE DEF w, add
  <2>7. QED
    BY <2>2, <2>3, <2>4, <2>5, <2>6 DEF NoticedBy, Expected, Unexamined
<1>6. QED
  BY <1>1, <1>2, <1>3, <1>4, <1>5 DEF Coordinator, ListFails

\* Whatever a poller does with a root it examines, it looks at its tree, puts
\* it off, or takes it for vanished.
LEMMA NoticedByExamine ==
    ASSUME BaseInv, NEW s \in Servers, NoticedBy(s),
           RootMissing(s) \/ Unable(s) \/ Examine(s)
    PROVE  NoticedBy(s)'
<1> USE DEF BaseInv, Kept, PollerType, WatchType, Goto, work, store, jobs,
            flags, coroutine, watch, ghost
<1>1. CASE RootMissing(s)
  BY <1>1 DEF RootMissing, NoticedBy, Expected, Unexamined
<1>2. CASE Unable(s) \/ SkipBlocked(s)
  <2>1. /\ UNCHANGED <<tree, site, at, cand, watched, mode, news, seen, failed>>
        /\ pc'[s] = "scan" /\ pc[s] \in {"checking", "git"}
        /\ putoff'[s] = putoff[s] \cup {at[s]}
    BY <1>2 DEF Unable, SkipBlocked, PutOff
  <2>2. \A r \in Roots \ {at[s]} :
           /\ debounce'[s][r] = debounce[s][r]
           /\ r \in overdue[s] => r \in overdue'[s]
    BY <1>2 DEF Unable, SkipBlocked
  <2>3. site.git \subseteq Roots BY CodeIndexAssumption
  <2>4. QED BY <2>1, <2>2, <2>3 DEF NoticedBy, Expected, Unexamined
<1>3. CASE Evaluate(s)
  <2>1. /\ UNCHANGED <<tree, site, at, cand, watched, mode, news, seen, failed,
                       putoff>>
        /\ pc[s] = "checking"
        /\ IF at[s] \in site.git THEN pc'[s] = "git" ELSE pc'[s] = "await"
    BY <1>3 DEF Evaluate, Reindex, Submit
  <2>2. \A r \in Roots \ {at[s]} :
           /\ debounce'[s][r] = debounce[s][r]
           /\ r \in overdue[s] => r \in overdue'[s]
    BY <1>3 DEF Evaluate, Reindex
  <2>3. site.git \subseteq Roots BY CodeIndexAssumption
  <2>4. QED BY <2>1, <2>2, <2>3 DEF NoticedBy, Expected, Unexamined
<1>4. CASE GitRead(s)
  <2> DEFINE signature == Signature[tree[at[s]]]
  <2>1. /\ UNCHANGED <<tree, site, at, watched, mode, news, seen, debounce,
                       failed>>
        /\ pc[s] = "git"
        /\ \/ pc'[s] = "await" /\ cand'[s] = signature
           \/ pc'[s] = "scan" /\ seen[s][at[s]] = signature
    BY <1>4 DEF GitRead, Changed, Reindex, Submit
  <2>2. \A r \in Roots \ {at[s]} :
           /\ r \in putoff[s] => r \in putoff'[s]
           /\ r \in overdue[s] => r \in overdue'[s]
    BY <1>4 DEF GitRead, Reindex
  <2>3. site.git \subseteq Roots BY CodeIndexAssumption
  <2>4. QED BY <2>1, <2>2, <2>3 DEF NoticedBy, Expected, Unexamined
<1>5. CASE Refused(s)
  <2>1. /\ UNCHANGED <<tree, site, at, watched, mode, news, seen, debounce,
                       overdue, failed>>
        /\ pc[s] = "await" /\ pc'[s] = "scan"
        /\ putoff'[s] = putoff[s] \cup {at[s]}
    BY <1>5 DEF Refused, Skipped, Taken, Rest, PutOff
  <2>2. QED BY <2>1 DEF NoticedBy, Expected, Unexamined
<1>6. CASE Heard(s)
  <2>1. /\ UNCHANGED <<tree, site, at, watched, mode, news, debounce, overdue,
                       failed, putoff>>
        /\ pc[s] = "await" /\ pc'[s] \in {"saving", "scan"}
    BY <1>6 DEF Heard, Taken, Rest
  <2>2. /\ at[s] \in site.git => seen'[s][at[s]] = cand[s]
        /\ \A r \in Roots \ {at[s]} : seen'[s][r] = seen[s][r]
    BY <1>6 DEF Heard
  <2>3. site.git \subseteq Roots BY CodeIndexAssumption
  <2>4. QED BY <2>1, <2>2, <2>3 DEF NoticedBy, Expected, Unexamined
<1>7. CASE Save(s)
  BY <1>7, NoticedElsewhere DEF Save, SameWatch
<1>8. QED BY <1>1, <1>2, <1>3, <1>4, <1>5, <1>6, <1>7 DEF Examine

LEMMA NoticedByUsers ==
    ASSUME BaseInv, NEW s \in Servers, NoticedBy(s), NEW c \in Calls,
           Ask(c) \/ Answer(c)
    PROVE  NoticedBy(s)'
<1> USE NoticedStays
    DEF BaseInv, Kept, PollerType, WatchType, Submit, Rest, store, flags,
        coroutine, watch, ghost, SamePlace, SameWatch
<1>1. CASE Ask(c) BY <1>1 DEF Ask
<1>2. CASE Answer(c)
  <2> DEFINE h == Home[c]
             drop == {aim[c]} \cap watched[h]
  <2>1. h \in Servers BY CodeIndexAssumption
  <2>2. CASE UNCHANGED <<watched, mode, news>> BY <1>2, <2>2 DEF Answer
  <2>3. CASE /\ watched' = [watched EXCEPT ![h] = @ \ drop]
             /\ mode' = [mode EXCEPT ![h] =
                           [r \in Roots |-> IF r \in drop THEN "off"
                                            ELSE @[r]]]
             /\ news' = [news EXCEPT ![h] = @ \ drop]
    <3> HIDE DEF h, drop
    <3>1. CASE h = s
      <4>1. /\ watched'[s] = watched[s] \ drop /\ news'[s] = news[s] \ drop
            /\ \A r \in Roots \ drop : mode'[s][r] = mode[s][r]
        BY <2>3, <3>1
      <4>2. UNCHANGED <<tree, site, pc, at, cand, seen, debounce, overdue,
                        failed, putoff>>
        BY <1>2 DEF Answer
      <4>3. QED BY <4>1, <4>2 DEF NoticedBy, Expected, Unexamined
    <3>2. CASE h # s BY <1>2, <2>1, <2>3, <3>2 DEF Answer
    <3>3. QED BY <3>1, <3>2
  <2>4. QED BY <1>2, <2>2, <2>3 DEF Answer
<1>3. QED BY <1>1, <1>2

LEMMA NoticedByJobs ==
    ASSUME BaseInv, NEW s \in Servers, NoticedBy(s),
           \/ UNCHANGED vars \/ (LeaseEnds /\ UNCHANGED pollers)
           \/ (\E o \in late : LateWrite(o)) /\ UNCHANGED pollers
           \/ (\E j \in Jobs : JobStep(j)) \/ (\E c \in Deleters : Deletion(c))
    PROVE  NoticedBy(s)'
<1>1. UNCHANGED tree
  BY DEF vars, jobs, work, store, LeaseEnds, LateWrite, JobStep, Index, Link, Enter,
         EngineReads, EngineWrites, EngineFails, PathTooLong, Unsuppress,
         Unblock, Leave, Deletion, Overtakes, Resolve, EngineDeletes,
         NothingDeleted, Clean, Suppress
<1>2. UNCHANGED <<flags, coroutine, watch, putoff>>
  BY DEF vars, pollers, ghost, JobStep, Deletion, Overtakes
<1>3. QED
  BY <1>1, <1>2, NoticedStays
     DEF flags, coroutine, watch, SamePlace, SameWatch

LEMMA NoticeKeeps == ASSUME BaseInv, NoticeInv, [Next]_vars PROVE NoticeInv'
<1> SUFFICES ASSUME NEW s \in Servers PROVE NoticedBy(s)'
  BY DEF NoticeInv
<1>1. NoticedBy(s) BY DEF NoticeInv
<1>2. CASE World BY <1>1, <1>2, NoticedByWorld
<1>3. ASSUME NEW p \in Servers, Server(p) PROVE NoticedBy(s)'
  <2>1. CASE p = s
    BY <1>1, <1>3, <2>1, NoticedByLife, NoticedByCoordinator, NoticedByExamine
       DEF Server
  <2>2. CASE p # s BY <1>1, <1>3, <2>2, OthersStay, NoticedStays
  <2>3. QED BY <2>1, <2>2
<1>4. ASSUME NEW c \in Calls, Ask(c) \/ Answer(c) PROVE NoticedBy(s)'
  BY <1>1, <1>4, NoticedByUsers
<1>5. QED BY <1>1, <1>2, <1>3, <1>4, NoticedByJobs DEF Next

LEMMA NoticeInvariance == Spec => []NoticeInv
<1>1. Init => NoticeInv
  BY DEF Init, NoticeInv, NoticedBy
<1>2. QED BY <1>1, NoticeKeeps, BaseInvariance, PTL DEF Spec

\* A watched change is never lost, for any number of servers and roots, edits
\* at any moment and any faults: an event, a deadline or a look at the tree is
\* still to come, or the poller has put the root off to reconciliation.
THEOREM ChangesAreNoticed == Spec => []ChangeIsNoticed
<1>1. NoticeInv => ChangeIsNoticed
  BY DEF NoticeInv, NoticedBy, ChangeIsNoticed, Watching
<1>2. QED BY <1>1, NoticeInvariance, PTL

-----------------------------------------------------------------------------
(* A baseline claims no state that no index has read. *)

LEMMA WrittenStaysTaken ==
    ASSUME JobsInv, WrittenIsTaken, [JobsNext]_jobs PROVE WrittenIsTaken'
<1> USE DEF JobsInv, JobsTypeOK, GateIsHeld, InGate, WrittenIsTaken, Step, Ends,
            store, blocks, job, past
<1>1. ASSUME NEW j \in Jobs, Index(j) PROVE WrittenIsTaken'
  <2>1. CASE Enter(j) \/ Leave(j) BY <2>1 DEF Enter, Leave
  <2>2. CASE EngineReads(j) BY <2>2 DEF EngineReads
  <2>3. CASE EngineWrites(j) BY <2>3 DEF EngineWrites
  <2>4. CASE EngineFails(j) \/ PathTooLong(j)
    BY <2>4 DEF EngineFails, PathTooLong, Raises
  <2>5. CASE Unsuppress(j) \/ Unblock(j)
    BY <2>5 DEF Unsuppress, Unblock, Raises
  <2>6. QED BY <1>1, <2>1, <2>2, <2>3, <2>4, <2>5 DEF Index
<1>2. ASSUME NEW j \in Jobs, EngineDeletes(j) PROVE WrittenIsTaken'
  BY <1>2 DEF EngineDeletes
<1>3. ASSUME NEW j \in Jobs,
             \/ Resolve(j) \/ NothingDeleted(j) \/ Suppress(j) \/ Link(j)
             \/ Clean(j) \/ Rest(j)
      PROVE  WrittenIsTaken'
  BY <1>3 DEF Resolve, NothingDeleted, Suppress, Link, Clean, Rest
<1>4. ASSUME NEW j \in Jobs, NEW r \in Roots, Submit(j, r) PROVE WrittenIsTaken'
  BY <1>4 DEF Submit
<1>5. ASSUME NEW J \in SUBSET Jobs, CrashJobs(J) PROVE WrittenIsTaken'
  BY <1>5 DEF CrashJobs
<1>6. CASE LeaseEnds \/ (\E r \in Roots : Edit(r)) \/ UNCHANGED work
           \/ UNCHANGED jobs
  BY <1>6 DEF LeaseEnds, Edit, work, jobs
<1>7. ASSUME NEW o \in late, LateWrite(o) PROVE WrittenIsTaken'
  <2>1. o.root \in Roots BY DEF Operations
  <2>2. QED BY <1>7, <2>1 DEF LateWrite
<1>8. QED BY <1>1, <1>2, <1>3, <1>4, <1>5, <1>6, <1>7 DEF JobsNext

\* A job that is now at one of the stages there was before, or has just read.
TookWas(r, there) ==
    \A j \in Jobs : stage'[j] \in there /\ aim'[j] = r =>
        \/ stage[j] \in there /\ aim[j] = r /\ took'[j] = took[j]
        \/ took'[j] = tree[r]

\* How a step moves what Reached and Pending compare: a tree grows, and an
\* engine writes what it read, or is late.
StatesGrow(r) ==
    /\ tree'[r] \in States /\ tree[r] <= tree'[r]
    /\ \/ graph'[r] = graph[r] /\ (r \in adrift => r \in adrift')
       \/ graph'[r] = None \/ r \in adrift'
       \/ \E j \in Jobs :
             stage[j] = "read" /\ aim[j] = r /\ graph'[r] = took[j]
    /\ TookWas(r, {"read"}) /\ TookWas(r, {"read", "written", "opened"})

LEMMA JobsGrow ==
    ASSUME JobsInv, [JobsNext]_jobs, NEW r \in Roots
    PROVE  StatesGrow(r)
<1> USE DEF JobsInv, JobsTypeOK, StatesGrow, TookWas, Step, Ends, store, blocks,
            job, past
<1>1. tree[r] \in States /\ tree[r] <= tree[r]
  BY IndexJobsAssumption DEF States
<1> USE <1>1
<1>2. ASSUME NEW j \in Jobs, Index(j) PROVE StatesGrow(r)
  <2>1. CASE Enter(j) \/ Leave(j) BY <2>1 DEF Enter, Leave
  <2>2. CASE EngineReads(j) BY <2>2 DEF EngineReads
  <2>3. CASE EngineWrites(j) BY <2>3 DEF EngineWrites
  <2>4. CASE EngineFails(j) \/ PathTooLong(j)
    BY <2>4 DEF EngineFails, PathTooLong, Raises
  <2>5. CASE Unsuppress(j) \/ Unblock(j)
    BY <2>5 DEF Unsuppress, Unblock, Raises
  <2>6. QED BY <1>2, <2>1, <2>2, <2>3, <2>4, <2>5 DEF Index
<1>3. ASSUME NEW j \in Jobs,
             \/ Resolve(j) \/ EngineDeletes(j) \/ NothingDeleted(j)
             \/ Suppress(j) \/ Link(j) \/ Clean(j) \/ Rest(j)
      PROVE  StatesGrow(r)
  <2>1. CASE Resolve(j) \/ NothingDeleted(j) \/ Suppress(j)
    BY <2>1 DEF Resolve, NothingDeleted, Suppress
  <2>2. CASE EngineDeletes(j) BY <2>2 DEF EngineDeletes
  <2>3. CASE Link(j) \/ Clean(j) \/ Rest(j) BY <2>3 DEF Link, Clean, Rest
  <2>4. QED BY <1>3, <2>1, <2>2, <2>3
<1>4. ASSUME NEW j \in Jobs, NEW q \in Roots, Submit(j, q) PROVE StatesGrow(r)
  BY <1>4 DEF Submit
<1>5. ASSUME NEW J \in SUBSET Jobs, CrashJobs(J) PROVE StatesGrow(r)
  BY <1>5 DEF CrashJobs
<1>6. ASSUME NEW q \in Roots, Edit(q) PROVE StatesGrow(r)
  BY <1>6, IndexJobsAssumption DEF Edit, States
<1>7. CASE LeaseEnds \/ UNCHANGED work \/ UNCHANGED jobs
  BY <1>7 DEF LeaseEnds, work, jobs
<1>8. ASSUME NEW o \in late, LateWrite(o) PROVE StatesGrow(r)
  <2>1. o.root \in Roots BY DEF Operations
  <2>2. r \in adrift' \/ (graph'[r] = graph[r] /\ (r \in adrift => r \in adrift'))
    BY <1>8, <2>1 DEF LateWrite
  <2>3. QED BY <1>8, <2>2 DEF LateWrite
<1>9. QED BY <1>2, <1>3, <1>4, <1>5, <1>6, <1>7, <1>8 DEF JobsNext

LEMMA StatesAreOrdered == States \subseteq Nat /\ None \notin States
BY IndexJobsAssumption DEF States

LEMMA ReachedStays ==
    ASSUME JobsInv, [JobsNext]_jobs, NEW r \in Roots, NEW n \in States,
           Reached(r, n)
    PROVE  Reached(r, n)'
<1> USE StatesAreOrdered DEF JobsInv, JobsTypeOK, Reached
<1>1. StatesGrow(r) BY JobsGrow
<1>2. n <= tree'[r]
  <2>1. n \in Nat /\ tree[r] \in Nat /\ tree'[r] \in Nat
    BY <1>1 DEF StatesGrow
  <2>2. n <= tree[r] /\ tree[r] <= tree'[r] BY <1>1 DEF StatesGrow
  <2>3. QED BY <2>1, <2>2
<1>3. graph'[r] # None /\ r \notin adrift' => n <= graph'[r]
  BY <1>1 DEF StatesGrow
<1>4. ASSUME NEW j \in Jobs, stage'[j] = "read", aim'[j] = r
      PROVE  n <= took'[j]
  BY <1>1, <1>4 DEF StatesGrow, TookWas
<1>5. QED BY <1>2, <1>3, <1>4

LEMMA PendingStays ==
    ASSUME JobsInv, [JobsNext]_jobs, NEW r \in Roots, NEW n \in States,
           Pending(r, n)
    PROVE  Pending(r, n)'
<1> USE StatesAreOrdered DEF JobsInv, JobsTypeOK, Pending
<1>1. StatesGrow(r) BY JobsGrow
<1>2. n <= tree'[r]
  <2>1. n \in Nat /\ tree[r] \in Nat /\ tree'[r] \in Nat
    BY <1>1 DEF StatesGrow
  <2>2. n <= tree[r] /\ tree[r] <= tree'[r] BY <1>1 DEF StatesGrow
  <2>3. QED BY <2>1, <2>2
<1>3. ASSUME NEW j \in Jobs, stage'[j] \in {"read", "written", "opened"},
             aim'[j] = r
      PROVE  n <= took'[j]
  BY <1>1, <1>3 DEF StatesGrow, TookWas
<1>4. QED BY <1>2, <1>3

LEMMA HonestStays ==
    ASSUME JobsInv, [JobsNext]_jobs, NEW r \in Roots, NEW signature,
           Honest(r, signature)
    PROVE  Honest(r, signature)'
BY ReachedStays DEF Honest

\* The block of a root is cleared by an index that took the tree no earlier.
LEMMA UnblockedIsHonest ==
    ASSUME JobsInv, WrittenIsTaken, NEW j \in Jobs, Unblock(j),
           NEW signature, Blocking(aim[j], signature), NEW r, r = aim[j],
           r \notin unindexable'
    PROVE  Honest(r, signature)'
<1> USE StatesAreOrdered DEF JobsInv, JobsTypeOK, Unblock, Step
<1>1. PICK n \in States : Signature[n] = signature /\ Pending(r, n)
  BY DEF Blocking
<1>2. r \in Roots /\ UNCHANGED <<tree, graph, adrift, aim, took>> OBVIOUS
<1>3. n <= tree[r] /\ (r \notin adrift => n <= graph[r])
  BY <1>1 DEF Pending, WrittenIsTaken
<1>4. \A k \in Jobs : stage'[k] # "read"
  BY DEF GateIsHeld, InGate, Raises
<1>5. Reached(r, n)' BY <1>2, <1>3, <1>4 DEF Reached
<1>6. QED BY <1>1, <1>5 DEF Honest

LEMMA OnlyUnblock ==
    ASSUME [JobsNext]_jobs, NEW r \in unindexable \ unindexable'
    PROVE  \E j \in Jobs : Unblock(j) /\ aim[j] = r
<1>1. ASSUME NEW j \in Jobs, Index(j)
      PROVE  Unblock(j) /\ aim[j] = r
  BY <1>1
     DEF Index, Enter, EngineReads, EngineWrites, EngineFails, PathTooLong,
         Unsuppress, Unblock, Leave, store, blocks
<1>2. ASSUME NEW j \in Jobs,
             \/ Resolve(j) \/ EngineDeletes(j) \/ NothingDeleted(j)
             \/ Suppress(j) \/ Link(j) \/ Clean(j) \/ Rest(j)
             \/ \E q \in Roots : Submit(j, q)
      PROVE  FALSE
  BY <1>2
     DEF Resolve, EngineDeletes, NothingDeleted, Suppress, Link, Clean, Rest,
         Submit, store, blocks
<1>3. CASE \/ LeaseEnds \/ (\E q \in Roots : Edit(q)) \/ UNCHANGED work
           \/ UNCHANGED jobs \/ (\E J \in SUBSET Jobs : CrashJobs(J))
           \/ (\E o \in late : LateWrite(o))
  BY <1>3 DEF LeaseEnds, LateWrite, Edit, CrashJobs, work, jobs, store, blocks
<1>4. QED BY <1>1, <1>2, <1>3 DEF JobsNext

LEMMA BlockingStays ==
    ASSUME JobsInv, WrittenIsTaken, [JobsNext]_jobs, NEW r \in Roots,
           NEW signature, Blocking(r, signature)
    PROVE  Honest(r, signature)' \/ Blocking(r, signature)'
<1>1. CASE r \in unindexable'
  BY <1>1, PendingStays DEF Blocking
<1>2. CASE r \notin unindexable'
  <2>1. PICK j \in Jobs : Unblock(j) /\ aim[j] = r
    BY <1>2, OnlyUnblock DEF Blocking
  <2>2. QED BY <1>2, <2>1, UnblockedIsHonest
<1>3. QED BY <1>1, <1>2

\* The candidate of a job that does not move.
LEMMA CandidateStays ==
    ASSUME BaseInv, WrittenIsTaken, [JobsNext]_jobs, NEW s \in Servers,
           NEW r \in Roots, NEW signature, CandidateIsHonest(s, r, signature),
           SameJob(s)
    PROVE  CandidateIsHonest(s, r, signature)'
<1> JobsInv BY DEF BaseInv
<1>1. Honest(r, signature) => Honest(r, signature)' BY HonestStays
<1>2. Blocking(r, signature) => Honest(r, signature)' \/ Blocking(r, signature)'
  BY BlockingStays
<1>3. \A n \in States : n <= tree[r] => n <= tree'[r]
  <2>1. tree[r] \in Nat /\ tree'[r] \in Nat /\ tree[r] <= tree'[r]
    BY JobsGrow, StatesAreOrdered DEF StatesGrow, JobsInv, JobsTypeOK
  <2>2. \A n \in Nat : n <= tree[r] => n <= tree'[r] BY <2>1
  <2>3. QED BY <2>2, StatesAreOrdered
<1>4. QED BY <1>1, <1>2, <1>3 DEF CandidateIsHonest, SameJob

LEMMA CandidateByJob ==
    ASSUME BaseInv, WrittenIsTaken, NEW s \in Servers, Index(s) \/ Link(s),
           [JobsNext]_jobs,
           NEW r, r = aim[s], NEW signature, CandidateIsHonest(s, r, signature)
    PROVE  CandidateIsHonest(s, r, signature)'
<1> JobsInv /\ s \in Jobs BY JobsOfPollers DEF BaseInv
<1> USE DEF JobsInv, JobsTypeOK, CandidateIsHonest, Step, Ends, store, blocks,
            job, past
<1>1. r \in Roots BY DEF Index, Link, Enter, EngineReads, EngineWrites,
         EngineFails, PathTooLong, Unsuppress, Unblock, Leave
<1>2. Honest(r, signature) => Honest(r, signature)' BY <1>1, HonestStays
<1>3. Blocking(r, signature) => Honest(r, signature)' \/ Blocking(r, signature)'
  BY <1>1, BlockingStays
<1>4. CASE Enter(s) BY <1>4 DEF Enter
<1>5. CASE EngineReads(s) BY <1>5 DEF EngineReads
<1>6. CASE EngineWrites(s)
  <2>1. PICK n \in States :
           Signature[n] = signature /\ n <= tree[r] /\ n <= took[s]
    BY <1>6 DEF EngineWrites
  <2>2. UNCHANGED tree /\ graph'[r] = took[s] BY <1>1, <1>6 DEF EngineWrites
  <2>3. \A k \in Jobs : stage'[k] # "read"
    BY <1>6 DEF EngineWrites, GateIsHeld, InGate
  <2>4. Reached(r, n)' BY <2>1, <2>2, <2>3 DEF Reached
  <2>5. Honest(r, signature)' BY <2>1, <2>4 DEF Honest
  <2>6. stage'[s] = "written" BY <1>6 DEF EngineWrites
  <2>7. QED BY <2>5, <2>6
<1>7. CASE EngineFails(s) BY <1>7 DEF EngineFails
<1>8. CASE PathTooLong(s) /\ outcome'[s] = "raised"
  BY <1>8 DEF PathTooLong, Raises
<1>9. CASE PathTooLong(s) /\ outcome'[s] # "raised"
  <2>1. PICK n \in States :
           Signature[n] = signature /\ n <= tree[r] /\ n <= took[s]
    BY <1>9 DEF PathTooLong
  <2>2. UNCHANGED tree /\ r \in unindexable'
    BY <1>1, <1>9 DEF PathTooLong, Raises
  <2>3. \A k \in Jobs : stage'[k] \notin {"read", "written", "opened"}
    BY <1>9 DEF PathTooLong, Raises, GateIsHeld, InGate
  <2>4. Pending(r, n)' BY <2>1, <2>2, <2>3 DEF Pending
  <2>5. Blocking(r, signature)' BY <2>1, <2>2, <2>4 DEF Blocking
  <2>6. stage'[s] = "leave" /\ outcome'[s] = "deep"
    BY <1>9 DEF PathTooLong, Raises
  <2>7. QED BY <2>5, <2>6
<1>10. CASE Unsuppress(s) \/ Unblock(s) \/ Link(s)
  <2>1. Honest(r, signature)' BY <1>2, <1>10 DEF Unsuppress, Unblock, Link
  <2>2. stage'[s] \in {"opened", "linking", "leave"}
    BY <1>10 DEF Unsuppress, Unblock, Raises, Link
  <2>3. QED BY <2>1, <2>2
<1>11. CASE Leave(s) BY <1>2, <1>3, <1>11 DEF Leave
<1>12. QED
  BY <1>4, <1>5, <1>6, <1>7, <1>8, <1>9, <1>10, <1>11 DEF Index

\* A step that moves no baseline of s, and forgets none of its retries.
SameBaseline(s) ==
    /\ seen'[s] = seen[s] /\ watched'[s] \subseteq watched[s]
    /\ \A r \in Roots : retry[s][r] # "none" => retry'[s][r] # "none"

\* The first part of BaselineOf.
SeenIsHonest(s) ==
    \A r \in site.git \cap watched[s] :
        \/ Honest(r, seen[s][r]) \/ retry[s][r] # "none"
        \/ Blocking(r, seen[s][r])

LEMMA SeenStays ==
    ASSUME BaseInv, WrittenIsTaken, [JobsNext]_jobs, NEW s \in Servers,
           SeenIsHonest(s), SameBaseline(s), UNCHANGED site
    PROVE  SeenIsHonest(s)'
<1> JobsInv BY DEF BaseInv
<1>1. site.git \subseteq Roots
  BY CodeIndexAssumption DEF BaseInv, Kept
<1>2. SUFFICES ASSUME NEW r \in site.git \cap watched'[s]
               PROVE  (\/ Honest(r, seen[s][r]) \/ retry[s][r] # "none"
                       \/ Blocking(r, seen[s][r]))'
  BY DEF SeenIsHonest
<1>3. PICK signature : signature = seen[s][r] OBVIOUS
<1>4. r \in Roots /\ r \in watched[s] /\ seen'[s][r] = signature
  BY <1>1, <1>3 DEF SameBaseline
<1>5. \/ Honest(r, signature) \/ retry[s][r] # "none"
      \/ Blocking(r, signature)
  BY <1>3, <1>4 DEF SeenIsHonest
<1>6. \/ Honest(r, signature)' \/ retry'[s][r] # "none"
      \/ Blocking(r, signature)'
  BY <1>4, <1>5, HonestStays, BlockingStays DEF SameBaseline
<1>7. QED BY <1>4, <1>6 DEF Honest, Blocking

\* A poller that has no result to come, and none to save.
LEMMA BaselineAway ==
    ASSUME BaseInv, WrittenIsTaken, [JobsNext]_jobs, NEW s \in Servers,
           BaselineOf(s), SameBaseline(s), UNCHANGED site,
           pc'[s] \notin {"await", "saving"}
    PROVE  BaselineOf(s)'
<1>1. SeenIsHonest(s)' BY SeenStays DEF BaselineOf, SeenIsHonest
<1>2. QED BY <1>1 DEF BaselineOf, SeenIsHonest

LEMMA BaselineStays ==
    ASSUME BaseInv, WrittenIsTaken, [JobsNext]_jobs, NEW s \in Servers,
           BaselineOf(s), SameBaseline(s), UNCHANGED site, SamePlace(s),
           SameJob(s)
    PROVE  BaselineOf(s)'
<1> JobsInv BY DEF BaseInv
<1>1. SeenIsHonest(s)' BY SeenStays DEF BaselineOf, SeenIsHonest
<1>2. PICK r, signature, known :
         r = at[s] /\ signature = cand[s] /\ known = seen[s][r]
  OBVIOUS
<1>3. pc[s] \in {"await", "saving"} => r \in Roots
  BY <1>2 DEF BaseInv, Kept, PollerType
<1>4. pc[s] = "await" /\ r \in site.git => CandidateIsHonest(s, r, signature)'
  BY <1>2, <1>3, CandidateStays DEF BaselineOf
<1>5. pc[s] = "saving" /\ r \in site.git => Honest(r, known)'
  BY <1>2, <1>3, HonestStays DEF BaselineOf
<1>6. at'[s] = r /\ cand'[s] = signature /\ seen'[s][r] = known
  BY <1>2 DEF SamePlace, SameBaseline
<1>7. pc'[s] = pc[s] BY DEF SamePlace
<1>8. QED BY <1>1, <1>4, <1>5, <1>6, <1>7 DEF BaselineOf, SeenIsHonest

LEMMA BaselineByWorld ==
    ASSUME BaseInv, WrittenIsTaken, NEW s \in Servers, BaselineOf(s), World
    PROVE  BaselineOf(s)'
<1> USE DEF BaseInv, Kept, WatchType, Deadlines, SameBaseline, SamePlace, work,
            jobs, job, flags, coroutine, watch
<1>1. [JobsNext]_jobs BY StepsAreJobs DEF Next, BaseInv
<1>2. UNCHANGED <<site, pc, at, cand, seen, watched, stage, outcome, took>>
  BY DEF World, Switch, Change, Edit, ListAges, ObserverDies, Deliver, Time,
         DebouncePasses, ReconcilePasses, RetryPasses
<1>3. \A r \in Roots : retry[s][r] # "none" => retry'[s][r] # "none"
  <2>1. ASSUME NEW p \in Servers, NEW q \in Roots, RetryPasses(p, q)
        PROVE  \A r \in Roots : retry[s][r] # "none" => retry'[s][r] # "none"
    BY <2>1 DEF RetryPasses
  <2>2. QED
    BY <2>1 DEF World, Switch, Change, ListAges, ObserverDies, Deliver, Time,
                DebouncePasses, ReconcilePasses
<1>4. QED BY <1>1, <1>2, <1>3, BaselineStays DEF SameJob

LEMMA BaselineByJobs ==
    ASSUME BaseInv, WrittenIsTaken, [Next]_vars, NEW s \in Servers,
           BaselineOf(s), UNCHANGED <<flags, coroutine, watch>>,
           \A j \in Jobs : JobStep(j) => j # s,
           \/ UNCHANGED vars \/ LeaseEnds \/ (\E o \in late : LateWrite(o))
           \/ (\E j \in Jobs : JobStep(j)) \/ (\E c \in Deleters : Deletion(c))
    PROVE  BaselineOf(s)'
<1> USE DEF BaseInv, JobsInv, JobsTypeOK, SameJob, Step, Ends, store, job
<1>1. [JobsNext]_jobs BY StepsAreJobs
<1>2. SameBaseline(s) /\ SamePlace(s) /\ UNCHANGED site
  BY DEF SameBaseline, SamePlace, flags, coroutine, watch
<1>3. SameJob(s)
  <2>1. ASSUME NEW j \in Jobs, JobStep(j)
        PROVE  SameJob(s)
    BY <2>1, JobsOfPollers
       DEF JobStep, Index, Link, Enter, EngineReads, EngineWrites, EngineFails,
           PathTooLong, Unsuppress, Unblock, Raises, Leave
  <2>2. ASSUME NEW c \in Deleters, Deletion(c)
        PROVE  SameJob(s)
    <3>1. c \in Jobs /\ c \notin Servers BY CodeIndexAssumption DEF Jobs
    <3>2. QED
      BY <2>2, <3>1, JobsOfPollers
         DEF Deletion, Overtakes, Resolve, EngineDeletes, NothingDeleted, Clean,
             Suppress
  <2>3. QED BY <2>1, <2>2 DEF vars, jobs, work, LeaseEnds, LateWrite
<1>4. QED BY <1>1, <1>2, <1>3, BaselineStays

LEMMA BaselineByOwnJob ==
    ASSUME BaseInv, WrittenIsTaken, [Next]_vars, NEW s \in Servers,
           BaselineOf(s), JobStep(s)
    PROVE  BaselineOf(s)'
<1>1. [JobsNext]_jobs BY StepsAreJobs DEF BaseInv
<1>2. SameBaseline(s) /\ SamePlace(s) /\ UNCHANGED site
  BY DEF JobStep, SameBaseline, SamePlace, pollers, flags, coroutine, watch
<1>3. stage[s] # "none"
  BY DEF JobStep, Index, Link, Enter, EngineReads, EngineWrites, EngineFails,
         PathTooLong, Unsuppress, Unblock, Leave
<1>4. pc[s] \in {"await", "off"} BY <1>3 DEF BaseInv, PollersWait
<1>5. CASE pc[s] = "off"
  BY <1>1, <1>2, <1>5, BaselineAway DEF SamePlace
<1>6. CASE pc[s] = "await"
  <2>1. SeenIsHonest(s)' BY <1>1, <1>2, SeenStays DEF BaselineOf, SeenIsHonest
  <2>2. PICK r, signature : r = at[s] /\ signature = cand[s] OBVIOUS
  <2>3. r = aim[s] BY <1>6, <2>2 DEF BaseInv, PollersWait
  <2>4. r \in site.git => CandidateIsHonest(s, r, signature)'
    BY <1>1, <1>6, <2>2, <2>3, CandidateByJob DEF BaselineOf, JobStep
  <2>5. at'[s] = r /\ cand'[s] = signature /\ pc'[s] = "await"
    BY <1>2, <1>6, <2>2 DEF SamePlace
  <2>6. QED BY <1>2, <2>1, <2>4, <2>5 DEF BaselineOf, SeenIsHonest
<1>7. QED BY <1>4, <1>5, <1>6

LEMMA BaselineByOthers ==
    ASSUME BaseInv, WrittenIsTaken, [Next]_vars, NEW p \in Servers, Server(p),
           NEW s \in Servers \ {p}, BaselineOf(s)
    PROVE  BaselineOf(s)'
<1>1. [JobsNext]_jobs BY StepsAreJobs DEF BaseInv
<1>2. UNCHANGED site /\ SamePlace(s) /\ SameBaseline(s)
  BY OthersStay DEF SameWatch, SameBaseline
<1>3. QED BY <1>1, <1>2, OtherJobsStay, BaselineStays

LEMMA BaselineByUsers ==
    ASSUME BaseInv, WrittenIsTaken, [Next]_vars, NEW s \in Servers,
           BaselineOf(s), NEW c \in Calls, Ask(c) \/ Answer(c)
    PROVE  BaselineOf(s)'
<1> c \in Jobs /\ c \notin Servers BY JobsOfPollers DEF Calls
<1> USE DEF BaseInv, Kept, WatchType, JobsInv, JobsTypeOK
<1>1. [JobsNext]_jobs BY StepsAreJobs
<1>2. SameJob(s)
  BY JobsOfPollers DEF Ask, Answer, Submit, Rest, Step, Ends, SameJob
<1>3. UNCHANGED <<site, pc, at, cand, seen, retry>>
  BY DEF Ask, Answer, flags, coroutine, watch
<1>4. watched'[s] \subseteq watched[s]
  BY CodeIndexAssumption DEF Ask, Answer, watch
<1>5. QED
  BY <1>1, <1>2, <1>3, <1>4, BaselineStays DEF SamePlace, SameBaseline

\* A new root has the durable baseline.
LEMMA BaselineByRefresh ==
    ASSUME BaseInv, WrittenIsTaken, \A r \in site.git : Honest(r, durable[r]),
           [Next]_vars, NEW s \in Servers, BaselineOf(s),
           Refresh(s) \/ RefreshBlind(s)
    PROVE  BaselineOf(s)'
<1> USE DEF BaseInv, Kept, PollerType, WatchType
<1> JobsInv OBVIOUS
<1>1. PICK suppressed : RefreshBut(s, suppressed)
  BY DEF Refresh, RefreshBlind
<1> DEFINE w == listed[s] \ suppressed
           add == w \ watched[s]
<1>2. [JobsNext]_jobs BY StepsAreJobs
<1>3. site.git \subseteq Roots BY CodeIndexAssumption
<1>4. UNCHANGED site /\ pc'[s] = "scan" /\ watched'[s] = w
  BY <1>1 DEF RefreshBut, BeginScan, Goto, flags
<1>5. /\ \A r \in site.git \cap add : seen'[s][r] = durable[r]
      /\ \A r \in Roots \ add :
            seen'[s][r] = seen[s][r] /\ retry'[s][r] = retry[s][r]
  BY <1>1, <1>3 DEF RefreshBut, Baseline
<1>6. ASSUME NEW r \in site.git \cap watched'[s]
      PROVE  (\/ Honest(r, seen[s][r]) \/ retry[s][r] # "none"
              \/ Blocking(r, seen[s][r]))'
  <2>1. r \in Roots /\ r \in w BY <1>3, <1>4, <1>6
  <2> HIDE DEF w
  <2>2. PICK old, known : old = durable[r] /\ known = seen[s][r] OBVIOUS
  <2>3. CASE r \in add
    <3>1. Honest(r, old)' BY <1>2, <1>6, <2>1, <2>2, HonestStays
    <3>2. seen'[s][r] = old BY <1>5, <1>6, <2>2, <2>3
    <3>3. QED BY <3>1, <3>2 DEF Honest
  <2>4. CASE r \notin add
    <3>1. r \in watched[s] BY <2>1, <2>4
    <3>2. \/ Honest(r, known) \/ retry[s][r] # "none" \/ Blocking(r, known)
      BY <1>6, <2>2, <3>1 DEF BaselineOf
    <3>3. seen'[s][r] = known /\ retry'[s][r] = retry[s][r]
      BY <1>5, <2>1, <2>2, <2>4
    <3>4. \/ Honest(r, known)' \/ retry'[s][r] # "none"
          \/ Blocking(r, known)'
      BY <1>2, <2>1, <3>2, <3>3, HonestStays, BlockingStays
    <3>5. QED BY <3>3, <3>4 DEF Honest, Blocking
  <2>5. QED BY <2>3, <2>4
<1>7. SeenIsHonest(s)' BY <1>4, <1>6 DEF SeenIsHonest
<1>8. QED BY <1>4, <1>7 DEF BaselineOf, SeenIsHonest

\* The steps of a poller that moves no baseline.
LEMMA BaselineByMoves ==
    ASSUME BaseInv, WrittenIsTaken, [Next]_vars, NEW s \in Servers,
           BaselineOf(s),
           \/ Start(s) \/ Stop(s) \/ Crash(s) \/ Deactivate(s) \/ ListFails(s)
           \/ Poll(s) \/ List(s) \/ Visit(s) \/ Sleep(s) \/ RootMissing(s)
           \/ Unable(s) \/ SkipBlocked(s) \/ Save(s) \/ Refused(s) \/ Reap(s)
    PROVE  BaselineOf(s)'
<1> USE DEF BaseInv, Kept, PollerType, WatchType, Goto, flags, coroutine, watch,
            work, jobs
<1>1. [JobsNext]_jobs BY StepsAreJobs
<1>2. CASE Stop(s) \/ Crash(s)
  BY <1>2 DEF Stop, Crash, ForgetServer, BaselineOf
<1>3. CASE ~Stop(s) /\ ~Crash(s)
  <2> SUFFICES /\ UNCHANGED site /\ pc'[s] \notin {"await", "saving"}
               /\ SameBaseline(s)
    BY <1>1, BaselineAway
  <2> USE DEF SameBaseline
  <2>1. CASE Start(s) BY <2>1 DEF Start
  <2>2. CASE Deactivate(s) BY <2>2 DEF Deactivate
  <2>3. CASE ListFails(s) \/ Poll(s) BY <2>3 DEF ListFails, Poll, BeginScan
  <2>4. CASE List(s) \/ Visit(s) \/ Sleep(s) BY <2>4 DEF List, Visit, Sleep
  <2>5. CASE RootMissing(s) \/ Unable(s) \/ SkipBlocked(s) \/ Save(s)
    BY <2>5 DEF RootMissing, Unable, SkipBlocked, Save
  <2>6. CASE Refused(s) \/ Reap(s) BY <2>6 DEF Refused, Reap
  <2>7. QED BY <1>3, <2>1, <2>2, <2>3, <2>4, <2>5, <2>6
<1>4. QED BY <1>2, <1>3

\* The candidate is what the tree is at when the job is submitted.
LEMMA BaselineBySubmit ==
    ASSUME BaseInv, WrittenIsTaken, [Next]_vars, NEW s \in Servers,
           BaselineOf(s),
           Evaluate(s) \/ GitRead(s)
    PROVE  BaselineOf(s)'
<1> USE DEF BaseInv, Kept, PollerType, WatchType, Goto
<1>1. [JobsNext]_jobs BY StepsAreJobs
<1>2. UNCHANGED <<site, at, watched, seen, retry>> /\ SameBaseline(s)
  BY DEF Evaluate, GitRead, SameBaseline, flags
<1>3. SeenIsHonest(s)' BY <1>1, <1>2, SeenStays DEF BaselineOf, SeenIsHonest
<1>4. CASE Evaluate(s)
  <2>1. pc'[s] = "git" \/ (pc'[s] = "await" /\ at[s] \notin site.git)
    BY <1>4 DEF Evaluate, Reindex
  <2>2. QED BY <1>2, <1>3, <2>1 DEF BaselineOf, SeenIsHonest
<1>5. CASE GitRead(s) /\ pc'[s] = "scan"
  BY <1>1, <1>2, <1>5, BaselineAway
<1>6. CASE GitRead(s) /\ pc'[s] # "scan"
  <2>1. Reindex(s) /\ cand' = [cand EXCEPT ![s] = Signature[tree[at[s]]]]
    BY <1>6 DEF GitRead
  <2>2. PICK r, n : r = at[s] /\ n = tree[r] OBVIOUS
  <2>3. r \in Roots BY <1>6, <2>2 DEF GitRead
  <2>4. n \in States /\ n <= n /\ UNCHANGED tree
    BY <2>1, <2>2, <2>3, StatesAreOrdered
       DEF JobsInv, JobsTypeOK, Reindex, Submit, store
  <2>5. stage'[s] = "asking" /\ pc'[s] = "await"
    BY <2>1, JobsOfPollers DEF Reindex, Submit, Step, JobsInv, JobsTypeOK
  <2>6. CandidateIsHonest(s, r, Signature[n])'
    BY <2>2, <2>4, <2>5 DEF CandidateIsHonest
  <2>7. at'[s] = r /\ cand'[s] = Signature[n] BY <1>2, <2>1, <2>2
  <2>8. PICK signature : signature = Signature[n] OBVIOUS
  <2>9. CandidateIsHonest(s, r, signature)' /\ cand'[s] = signature
    BY <2>4, <2>5, <2>7, <2>8, <2>2 DEF CandidateIsHonest
  <2>10. QED BY <1>3, <2>5, <2>7, <2>9 DEF BaselineOf, SeenIsHonest
<1>7. QED BY <1>4, <1>5, <1>6

\* A baseline that moves without an index to show for it has a retry, or a user
\* to wait for.
LEMMA BaselineByHeard ==
    ASSUME BaseInv, WrittenIsTaken, [Next]_vars, NEW s \in Servers,
           BaselineOf(s),
           Heard(s)
    PROVE  BaselineOf(s)'
<1> USE DEF BaseInv, Kept, PollerType, WatchType, Goto
<1> JobsInv OBVIOUS
<1>1. [JobsNext]_jobs BY StepsAreJobs
<1>2. site.git \subseteq Roots /\ UNCHANGED <<site, at, watched>>
  BY CodeIndexAssumption DEF Heard, flags
<1>3. PICK here, new : here = at[s] /\ new = cand[s] OBVIOUS
<1>4. /\ here \in Roots
      /\ outcome[s] \in {"ok", "error", "deep"} /\ stage[s] = "over"
      /\ pc[s] = "await"
  BY <1>3 DEF Heard, Skipped, PollersWait
<1>5. /\ here \in site.git => seen'[s][here] = new
      /\ \A r \in Roots \ {here} :
            seen'[s][r] = seen[s][r] /\ retry'[s][r] = retry[s][r]
  BY <1>3, <1>4 DEF Heard
<1>6. /\ outcome[s] = "error" => retry'[s][here] # "none"
      /\ pc'[s] = "saving" => outcome[s] = "ok"
      /\ pc'[s] # "await"
  BY <1>3, <1>4 DEF Heard
<1>7. here \in site.git =>
         /\ outcome[s] = "ok" => Honest(here, new)
         /\ outcome[s] = "deep" => Honest(here, new) \/ Blocking(here, new)
  BY <1>3, <1>4 DEF BaselineOf, CandidateIsHonest
<1>8. here \in site.git =>
         /\ outcome[s] = "ok" => Honest(here, new)'
         /\ outcome[s] = "deep" => Honest(here, new)' \/ Blocking(here, new)'
  BY <1>1, <1>4, <1>7, HonestStays, BlockingStays
<1>9. ASSUME NEW r \in site.git \cap watched'[s]
      PROVE  (\/ Honest(r, seen[s][r]) \/ retry[s][r] # "none"
              \/ Blocking(r, seen[s][r]))'
  <2>1. r \in Roots /\ r \in watched[s] BY <1>2, <1>9
  <2>2. CASE r = here
    <3>1. \/ Honest(r, new)' \/ Blocking(r, new)' \/ retry'[s][r] # "none"
      BY <1>4, <1>6, <1>8, <1>9, <2>2
    <3>2. seen'[s][r] = new BY <1>5, <1>9, <2>2
    <3>3. QED BY <3>1, <3>2 DEF Honest, Blocking
  <2>3. CASE r # here
    <3>1. PICK known : known = seen[s][r] OBVIOUS
    <3>2. \/ Honest(r, known) \/ retry[s][r] # "none" \/ Blocking(r, known)
      BY <1>9, <2>1, <3>1 DEF BaselineOf
    <3>3. seen'[s][r] = known /\ retry'[s][r] = retry[s][r]
      BY <1>5, <2>1, <2>3, <3>1
    <3>4. \/ Honest(r, known)' \/ retry'[s][r] # "none"
          \/ Blocking(r, known)'
      BY <1>1, <2>1, <3>2, <3>3, HonestStays, BlockingStays
    <3>5. QED BY <3>3, <3>4 DEF Honest, Blocking
  <2>4. QED BY <2>2, <2>3
<1>10. SeenIsHonest(s)' BY <1>2, <1>9 DEF SeenIsHonest
<1>11. pc'[s] = "saving" /\ here \in site.git => Honest(here, new)'
  BY <1>6, <1>8
<1>12. at'[s] = here /\ (here \in site.git => seen'[s][here] = new)
  BY <1>2, <1>3, <1>5
<1>13. (pc[s] = "saving" /\ at[s] \in site.git
        => Honest(at[s], seen[s][at[s]]))'
  BY <1>2, <1>11, <1>12 DEF Honest
<1>14. QED BY <1>6, <1>10, <1>13 DEF BaselineOf, SeenIsHonest

\* What is saved is a baseline that an index has confirmed.
LEMMA DurableStays ==
    ASSUME BaseInv, BaselineInv, [Next]_vars
    PROVE  (\A r \in site.git : Honest(r, durable[r]))'
<1> JobsInv /\ [JobsNext]_jobs BY StepsAreJobs DEF BaseInv
<1>1. UNCHANGED site
  BY ZenonT(60) DEF Next, vars, pollers, flags, World, Switch, Change, ListAges,
         ObserverDies, Deliver, Time, DebouncePasses, ReconcilePasses,
         RetryPasses, Server, Start, Stop, Crash, Deactivate, ListFails,
         RefreshBlind, RefreshBut, Refresh, Coordinator, Poll, List, Visit,
         Sleep, RootMissing, Unable, Examine, SkipBlocked, Evaluate, GitRead,
         Refused, Heard, Save, Reap, Ask, Answer, JobStep, Deletion, Overtakes
<1>2. UNCHANGED durable
      \/ \E s \in Servers : pc[s] = "saving" /\ SaveState(s)
  BY ZenonT(60) DEF Next, vars, pollers, flags, World, Switch, Change, ListAges,
         ObserverDies, Deliver, Time, DebouncePasses, ReconcilePasses,
         RetryPasses, Server, Start, Stop, Crash, Deactivate, ListFails,
         RefreshBlind, RefreshBut, Refresh, Coordinator, Poll, List, Visit,
         Sleep, RootMissing, Unable, Examine, SkipBlocked, Evaluate, GitRead,
         Refused, Heard, Save, Reap, Ask, Answer, JobStep, Deletion, Overtakes
<1>3. site.git \subseteq Roots
  BY CodeIndexAssumption DEF BaseInv, Kept
<1>4. SUFFICES ASSUME NEW r \in site.git
               PROVE  Honest(r, durable[r])'
  BY <1>1
<1>5. CASE durable'[r] = durable[r]
  <2>1. PICK old : old = durable[r] OBVIOUS
  <2>2. Honest(r, old)' BY <1>3, <2>1, HonestStays DEF BaselineInv
  <2>3. QED BY <1>5, <2>1, <2>2 DEF Honest
<1>6. CASE durable'[r] # durable[r]
  <2>1. PICK s \in Servers : pc[s] = "saving" /\ SaveState(s) BY <1>2, <1>6
  <2>2. r = at[s] /\ durable'[r] = seen[s][r]
    BY <1>6, <2>1, <1>3 DEF SaveState, BaseInv, Kept
  <2>3. PICK known : known = seen[s][r] OBVIOUS
  <2>4. Honest(r, known) BY <2>1, <2>2, <2>3 DEF BaselineInv, BaselineOf
  <2>5. Honest(r, known)' BY <1>3, <2>4, HonestStays
  <2>6. QED BY <2>2, <2>3, <2>5 DEF Honest
<1>7. QED BY <1>5, <1>6

LEMMA BaselineKeeps ==
    ASSUME BaseInv, BaselineInv, [Next]_vars PROVE BaselineInv'
<1>1. WrittenIsTaken'
  BY StepsAreJobs, WrittenStaysTaken DEF BaselineInv, BaseInv
<1>2. ASSUME NEW s \in Servers PROVE BaselineOf(s)'
  <2> BaselineOf(s) /\ WrittenIsTaken BY DEF BaselineInv
  <2>1. CASE World BY <2>1, BaselineByWorld
  <2>2. ASSUME NEW p \in Servers, Server(p) PROVE BaselineOf(s)'
    <3>1. CASE p = s
      BY <2>2, <3>1, BaselineByMoves, BaselineByRefresh, BaselineBySubmit,
         BaselineByHeard
         DEF Server, Coordinator, Examine, BaselineInv
    <3>2. CASE p # s BY <2>2, <3>2, BaselineByOthers
    <3>3. QED BY <3>1, <3>2
  <2>3. ASSUME NEW c \in Calls, Ask(c) \/ Answer(c) PROVE BaselineOf(s)'
    BY <2>3, BaselineByUsers
  <2>4. CASE JobStep(s) BY <2>4, BaselineByOwnJob
  <2>5. CASE /\ ~JobStep(s)
             /\ \/ UNCHANGED vars \/ (LeaseEnds /\ UNCHANGED pollers)
                \/ (\E o \in late : LateWrite(o)) /\ UNCHANGED pollers
                \/ (\E j \in Jobs : JobStep(j))
                \/ (\E c \in Deleters : Deletion(c))
    <3>1. UNCHANGED <<flags, coroutine, watch>>
      BY <2>5 DEF vars, pollers, JobStep, Deletion, Overtakes
    <3>2. QED BY <2>5, <3>1, BaselineByJobs
  <2>6. QED BY <2>1, <2>2, <2>3, <2>4, <2>5 DEF Next
<1>3. QED BY <1>1, <1>2, DurableStays DEF BaselineInv

LEMMA BaselineInvariance == Spec => []BaselineInv
<1>1. Init => BaselineInv
  BY JobsOfPollers, CodeIndexAssumption
     DEF Init, JobsInit, NoBaseline, BaselineInv, WrittenIsTaken, Honest,
         BaselineOf
<1>2. QED BY <1>1, BaselineKeeps, BaseInvariance, PTL DEF Spec

LEMMA InvIsHonest == ASSUME BaseInv, BaselineInv PROVE BaselineIsHonest
<1> USE StatesAreOrdered DEF BaseInv, JobsInv, JobsTypeOK, Kept
<1>1. ASSUME NEW r \in Roots \ adrift, graph[r] # None, NEW signature,
             Honest(r, signature)
      PROVE  Covered(r, signature)
  <2>1. CASE signature = None BY <2>1 DEF Covered
  <2>2. CASE signature # None
    <3>1. PICK n \in States : Signature[n] = signature /\ Reached(r, n)
      BY <1>1, <2>2 DEF Honest
    <3>2. n \in 0 .. graph[r] BY <1>1, <3>1 DEF Reached, States
    <3>3. QED BY <3>1, <3>2 DEF Covered
  <2>3. QED BY <2>1, <2>2
<1>2. site.git \subseteq Roots BY CodeIndexAssumption
<1>3. QED
  BY <1>1, <1>2 DEF BaselineInv, BaselineOf, Blocking, BaselineIsHonest

\* A baseline never claims what no index has read, for any number of servers,
\* users and edits and any faults: a poller that trusts its own or the durable
\* one skips nothing. Out of this is a root whose graph a child has written
\* late (CbmTimeoutError), until the next index of it.
THEOREM BaselinesAreHonest == Spec => []BaselineIsHonest
<1>1. QED BY InvIsHonest, BaselineInvariance, BaseInvariance, PTL

=============================================================================
